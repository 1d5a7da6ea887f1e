----------------------------- MODULE ApiKeyGuard -----------------------------
(***************************************************************************)
(* guards/api-key.guard.ts: where a request carries its key, which of the  *)
(* places is read, and whether the request is let in.                      *)
(***************************************************************************)
EXTENDS Integers, Sequences

CONSTANTS
  Keys,      \* strings a client may send as a key, other than the empty one
  Expected   \* CHAT_API_KEY, or Absent

Absent == "absent"
Blank == "blank"

ASSUME KeysAssumption == {Absent, Blank} \cap Keys = {}
ASSUME ExpectedAssumption == Expected \in Keys \cup {Absent}

Carried == Keys \cup {Blank, Absent}

(* The four field names of a payload, in the order they are looked up.     *)
Payloads == [1 .. 4 -> Carried]

(* bearer: the authorization header has that scheme.                       *)
Credentials == [header : Carried, authorization : Carried, bearer : BOOLEAN,
                query : Payloads, body : Payloads]

(* A string that is not there or empty is falsy.                           *)
Truthy(v) == v \notin {Blank, Absent}

(* extractApiKeyFromPayload: the first field that is a string, empty or not.*)
FirstString(payload) ==
  IF \E n \in 1 .. 4 : payload[n] # Absent
  THEN payload[CHOOSE n \in 1 .. 4 :
                 payload[n] # Absent /\ \A k \in 1 .. n - 1 : payload[k] = Absent]
  ELSE Absent

(* extractApiKey: a bearer scheme decides even with nothing behind it.     *)
ProvidedKey(cred) ==
  CASE Truthy(cred.header) -> cred.header
    [] ~ Truthy(cred.header) /\ (cred.bearer \/ Truthy(cred.authorization)) ->
         cred.authorization
    [] OTHER -> LET query == FirstString(cred.query)
                IN  IF Truthy(query) THEN query ELSE FirstString(cred.body)

(* canActivate.                                                            *)
Admitted(cred) ==
  /\ Expected # Absent
  /\ Truthy(ProvidedKey(cred))
  /\ ProvidedKey(cred) = Expected

-----------------------------------------------------------------------------
(* Who should be let in, without an order of looking: the expected key is   *)
(* in one place and nothing before it speaks, that is no filled header, no  *)
(* bearer scheme, and in a payload no field that is a string.               *)
Silent(payload, n) == \A k \in 1 .. n : payload[k] = Absent
Unfilled(payload) == \A n \in 1 .. 4 : Silent(payload, n - 1) => ~ Truthy(payload[n])
Holds(payload) == \E n \in 1 .. 4 : payload[n] = Expected /\ Silent(payload, n - 1)

LetIn(cred) ==
  /\ Expected \in Keys
  /\ \/ cred.header = Expected
     \/ /\ ~ Truthy(cred.header)
        /\ \/ cred.authorization = Expected
           \/ /\ ~ cred.bearer /\ ~ Truthy(cred.authorization)
              /\ \/ Holds(cred.query)
                 \/ Unfilled(cred.query) /\ Holds(cred.body)

=============================================================================
