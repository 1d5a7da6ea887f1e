----------------------------- MODULE MCRequests -----------------------------
(* A small instance of Requests.  The guard, which looks at one request and *)
(* keeps nothing, is compared with a reference on many of them.             *)
EXTENDS Requests, ApiKeyGuard, TLC

Interchangeable ==
  Permutations(Requests) \cup Permutations(Sessions) \cup Permutations(Wallets)
    \cup Permutations(Conversations)

(* A key in two of the four fields.                                         *)
SmallPayloads ==
  {[n \in 1 .. 4 |-> IF n = 2 THEN f ELSE IF n = 3 THEN g ELSE Absent] :
     f \in Carried, g \in Carried}

SmallCredentials ==
  [header : Carried, authorization : Carried, bearer : BOOLEAN,
   query : SmallPayloads, body : SmallPayloads]

ASSUME GuardAssumption == \A cred \in SmallCredentials : Admitted(cred) <=> LetIn(cred)

=============================================================================
