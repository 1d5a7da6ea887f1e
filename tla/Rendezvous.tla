----------------------------- MODULE Rendezvous -----------------------------
(***************************************************************************)
(* What the session store promises a turn that awaits the mobile wallet,   *)
(* with no session, map, timer or clock in sight: each await is a promise  *)
(* settled at most once, by an answer of its own or by a failure, and no   *)
(* two awaits of the same call are open together.                          *)
(***************************************************************************)
CONSTANTS
  Deferreds,   \* the awaits
  KeyOf        \* KeyOf[d]: the call an await is for

VARIABLE outcome

Init == outcome = [d \in Deferreds |-> "unused"]

Open(d) ==
  /\ outcome[d] = "unused"
  /\ \A e \in Deferreds : KeyOf[e] = KeyOf[d] => outcome[e] # "waiting"
  /\ outcome' = [outcome EXCEPT ![d] = "waiting"]

Answer(d) ==
  /\ outcome[d] = "waiting"
  /\ outcome' = [outcome EXCEPT ![d] = "resolved"]

(* A timeout fails one await, the end of a session all it had.             *)
Fail(D) ==
  /\ \A d \in D : outcome[d] = "waiting"
  /\ outcome' = [d \in Deferreds |-> IF d \in D THEN "rejected" ELSE outcome[d]]

Next ==
  \/ \E d \in Deferreds : Open(d) \/ Answer(d)
  \/ \E D \in SUBSET Deferreds : Fail(D)

Spec == Init /\ [][Next]_outcome

=============================================================================
