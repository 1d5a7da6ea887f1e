----------------------------- MODULE MCTaskStore -----------------------------
(* A small instance of TaskStore: two turns, each driving a task, and a       *)
(* reader.                                                                   *)
EXTENDS TaskStore, TLC

CONSTANTS c1, c2, t1, t2

MCDriver == (t1 :> {c1}) @@ (t2 :> {c2})

(* The two turns and their tasks are interchangeable together. *)
MCSymmetry ==
    {(c1 :> c2) @@ (c2 :> c1) @@ (t1 :> t2) @@ (t2 :> t1),
     (c1 :> c1) @@ (c2 :> c2) @@ (t1 :> t1) @@ (t2 :> t2)}

=============================================================================
