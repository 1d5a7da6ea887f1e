------------------------- MODULE MCSharedTranscript -------------------------
(* Small instances of SharedTranscript; turns and calls are interchangeable. *)
EXTENDS SharedTranscript, TLC

Symmetry == Permutations(Turns) \cup Permutations(Calls)

=============================================================================
