------------------------- MODULE MCStreamLifecycle -------------------------
(* Small instances of StreamLifecycle.                                      *)
EXTENDS StreamLifecycle

=============================================================================
