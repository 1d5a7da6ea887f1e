------------------------- MODULE MCStreamSanitizer -------------------------
(* Small instances of StreamSanitizer. *)
EXTENDS StreamSanitizer

=============================================================================
