----------------------------- MODULE MCToolSets -----------------------------
(* Small instances of ToolSets. *)
EXTENDS ToolSets

=============================================================================
