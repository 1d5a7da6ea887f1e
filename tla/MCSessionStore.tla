--------------------------- MODULE MCSessionStore ---------------------------
(* Small instances of SessionStore.                                         *)
EXTENDS SessionStore

=============================================================================
