------------------------- MODULE MCConversationCache -------------------------
(* A small instance of ConversationCache: one wallet in two spellings.     *)
EXTENDS ConversationCache, TLC

CONSTANTS a, b, listKey, c1, c2

MCOwner == c1 :> a @@ c2 :> a
MCKeyOf == a :> listKey @@ b :> listKey

=============================================================================
