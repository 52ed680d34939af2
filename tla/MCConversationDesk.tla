------------------------- MODULE MCConversationDesk -------------------------
(* ConversationDesk on small instances: those of MCConversations. *)
EXTENDS ConversationDesk, MCConversations

UnversionedDesk == <<Unversioned, overtaken, raced>>

\* Neither of the two agents has a part the other has not.
DeskSymmetry == RequestSymmetry \cup Permutations({aaron, ada})

=============================================================================
