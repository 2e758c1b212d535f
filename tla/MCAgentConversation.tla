------------------------ MODULE MCAgentConversation ------------------------
(* Small instances of AgentConversation for TLC. *)
EXTENDS AgentHistory, TLC

\* Streams are interchangeable, and so are request slots and texts.
ConversationSymmetry ==
  Permutations(Streams) \cup Permutations(Requests) \cup Permutations(Texts)
=============================================================================
