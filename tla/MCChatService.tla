---------------------------- MODULE MCChatService ----------------------------
(* Four requests of two customers over two conversations: two requests may   *)
(* overlap on one conversation and others follow them.                       *)
EXTENDS ChatService, TLC

Symmetry == Permutations(Customers) \cup Permutations(Requests) \cup Permutations(Refs)
=============================================================================
