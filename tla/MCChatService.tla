---------------------------- MODULE MCChatService ----------------------------
(* Small sets of requests and threads. *)
EXTENDS ChatService, TLC

Symmetry == Permutations(Requests) \cup Permutations(Threads)
=============================================================================
