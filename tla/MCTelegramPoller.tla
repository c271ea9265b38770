-------------------------- MODULE MCTelegramPoller --------------------------
(* One chat: the workers of different chats share nothing.                 *)
EXTENDS TelegramPoller

CONSTANTS c1

MCChatOf == [u \in Updates |-> c1]
=============================================================================
