----------------------------- MODULE MCChatRoom -----------------------------
(* A small instance of ChatRoom for TLC.                                    *)
EXTENDS ChatRoom
=============================================================================
