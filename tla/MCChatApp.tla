----------------------------- MODULE MCChatApp -----------------------------
(* A small instance of ChatApp for TLC. *)
EXTENDS ChatApp
=============================================================================
