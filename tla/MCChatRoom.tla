------------------------------ MODULE MCChatRoom ------------------------------
(* The instance of ChatRoom for TLC is all in ChatRoom.cfg: its liveness     *)
(* property rules out symmetry.                                              *)
EXTENDS ChatRoom
=============================================================================
