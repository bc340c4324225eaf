---------------------------- MODULE MCInvitations ----------------------------
(* Instances of Invitations for TLC.                                         *)
EXTENDS Invitations

CONSTANTS owner, guest   \* names of users
=============================================================================
