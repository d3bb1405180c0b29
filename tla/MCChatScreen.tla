---------------------------- MODULE MCChatScreen ----------------------------
(***************************************************************************)
(* One screen, a few turns of anybody's.                                   *)
(***************************************************************************)
EXTENDS ChatScreen, TLC

=============================================================================
