---------------------------- MODULE MCConversation ----------------------------
(***************************************************************************)
(* Small instances of Conversation: four turns against a limit that two of *)
(* their messages reach.                                                   *)
(***************************************************************************)
EXTENDS Conversation

MCSizes == {30000, 50000}
MCResponses == {<<"call">>}
=============================================================================
