---------------------------- MODULE MCLiveStream ----------------------------
(***************************************************************************)
(* Instance of LiveStream for TLC.                                         *)
(***************************************************************************)
EXTENDS LiveStream

ThreeCallers == {Client, Camera, Commu}
LiveOnly == {Live}
None == {}
=============================================================================
