---------------------------- MODULE MCCameraMuxer ----------------------------
(***************************************************************************)
(* Instances of CameraMuxer for TLC.  The bounds are given in the          *)
(* configurations; the writers are interchangeable.                        *)
(***************************************************************************)
EXTENDS CameraMuxer, TLC

CONSTANTS w1, w2

OneWriter == {w1}
TwoWriters == {w1, w2}
Symmetry == Permutations(Writers)
AllExits == {"NORMAL", "FLUSH", "IMMEDIATE"}
=============================================================================
