---------------------------- MODULE MCCacheMuxer ----------------------------
(***************************************************************************)
(* The instance of CacheMuxer for TLC; the bounds are in the configuration.*)
(***************************************************************************)
EXTENDS CacheMuxer, TLC
=============================================================================
