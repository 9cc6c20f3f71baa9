--------------------------- MODULE MCEncodeHandler ---------------------------
(***************************************************************************)
(* Instances of EncodeHandler for TLC: which client makes which calls.     *)
(***************************************************************************)
EXTENDS EncodeHandler

CONSTANTS ui, sd, custom, wifi

Plain(names) == [do : names, mux : {"none"}]
WithMuxer(names) == [do : names, mux : Muxers]

\* The user interface records, caches and leaves record mode; the thread of
\* the card and of the storage manager switches files, saves or stops saving
\* the cache, and attaches and detaches a muxer.
RecordCalls ==
  [c \in Clients |->
     IF c = ui
     THEN Plain({"startrec", "stoprec", "start_cache", "stop_cache", "api_video_deinit"})
     ELSE Plain({"switch", "savefile", "stop_savecache"})
          \cup WithMuxer({"attach", "detach"})]

\* The user interface records; another client attaches and detaches muxers.
MuxerCalls ==
  [c \in Clients |->
     IF c = ui THEN Plain({"startrec", "stoprec", "switch", "savefile", "deletevideo"})
               ELSE WithMuxer({"attach", "detach"})]

\* The user interface and the wifi commands record and stop at will, and attach
\* and detach muxers.
StarterCalls ==
  [c \in Clients |-> Plain({"startrec", "stoprec", "start_cache"})
                     \cup WithMuxer({"attach", "detach"})]

\* One client: a camera that is unplugged.
UnplugCalls ==
  [c \in Clients |-> Plain({"startrec", "start_cache", "deletevideo"})]

UiOnly == {ui}
UiAndSd == {ui, sd}
NoMuxers == {}
OneMuxer == {custom}
TwoMuxers == {custom, wifi}
=============================================================================
