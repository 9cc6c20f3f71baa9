----------------------------- MODULE CacheMuxer -----------------------------
(***************************************************************************)
(* The cache of an EncodeHandler, CameraCacheMuxer (camera_cache_muxer.h): *)
(* the last seconds of packets are kept in memory; an event moves them to  *)
(* a file muxer of their own, which then gets the packets directly until   *)
(* the time after the event is over.  The camera thread pushes the frames  *)
(* and carries out the requests; the audio thread pushes at any time; the  *)
(* writer thread belongs to the muxer of the saved file.                   *)
(*                                                                         *)
(* The muxer of the file is what CameraMuxer.tla shows of it: it accepts   *)
(* packets from its creation on, drops on an overflow, writes in order,    *)
(* and ends by FLUSH with everything written or by IMMEDIATE at any point. *)
(* Time is counted in frames, which come at the rate of the encoder.       *)
(* video_packet_num is VideoCount of the list (VideoCountExact there).     *)
(***************************************************************************)
EXTENDS Integers, Sequences, FiniteSets, PacketLists

CONSTANTS
  Window,     \* cache_duration_ in frames: its seconds times the sample rate
  Gop,        \* the encoder emits a key frame at least every Gop frames
  MaxFrames,  \* frames encoded in a behaviour (bound)
  MaxAudio    \* audio packets in a behaviour (bound)

\* With the cache in memory gop_size is one second (encode_handler.cpp:161), and
\* the cache lasts five (COLLISION_CACHE_DURATION): it has room for two groups.
ASSUME ConstantsAssumption ==
  /\ Window \in Nat /\ Gop \in Nat \ {0} /\ 2 * Gop <= Window + 1
  /\ MaxFrames \in Nat /\ MaxAudio \in Nat

VARIABLES
  \* the cache: whether it exists, and its list
  cameracache, packet_list,
  \* the saved file's muxer, its list, and what the cache knows of it
  muxer_, queue, muxer_is_ready_, store_moment_,
  \* the camera thread and the encoder
  cam, exit, now, sinceKey, idr, audio,
  \* history: how the list last became empty, and the last file
  origin, file, began, closed

cacheVars == <<cameracache, packet_list>>
saveVars == <<muxer_, queue, muxer_is_ready_, store_moment_>>
camVars == <<cam, exit, now, sinceKey, idr, audio>>
histVars == <<origin, file, began, closed>>
vars == <<cacheVars, saveVars, camVars, histVars>>

\* t is time_val; n numbers the packets in the order they are dispatched.
Packet == [n : 1..(MaxFrames + MaxAudio), kind : {"key", "delta", "audio"},
           t : 0..MaxFrames]

Init ==
  /\ cameracache = "none" /\ packet_list = <<>>
  /\ muxer_ = "null" /\ queue = <<>> /\ muxer_is_ready_ = FALSE
  /\ store_moment_ = 0
  /\ cam = "idle" /\ exit = "none" /\ now = 0 /\ sinceKey = 0
  /\ idr = FALSE /\ audio = 0
  /\ origin = "start"
  /\ file = <<>> /\ began = "start" /\ closed = "open"

-----------------------------------------------------------------------------
(* Pushing.  Every push holds list_mutex and mutex_.                       *)

\* CameraMuxer::push_packet into a list that overflows beyond max frames.
Pushed(list, max, pkt) ==
  Append(IF VideoCount(list) > max THEN DropTo(list) ELSE list, pkt)

\* Mutant of MaxSaved: the muxer of the file keeps the length of the cache.
MaxSavedShort == Window
\* setMaxVideoNum of the file's muxer.
MaxSaved == 2 * Window

\* The muxer of the file accepts packets until its writer has failed.
Accepts == muxer_ \in {"starting", "ok"}
SavePush(q, pkt) == IF Accepts THEN Pushed(q, MaxSaved, pkt) ELSE q

CachePush(pkt) ==
  /\ packet_list' = Pushed(packet_list, Window, pkt)
  /\ UNCHANGED queue

\* push_packet, for a packet that does not end the file.
Push(pkt) ==
  IF muxer_is_ready_
  THEN queue' = SavePush(queue, pkt) /\ UNCHANGED packet_list
  ELSE CachePush(pkt)

NewPacket(kind, time) == [n |-> now + audio + 1, kind |-> kind, t |-> time]

-----------------------------------------------------------------------------
(* The end of a saved file: stop_current_job and delete of its muxer, by   *)
(* the camera thread, with mutex_ held.                                    *)

\* Mutant of KeyAfter: the next frame is not made a key frame.
KeyAfterNever(how) == UNCHANGED idr
\* Only the end by time makes the next frame a key frame.
KeyAfter(how) == idr' = (how = "time" \/ idr)

\* The list was emptied when the file began; it starts anew.  StopCache goes
\* on to delete the cache.
Finish(how) ==
  /\ muxer_' = "null" /\ muxer_is_ready_' = FALSE /\ queue' = <<>>
  /\ closed' = IF muxer_ = "ok" THEN how ELSE "failed"
  /\ origin' = how
  /\ cameracache' = IF how = "stop" THEN "none" ELSE cameracache
  /\ cam' = "idle" /\ exit' = "none"

\* A writer that has left w_tid_list is not waited for.  The end by time also
\* forces the key frame; the frame that is dispatched meanwhile is lost.
BeginClose(how) ==
  IF muxer_ = "gone"
  THEN Finish(how)
  ELSE /\ cam' = "close" /\ exit' = how
       /\ UNCHANGED <<cameracache, saveVars, origin, closed>>

\* The writer answers: a FLUSH exit with everything written, an IMMEDIATE
\* exit when it comes to read the message.
Close ==
  /\ cam = "close" /\ muxer_ = "ok"
  /\ exit \in {"time", "stop"} => queue = <<>>
  /\ Finish(exit)
  /\ KeyAfter(exit)
  /\ UNCHANGED <<packet_list, store_moment_, now, sinceKey, audio, file, began>>

-----------------------------------------------------------------------------
(* The camera thread.                                                      *)

\* START_CACHE: the cache, SetCacheDuration, AddSpecialMuxer; the encoder is
\* told to make a key frame when it is referenced.
StartCache ==
  /\ cam = "idle" /\ cameracache = "none"
  /\ cameracache' = "on" /\ idr' = TRUE
  /\ origin' = "start"
  /\ UNCHANGED <<packet_list, saveVars, cam, exit, now, sinceKey, audio, file,
                 began, closed>>

\* STOP_CACHE: RemoveSpecialMuxer, stop_current_job and delete.
StopCache ==
  /\ cam = "idle" /\ cameracache = "on"
  /\ packet_list' = <<>>
  /\ IF muxer_ # "null"
     THEN BeginClose("stop")
     ELSE /\ cameracache' = "none"
          /\ UNCHANGED <<saveVars, cam, exit, origin, closed>>
  /\ UNCHANGED <<store_moment_, now, sinceKey, idr, audio, file, began>>

\* Mutant of TimeOver: the comparison lets one frame less pass.
TimeOverEarly(t) == t - store_moment_ >= Window
TimeOver(t) == t - store_moment_ > Window

\* A frame is encoded and dispatched to the cache; it may end the file.
Frame(kind) ==
  LET pkt == NewPacket(kind, now + 1)
  IN /\ cam = "idle" /\ cameracache = "on" /\ now < MaxFrames
     /\ kind = "key" \/ (~idr /\ sinceKey \in 1..(Gop - 1))
     /\ now' = now + 1
     /\ sinceKey' = IF kind = "key" THEN 1 ELSE sinceKey + 1
     /\ IF muxer_is_ready_ /\ TimeOver(now + 1)
        THEN /\ BeginClose("time") /\ idr' = (muxer_ = "gone")
             /\ UNCHANGED packet_list
        ELSE /\ Push(pkt) /\ idr' = FALSE
             /\ UNCHANGED <<cameracache, muxer_, muxer_is_ready_, cam, exit,
                            origin, closed>>
     /\ UNCHANGED <<store_moment_, audio, file, began>>

\* START_SAVE_CACHE, StoreCacheData up to mutex_.lock(): a file muxer is
\* created and its job started.  While a file is being saved, or when the
\* job does not start, nothing changes.
StoreBegin ==
  /\ cam = "idle" /\ cameracache = "on" /\ muxer_ = "null"
  /\ muxer_' = "starting" /\ cam' = "store"
  /\ file' = <<>> /\ began' = origin /\ closed' = "open"
  /\ UNCHANGED <<cacheVars, queue, muxer_is_ready_, store_moment_, exit, now,
                 sinceKey, idr, audio, origin>>

\* The queue after the list has been pushed to it, packet by packet.
Moved(q, list) ==
  LET after[i \in 0..Len(list)] ==
        IF i = 0 THEN q ELSE SavePush(after[i - 1], list[i])
  IN after[Len(list)]

\* store_moment_ is the time of the last frame moved, or of the request.
Moment(list) ==
  LET videos == {i \in DOMAIN list : IsVideo(list[i])}
  IN IF videos = {} THEN now
     ELSE list[CHOOSE i \in videos : \A j \in videos : j <= i].t

\* With mutex_ held the packets are moved, and the muxer takes over.
StoreMove ==
  /\ cam = "store"
  /\ queue' = Moved(queue, packet_list) /\ packet_list' = <<>>
  /\ store_moment_' = Moment(packet_list)
  /\ muxer_is_ready_' = TRUE /\ cam' = "idle"
  /\ UNCHANGED <<cameracache, muxer_, exit, now, sinceKey, idr, audio, origin,
                 file, began, closed>>

\* STOP_SAVE_CACHE, StopCurrentJobImmediately; nothing to do without a file.
SaveStop ==
  /\ cam = "idle" /\ muxer_ # "null"
  /\ BeginClose("immediate")
  /\ UNCHANGED <<packet_list, store_moment_, now, sinceKey, idr, audio, file,
                 began>>

-----------------------------------------------------------------------------
(* The other threads.                                                      *)

\* The audio thread; it waits while the camera thread holds mutex_.
AudioPush ==
  /\ cameracache = "on" /\ cam # "close" /\ audio < MaxAudio
  /\ Push(NewPacket("audio", now))
  /\ audio' = audio + 1
  /\ UNCHANGED <<cameracache, muxer_, muxer_is_ready_, store_moment_, cam, exit,
                 now, sinceKey, idr, origin, file, began, closed>>

\* The writer: it opens the file or fails, writes, and after a failure
\* leaves w_tid_list.
WriterStep ==
  /\ \/ /\ \/ muxer_ = "starting" /\ muxer_' \in {"ok", "failing"}
           \/ muxer_ = "failing" /\ muxer_' = "gone"
        /\ UNCHANGED <<queue, file>>
     \/ /\ muxer_ = "ok" /\ queue # <<>> /\ UNCHANGED muxer_
        /\ queue' = Tail(queue)
        /\ file' = Append(file, Head(queue))
  /\ UNCHANGED <<cacheVars, muxer_is_ready_, store_moment_, camVars, origin,
                 began, closed>>

-----------------------------------------------------------------------------
\* The camera thread waits for a writer that has failed: nothing answers, and
\* mutex_ and list_mutex stay locked.
Stuck == cam = "close" /\ muxer_ = "gone"

Next ==
  \/ StartCache \/ StopCache \/ StoreBegin \/ StoreMove \/ SaveStop \/ Close
  \/ \E kind \in {"key", "delta"} : Frame(kind)
  \/ AudioPush \/ WriterStep
  \/ Stuck /\ UNCHANGED vars

Spec == Init /\ [][Next]_vars

-----------------------------------------------------------------------------
(* Properties.                                                             *)

\* A saved file is one run of the packets that were dispatched: none is
\* missing, doubled or out of order where the cache hands over to the muxer
\* of the file, whatever the audio thread pushes meanwhile.  Twice the cache
\* is room enough once a frame has been written; before that an audio packet
\* at the very end may still make the list overflow.
SavedContiguous ==
  \A i \in 1..(Len(file) - 1) :
    \/ file[i + 1].n = file[i].n + 1
    \/ file[i + 1].n > file[i].n /\ \A j \in 1..i : ~IsVideo(file[j])

\* A file that was ended by time goes on for exactly the cached duration
\* after the event.
SavedLength ==
  closed = "time" =>
    LET after == {i \in DOMAIN file : IsVideo(file[i]) /\ file[i].t > store_moment_}
    IN Cardinality(after) = Window

\* The cache, and every file saved from it, begins with a key frame, through
\* overflows and after files that ended by time; not after STOP_SAVE_CACHE,
\* which forces none.
FirstIsKey(s) ==
  \A i \in DOMAIN s :
    IsVideo(s[i]) /\ (\A j \in 1..(i - 1) : ~IsVideo(s[j])) => s[i].kind = "key"
KeyFirst ==
  /\ origin # "immediate" => FirstIsKey(packet_list)
  /\ began # "immediate" => FirstIsKey(file)

=============================================================================
