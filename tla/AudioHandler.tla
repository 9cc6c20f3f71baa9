---------------------------- MODULE AudioHandler ----------------------------
(***************************************************************************)
(* AudioEncodeHandler (av_wrapper/handler/audio_encode_handler.cpp), the   *)
(* microphone shared by all cameras: callers add and remove packet         *)
(* dispatchers and receivers of raw samples under mtx_; the first to come  *)
(* starts the capture thread and the last to go joins it, all under the    *)
(* same lock, which the thread tries to take for each packet.              *)
(*                                                                         *)
(* One action is one step between two points where another thread can be   *)
(* seen.  Samples and packets are left out: what counts is to whom, and    *)
(* whether with the microphone's or with mute samples.                     *)
(***************************************************************************)
EXTENDS Integers

CONSTANTS
  Callers,      \* threads that add and remove listeners
  Dispatchers,  \* the packet dispatchers of the cameras
  Receivers,    \* the receivers of raw samples
  CacheInMem,   \* the build has MAIN_APP_CACHE_ENCODEDATA_IN_MEM
  Capture,      \* the capture thread, as an owner of a lock
  Nobody

Listeners == Dispatchers \cup Receivers

ASSUME AudioAssumption ==
  /\ Dispatchers \cap Receivers = {}
  /\ Capture \notin Callers /\ Nobody \notin Callers \cup Listeners \cup {Capture}
  /\ CacheInMem \in BOOLEAN

VARIABLES
  mtx,                     \* who holds mtx_
  listed,                  \* how often a listener is in dispatcher_list_ or receiver_list_
  unique_dispatcher_list,
  encode_tid, audio_enable,
  audio_encoder, audio_capture,  \* allocated or not
  mute, enc_pcm_always, recheck_enc_pcm_always,
  special,                 \* dispatchers that have a special muxer, a cache
  list_mutex,              \* who holds the list_mutex of a dispatcher
  pc, muted, todo,         \* the capture thread: place, its copy of mute_, whom it still sends to
  call, arg                \* the callers: place in a call, and its argument

listVars == <<listed, unique_dispatcher_list>>
threadVars == <<encode_tid, audio_enable>>
deviceVars == <<audio_encoder, audio_capture>>
muteVars == <<mute, enc_pcm_always, recheck_enc_pcm_always, special>>
captureVars == <<pc, muted, todo>>
callVars == <<call, arg>>
audioVars == <<mtx, listVars, threadVars, deviceVars, muteVars, list_mutex,
               captureVars, callVars>>

AudioInit ==
  /\ mtx = Nobody
  /\ listed = [x \in Listeners |-> 0] /\ unique_dispatcher_list = {}
  /\ encode_tid = FALSE /\ audio_enable = FALSE
  /\ audio_encoder = FALSE /\ audio_capture = FALSE
  /\ mute \in BOOLEAN /\ enc_pcm_always = FALSE /\ recheck_enc_pcm_always = FALSE
  /\ special = {}
  /\ list_mutex = [d \in Dispatchers |-> Nobody]
  /\ pc = "none" /\ muted = FALSE /\ todo = {}
  /\ call = [c \in Callers |-> "idle"] /\ arg = [c \in Callers |-> Nobody]

NoneListed(l) == \A x \in l : listed[x] = 0

-----------------------------------------------------------------------------
(* The callers.                                                            *)

CallGoto(c, place) == call' = [call EXCEPT ![c] = place]
Return(c) == CallGoto(c, "idle") /\ arg' = [arg EXCEPT ![c] = Nobody]

\* A call begins: AddPacketDispatcher or AddRawReceiver, or their opposites.
Call(c, place, x) ==
  /\ call[c] = "idle"
  /\ CallGoto(c, place) /\ arg' = [arg EXCEPT ![c] = x]
  /\ UNCHANGED <<mtx, listVars, threadVars, deviceVars, muteVars, list_mutex,
                 captureVars>>

MtxFree == mtx = Nobody

\* lock_guard on mtx_.
LockMtx(c) ==
  /\ call[c] \in {"add", "rm"} /\ MtxFree
  /\ mtx' = c
  /\ CallGoto(c, IF call[c] = "add" THEN "adding" ELSE "removing")
  /\ UNCHANGED <<arg, listVars, threadVars, deviceVars, muteVars, list_mutex,
                 captureVars>>

\* Init is called when the listener's own list is empty.
SameList(x) == IF x \in Dispatchers THEN Dispatchers ELSE Receivers
Adding(c) ==
  /\ call[c] = "adding"
  /\ CallGoto(c, IF NoneListed(SameList(arg[c])) THEN "init" ELSE "insert")
  /\ UNCHANGED <<mtx, arg, listVars, threadVars, deviceVars, muteVars,
                 list_mutex, captureVars>>

\* Init: nothing to do while a thread is known ...
InitRunning(c) ==
  /\ call[c] = "init" /\ encode_tid
  /\ CallGoto(c, "insert")
  /\ UNCHANGED <<mtx, arg, listVars, threadVars, deviceVars, muteVars,
                 list_mutex, captureVars>>

\* ... or the microphone is opened and the encoder made ...
InitOpen(c) ==
  /\ call[c] = "init" /\ ~encode_tid
  /\ audio_capture' = TRUE /\ audio_encoder' = TRUE
  /\ CallGoto(c, "create")
  /\ UNCHANGED <<mtx, arg, listVars, threadVars, muteVars, list_mutex,
                 captureVars>>

\* ... or one of them, or pthread_create, fails: Deinit frees what there is,
\* and the listener is not inserted.
InitFails(c) ==
  /\ \/ call[c] = "init" /\ ~encode_tid
     \/ call[c] = "create"
  /\ audio_capture' = FALSE /\ audio_encoder' = FALSE
  /\ mtx' = Nobody /\ Return(c)
  /\ UNCHANGED <<listVars, threadVars, muteVars, list_mutex, captureVars>>

InitCreate(c) ==
  /\ call[c] = "create"
  /\ pc' = "mute"
  /\ CallGoto(c, "enable")
  /\ UNCHANGED <<mtx, arg, listVars, threadVars, deviceVars, muteVars,
                 list_mutex, muted, todo>>

\* The new thread runs already when these two are set.
InitEnable(c) ==
  /\ call[c] = "enable"
  /\ audio_enable' = TRUE
  /\ CallGoto(c, "settid")
  /\ UNCHANGED <<mtx, arg, listVars, encode_tid, deviceVars, muteVars,
                 list_mutex, captureVars>>

InitSetTid(c) ==
  /\ call[c] = "settid"
  /\ encode_tid' = TRUE
  /\ CallGoto(c, "insert")
  /\ UNCHANGED <<mtx, arg, listVars, audio_enable, deviceVars, muteVars,
                 list_mutex, captureVars>>

Insert(c) ==
  /\ call[c] = "insert"
  /\ listed' = [listed EXCEPT ![arg[c]] = @ + 1]
  /\ unique_dispatcher_list' = unique_dispatcher_list \cup ({arg[c]} \cap Dispatchers)
  /\ mtx' = Nobody /\ Return(c)
  /\ UNCHANGED <<threadVars, deviceVars, muteVars, list_mutex, captureVars>>

\* A dispatcher leaves the list once, a receiver as often as it is in it.
Left(x) == IF x \in Dispatchers THEN listed[x] - 1 ELSE 0

\* Mutant of LastGone: the receivers are forgotten.
LastGoneDispatchers(x) == \A y \in Dispatchers \ {x} : listed[y] = 0
LastGone(x) == Left(x) = 0 /\ NoneListed(Listeners \ {x})

\* RmPacketDispatcher and RmRawReceiver.  A dispatcher that is not in the list
\* is ignored; a receiver goes on to the test in any case.
Remove(c) ==
  LET x == arg[c]
  IN /\ call[c] = "removing"
     /\ x \in Dispatchers => listed[x] > 0
     /\ listed' = [listed EXCEPT ![x] = Left(x)]
     /\ unique_dispatcher_list' =
          IF Left(x) = 0 THEN unique_dispatcher_list \ {x} ELSE unique_dispatcher_list
     /\ IF LastGone(x)
        THEN CallGoto(c, "deinit") /\ UNCHANGED <<mtx, arg>>
        ELSE Return(c) /\ mtx' = Nobody
     /\ UNCHANGED <<threadVars, deviceVars, muteVars, list_mutex, captureVars>>

RemoveUnknown(c) ==
  /\ call[c] = "removing" /\ arg[c] \in Dispatchers /\ listed[arg[c]] = 0
  /\ mtx' = Nobody /\ Return(c)
  /\ UNCHANGED <<listVars, threadVars, deviceVars, muteVars, list_mutex,
                 captureVars>>

\* Deinit, still under mtx_: the thread is told to stop ...
DeinitStop(c) ==
  /\ call[c] = "deinit"
  /\ IF encode_tid
     THEN audio_enable' = FALSE /\ CallGoto(c, "join")
     ELSE UNCHANGED audio_enable /\ CallGoto(c, "free")
  /\ UNCHANGED <<mtx, arg, listVars, encode_tid, deviceVars, muteVars,
                 list_mutex, captureVars>>

\* ... joined ...
DeinitJoin(c) ==
  /\ call[c] = "join" /\ pc = "ended"
  /\ encode_tid' = FALSE /\ pc' = "none"
  /\ CallGoto(c, "free")
  /\ UNCHANGED <<mtx, arg, listVars, audio_enable, deviceVars, muteVars,
                 list_mutex, muted, todo>>

\* ... and encoder and microphone are freed.
DeinitFree(c) ==
  /\ call[c] = "free"
  /\ audio_encoder' = FALSE /\ audio_capture' = FALSE
  /\ mtx' = Nobody /\ Return(c)
  /\ UNCHANGED <<listVars, threadVars, muteVars, list_mutex, captureVars>>

CallStep(c) ==
  \/ LockMtx(c) \/ Adding(c) \/ InitRunning(c) \/ InitOpen(c) \/ InitFails(c)
  \/ InitCreate(c) \/ InitEnable(c) \/ InitSetTid(c) \/ Insert(c)
  \/ Remove(c) \/ RemoveUnknown(c) \/ DeinitStop(c) \/ DeinitJoin(c) \/ DeinitFree(c)

-----------------------------------------------------------------------------
(* The messages START_CACHE and STOP_CACHE, handled for the caller c.      *)

\* The cache is added to or removed from the special muxers ...
MarkSpecial(c) ==
  /\ call[c] \in {"mark", "unmark"}
  /\ special' = IF call[c] = "mark" THEN special \cup {arg[c]} ELSE special \ {arg[c]}
  /\ CallGoto(c, "flag")
  /\ UNCHANGED <<mtx, arg, listVars, threadVars, deviceVars, mute, enc_pcm_always,
                 recheck_enc_pcm_always, list_mutex, captureVars>>

\* Mutant of FlagRecheck: the flag is forgotten.
FlagRecheckNot(c) ==
  /\ call[c] = "flag" /\ Return(c)
  /\ UNCHANGED <<mtx, listVars, threadVars, deviceVars, muteVars,
                 list_mutex, captureVars>>

\* ... and the capture thread is told to look at them again.
FlagRecheck(c) ==
  /\ call[c] = "flag"
  /\ recheck_enc_pcm_always' = TRUE
  /\ Return(c)
  /\ UNCHANGED <<mtx, listVars, threadVars, deviceVars, mute, enc_pcm_always,
                 special, list_mutex, captureVars>>

SetMute ==
  /\ mute' = ~mute
  /\ UNCHANGED <<mtx, listVars, threadVars, deviceVars, enc_pcm_always,
                 recheck_enc_pcm_always, special, list_mutex, captureVars, callVars>>

-----------------------------------------------------------------------------
(* audio_record, the capture thread.                                       *)

CaptureGoto(place) == pc' = place

\* gen_mute_packet, the capture after the device was opened again, or a new
\* packet fails: the thread ends.
CaptureFails ==
  /\ pc \in {"mute", "capture", "choose"}
  /\ CaptureGoto("out")
  /\ UNCHANGED <<mtx, listVars, threadVars, deviceVars, muteVars, list_mutex,
                 muted, todo, callVars>>

GenMute ==
  /\ pc = "mute"
  /\ CaptureGoto("loop")
  /\ UNCHANGED <<mtx, listVars, threadVars, deviceVars, muteVars, list_mutex,
                 muted, todo, callVars>>

\* Mutant of Stopped: the thread does not look at audio_enable_.
StoppedNever == FALSE
Stopped == encode_tid /\ ~audio_enable

TestStop ==
  /\ pc = "loop"
  /\ CaptureGoto(IF Stopped THEN "flush" ELSE "capture")
  /\ UNCHANGED <<mtx, listVars, threadVars, deviceVars, muteVars, list_mutex,
                 muted, todo, callVars>>

CaptureSamples ==
  /\ pc = "capture"
  /\ CaptureGoto("raw")
  /\ UNCHANGED <<mtx, listVars, threadVars, deviceVars, muteVars, list_mutex,
                 muted, todo, callVars>>

\* To whom SendRawData, Dispatch and DispatchToSpecial send, and what follows.
Sends == {"raw", "special", "dispatch", "flush"}
Targets(place) ==
  IF place = "raw" THEN {r \in Receivers : listed[r] > 0} ELSE unique_dispatcher_list
After(place) ==
  CASE place = "raw"      -> "choose"
    [] place = "special"  -> IF muted THEN "dispatch" ELSE "loop"
    [] place = "dispatch" -> IF muted THEN "loop" ELSE "special"
    [] OTHER              -> "out"

\* mtx_.try_lock(): when somebody adds or removes, the packet is not sent.
TryLock ==
  /\ pc \in Sends /\ mtx # Capture
  /\ IF mtx = Nobody
     THEN mtx' = Capture /\ todo' = Targets(pc) /\ UNCHANGED pc
     ELSE CaptureGoto(After(pc)) /\ UNCHANGED <<mtx, todo>>
  /\ UNCHANGED <<listVars, threadVars, deviceVars, muteVars, list_mutex, muted,
                 callVars>>

\* One receiver, or one dispatcher whose list_mutex is free, gets it.
Deliver(x) ==
  /\ pc \in Sends /\ mtx = Capture /\ x \in todo
  /\ x \in Dispatchers => list_mutex[x] = Nobody
  /\ todo' = todo \ {x}
  /\ UNCHANGED <<mtx, listVars, threadVars, deviceVars, muteVars, list_mutex,
                 pc, muted, callVars>>

Delivered ==
  /\ pc \in Sends /\ mtx = Capture /\ todo = {}
  /\ mtx' = Nobody
  /\ CaptureGoto(After(pc))
  /\ UNCHANGED <<listVars, threadVars, deviceVars, muteVars, list_mutex, muted,
                 todo, callVars>>

\* Muted, the dispatchers get the mute packet; the special muxers get the
\* microphone if enc_pcm_always_ says that there are any.
Choose ==
  /\ pc = "choose"
  /\ muted' = mute
  /\ CaptureGoto(IF mute /\ CacheInMem THEN "pcm" ELSE "dispatch")
  /\ UNCHANGED <<mtx, listVars, threadVars, deviceVars, muteVars, list_mutex,
                 todo, callVars>>

\* EncPcmAlways: compare_exchange on the flag ...
EncPcmAlways ==
  /\ pc = "pcm"
  /\ recheck_enc_pcm_always' = FALSE
  /\ CaptureGoto(IF recheck_enc_pcm_always THEN "recheck"
                 ELSE IF enc_pcm_always THEN "special" ELSE "dispatch")
  /\ UNCHANGED <<mtx, listVars, threadVars, deviceVars, mute, enc_pcm_always,
                 special, list_mutex, muted, todo, callVars>>

\* ... and, if it was set, a look at the special muxers, for which the thread
\* waits for mtx_.
Recheck ==
  /\ pc = "recheck" /\ mtx = Nobody
  /\ enc_pcm_always' = (special \cap unique_dispatcher_list # {})
  /\ CaptureGoto(IF enc_pcm_always' THEN "special" ELSE "dispatch")
  /\ UNCHANGED <<mtx, listVars, threadVars, deviceVars, mute,
                 recheck_enc_pcm_always, special, list_mutex, muted, todo, callVars>>

ThreadOut ==
  /\ pc = "out"
  /\ audio_enable' = FALSE
  /\ CaptureGoto("ended")
  /\ UNCHANGED <<mtx, listVars, encode_tid, deviceVars, muteVars, list_mutex,
                 muted, todo, callVars>>

CaptureStep ==
  \/ GenMute \/ TestStop \/ CaptureSamples \/ TryLock \/ Delivered \/ Choose
  \/ EncPcmAlways \/ Recheck \/ ThreadOut
  \/ \E x \in Listeners : Deliver(x)

\* The thread waits for mtx_ in EncPcmAlways, and whoever holds it waits for
\* the thread to end.
SelfLocked == pc = "recheck" /\ \E c \in Callers : mtx = c /\ call[c] = "join"
-----------------------------------------------------------------------------
(* Properties, whoever the callers are.                                    *)

\* Whenever nobody changes the lists, there is a thread to join, with its
\* encoder and its microphone, exactly if somebody listens.
CaptureWhileListed ==
  mtx \in {Capture, Nobody} =>
    /\ encode_tid <=> ~NoneListed(Listeners)
    /\ audio_encoder <=> encode_tid
    /\ audio_capture <=> encode_tid

\* The capture thread has not left its loop.
Running == pc \notin {"none", "out", "ended"}
=============================================================================
