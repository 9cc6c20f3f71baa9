---------------------------- MODULE EncodeHandler ----------------------------
(***************************************************************************)
(* One camera of process/video.cpp and its EncodeHandler                   *)
(* (encode_handler.cpp): the clients (threads that call video_record_...), *)
(* the camera thread, which handles one message per frame and then encodes *)
(* the frame, and the video thread (video_record), which destroys the      *)
(* handler when the camera stops.                                          *)
(*                                                                         *)
(* The muxers are what CameraMuxer.tla promises of them: start_new_job may *)
(* fail, and a stopped and deleted muxer has no thread left.  The encoder  *)
(* is its reference count and whether a key frame is forced.  Allocation   *)
(* failures, the motion processors, the camera's own microphone and the    *)
(* time-lapse modes are left out.                                          *)
(***************************************************************************)
EXTENDS Integers, Sequences, FiniteSets

CONSTANTS
  Clients,    \* threads that call the video_record_* functions
  Muxers,     \* custom muxers that clients may attach
  Calls,      \* Calls[c]: the calls client c makes
  MaxCalls,   \* calls made by one client in a behaviour (bound)
  MaxFails,   \* failures of the encoder or of a job in a behaviour (bound)
  CacheInMem, \* the build option MAIN_APP_CACHE_ENCODEDATA_IN_MEM
  InOrder,    \* other threads see mp4_encoding change in program order
  NoClient

\* A call: a video_record_* function, and the muxer it is about, if any.
Call == [do : {"startrec", "stoprec", "start_cache", "stop_cache", "switch",
               "savefile", "stop_savecache", "deletevideo", "api_video_deinit"},
         mux : {"none"}]
        \cup [do : {"attach", "detach"}, mux : Muxers]
\* api_video_deinit calls stop_cache, stoprec and video_record_deinit in turn.
Part == [do : {"then_stoprec", "then_deinit"}, mux : {"none"}]

ASSUME ConstantsAssumption ==
  /\ Calls \in [Clients -> SUBSET Call]
  /\ MaxCalls \in Nat /\ MaxFails \in Nat /\ CacheInMem \in BOOLEAN
  /\ InOrder \in BOOLEAN
  /\ NoClient \notin Clients
  /\ Muxers \cap {"none", "file"} = {}

VARIABLES
  \* struct Video and the video thread
  pthread_run, mp4_encoding, flags, vt,
  \* EncodeHandler
  msg_queue, camerafile, cameracache, handlers, special, h264_ref, muxEnc,
  \* the camera thread inside h264_encode_process
  cam, msg, ret, video_save,
  \* the clients
  pc, call, answered, seen, owned,
  \* the encoder's pending key frame, and history
  idr, fresh, calls, fails, badAttach, takenBack, fault

videoVars == <<pthread_run, mp4_encoding, flags, vt>>
muxerVars == <<camerafile, cameracache, handlers, special, h264_ref, muxEnc>>
camVars == <<cam, msg, ret, video_save>>
clientVars == <<pc, call, answered, seen, owned, calls>>
histVars == <<idr, fresh, fails, badAttach, takenBack>>
vars == <<videoVars, msg_queue, muxerVars, camVars, clientVars, histVars, fault>>

PlainIds == {"START_RECODEFILE", "STOP_RECODEFILE", "SWITCH_RECODEFILE",
             "START_CACHE", "STOP_CACHE", "START_SAVE_CACHE", "STOP_SAVE_CACHE"}
MuxerIds == {"ATTACH_USER_MUXER", "DETACH_USER_MUXER"}
\* from is the client that waits for the answer, NoClient when none does.
\* SWITCH_RECODEFILE is STOP_RECODEFILE with arg1 = false and arg2 = true.
Message == [id : PlainIds, mux : {"none"}, from : Clients \cup {NoClient}]
           \cup [id : MuxerIds, mux : Muxers, from : Clients \cup {NoClient}]
NoMessage == [id |-> "none", mux |-> "none", from |-> NoClient]
NoCall == [do |-> "none", mux |-> "none"]

Init ==
  /\ pthread_run = TRUE /\ mp4_encoding = FALSE /\ flags = {} /\ vt = "run"
  /\ msg_queue = <<>>
  /\ camerafile = "none" /\ cameracache = "none"
  /\ handlers = {} /\ special = FALSE /\ h264_ref = 0
  /\ muxEnc = [m \in Muxers |-> "none"]
  /\ cam = "out" /\ msg = NoMessage /\ ret = 0 /\ video_save = FALSE
  /\ pc = [c \in Clients |-> "idle"] /\ call = [c \in Clients |-> NoCall]
  /\ answered = [c \in Clients |-> FALSE]
  /\ seen = [c \in Clients |-> {}] /\ owned = [c \in Clients |-> {}]
  /\ calls = [c \in Clients |-> 0]
  /\ idr = FALSE /\ fresh = FALSE /\ fails = 0 /\ badAttach = FALSE
  /\ takenBack = FALSE
  /\ fault = "none"

HandlerAlive == vt \in {"run", "leaving"}

-----------------------------------------------------------------------------
(* The clients.  notelock is held for reading from the beginning of a call *)
(* to its end, so that a client that is not idle is a reader.              *)

Reading(c) == pc[c] \notin {"idle", "next", "joining"}

StopsRec == {"stoprec", "deletevideo", "then_stoprec"}
StopsCache == {"stop_cache", "api_video_deinit"}

\* The id a stop looks for in the queue first (remove_message_of_id).
Cancels(do) ==
  CASE do \in StopsRec -> "START_RECODEFILE"
    [] do \in StopsCache     -> "START_CACHE"
    [] do = "stop_savecache" -> "START_SAVE_CACHE"
    [] do = "detach"         -> "ATTACH_USER_MUXER"
    [] OTHER                 -> "none"

Sends(do) ==
  CASE do = "startrec"                   -> "START_RECODEFILE"
    [] do \in StopsRec -> "STOP_RECODEFILE"
    [] do = "switch"                     -> "SWITCH_RECODEFILE"
    [] do = "start_cache"                -> "START_CACHE"
    [] do \in StopsCache                 -> "STOP_CACHE"
    [] do = "savefile"                   -> "START_SAVE_CACHE"
    [] do = "stop_savecache"             -> "STOP_SAVE_CACHE"
    [] do = "attach"                     -> "ATTACH_USER_MUXER"
    [] do = "detach"                     -> "DETACH_USER_MUXER"

\* A call with a queue entry to cancel waits for its answer; others post.
Sync(do) == Cancels(do) # "none"

\* enablerec counts the recordings, from before their start is sent, and the
\* muxers attached.
enablerec == \/ "RECORDING" \in flags
             \/ \E c \in Clients : owned[c] # {}
             \/ \E c \in Clients : call[c].do = "startrec" /\ pc[c] \in {"send", "done"}

\* The test each function makes before it sends anything.
Wanted(do) ==
  CASE do = "startrec"    -> HandlerAlive /\ "RECORDING" \notin flags
    [] do = "start_cache" -> CacheInMem /\ HandlerAlive /\ "CACHE" \notin flags
    [] do = "deletevideo" -> HandlerAlive /\ "RECORDING" \in flags
    [] do \in {"stoprec", "then_stoprec", "switch"} -> "RECORDING" \in flags
    [] do \in StopsCache  -> "CACHE" \in flags
    [] do = "savefile"    -> /\ HandlerAlive
                             /\ IF CacheInMem
                                THEN "CACHE" \in flags /\ cameracache # "storing"
                                ELSE enablerec
    [] do = "stop_savecache"      -> CacheInMem /\ "CACHE" \in flags
    [] do \in {"attach", "detach"} -> HandlerAlive

\* Without a handler stop_record_file does nothing; the flag is cleared.
NothingToSend(do) == do \in {"stoprec", "then_stoprec"} /\ ~HandlerAlive

\* The flag a call sets or clears when it has sent, cancelled or been
\* answered.
SetsFlag(do) == CASE do = "startrec" -> {"RECORDING"}
                  [] do = "start_cache" -> {"CACHE"}
                  [] OTHER -> {}
\* Mutant of ClearsFlag: a stop leaves the flag set.
ClearsFlagNever(do) == {}
ClearsFlag(do) == CASE do \in StopsRec -> {"RECORDING"}
                    [] do \in StopsCache -> {"CACHE"}
                    [] OTHER -> {}

\* rdlock, and the test.  A call with nothing to do goes to its end.  A muxer
\* belongs to who attached it: nobody else detaches it, nor attaches it again
\* before it was detached.
Begin(c) ==
  \E x \in Call \cup Part :
    /\ \/ pc[c] = "idle" /\ calls[c] < MaxCalls /\ x \in Calls[c] /\ vt # "gone"
       \/ pc[c] = "next" /\ x = call[c] /\ x.do # "then_deinit"
    /\ x.do = "attach" => \A d \in Clients : x.mux \notin owned[d]
    /\ x.do = "detach" => x.mux \in owned[c]
    /\ owned' = IF x.do = "attach" THEN [owned EXCEPT ![c] = @ \cup {x.mux}]
                                   ELSE owned
    /\ call' = [call EXCEPT ![c] = x]
    /\ calls' = [calls EXCEPT ![c] = IF pc[c] = "idle" THEN @ + 1 ELSE @]
    /\ pc' = [pc EXCEPT ![c] = IF ~Wanted(x.do) THEN "return"
                               ELSE IF NothingToSend(x.do) THEN "done"
                               ELSE IF Sync(x.do) THEN "cancel" ELSE "send"]
    /\ UNCHANGED <<videoVars, msg_queue, muxerVars, camVars, answered, seen,
                   histVars, fault>>

\* A detach removes every queued ATTACH_USER_MUXER, those of other muxers too;
\* and then its own muxer is perhaps not detached.
TakesBackOthers(c) ==
  call[c].do = "detach" /\ \E i \in DOMAIN msg_queue :
    msg_queue[i].id = "ATTACH_USER_MUXER" /\ msg_queue[i].mux # call[c].mux

\* remove_message_of_id: every queued message of that id goes, the others
\* keep their order, and the call is complete if there was one.
Cancel(c) ==
  LET id == Cancels(call[c].do)
      others == {i \in DOMAIN msg_queue : msg_queue[i].id # id}
  IN /\ pc[c] = "cancel" /\ HandlerAlive
     /\ \E f \in [1..Cardinality(others) -> others] :
          /\ \A i, j \in DOMAIN f : i < j => f[i] < f[j]
          /\ msg_queue' = [i \in DOMAIN f |-> msg_queue[f[i]]]
     /\ pc' = [pc EXCEPT ![c] = IF others = DOMAIN msg_queue THEN "send" ELSE "done"]
     /\ takenBack' = (takenBack \/ TakesBackOthers(c))
     /\ UNCHANGED <<videoVars, muxerVars, camVars, call, answered, seen, owned,
                    calls, idr, fresh, fails, badAttach, fault>>

\* send_message: Push, and, with the mutex still held, cond.wait.
Send(c) ==
  LET do == call[c].do
  IN /\ pc[c] = "send" /\ HandlerAlive
     /\ msg_queue' = Append(msg_queue,
                       [id |-> Sends(do), mux |-> call[c].mux,
                        from |-> IF Sync(do) THEN c ELSE NoClient])
     /\ pc' = [pc EXCEPT ![c] = IF Sync(do) THEN "wait" ELSE "done"]
     /\ UNCHANGED <<videoVars, muxerVars, camVars, call, answered, seen, owned,
                    calls, histVars, fault>>

\* The handler was deleted after the test, without notelock.
UseAfterDelete(c) ==
  /\ pc[c] \in {"cancel", "send"} /\ ~HandlerAlive
  /\ fault' = "deleted handler"
  /\ UNCHANGED <<videoVars, msg_queue, muxerVars, camVars, clientVars, histVars>>

\* Mutant of IsAnswered: cond.wait returns without a notification.
IsAnsweredAtOnce(c) == TRUE
IsAnswered(c) == answered[c]

Answered(c) ==
  /\ pc[c] = "wait" /\ IsAnswered(c)
  /\ answered' = [answered EXCEPT ![c] = FALSE]
  /\ pc' = [pc EXCEPT ![c] = "done"]
  /\ UNCHANGED <<videoVars, msg_queue, muxerVars, camVars, call, seen, owned,
                 calls, histVars, fault>>

ChangesFlag(do) == SetsFlag(do) \cup ClearsFlag(do) # {}

NoFlags(c) ==
  /\ pc[c] = "done" /\ ~ChangesFlag(call[c].do)
  /\ pc' = [pc EXCEPT ![c] = "return"]
  /\ UNCHANGED <<videoVars, msg_queue, muxerVars, camVars, call, answered, seen,
                 owned,
                 calls, histVars, fault>>

\* encode_status |= and &= read the flags and write them back; notelock is
\* only held for reading.
ReadFlags(c) ==
  /\ pc[c] = "done" /\ ChangesFlag(call[c].do)
  /\ seen' = [seen EXCEPT ![c] = flags]
  /\ pc' = [pc EXCEPT ![c] = "flags"]
  /\ UNCHANGED <<videoVars, msg_queue, muxerVars, camVars, call, answered,
                 owned, calls,
                 histVars, fault>>

WriteFlags(c) ==
  /\ pc[c] = "flags"
  /\ flags' = (seen[c] \cup SetsFlag(call[c].do)) \ ClearsFlag(call[c].do)
  /\ seen' = [seen EXCEPT ![c] = {}]
  /\ pc' = [pc EXCEPT ![c] = "return"]
  /\ UNCHANGED <<pthread_run, mp4_encoding, vt, msg_queue, muxerVars, camVars,
                 call, answered, owned, calls, histVars, fault>>

Follows(do) == CASE do = "api_video_deinit" -> [do |-> "then_stoprec", mux |-> "none"]
                 [] do = "then_stoprec"     -> [do |-> "then_deinit", mux |-> "none"]
                 [] OTHER                   -> NoCall

\* Unlock; deletevideo first stops the camera (video_record_signal).
Return(c) ==
  /\ pc[c] = "return"
  /\ pthread_run' = (pthread_run /\ call[c].do # "deletevideo")
  /\ owned' = IF call[c].do = "detach"
              THEN [owned EXCEPT ![c] = @ \ {call[c].mux}] ELSE owned
  /\ call' = [call EXCEPT ![c] = Follows(call[c].do)]
  /\ pc' = [pc EXCEPT ![c] = IF Follows(call[c].do) = NoCall THEN "idle" ELSE "next"]
  /\ UNCHANGED <<mp4_encoding, flags, vt, msg_queue, muxerVars, camVars,
                 answered, seen, calls, histVars, fault>>

\* video_record_deinit takes notelock for writing and stops the camera ...
Deinit(c) ==
  /\ pc[c] = "next" /\ call[c].do = "then_deinit"
  /\ \A d \in Clients : ~Reading(d)
  /\ pthread_run' = FALSE
  /\ pc' = [pc EXCEPT ![c] = "joining"]
  /\ UNCHANGED <<mp4_encoding, flags, vt, msg_queue, muxerVars, camVars,
                 call, answered, seen, owned, calls, histVars, fault>>

\* ... then joins the video thread.
Joined(c) ==
  /\ pc[c] = "joining" /\ vt = "gone"
  /\ pc' = [pc EXCEPT ![c] = "idle"] /\ call' = [call EXCEPT ![c] = NoCall]
  /\ UNCHANGED <<videoVars, msg_queue, muxerVars, camVars, answered, seen,
                 owned, calls, histVars, fault>>

-----------------------------------------------------------------------------
(* The camera thread: processFrame, the wrapper h264_encode_process of     *)
(* video.cpp, and EncodeHandler::h264_encode_process.                      *)

\* processFrame reads pthread_run and encode_handler and then configures the
\* encoder through the pointer, before it tests pthread_run again and enters;
\* mp4_encoding is not set yet.
CamPeek ==
  /\ cam = "out" /\ pthread_run /\ HandlerAlive
  /\ cam' = "peek"
  /\ UNCHANGED <<videoVars, msg_queue, muxerVars, msg, ret, video_save,
                 clientVars, histVars, fault>>

CamConfigure ==
  /\ cam = "peek"
  /\ IF HandlerAlive
     THEN cam' = (IF pthread_run THEN "enter" ELSE "out") /\ UNCHANGED fault
     ELSE fault' = "deleted handler" /\ UNCHANGED cam
  /\ UNCHANGED <<videoVars, msg_queue, muxerVars, msg, ret, video_save,
                 clientVars, histVars>>

\* mp4_encoding is a plain bool written without a lock: unless the build and
\* the processor keep the order, the store may be seen after the test of
\* pthread_run, but not after the release of the queue's mutex in Empty().
CamEnter ==
  /\ cam = "enter"
  /\ mp4_encoding' \in {TRUE} \cup (IF InOrder THEN {} ELSE {mp4_encoding})
  /\ cam' = "check" /\ ret' = 0
  /\ UNCHANGED <<pthread_run, flags, vt, msg_queue, muxerVars, msg, video_save,
                 clientVars, histVars, fault>>

CamCheck ==
  /\ cam = "check"
  /\ cam' = IF pthread_run THEN "empty" ELSE "leave"
  /\ UNCHANGED <<videoVars, msg_queue, muxerVars, msg, ret, video_save,
                 clientVars, histVars, fault>>

\* msg_queue->Empty() and PopFront() lock the queue one after the other.
CamEmpty ==
  /\ cam = "empty" /\ HandlerAlive
  /\ cam' = IF msg_queue = <<>> THEN "frame" ELSE "pop"
  /\ mp4_encoding' = TRUE /\ video_save' = FALSE
  /\ UNCHANGED <<pthread_run, flags, vt, msg_queue, muxerVars, msg, ret,
                 clientVars, histVars, fault>>

\* The video thread did not see mp4_encoding and deleted the handler.
CamEmptyDeleted ==
  /\ cam = "empty" /\ ~HandlerAlive
  /\ fault' = "deleted handler"
  /\ UNCHANGED <<videoVars, msg_queue, muxerVars, camVars, clientVars, histVars>>

CamPop ==
  /\ cam = "pop"
  /\ IF msg_queue = <<>>
     THEN fault' = "empty queue" /\ UNCHANGED <<msg_queue, msg, cam>>
     ELSE /\ msg' = Head(msg_queue) /\ msg_queue' = Tail(msg_queue)
          /\ cam' = "handle" /\ UNCHANGED fault
  /\ UNCHANGED <<videoVars, muxerVars, ret, video_save, clientVars, histVars>>

\* The message was handled, with an answer to give, or failed.
Handled == cam' = "frame" /\ msg' = NoMessage /\ ret' = ret
\* Mutant of ThenNotify: nobody is notified.
ThenNotNotify == Handled
ThenNotify == cam' = "notify" /\ UNCHANGED <<msg, ret>>
Failed == cam' = "leave" /\ msg' = NoMessage /\ ret' = -1

Fail == fails < MaxFails /\ fails' = fails + 1

\* h264_encoder_ref: the first reference creates the encoder, which may fail;
\* a new encoder begins with a key frame.
EncoderFails == h264_ref = 0 /\ Fail
\* Mutant of Unref: the muxer gives its reference back, too.
UnrefTwice == h264_ref' = IF h264_ref = 0 THEN 0 ELSE h264_ref - 2
\* Mutant of Unref: the reference is kept.
UnrefForgotten == UNCHANGED h264_ref
Unref == h264_ref' = IF h264_ref = 0 THEN 0 ELSE h264_ref - 1
\* A muxer's pointer to an encoder that is deleted dangles.
Dangling == [m \in Muxers |-> IF muxEnc[m] = "current" THEN "stale" ELSE muxEnc[m]]
EncAfterUnref == IF h264_ref = 1 THEN Dangling ELSE muxEnc

\* MUXER_ALLOC asserts that there is no such muxer yet.
StartTwice ==
  /\ cam = "handle"
  /\ \/ msg.id = "START_RECODEFILE" /\ camerafile # "none"
     \/ msg.id = "START_CACHE" /\ cameracache # "none"
  /\ fault' = "started twice"
  /\ UNCHANGED <<videoVars, msg_queue, muxerVars, camVars, clientVars, histVars>>

HandleStartFile ==
  /\ cam = "handle" /\ msg.id = "START_RECODEFILE" /\ camerafile = "none"
  /\ \/ /\ h264_ref' = h264_ref + 1 /\ idr' = TRUE /\ fresh' = TRUE
        /\ camerafile' = "running" /\ handlers' = handlers \cup {"file"}
        /\ Handled /\ UNCHANGED <<fails, muxEnc>>
     \/ /\ EncoderFails /\ Failed
        /\ UNCHANGED <<h264_ref, idr, fresh, camerafile, handlers, muxEnc>>
     \/ \* the job does not start: the reference is given back
        /\ Fail /\ Failed /\ idr' = TRUE
        /\ UNCHANGED <<h264_ref, fresh, camerafile, handlers, muxEnc>>
  /\ UNCHANGED <<videoVars, msg_queue, cameracache, special, video_save,
                 clientVars, badAttach, takenBack, fault>>

\* Mutant of FreeFile: the muxer stays a handler of the dispatcher.
FreeFileHandled ==
  IF camerafile = "none"
  THEN UNCHANGED <<camerafile, handlers, h264_ref, muxEnc>>
  ELSE /\ camerafile' = "none" /\ UNCHANGED handlers
       /\ Unref /\ muxEnc' = EncAfterUnref

\* MUXER_FREE and its like: nothing without a muxer.
FreeFile ==
  IF camerafile = "none"
  THEN UNCHANGED <<camerafile, handlers, h264_ref, muxEnc>>
  ELSE /\ camerafile' = "none" /\ handlers' = handlers \ {"file"}
       /\ Unref /\ muxEnc' = EncAfterUnref

\* STOP_RECODEFILE with del_recoder_file: stop_current_job,
\* sync_jobs_complete and delete, whether a job runs or not, then the
\* reference and the answer.
HandleStopFile ==
  /\ cam = "handle" /\ msg.id = "STOP_RECODEFILE"
  /\ FreeFile
  /\ ThenNotify
  /\ UNCHANGED <<videoVars, msg_queue, cameracache, special, video_save,
                 clientVars, histVars, fault>>

\* Mutant of RestartJob: no key frame is asked for.
RestartJobNoKey(done, broken) ==
  \/ /\ handlers' = handlers \cup {"file"} /\ UNCHANGED idr /\ fresh' = TRUE
     /\ done /\ UNCHANGED <<fails, camerafile>>
  \/ /\ Fail /\ camerafile' = "idle" /\ handlers' = handlers \ {"file"}
     /\ broken /\ UNCHANGED <<idr, fresh>>

\* file_encode_restart_job: the job ends and the next one begins in a new
\* file with a key frame; when it does not start the muxer stays, idle.
RestartJob(done, broken) ==
  \/ /\ handlers' = handlers \cup {"file"} /\ idr' = TRUE /\ fresh' = TRUE
     /\ done /\ UNCHANGED <<fails, camerafile>>
  \/ /\ Fail /\ camerafile' = "idle" /\ handlers' = handlers \ {"file"}
     /\ broken /\ UNCHANGED <<idr, fresh>>

HandleSwitchFile ==
  /\ cam = "handle" /\ msg.id = "SWITCH_RECODEFILE"
  /\ IF camerafile = "none"
     THEN Handled /\ UNCHANGED <<camerafile, handlers, idr, fresh, fails>>
     ELSE h264_ref > 0 /\ RestartJob(Handled, Failed)
  /\ UNCHANGED <<videoVars, msg_queue, cameracache, special, h264_ref, muxEnc,
                 video_save, clientVars, badAttach, takenBack, fault>>

HandleStartCache ==
  /\ cam = "handle" /\ msg.id = "START_CACHE" /\ cameracache = "none"
  /\ \/ /\ h264_ref' = h264_ref + 1 /\ idr' = TRUE
        /\ cameracache' = "caching" /\ special' = TRUE
        /\ Handled /\ UNCHANGED fails
     \/ EncoderFails /\ Failed /\ UNCHANGED <<h264_ref, idr, cameracache,
                                              special>>
  /\ UNCHANGED <<videoVars, msg_queue, camerafile, handlers, muxEnc, video_save,
                 clientVars, fresh, badAttach, takenBack, fault>>

HandleStopCache ==
  /\ cam = "handle" /\ msg.id = "STOP_CACHE"
  /\ special' = FALSE /\ cameracache' = "none"
  /\ IF cameracache = "none" THEN UNCHANGED <<h264_ref, muxEnc>>
                             ELSE Unref /\ muxEnc' = EncAfterUnref
  /\ ThenNotify
  /\ UNCHANGED <<videoVars, msg_queue, camerafile, handlers, video_save,
                 clientVars, histVars, fault>>

\* With the cache in memory its content goes to a file of its own (it may
\* fail, silently); without, the current file ends with this frame.
HandleSaveCache ==
  /\ cam = "handle" /\ msg.id = "START_SAVE_CACHE"
  /\ IF ~CacheInMem
     THEN video_save' = TRUE /\ Handled /\ UNCHANGED <<cameracache, fails, fault>>
     ELSE /\ UNCHANGED video_save
          /\ \/ /\ cameracache = "none" /\ fault' = "no cache"
                /\ UNCHANGED <<cameracache, fails, cam, msg, ret>>
             \/ /\ cameracache # "none" /\ cameracache' = "storing"
                /\ Handled /\ UNCHANGED <<fails, fault>>
             \/ /\ cameracache = "caching" /\ Fail
                /\ Handled /\ UNCHANGED <<cameracache, fault>>
  /\ UNCHANGED <<videoVars, msg_queue, camerafile, handlers, special, h264_ref,
                 muxEnc, clientVars, idr, fresh, badAttach, takenBack>>

HandleStopSaveCache ==
  /\ cam = "handle" /\ msg.id = "STOP_SAVE_CACHE"
  /\ cameracache' = IF cameracache = "storing" THEN "caching" ELSE cameracache
  /\ ThenNotify
  /\ UNCHANGED <<videoVars, msg_queue, camerafile, handlers, special, h264_ref,
                 muxEnc, video_save, clientVars, histVars, fault>>

\* attach_user_muxer: without an encoder the muxer is attached all the same;
\* when its job does not start the reference goes back, but the muxer keeps
\* the pointer, and nobody is told.
HandleAttach ==
  LET m == msg.mux
  IN /\ cam = "handle" /\ msg.id = "ATTACH_USER_MUXER"
     /\ \/ /\ h264_ref' = h264_ref + 1
           /\ muxEnc' = [muxEnc EXCEPT ![m] = "current"]
           /\ handlers' = handlers \cup {m}
           /\ idr' = (idr \/ h264_ref = 0)
           /\ UNCHANGED <<fails, badAttach>>
        \/ /\ EncoderFails
           /\ muxEnc' = [muxEnc EXCEPT ![m] = "none"]
           /\ handlers' = handlers \cup {m}
           /\ UNCHANGED <<h264_ref, idr, badAttach>>
        \/ /\ Fail /\ badAttach' = TRUE
           /\ muxEnc' = [muxEnc EXCEPT ![m] = IF h264_ref = 0 THEN "stale" ELSE "current"]
           /\ UNCHANGED <<h264_ref, handlers, idr>>
     /\ Handled
     /\ UNCHANGED <<videoVars, msg_queue, camerafile, cameracache, special,
                    video_save, clientVars, fresh, takenBack, fault>>

\* detach_user_muxer: the reference goes back when the muxer's pointer is the
\* encoder's; a dangling pointer may compare equal to a new encoder's.
HandleDetach ==
  LET m == msg.mux
  IN /\ cam = "handle" /\ msg.id = "DETACH_USER_MUXER" /\ muxEnc[m] # "none"
     /\ \E same \in IF h264_ref = 0 THEN {FALSE}
                    ELSE IF muxEnc[m] = "current" THEN {TRUE} ELSE BOOLEAN :
          IF same THEN Unref /\ muxEnc' = EncAfterUnref
                  ELSE UNCHANGED <<h264_ref, muxEnc>>
     /\ handlers' = handlers \ {m}
     /\ ThenNotify
     /\ UNCHANGED <<videoVars, msg_queue, camerafile, cameracache, special,
                    video_save, clientVars, histVars, fault>>

\* get_video_encoder asserts that the muxer has an encoder.
DetachNoEncoder ==
  /\ cam = "handle" /\ msg.id = "DETACH_USER_MUXER" /\ muxEnc[msg.mux] = "none"
  /\ fault' = "no encoder"
  /\ UNCHANGED <<videoVars, msg_queue, muxerVars, camVars, clientVars, histVars>>

Handle ==
  \/ StartTwice \/ HandleStartFile \/ HandleStopFile \/ HandleSwitchFile
  \/ HandleStartCache \/ HandleStopCache \/ HandleSaveCache
  \/ HandleStopSaveCache \/ HandleAttach \/ HandleDetach
  \/ DetachNoEncoder

\* do_notify locks the mutex on the waiter's stack: the waiter waits.
Notify ==
  /\ cam = "notify"
  /\ answered' = [answered EXCEPT ![msg.from] = TRUE]
  /\ cam' = "frame" /\ msg' = NoMessage
  /\ UNCHANGED <<videoVars, msg_queue, muxerVars, ret, video_save, pc, call,
                 seen, owned, calls, histVars, fault>>

\* A fake or unplugged frame (fd < 0) is not encoded, and ends the call.
SkipFrame ==
  /\ cam = "frame" /\ cam' = "leave"
  /\ UNCHANGED <<videoVars, msg_queue, muxerVars, msg, ret, video_save,
                 clientVars, histVars, fault>>

\* EncodeOneFrame, if there is an encoder and a free buffer; the frame goes to
\* the handlers and to the cache.  The file of a saved cache ends when the
\* time is over, with a key frame forced for the cache.
EncodeFrame ==
  /\ cam = "frame" /\ cam' = "tail"
  /\ \/ UNCHANGED <<idr, fresh, cameracache>>
     \/ /\ h264_ref > 0
        /\ fresh' = (fresh /\ camerafile # "running")
        /\ \/ idr' = FALSE /\ UNCHANGED cameracache
           \/ cameracache = "storing" /\ cameracache' = "caching" /\ idr' = TRUE
  /\ UNCHANGED <<videoVars, msg_queue, camerafile, handlers, special, h264_ref,
                 muxEnc, msg, ret, video_save, clientVars, fails, badAttach, takenBack,
                 fault>>

Ends == cam' = "leave" /\ UNCHANGED <<msg, ret>>
EndsFailed == cam' = "leave" /\ ret' = -1 /\ UNCHANGED msg

\* The recording time is over, or a save was asked for.
RestartFile ==
  /\ cam = "tail" /\ camerafile # "none" /\ h264_ref > 0
  /\ RestartJob(Ends, EndsFailed)
  /\ UNCHANGED <<videoVars, msg_queue, cameracache, special, h264_ref, muxEnc,
                 video_save, clientVars, badAttach, takenBack, fault>>

\* The next job asks the encoder for its rate: a null pointer, when a failed
\* attach gave the last reference back twice.
RestartNoEncoder ==
  /\ camerafile # "none" /\ h264_ref = 0
  /\ \/ cam = "tail"
     \/ cam = "handle" /\ msg.id = "SWITCH_RECODEFILE"
  /\ fault' = "no encoder"
  /\ UNCHANGED <<videoVars, msg_queue, muxerVars, camVars, clientVars, histVars>>

KeepFile ==
  /\ cam = "tail" /\ ~(camerafile # "none" /\ video_save)
  /\ Ends
  /\ UNCHANGED <<videoVars, msg_queue, muxerVars, video_save, clientVars,
                 histVars, fault>>

\* Mutant of LeaveEncoding: an error returns before the flag is reset.
LeaveEncodingOnce == mp4_encoding' = (ret < 0)
LeaveEncoding == mp4_encoding' = FALSE

\* mp4_encoding = false; after an error processFrame stops the camera.
CamLeave ==
  /\ cam = "leave"
  /\ LeaveEncoding
  /\ cam' = IF ret < 0 THEN "signal" ELSE "out"
  /\ video_save' = FALSE
  /\ UNCHANGED <<pthread_run, flags, vt, msg_queue, muxerVars, msg, ret,
                 clientVars, histVars, fault>>

CamSignal ==
  /\ cam = "signal"
  /\ pthread_run' = FALSE /\ cam' = "out" /\ ret' = 0
  /\ UNCHANGED <<mp4_encoding, flags, vt, msg_queue, muxerVars, msg, video_save,
                 clientVars, histVars, fault>>

Camera ==
  \/ CamPeek \/ CamConfigure \/ CamEnter \/ CamCheck \/ CamEmpty
  \/ CamEmptyDeleted \/ CamPop
  \/ Handle \/ Notify \/ SkipFrame \/ EncodeFrame \/ RestartFile
  \/ RestartNoEncoder \/ KeepFile \/ CamLeave \/ CamSignal

-----------------------------------------------------------------------------
(* The video thread.                                                       *)

\* while (pthread_run) wait; then wait for mp4_encoding to be false.
VideoLeave ==
  /\ vt = "run" /\ ~pthread_run
  /\ vt' = "leaving"
  /\ UNCHANGED <<pthread_run, mp4_encoding, flags, msg_queue, muxerVars,
                 camVars, clientVars, histVars, fault>>

\* Mutant of MayDestroy: the video thread does not wait for mp4_encoding.
MayDestroyAtOnce == TRUE
MayDestroy == ~mp4_encoding

\* What ~EncodeHandler and ~Dispatcher assert.
AllClosed == /\ camerafile = "none" /\ cameracache = "none" /\ h264_ref = 0
             /\ handlers = {}

\* video_encode_exit deletes the handler, without notelock; the destructor
\* asserts that everything was closed before, and clears the queue.
VideoDestroy ==
  /\ vt = "leaving" /\ MayDestroy
  /\ vt' = "destroyed" /\ msg_queue' = <<>>
  /\ fault' = IF AllClosed THEN fault ELSE "not closed"
  /\ UNCHANGED <<pthread_run, mp4_encoding, flags, muxerVars, camVars,
                 clientVars, histVars>>

\* video_record_deletenode, under notelock for writing.
VideoDelete ==
  /\ vt = "destroyed" /\ \A c \in Clients : ~Reading(c)
  /\ vt' = "gone"
  /\ UNCHANGED <<pthread_run, mp4_encoding, flags, msg_queue, muxerVars,
                 camVars, clientVars, histVars, fault>>

Video == VideoLeave \/ VideoDestroy \/ VideoDelete

-----------------------------------------------------------------------------
\* A call once begun goes on; nobody is obliged to begin one.
GoOn(c) ==
  \/ pc[c] = "next" /\ Begin(c)
  \/ Cancel(c) \/ Send(c) \/ UseAfterDelete(c) \/ Answered(c)
  \/ NoFlags(c) \/ ReadFlags(c) \/ WriteFlags(c) \/ Return(c) \/ Deinit(c) \/ Joined(c)

Client(c) == Begin(c) \/ GoOn(c)

\* An assertion failed or freed memory was used; or everything is over; or a
\* client waits, as a reader of notelock, for a camera that has stopped.
Stopped == \/ fault # "none"
           \/ vt = "gone" /\ \A c \in Clients : pc[c] = "idle"
           \/ ~pthread_run /\ cam = "out" /\ \E c \in Clients : pc[c] = "wait"

Next ==
  \/ fault = "none" /\ (Camera \/ Video \/ \E c \in Clients : Client(c))
  \/ Stopped /\ UNCHANGED vars

Spec == Init /\ [][Next]_vars

\* Frames keep arriving while the camera runs; threads are scheduled.
Fairness == /\ WF_vars(fault = "none" /\ Camera)
            /\ WF_vars(fault = "none" /\ Video)
            /\ \A c \in Clients : WF_vars(fault = "none" /\ GoOn(c))
FairSpec == Spec /\ Fairness

-----------------------------------------------------------------------------
(* Properties.                                                             *)

VideoType ==
  /\ pthread_run \in BOOLEAN /\ mp4_encoding \in BOOLEAN
  /\ flags \in SUBSET {"RECORDING", "CACHE"}
  /\ vt \in {"run", "leaving", "destroyed", "gone"}
MuxerType ==
  /\ camerafile \in {"none", "running", "idle"}
  /\ cameracache \in {"none", "caching", "storing"}
  /\ handlers \in SUBSET (Muxers \cup {"file"}) /\ special \in BOOLEAN
  /\ h264_ref \in Nat
  /\ muxEnc \in [Muxers -> {"none", "current", "stale"}]
CamType ==
  /\ cam \in {"out", "peek", "enter", "check", "empty", "pop", "handle",
              "notify", "frame", "tail", "leave", "signal"}
  /\ msg \in Message \cup {NoMessage} /\ ret \in {0, -1} /\ video_save \in BOOLEAN
ClientType ==
  /\ pc \in [Clients -> {"idle", "next", "cancel", "send", "wait", "done",
                         "flags", "return", "joining"}]
  /\ call \in [Clients -> Call \cup Part \cup {NoCall}]
  /\ answered \in [Clients -> BOOLEAN]
  /\ seen \in [Clients -> SUBSET {"RECORDING", "CACHE"}] /\ owned \in [Clients -> SUBSET Muxers]
  /\ calls \in [Clients -> 0..MaxCalls]
HistType ==
  /\ idr \in BOOLEAN /\ fresh \in BOOLEAN /\ badAttach \in BOOLEAN
  /\ takenBack \in BOOLEAN
  /\ fails \in 0..MaxFails
FaultType == fault \in {"none", "empty queue", "started twice", "no cache",
                       "deleted handler", "no encoder", "not closed"}

\* Every variable keeps its type; the encoder's reference count never
\* becomes negative.
TypeOK == /\ VideoType /\ msg_queue \in Seq(Message) /\ MuxerType /\ CamType
          /\ ClientType /\ HistType /\ FaultType

\* The encoder's reference count is the number of muxers that use it: the
\* file muxer, the cache and the attached muxers, through failed starts,
\* restarts and stops; as long as no attach_user_muxer failed or was taken back
\* by the detach of another muxer.
Holders == (IF camerafile = "none" THEN 0 ELSE 1)
             + (IF cameracache = "none" THEN 0 ELSE 1)
             + Cardinality({m \in Muxers : muxEnc[m] = "current" /\ m \in handlers})
RefcountExact == ~badAttach /\ ~takenBack => h264_ref = Holders

\* Packets go to the file muxer while its job runs and to the cache while it
\* exists, never to a muxer that is gone.
Registered == /\ "file" \in handlers <=> camerafile = "running"
              /\ special <=> cameracache # "none"

\* Every file begins with a key frame: from the start of a job, whoever asked
\* for it, to the first frame encoded for it a key frame is pending.
BeginsWithKey == fresh /\ camerafile = "running" => idr

\* While no call about it is under way and the camera runs, a flag of
\* encode_status says whether its muxer exists or is about to: stoprec and
\* stop_cache, which trust it, leave nothing running.
Expected(what, muxer) == \/ muxer # "none"
                         \/ \E i \in DOMAIN msg_queue : msg_queue[i].id = what
                         \/ msg.id = what
About(c, what) == what \in SetsFlag(call[c].do) \cup ClearsFlag(call[c].do)
FlagsMatch ==
  pthread_run /\ ret = 0 =>
    /\ (\A c \in Clients : ~About(c, "RECORDING")) =>
         ("RECORDING" \in flags <=> Expected("START_RECODEFILE", camerafile))
    /\ (\A c \in Clients : ~About(c, "CACHE")) =>
         ("CACHE" \in flags <=> Expected("START_CACHE", cameracache))

\* When a stop has been answered, or its start has been cancelled, the muxer
\* it is about has been deleted and no start of it is left in the queue.
DetachComplete ==
  \A c \in Clients : pc[c] \in {"done", "flags"} /\ call[c].do = "detach" /\ ~takenBack =>
    call[c].mux \notin handlers
StopComplete ==
  /\ \A c \in Clients : pc[c] \in {"done", "flags"} =>
       /\ call[c].do \in StopsRec => ~Expected("START_RECODEFILE", camerafile)
       /\ call[c].do \in StopsCache => ~Expected("START_CACHE", cameracache)
  /\ DetachComplete

\* An answer is given once, to a client that waits for it: the mutex that
\* do_notify locks is on that client's stack.
AnswersWaiter ==
  /\ cam = "notify" => pc[msg.from] = "wait" /\ ~answered[msg.from]
  /\ \A i \in DOMAIN msg_queue : msg_queue[i].from # NoClient =>
        /\ pc[msg_queue[i].from] = "wait" /\ ~answered[msg_queue[i].from]
        /\ \A j \in DOMAIN msg_queue : msg_queue[j].from = msg_queue[i].from => i = j

\* The camera thread is never inside h264_encode_process of a handler that
\* the video thread has deleted: pthread_run and mp4_encoding are enough,
\* provided their stores and loads take effect in program order.
HandlerInUse == cam \in {"empty", "pop", "handle", "notify", "frame", "tail"}
                  => HandlerAlive

\* A client that waits is answered, as long as the camera runs.
StopAnswered == \A c \in Clients :
  pc[c] = "wait" ~> pc[c] # "wait" \/ ~pthread_run \/ fault # "none"

\* A camera that stops is taken out of the list, unless a client waits, as a
\* reader of notelock, for an answer nobody will give.
StoppedIsDeleted ==
  ~pthread_run ~> vt = "gone" \/ fault # "none" \/ \E c \in Clients : pc[c] = "wait"

\* encode_handler.cpp, ~EncodeHandler: "should closed all these pointers
\* before deleting encode hanlder".
ClosedBeforeDelete == fault # "not closed"

=============================================================================
