----------------------------- MODULE LiveStream -----------------------------
(***************************************************************************)
(* The live stream of one camera: ScaleEncodeTSHandler and its muxer       *)
(* CameraTs, the client that starts and stops the transfer (process/       *)
(* video.cpp), the camera thread, which stops it after an error, and the   *)
(* command thread, which an RTSP server outside tells through a pipe when  *)
(* somebody watches.  Composed with AudioHandler: the transfer adds its    *)
(* dispatcher to the microphone, and a callback removes it when the        *)
(* dispatcher becomes empty.                                               *)
(*                                                                         *)
(* The writer of CameraTs is the one of CameraMuxer with an IMMEDIATE      *)
(* exit: stop_current_job returns.  live_state_ is changed only while its  *)
(* other users wait, so that one SetState is one step.                     *)
(***************************************************************************)
EXTENDS AudioHandler, Sequences

CONSTANTS
  Client, Camera, Commu,  \* the three callers
  Live,                   \* pkt_dispatcher_
  MaxCommands,            \* commands the server sends in a behaviour (bound)
  MaxStarts               \* transfers the client starts (bound)

ASSUME LiveAssumption ==
  /\ Callers = {Client, Camera, Commu}
  /\ Client # Camera /\ Client # Commu /\ Camera # Commu
  /\ Dispatchers = {Live} /\ Receivers = {}
  /\ MaxCommands \in Nat /\ MaxStarts \in Nat

VARIABLES
  live_state,             \* g_live_state
  ts, outside, ts_state, fatal_error,  \* the muxer: exists, StartByOutside, state_, error
  attached, stale,        \* entries of pkt_dispatcher_: this muxer, deleted ones
  cb_when_empty,          \* callbacks registered with pkt_dispatcher_
  live_mtx,               \* who holds mtx_ of the handler
  valid, commu_fd,
  commu, at, rerun,       \* the command thread; client and camera; cur_live_state
  WIFI_TRANSFER_FLAG,
  pipe, sent, starts,     \* the pipe; commands sent, transfers started
  wanted, missed,         \* history: the last command sent; it may not have been seen
  crashed                 \* the process is gone

muxerVars == <<ts, outside, ts_state, fatal_error>>
dispatcherVars == <<attached, stale, cb_when_empty>>
handlerVars == <<live_state, live_mtx, valid, commu_fd>>
threadsVars == <<commu, at, rerun>>
clientVars == <<WIFI_TRANSFER_FLAG, starts>>
serverVars == <<sent, wanted, missed, crashed>>
liveVars == <<muxerVars, dispatcherVars, handlerVars, threadsVars, clientVars,
              pipe, serverVars>>
vars == <<audioVars, liveVars>>

Init ==
  /\ AudioInit /\ mute = FALSE
  /\ live_state = "NONE" /\ live_mtx = Nobody /\ valid = FALSE /\ commu_fd = FALSE
  /\ ts = FALSE /\ outside = FALSE /\ ts_state = "EXIT" /\ fatal_error = FALSE
  /\ attached = 0 /\ stale = 0 /\ cb_when_empty = 0
  /\ commu = "none" /\ at = [t \in {Client, Camera} |-> "idle"] /\ rerun = FALSE
  /\ WIFI_TRANSFER_FLAG = FALSE /\ starts = 0
  /\ pipe = <<>> /\ sent = 0 /\ wanted = "STOP" /\ missed = FALSE
  /\ crashed = FALSE

-----------------------------------------------------------------------------
(* LiveState::SetState.                                                    *)

\* A transfer that ends while the server watches is to run again.
AfterNone ==
  CASE live_state = "PAUSE" -> "NONE"
    [] live_state = "RUN"   -> "RERUN"
    [] OTHER                -> live_state

Runnable == {"READY", "PAUSE", "RERUN"}

SetState(next) ==
  live_state' =
    CASE next = "READY" /\ live_state = "NONE" -> "READY"
      [] next = "RUN" /\ live_state \in Runnable -> "RUN"
      [] next = "PAUSE" /\ live_state = "RUN" -> "PAUSE"
      [] next = "NONE" -> AfterNone
      [] OTHER -> live_state

-----------------------------------------------------------------------------
(* The dispatcher (av_wrapper/dispatcher.h).                               *)

Unlocked == list_mutex[Live] = Nobody
Lock(t) == list_mutex' = [list_mutex EXCEPT ![Live] = t]

audioButLists == <<mtx, listVars, threadVars, deviceVars, muteVars, captureVars, callVars>>

AddHandler ==
  /\ Unlocked
  /\ attached' = attached + 1
  /\ UNCHANGED <<stale, cb_when_empty, audioVars>>

\* RemoveHandler takes the list's mutex and keeps it over the callbacks.
RemoveHandler(t) ==
  /\ Unlocked
  /\ attached' = 0
  /\ IF stale = 0 /\ cb_when_empty > 0 THEN Lock(t) ELSE UNCHANGED list_mutex
  /\ UNCHANGED <<stale, cb_when_empty, audioButLists>>
CallsBack == stale = 0 /\ cb_when_empty > 0

\* The callback has returned when RmPacketDispatcher has.
CallBackDone(t) ==
  /\ call[t] = "idle"
  /\ Lock(Nobody)
  /\ UNCHANGED <<audioButLists, dispatcherVars>>

-----------------------------------------------------------------------------
(* StartTransferStream and StopTransferStream, by client and camera.       *)

Goto(t, p) == at' = [at EXCEPT ![t] = p]

\* video_record_start_ts_transfer: the microphone first.
StartTransfer ==
  /\ at[Client] = "idle" /\ ~WIFI_TRANSFER_FLAG /\ starts < MaxStarts
  /\ Call(Client, "add", Live)
  /\ Goto(Client, "adding") /\ starts' = starts + 1
  /\ UNCHANGED <<muxerVars, dispatcherVars, handlerVars, commu, rerun,
                 WIFI_TRANSFER_FLAG, pipe, serverVars>>

LockStart ==
  /\ at[Client] = "adding" /\ call[Client] = "idle" /\ live_mtx = Nobody
  /\ live_mtx' = Client
  /\ Goto(Client, "make")
  /\ UNCHANGED <<audioVars, muxerVars, dispatcherVars, live_state, valid, commu_fd,
                 commu, rerun, clientVars, pipe, serverVars>>

\* CameraTs::create, init_uri and start_new_job; a pipe:// address makes a
\* stream that is started by the server outside.
MakeMuxer ==
  /\ at[Client] = "make" /\ ~ts
  /\ ts' = TRUE /\ fatal_error' = FALSE
  /\ \/ /\ outside' \in BOOLEAN
        /\ ts_state' = IF outside' THEN "ENTER" ELSE "RUNNING"
        /\ Goto(Client, "setready")
     \/ /\ outside' = FALSE /\ ts_state' = "EXIT"
        /\ Goto(Client, "fail")
  /\ UNCHANGED <<audioVars, dispatcherVars, handlerVars, commu, rerun,
                 clientVars, pipe, serverVars>>

\* There is a muxer already: -1, and the microphone is given back.
MakeExists ==
  /\ at[Client] = "make" /\ ts
  /\ live_mtx' = Nobody /\ Goto(Client, "undo")
  /\ UNCHANGED <<audioVars, muxerVars, dispatcherVars, live_state, valid, commu_fd,
                 commu, rerun, clientVars, pipe, serverVars>>

SetReady ==
  /\ at[Client] = "setready"
  /\ valid' = TRUE
  /\ SetState("READY") /\ rerun' = (live_state = "RERUN")
  /\ Goto(Client, IF outside THEN "open" ELSE "setrun")
  /\ UNCHANGED <<audioVars, muxerVars, dispatcherVars, live_mtx, commu_fd, commu,
                 clientVars, pipe, serverVars>>

OpenPipe ==
  /\ at[Client] = "open"
  /\ \/ commu_fd' = TRUE /\ Goto(Client, "thread")
     \/ UNCHANGED commu_fd /\ Goto(Client, "fail")
  /\ UNCHANGED <<audioVars, muxerVars, dispatcherVars, live_state, live_mtx, valid,
                 commu, rerun, clientVars, pipe, serverVars>>

StartThread ==
  /\ at[Client] = "thread"
  /\ \/ commu' = "test" /\ Goto(Client, "rewrite")
     \/ UNCHANGED commu /\ Goto(Client, "fail")
  /\ UNCHANGED <<audioVars, muxerVars, dispatcherVars, handlerVars, rerun,
                 clientVars, pipe, serverVars>>

\* Mutant of Rewrites: the command is not written again.
RewritesNever == FALSE
\* The server started the stream before it was stopped, and does not again.
Rewrites == rerun
Rewrite ==
  /\ at[Client] = "rewrite"
  /\ pipe' = IF Rewrites THEN Append(pipe, "START") ELSE pipe
  /\ live_mtx' = Nobody /\ Goto(Client, "register")
  /\ UNCHANGED <<audioVars, muxerVars, dispatcherVars, live_state, valid, commu_fd,
                 commu, rerun, clientVars, serverVars>>

\* A stream that the server has no part in also uses up the mark that one of the
\* server's is to run again.
SetRun ==
  /\ at[Client] = "setrun"
  /\ SetState("RUN") /\ Goto(Client, "attach")
  /\ missed' = (missed \/ live_state = "RERUN")
  /\ UNCHANGED <<audioVars, muxerVars, dispatcherVars, live_mtx, valid, commu_fd,
                 commu, rerun, clientVars, pipe, sent, wanted, crashed>>

StartAttach ==
  /\ at[Client] = "attach"
  /\ AddHandler
  /\ live_mtx' = Nobody /\ Goto(Client, "register")
  /\ UNCHANGED <<muxerVars, live_state, valid, commu_fd, commu, rerun, clientVars,
                 pipe, serverVars>>

\* RegisterCbWhenEmpty, and the flag that says that there is a transfer.
Register ==
  /\ at[Client] = "register"
  /\ cb_when_empty' = cb_when_empty + 1
  /\ WIFI_TRANSFER_FLAG' = TRUE /\ Goto(Client, "idle")
  /\ UNCHANGED <<audioVars, muxerVars, attached, stale, handlerVars, commu, rerun,
                 starts, pipe, serverVars>>

\* The error path: no command thread was created.
StartFails ==
  /\ at[Client] = "fail"
  /\ commu_fd' = FALSE /\ valid' = FALSE
  /\ ts' = FALSE /\ SetState("NONE")
  /\ live_mtx' = Nobody /\ Goto(Client, "undo")
  /\ UNCHANGED <<audioVars, outside, ts_state, fatal_error, dispatcherVars, commu,
                 rerun, clientVars, pipe, serverVars>>

StartUndo ==
  /\ at[Client] = "undo"
  /\ Call(Client, "rm", Live)
  /\ Goto(Client, "idle")
  /\ UNCHANGED <<muxerVars, dispatcherVars, handlerVars, commu, rerun, clientVars,
                 pipe, serverVars>>

\* Mutant of GivesBack: the microphone keeps the dispatcher.
GivesBackNot == UNCHANGED audioVars
GivesBack == Call(Client, "rm", Live)

Unregistered == cb_when_empty - 1

\* stop_ts_transfer: the callback and the microphone first.
StopTransfer ==
  /\ at[Client] = "idle" /\ call[Client] = "idle" /\ WIFI_TRANSFER_FLAG
  /\ cb_when_empty' = Unregistered
  /\ GivesBack
  /\ Goto(Client, "stoplock")
  /\ UNCHANGED <<muxerVars, attached, stale, handlerVars, commu, rerun,
                 clientVars, pipe, serverVars>>

\* Process: the muxer has failed.  (No command thread in this case.)
StopOnError ==
  /\ at[Camera] = "idle" /\ call[Camera] = "idle"
  /\ ts /\ ts_state = "RUNNING" /\ fatal_error /\ live_mtx = Nobody
  /\ Goto(Camera, "stoplock")
  /\ UNCHANGED <<audioVars, muxerVars, dispatcherVars, handlerVars, commu, rerun,
                 clientVars, pipe, serverVars>>

LockStop(t) ==
  /\ at[t] = "stoplock" /\ call[t] = "idle" /\ live_mtx = Nobody
  /\ IF ts
     THEN live_mtx' = t /\ Goto(t, "detach") /\ UNCHANGED WIFI_TRANSFER_FLAG
     ELSE /\ UNCHANGED live_mtx /\ Goto(t, "idle")
          /\ WIFI_TRANSFER_FLAG' = (WIFI_TRANSFER_FLAG /\ t # Client)
  /\ UNCHANGED <<audioVars, muxerVars, dispatcherVars, live_state, valid, commu_fd,
                 commu, rerun, starts, pipe, serverVars>>

StopDetach(t) ==
  /\ at[t] = "detach"
  /\ RemoveHandler(t)
  /\ Goto(t, IF CallsBack THEN "callback" ELSE "stopjob")
  /\ UNCHANGED <<muxerVars, handlerVars, commu, rerun, clientVars, pipe, serverVars>>

\* The list has a reference to a std::function that died with the block that
\* registered it: what is called is undefined, the lambda or anything else.
CallBack(t) ==
  \/ Call(t, "rm", Live) /\ UNCHANGED crashed
  \/ crashed' = TRUE /\ UNCHANGED audioVars

StopCallBack(t) ==
  /\ at[t] = "callback"
  /\ CallBack(t)
  /\ Goto(t, "removing")
  /\ UNCHANGED <<muxerVars, dispatcherVars, handlerVars, commu, rerun, clientVars,
                 pipe, sent, wanted, missed>>

StopCalledBack(t) ==
  /\ at[t] = "removing" /\ CallBackDone(t)
  /\ Goto(t, "stopjob")
  /\ UNCHANGED <<muxerVars, handlerVars, commu, rerun, clientVars, pipe, serverVars>>

\* Mutant of ValidAfterStop: the command thread is not told to end.
ValidAfterStopKept == valid
ValidAfterStop == FALSE

\* stop_current_job; the pipe of the commands is closed, valid_ cleared.
StopJob(t) ==
  /\ at[t] = "stopjob"
  /\ IF outside THEN UNCHANGED live_state ELSE SetState("PAUSE")
  /\ commu_fd' = FALSE /\ valid' = ValidAfterStop
  /\ Goto(t, "join")
  /\ UNCHANGED <<audioVars, muxerVars, dispatcherVars, live_mtx, commu, rerun,
                 clientVars, pipe, serverVars>>

\* Mutant of Joined: the command thread is not waited for.
JoinedAtOnce == TRUE
Joined == commu \in {"none", "ended"}
StopJoin(t) ==
  /\ at[t] = "join" /\ Joined
  /\ commu' = IF commu = "ended" THEN "none" ELSE commu
  /\ Goto(t, "delete")
  /\ UNCHANGED <<audioVars, muxerVars, dispatcherVars, handlerVars, rerun,
                 clientVars, pipe, serverVars>>

\* delete ts_: what the dispatcher still has of it points nowhere.
StopDelete(t) ==
  /\ at[t] = "delete"
  /\ ts' = FALSE /\ stale' = stale + attached /\ attached' = 0
  /\ SetState("NONE")
  /\ live_mtx' = Nobody /\ Goto(t, "idle")
  /\ WIFI_TRANSFER_FLAG' = (WIFI_TRANSFER_FLAG /\ t # Client)
  /\ UNCHANGED <<audioVars, outside, ts_state, fatal_error, cb_when_empty, valid,
                 commu_fd, commu, rerun, starts, pipe, serverVars>>

-----------------------------------------------------------------------------
(* _commu_routine, the command thread.                                     *)

CommuGoto(p) == commu' = p

CommuTest ==
  /\ commu = "test"
  /\ CommuGoto(IF valid THEN "poll" ELSE "ended")
  /\ UNCHANGED <<audioVars, muxerVars, dispatcherVars, handlerVars, at, rerun,
                 clientVars, pipe, serverVars>>

\* Nothing to read within 50 ms, or no pipe any more.
PollNothing ==
  /\ commu = "poll" /\ (~commu_fd \/ pipe = <<>>)
  /\ CommuGoto("test")
  /\ UNCHANGED <<audioVars, muxerVars, dispatcherVars, handlerVars, at, rerun,
                 clientVars, pipe, serverVars>>

\* One read takes all that is in the pipe (up to 128 bytes), and only the
\* first command of it is looked at.
ReadCommand ==
  /\ commu = "poll" /\ commu_fd /\ pipe # <<>>
  /\ pipe' = <<>>
  /\ missed' = (Len(pipe) > 1 \/ Head(pipe) # wanted)
  /\ \/ /\ Head(pipe) = "START" /\ SetState("RUN")
        /\ CommuGoto(IF live_state \in Runnable THEN "running" ELSE "test")
     \/ /\ Head(pipe) = "STOP" /\ UNCHANGED live_state
        /\ CommuGoto("detach")
  /\ UNCHANGED <<audioVars, muxerVars, dispatcherVars, live_mtx, valid, commu_fd,
                 at, rerun, clientVars, sent, wanted, crashed>>

CommuSetRunning ==
  /\ commu = "running"
  /\ ts_state' = "RUNNING"
  /\ CommuGoto("attach")
  /\ UNCHANGED <<audioVars, ts, outside, fatal_error, dispatcherVars, handlerVars,
                 at, rerun, clientVars, pipe, serverVars>>

CommuAttach ==
  /\ commu = "attach"
  /\ AddHandler
  /\ CommuGoto("test")
  /\ UNCHANGED <<muxerVars, handlerVars, at, rerun, clientVars, pipe, serverVars>>

CommuDetach ==
  /\ commu = "detach"
  /\ RemoveHandler(Commu)
  /\ CommuGoto(IF CallsBack THEN "callback" ELSE "pausing")
  /\ UNCHANGED <<muxerVars, handlerVars, at, rerun, clientVars, pipe, serverVars>>

CommuCallBack ==
  /\ commu = "callback"
  /\ CallBack(Commu)
  /\ CommuGoto("removing")
  /\ UNCHANGED <<muxerVars, dispatcherVars, handlerVars, at, rerun, clientVars,
                 pipe, sent, wanted, missed>>

CommuCalledBack ==
  /\ commu = "removing" /\ CallBackDone(Commu)
  /\ CommuGoto("pausing")
  /\ UNCHANGED <<muxerVars, handlerVars, at, rerun, clientVars, pipe, serverVars>>

CommuPause ==
  /\ commu = "pausing"
  /\ ts_state' = "PAUSING"
  /\ SetState("PAUSE")
  /\ CommuGoto("test")
  /\ UNCHANGED <<audioVars, ts, outside, fatal_error, dispatcherVars, live_mtx, valid,
                 commu_fd, at, rerun, clientVars, pipe, serverVars>>

-----------------------------------------------------------------------------
(* Outside: the server, which keeps its end of the pipe open, and the      *)
(* network.                                                                *)

SendCommand ==
  /\ sent < MaxCommands
  /\ wanted' = IF wanted = "STOP" THEN "START" ELSE "STOP"
  /\ pipe' = Append(pipe, wanted') /\ sent' = sent + 1
  /\ UNCHANGED <<audioVars, muxerVars, dispatcherVars, handlerVars, threadsVars,
                 clientVars, missed, crashed>>

\* A stream that is not written to a pipe fails for good.
MuxerFails ==
  /\ ts /\ ~outside /\ ~fatal_error
  /\ fatal_error' = TRUE
  /\ UNCHANGED <<audioVars, ts, outside, ts_state, dispatcherVars, handlerVars,
                 threadsVars, clientVars, pipe, serverVars>>

-----------------------------------------------------------------------------
ClientGoesOn ==
  \/ LockStart \/ MakeMuxer \/ MakeExists \/ SetReady \/ OpenPipe \/ StartThread
  \/ Rewrite \/ SetRun \/ StartAttach \/ Register \/ StartFails \/ StartUndo
StopGoesOn(t) ==
  \/ LockStop(t) \/ StopDetach(t) \/ StopCallBack(t) \/ StopCalledBack(t)
  \/ StopJob(t) \/ StopJoin(t) \/ StopDelete(t)
CommuGoesOn ==
  \/ CommuTest \/ PollNothing \/ ReadCommand \/ CommuSetRunning \/ CommuAttach
  \/ CommuDetach \/ CommuCallBack \/ CommuCalledBack \/ CommuPause
InCall(c) == CallStep(c) /\ UNCHANGED liveVars

\* Somebody removes the muxer and calls back under the dispatcher's mutex,
\* which the capture thread wants while it has the mutex the callback wants.
LockCycle ==
  /\ mtx = Capture /\ list_mutex[Live] # Nobody
  /\ call[list_mutex[Live]] = "rm" /\ todo = {Live}

\* The client has had its transfers and the server has sent its commands.
AtBounds ==
  /\ starts = MaxStarts /\ sent = MaxCommands /\ ~WIFI_TRANSFER_FLAG
  /\ pc = "none" /\ commu = "none" /\ at[Client] = "idle" /\ call[Client] = "idle"

Next ==
  \/ /\ ~crashed
     /\ \/ StartTransfer \/ ClientGoesOn \/ StopTransfer \/ StopOnError
        \/ \E t \in {Client, Camera} : StopGoesOn(t)
        \/ CommuGoesOn \/ SendCommand \/ MuxerFails
        \/ \E c \in Callers : InCall(c)
        \/ CaptureStep /\ UNCHANGED liveVars
        \/ CaptureFails /\ UNCHANGED liveVars
  \/ (crashed \/ LockCycle \/ AtBounds) /\ UNCHANGED vars

Spec == Init /\ [][Next]_vars

\* Every thread goes on, and somebody who waits for the handler's mtx_ gets it
\* if it is free again and again: the capture thread sleeps without it.
Fairness ==
  /\ WF_vars(~crashed /\ (ClientGoesOn \/ StopGoesOn(Client)))
  /\ WF_vars(~crashed /\ StopGoesOn(Camera))
  /\ WF_vars(~crashed /\ CommuGoesOn)
  /\ SF_vars(~crashed /\ \E c \in Callers : InCall(c))
  /\ WF_vars(~crashed /\ CaptureStep /\ UNCHANGED liveVars)
FairSpec == Spec /\ Fairness

-----------------------------------------------------------------------------
(* Properties.                                                             *)

ClientRests == at[Client] = "idle" /\ call[Client] = "idle"
Rests == ClientRests /\ at[Camera] = "idle" /\ commu \in {"none", "test"}

\* Between two calls and two commands, the muxer gets packets exactly if the
\* stream runs, once, and without a muxer nothing runs.
AttachedIfRunning ==
  Rests /\ ~crashed =>
    IF ts THEN attached = (IF live_state = "RUN" THEN 1 ELSE 0)
    ELSE attached = 0 /\ live_state \in {"NONE", "READY", "RERUN"} /\ ~valid /\ ~commu_fd

\* The server's last command is obeyed, also by a transfer that was started
\* after it, unless it was read together with another one, or a stream that the
\* server has no part in ran in between.
Obeys ==
  Rests /\ commu = "test" /\ pipe = <<>> /\ ~missed /\ ~crashed =>
    (live_state = "RUN" <=> wanted = "START")

\* Without a transfer the microphone does not serve the live stream.
NoAudioAfterStop ==
  ClientRests /\ ~WIFI_TRANSFER_FLAG => listed[Live] = 0

\* A thread that stops the transfer comes back.
StopReturns ==
  \A t \in {Client, Camera} :
    at[t] = "stoplock" ~> at[t] = "idle" \/ crashed \/ LockCycle

\* dispatcher.h: "virtual ~Dispatcher() { assert(handlers.size() == 0); }":
\* a muxer leaves the dispatcher before it is deleted.
NoStale == stale = 0
=============================================================================
