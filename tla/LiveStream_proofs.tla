------------------------- MODULE LiveStream_proofs -------------------------
(***************************************************************************)
(* Three properties of the live stream, whatever the number of transfers   *)
(* and of commands: the muxer is attached exactly while the stream runs,   *)
(* the server's last command is obeyed, and the microphone is given back.  *)
(*                                                                         *)
(* The invariants follow the muxer through its life: there is none; the    *)
(* client prepares it under mtx_; it runs; somebody has detached it, under *)
(* mtx_, and the command thread may attach it once more before it is       *)
(* joined.                                                                 *)
(***************************************************************************)
EXTENDS LiveStream, TLAPS

Stoppers == {Client, Camera}
Preparing == {"setready", "open", "thread", "setrun", "attach", "fail"}
Detaching == {"callback", "removing", "stopjob", "join", "delete"}
Starting == Preparing \cup {"make", "rewrite"}
Stopping == Detaching \cup {"detach"}
Asleep == {"NONE", "READY", "RERUN"}
Awake == {"READY", "RERUN", "PAUSE", "RUN"}
CommuPlaces == {"none", "test", "poll", "running", "attach", "detach", "callback",
                "removing", "pausing", "ended"}

LiveType ==
  /\ live_state \in Asleep \cup Awake
  /\ at \in [Stoppers -> Starting \cup Stopping
                           \cup {"idle", "adding", "register", "undo", "stoplock"}]
  /\ at[Camera] \in Stopping \cup {"idle", "stoplock"}
  /\ commu \in CommuPlaces /\ attached \in Nat
  /\ outside \in BOOLEAN /\ valid \in BOOLEAN /\ commu_fd \in BOOLEAN /\ ts \in BOOLEAN

\* One of them at a time prepares, stops or deletes the muxer.
Locked == \A t \in Stoppers : at[t] \in Starting \cup Stopping => live_mtx = t

NoMuxer ==
  ~ts => attached = 0 /\ live_state \in Asleep /\ ~valid /\ ~commu_fd /\ commu = "none"

Prepared ==
  LET p == at[Client] IN
  p \in Preparing =>
    /\ ts /\ attached = 0 /\ commu = "none"
    /\ p \in {"setready", "fail"} => live_state \in Asleep
    /\ p = "setready" => ~valid /\ ~commu_fd
    /\ p \in {"open", "thread"} => outside
    /\ p \in {"setrun", "attach"} => ~outside
    /\ p \in {"open", "thread", "setrun"} => live_state \in {"READY", "RERUN"}
    /\ p \in {"open", "thread"} => (rerun <=> live_state = "RERUN")
    /\ p = "attach" => live_state = "RUN"
    /\ p \in {"open", "thread", "setrun", "attach"} => valid
    /\ p = "thread" => commu_fd

\* A stream of the server is attached by the command thread, another by the client.
Detached == \E t \in Stoppers : at[t] \in Detaching
Serving ==
  ts /\ at[Client] \notin Preparing /\ ~Detached =>
    /\ valid
    /\ outside => /\ commu_fd /\ commu \notin {"none", "ended"} /\ live_state \in Awake
                  /\ commu \in {"test", "poll", "detach"} =>
                       attached = IF live_state = "RUN" THEN 1 ELSE 0
                  /\ commu \in {"running", "attach"} => live_state = "RUN" /\ attached = 0
                  /\ commu \in {"callback", "removing", "pausing"} => attached = 0
    /\ ~outside => commu = "none" /\ live_state = "RUN" /\ attached = 1

Ending ==
  \A t \in Stoppers : at[t] \in Stopping =>
    /\ ts
    /\ at[t] \in Detaching /\ outside => live_state \in Awake
    /\ at[t] \in Detaching /\ ~outside => commu = "none" /\ live_state \in {"RUN", "PAUSE"}
    /\ at[t] \in {"join", "delete"} /\ ~outside => live_state = "PAUSE"
    /\ at[t] \in {"callback", "removing", "stopjob"} =>
         valid /\ (outside => commu_fd /\ commu \notin {"none", "ended"})
    /\ at[t] \in {"join", "delete"} => ~valid /\ ~commu_fd
    /\ at[t] = "join" /\ outside => commu # "none"
    /\ at[t] = "delete" => commu = "none"

LiveInv == LiveType /\ Locked /\ NoMuxer /\ Prepared /\ Serving /\ Ending

-----------------------------------------------------------------------------
\* Between reading and pausing the stream is what the command said.
CommandType ==
  /\ pipe \in Seq({"START", "STOP"}) /\ wanted \in {"START", "STOP"}
  /\ missed \in BOOLEAN /\ rerun \in BOOLEAN
Seen == pipe = <<>> /\ ~missed
Marked ==
  ~ts \/ at[Client] \in Preparing \ {"attach"} =>
    (Seen /\ wanted = "START" => live_state = "RERUN")
NotServers == ts /\ ~outside /\ at[Client] \notin Preparing \ {"attach"} => (Seen => wanted = "STOP")
Followed ==
  ts /\ outside /\ at[Client] \notin Preparing /\ ~(at[Client] = "rewrite" /\ rerun) /\ Seen =>
    /\ commu \in {"none", "test", "poll", "ended"} => (live_state = "RUN" <=> wanted = "START")
    /\ commu \in {"running", "attach"} => wanted = "START" /\ live_state = "RUN"
    /\ commu \in {"detach", "callback", "removing", "pausing"} => wanted = "STOP"
ObeyInv == CommandType /\ Marked /\ NotServers /\ Followed

-----------------------------------------------------------------------------
Adders == {"add", "adding", "init", "create", "enable", "settid", "insert"}
Removers == {"rm", "removing"}
CallType ==
  /\ call \in [Callers -> Adders \cup Removers \cup {"idle", "deinit", "join", "free"}]
  /\ arg \in [Callers -> {Live, Nobody}] /\ listed \in [Listeners -> {0, 1}]
  /\ WIFI_TRANSFER_FLAG \in BOOLEAN
  /\ \A c \in Callers : call[c] # "idle" => arg[c] = Live
OnlyClientAdds ==
  \A c \in Callers : call[c] \in Adders => c = Client /\ at[Client] = "adding" /\ listed[Live] = 0
Leaves == \/ at[Client] = "idle" /\ ~WIFI_TRANSFER_FLAG
          \/ at[Client] \in Stopping \cup {"stoplock"}
GivenBack == Leaves => listed[Live] = 0 \/ call[Client] \in Removers
MicInv == CallType /\ OnlyClientAdds /\ GivenBack


-----------------------------------------------------------------------------
(* The muxer and the stream.                                               *)

\* What LiveState::SetState does, request by request.
LEMMA ReadyState ==
  SetState("READY") => live_state' = IF live_state = "NONE" THEN "READY" ELSE live_state
  BY DEF SetState
LEMMA RunState ==
  SetState("RUN") => live_state' = IF live_state \in Runnable THEN "RUN" ELSE live_state
  BY DEF SetState
LEMMA PauseState ==
  SetState("PAUSE") => live_state' = IF live_state = "RUN" THEN "PAUSE" ELSE live_state
  BY DEF SetState
LEMMA NoneState ==
  SetState("NONE") =>
    live_state' = IF live_state = "PAUSE" THEN "NONE"
                  ELSE IF live_state = "RUN" THEN "RERUN" ELSE live_state
  BY DEF SetState, AfterNone

\* Whoever has the handler's mutex is alone with the muxer.
LEMMA Alone ==
  ASSUME LiveInv, NEW t \in Stoppers
  PROVE  /\ at[t] \in Starting \cup Stopping =>
              \A u \in Stoppers : u # t => at[u] \notin Starting \cup Stopping
         /\ live_mtx = Nobody => at[t] \notin Starting \cup Stopping
  BY LiveAssumption, AudioAssumption DEF LiveInv, Locked, LiveAssumption, AudioAssumption, Stoppers

\* One thread goes on.
LEMMA Goes ==
  ASSUME LiveInv, NEW t \in Stoppers, NEW p, Goto(t, p)
  PROVE  at'[t] = p /\ \A u \in Stoppers : u # t => at'[u] = at[u]
  BY DEF LiveInv, LiveType, Goto

LEMMA ClientLive ==
  ASSUME LiveInv, ClientGoesOn \/ StartTransfer \/ StopTransfer
  PROVE  LiveInv'
<1> USE LiveAssumption DEF LiveAssumption
<1>0. /\ Client \in Stoppers /\ Camera \in Stoppers /\ Stoppers = {Client, Camera}
      /\ at[Camera] \in {"idle", "stoplock"} \cup Stopping
      /\ at[Client] \in Starting \cup Stopping => at[Camera] \in {"idle", "stoplock"}
      /\ live_mtx = Nobody =>
           /\ at[Camera] \in {"idle", "stoplock"}
           /\ at[Client] \notin Starting \cup Stopping
  BY Alone DEF Stoppers, LiveInv, LiveType
<1> USE DEF LiveInv, LiveType, Locked, NoMuxer, Prepared, Serving, Ending, Starting, Stopping,
      Preparing, Detaching, Detached, Asleep, Awake
<1>1. CASE StartTransfer \/ StopTransfer \/ Register \/ StartUndo
  <2>1. /\ UNCHANGED <<ts, outside, live_state, live_mtx, valid, commu_fd, commu, rerun, attached>>
        /\ at'[Camera] = at[Camera]
        /\ at[Client] \in {"idle", "register", "undo"}
        /\ at'[Client] \in {"idle", "adding", "stoplock"}
    BY <1>0, <1>1, Goes DEF StartTransfer, StopTransfer, Register, StartUndo, muxerVars,
       dispatcherVars, handlerVars
  <2>2. at' \in [Stoppers -> Starting \cup Stopping
                           \cup {"idle", "adding", "register", "undo", "stoplock"}]
    BY <1>1 DEF StartTransfer, StopTransfer, Register, StartUndo, Goto
  <2> QED BY <1>0, <2>1, <2>2

<1>2. CASE LockStart
  <2>1. /\ UNCHANGED <<ts, outside, live_state, valid, commu_fd, commu, rerun, attached>>
        /\ at'[Camera] = at[Camera]
        /\ live_mtx = Nobody /\ live_mtx' = Client
        /\ at[Client] = "adding" /\ at'[Client] = "make"
    BY <1>0, <1>2, Goes DEF LockStart, muxerVars, dispatcherVars, handlerVars
  <2>2. at' \in [Stoppers -> Starting \cup Stopping
                           \cup {"idle", "adding", "register", "undo", "stoplock"}]
    BY <1>2 DEF LockStart, Goto
  <2> QED BY <1>0, <2>1, <2>2
<1>3. CASE MakeMuxer
  <2>1. /\ UNCHANGED <<live_state, live_mtx, valid, commu_fd, commu, rerun, attached>>
        /\ at'[Camera] = at[Camera]
        /\ ~ts /\ ts' = TRUE /\ outside' \in BOOLEAN
        /\ at[Client] = "make" /\ at'[Client] \in {"setready", "fail"}
    BY <1>0, <1>3, Goes DEF MakeMuxer, muxerVars, dispatcherVars, handlerVars
  <2>2. at' \in [Stoppers -> Starting \cup Stopping
                           \cup {"idle", "adding", "register", "undo", "stoplock"}]
    BY <1>3 DEF MakeMuxer, Goto
  <2> QED BY <1>0, <2>1, <2>2
<1>4. CASE MakeExists
  <2>1. /\ UNCHANGED <<ts, outside, live_state, valid, commu_fd, commu, rerun, attached>>
        /\ at'[Camera] = at[Camera]
        /\ ts /\ live_mtx' = Nobody
        /\ at[Client] = "make" /\ at'[Client] = "undo"
    BY <1>0, <1>4, Goes DEF MakeExists, muxerVars, dispatcherVars, handlerVars
  <2>2. at' \in [Stoppers -> Starting \cup Stopping
                           \cup {"idle", "adding", "register", "undo", "stoplock"}]
    BY <1>4 DEF MakeExists, Goto
  <2> QED BY <1>0, <2>1, <2>2
<1>5. CASE SetReady
  <2>1. /\ UNCHANGED <<ts, outside, live_mtx, commu_fd, commu, attached>>
        /\ at'[Camera] = at[Camera]
        /\ valid' = TRUE /\ rerun' = (live_state = "RERUN")
        /\ live_state' = IF live_state = "NONE" THEN "READY" ELSE live_state
        /\ at[Client] = "setready" /\ at'[Client] = IF outside THEN "open" ELSE "setrun"
    BY <1>0, <1>5, Goes, ReadyState DEF SetReady, muxerVars, dispatcherVars, handlerVars
  <2>2. at' \in [Stoppers -> Starting \cup Stopping
                           \cup {"idle", "adding", "register", "undo", "stoplock"}]
    BY <1>5 DEF SetReady, Goto
  <2> QED BY <1>0, <2>1, <2>2
<1>6. CASE OpenPipe
  <2>1. /\ UNCHANGED <<ts, outside, live_state, live_mtx, valid, commu, rerun, attached>>
        /\ at'[Camera] = at[Camera]
        /\ at[Client] = "open"
        /\ (commu_fd' = TRUE /\ at'[Client] = "thread") \/ (commu_fd' = commu_fd /\ at'[Client] = "fail")
    BY <1>0, <1>6, Goes DEF OpenPipe, muxerVars, dispatcherVars, handlerVars
  <2>2. at' \in [Stoppers -> Starting \cup Stopping
                           \cup {"idle", "adding", "register", "undo", "stoplock"}]
    BY <1>6 DEF OpenPipe, Goto
  <2> QED BY <1>0, <2>1, <2>2
<1>7. CASE StartThread
  <2>1. /\ UNCHANGED <<ts, outside, live_state, live_mtx, valid, commu_fd, rerun, attached>>
        /\ at'[Camera] = at[Camera]
        /\ at[Client] = "thread"
        /\ (commu' = "test" /\ at'[Client] = "rewrite") \/ (commu' = commu /\ at'[Client] = "fail")
    BY <1>0, <1>7, Goes DEF StartThread, muxerVars, dispatcherVars, handlerVars
  <2>2. at' \in [Stoppers -> Starting \cup Stopping
                           \cup {"idle", "adding", "register", "undo", "stoplock"}]
    BY <1>7 DEF StartThread, Goto
  <2> QED BY <1>0, <2>1, <2>2 DEF CommuPlaces
<1>8. CASE Rewrite
  <2>1. /\ UNCHANGED <<ts, outside, live_state, valid, commu_fd, commu, rerun, attached>>
        /\ at'[Camera] = at[Camera]
        /\ live_mtx' = Nobody
        /\ at[Client] = "rewrite" /\ at'[Client] = "register"
    BY <1>0, <1>8, Goes DEF Rewrite, muxerVars, dispatcherVars, handlerVars
  <2>2. at' \in [Stoppers -> Starting \cup Stopping
                           \cup {"idle", "adding", "register", "undo", "stoplock"}]
    BY <1>8 DEF Rewrite, Goto
  <2> QED BY <1>0, <2>1, <2>2
<1>9. CASE SetRun
  <2>1. /\ UNCHANGED <<ts, outside, live_mtx, valid, commu_fd, commu, rerun, attached>>
        /\ at'[Camera] = at[Camera]
        /\ live_state' = IF live_state \in Runnable THEN "RUN" ELSE live_state
        /\ at[Client] = "setrun" /\ at'[Client] = "attach"
    BY <1>0, <1>9, Goes, RunState DEF SetRun, muxerVars, dispatcherVars, handlerVars
  <2>2. at' \in [Stoppers -> Starting \cup Stopping
                           \cup {"idle", "adding", "register", "undo", "stoplock"}]
    BY <1>9 DEF SetRun, Goto
  <2> QED BY <1>0, <2>1, <2>2 DEF Runnable
<1>10. CASE StartAttach
  <2>1. /\ UNCHANGED <<ts, outside, live_state, valid, commu_fd, commu, rerun>>
        /\ at'[Camera] = at[Camera]
        /\ live_mtx' = Nobody /\ attached' = attached + 1
        /\ at[Client] = "attach" /\ at'[Client] = "register"
    BY <1>0, <1>10, Goes DEF StartAttach, muxerVars, dispatcherVars, handlerVars, AddHandler
  <2>2. at' \in [Stoppers -> Starting \cup Stopping
                           \cup {"idle", "adding", "register", "undo", "stoplock"}]
    BY <1>10 DEF StartAttach, Goto
  <2> QED BY <1>0, <2>1, <2>2
<1>11. CASE StartFails
  <2>1. /\ UNCHANGED <<outside, commu, rerun, attached>>
        /\ at'[Camera] = at[Camera]
        /\ ts' = FALSE /\ commu_fd' = FALSE /\ valid' = FALSE /\ live_mtx' = Nobody
        /\ live_state' = IF live_state = "PAUSE" THEN "NONE"
                         ELSE IF live_state = "RUN" THEN "RERUN" ELSE live_state
        /\ at[Client] = "fail" /\ at'[Client] = "undo"
    BY <1>0, <1>11, Goes, NoneState DEF StartFails, muxerVars, dispatcherVars, handlerVars
  <2>2. at' \in [Stoppers -> Starting \cup Stopping
                           \cup {"idle", "adding", "register", "undo", "stoplock"}]
    BY <1>11 DEF StartFails, Goto
  <2> QED BY <1>0, <2>1, <2>2
<1> QED BY <1>1, <1>2, <1>3, <1>4, <1>5, <1>6, <1>7, <1>8, <1>9, <1>10, <1>11 DEF ClientGoesOn

LEMMA StopperLive ==
  ASSUME LiveInv, NEW t \in Stoppers, StopGoesOn(t)
  PROVE  LiveInv'
<1> USE LiveAssumption DEF LiveAssumption
<1> DEFINE u == IF t = Client THEN Camera ELSE Client
<1>0. /\ Client \in Stoppers /\ Camera \in Stoppers /\ Stoppers = {t, u} /\ u # t /\ u \in Stoppers
      /\ Client = t \/ Client = u
      /\ Camera = t \/ Camera = u
      /\ at[Camera] \in {"idle", "stoplock"} \cup Stopping
      /\ at[t] \in Starting \cup Stopping => at[u] \notin Starting \cup Stopping
      /\ live_mtx = Nobody => /\ at[u] \notin Starting \cup Stopping
                              /\ at[t] \notin Starting \cup Stopping
  BY Alone DEF Stoppers, LiveInv, LiveType
<1> HIDE DEF u
<1> USE DEF LiveInv, LiveType, Locked, NoMuxer, Prepared, Serving, Ending, Starting, Stopping,
      Preparing, Detaching, Detached, Asleep, Awake
<1>1. CASE LockStop(t)
  <2>1. /\ UNCHANGED <<ts, outside, live_state, valid, commu_fd, commu, rerun, attached>>
        /\ at'[u] = at[u]
        /\ live_mtx = Nobody /\ at[t] = "stoplock"
        /\ (ts /\ live_mtx' = t /\ at'[t] = "detach") \/ (~ts /\ live_mtx' = live_mtx /\ at'[t] = "idle")
    BY <1>0, <1>1, Goes DEF LockStop, muxerVars, dispatcherVars, handlerVars
  <2>2. at' \in [Stoppers -> Starting \cup Stopping
                           \cup {"idle", "adding", "register", "undo", "stoplock"}]
    BY <1>1 DEF LockStop, Goto
  <2> QED BY <1>0, <2>1, <2>2 DEF CommuPlaces
<1>2. CASE StopDetach(t)
  <2>1. /\ UNCHANGED <<ts, outside, live_state, live_mtx, valid, commu_fd, commu, rerun>>
        /\ at'[u] = at[u]
        /\ attached' = 0
        /\ at[t] = "detach" /\ at'[t] \in {"callback", "stopjob"}
    BY <1>0, <1>2, Goes DEF StopDetach, muxerVars, dispatcherVars, handlerVars, RemoveHandler
  <2>2. at' \in [Stoppers -> Starting \cup Stopping
                           \cup {"idle", "adding", "register", "undo", "stoplock"}]
    BY <1>2 DEF StopDetach, Goto
  <2> QED BY <1>0, <2>1, <2>2 DEF CommuPlaces
<1>3. CASE StopCallBack(t)
  <2>1. /\ UNCHANGED <<ts, outside, live_state, live_mtx, valid, commu_fd, commu, rerun, attached>>
        /\ at'[u] = at[u]
        /\ at[t] = "callback" /\ at'[t] = "removing"
    BY <1>0, <1>3, Goes DEF StopCallBack, muxerVars, dispatcherVars, handlerVars
  <2>2. at' \in [Stoppers -> Starting \cup Stopping
                           \cup {"idle", "adding", "register", "undo", "stoplock"}]
    BY <1>3 DEF StopCallBack, Goto
  <2> QED BY <1>0, <2>1, <2>2 DEF CommuPlaces
<1>4. CASE StopCalledBack(t)
  <2>1. /\ UNCHANGED <<ts, outside, live_state, live_mtx, valid, commu_fd, commu, rerun, attached>>
        /\ at'[u] = at[u]
        /\ at[t] = "removing" /\ at'[t] = "stopjob"
    BY <1>0, <1>4, Goes DEF StopCalledBack, muxerVars, dispatcherVars, handlerVars, CallBackDone
  <2>2. at' \in [Stoppers -> Starting \cup Stopping
                           \cup {"idle", "adding", "register", "undo", "stoplock"}]
    BY <1>4 DEF StopCalledBack, Goto
  <2> QED BY <1>0, <2>1, <2>2 DEF CommuPlaces
<1>5. CASE StopJob(t)
  <2>1. /\ UNCHANGED <<ts, outside, live_mtx, commu, rerun, attached>>
        /\ at'[u] = at[u]
        /\ commu_fd' = FALSE /\ valid' = FALSE
        /\ live_state' = IF live_state = "RUN" /\ ~outside THEN "PAUSE" ELSE live_state
        /\ at[t] = "stopjob" /\ at'[t] = "join"
    BY <1>0, <1>5, Goes, PauseState DEF StopJob, muxerVars, dispatcherVars, handlerVars, ValidAfterStop
  <2>2. at' \in [Stoppers -> Starting \cup Stopping
                           \cup {"idle", "adding", "register", "undo", "stoplock"}]
    BY <1>5 DEF StopJob, Goto
  <2> QED BY <1>0, <2>1, <2>2 DEF CommuPlaces
<1>6. CASE StopJoin(t)
  <2>1. /\ UNCHANGED <<ts, outside, live_state, live_mtx, valid, commu_fd, rerun, attached>>
        /\ at'[u] = at[u]
        /\ commu \in {"none", "ended"} /\ commu' = "none"
        /\ at[t] = "join" /\ at'[t] = "delete"
    BY <1>0, <1>6, Goes DEF StopJoin, muxerVars, dispatcherVars, handlerVars, Joined
  <2>2. at' \in [Stoppers -> Starting \cup Stopping
                           \cup {"idle", "adding", "register", "undo", "stoplock"}]
    BY <1>6 DEF StopJoin, Goto
  <2> QED BY <1>0, <2>1, <2>2 DEF CommuPlaces
<1>7. CASE StopDelete(t)
  <2>1. /\ UNCHANGED <<outside, valid, commu_fd, commu, rerun>>
        /\ at'[u] = at[u]
        /\ ts' = FALSE /\ attached' = 0 /\ live_mtx' = Nobody
        /\ live_state' = IF live_state = "PAUSE" THEN "NONE"
                         ELSE IF live_state = "RUN" THEN "RERUN" ELSE live_state
        /\ at[t] = "delete" /\ at'[t] = "idle"
    BY <1>0, <1>7, Goes, NoneState DEF StopDelete, muxerVars, dispatcherVars, handlerVars
  <2>2. at' \in [Stoppers -> Starting \cup Stopping
                           \cup {"idle", "adding", "register", "undo", "stoplock"}]
    BY <1>7 DEF StopDelete, Goto
  <2> QED BY <1>0, <2>1, <2>2 DEF CommuPlaces
<1> QED BY <1>1, <1>2, <1>3, <1>4, <1>5, <1>6, <1>7 DEF StopGoesOn

LEMMA CommuLive ==
  ASSUME LiveInv, CommuGoesOn
  PROVE  LiveInv'
<1> USE LiveAssumption DEF LiveAssumption
<1>0. /\ UNCHANGED <<ts, outside, at, live_mtx, valid, commu_fd, rerun>>
      /\ Stoppers = {Client, Camera}
      /\ commu \notin {"none", "ended"}
  <2>1. CASE CommuTest \/ PollNothing \/ ReadCommand \/ CommuSetRunning \/ CommuAttach
    BY <2>1 DEF CommuTest, PollNothing, ReadCommand, CommuSetRunning, CommuAttach, muxerVars,
       handlerVars, Stoppers
  <2>2. CASE CommuDetach \/ CommuCallBack \/ CommuCalledBack \/ CommuPause
    BY <2>2 DEF CommuDetach, CommuCallBack, CommuCalledBack, CommuPause, muxerVars, handlerVars,
       Stoppers
  <2> QED BY <2>1, <2>2 DEF CommuGoesOn
<1> USE DEF LiveInv, LiveType, Locked, NoMuxer, Prepared, Serving, Ending, Starting, Stopping,
      Preparing, Detaching, Detached, Asleep, Awake
<1>1. CASE CommuTest \/ PollNothing
  <2>1. /\ UNCHANGED <<live_state, attached>>
        /\ (commu = "test" /\ commu' = IF valid THEN "poll" ELSE "ended")
           \/ (commu = "poll" /\ commu' = "test")
    BY <1>1 DEF CommuTest, PollNothing, CommuGoto, dispatcherVars, handlerVars
  <2> QED BY <1>0, <2>1 DEF CommuPlaces
<1>2. CASE ReadCommand
  <2>1. /\ attached' = attached /\ commu = "poll" /\ commu_fd
        /\ \/ /\ live_state' = IF live_state \in Runnable THEN "RUN" ELSE live_state
              /\ commu' = IF live_state \in Runnable THEN "running" ELSE "test"
           \/ live_state' = live_state /\ commu' = "detach"
    BY <1>2, RunState DEF ReadCommand, CommuGoto, dispatcherVars
  <2> QED BY <1>0, <2>1 DEF CommuPlaces, Runnable
<1>3. CASE CommuSetRunning
  <2>1. /\ UNCHANGED <<live_state, attached>>
        /\ commu = "running" /\ commu' = "attach"
    BY <1>3 DEF CommuSetRunning, CommuGoto, dispatcherVars, handlerVars
  <2> QED BY <1>0, <2>1 DEF CommuPlaces
<1>4. CASE CommuAttach
  <2>1. /\ live_state' = live_state /\ attached' = attached + 1
        /\ commu = "attach" /\ commu' = "test"
    BY <1>4 DEF CommuAttach, CommuGoto, dispatcherVars, handlerVars, AddHandler
  <2> QED BY <1>0, <2>1 DEF CommuPlaces
<1>5. CASE CommuDetach
  <2>1. /\ live_state' = live_state /\ attached' = 0
        /\ commu = "detach" /\ commu' \in {"callback", "pausing"}
    BY <1>5 DEF CommuDetach, CommuGoto, dispatcherVars, handlerVars, RemoveHandler
  <2> QED BY <1>0, <2>1 DEF CommuPlaces
<1>6. CASE CommuCallBack
  <2>1. /\ UNCHANGED <<live_state, attached>>
        /\ commu = "callback" /\ commu' = "removing"
    BY <1>6 DEF CommuCallBack, CommuGoto, dispatcherVars, handlerVars
  <2> QED BY <1>0, <2>1 DEF CommuPlaces
<1>7. CASE CommuCalledBack
  <2>1. /\ UNCHANGED <<live_state, attached>>
        /\ commu = "removing" /\ commu' = "pausing"
    BY <1>7 DEF CommuCalledBack, CommuGoto, dispatcherVars, handlerVars, CallBackDone
  <2> QED BY <1>0, <2>1 DEF CommuPlaces
<1>8. CASE CommuPause
  <2>1. /\ attached' = attached
        /\ live_state' = IF live_state = "RUN" THEN "PAUSE" ELSE live_state
        /\ commu = "pausing" /\ commu' = "test"
    BY <1>8, PauseState DEF CommuPause, CommuGoto, dispatcherVars, handlerVars
  <2> QED BY <1>0, <2>1 DEF CommuPlaces
<1> QED BY <1>1, <1>2, <1>3, <1>4, <1>5, <1>6, <1>7, <1>8 DEF CommuGoesOn


\* The microphone, the server and the network do not touch the muxer.
LEMMA OthersLive ==
  ASSUME LiveInv,
         \/ StopOnError \/ SendCommand \/ MuxerFails \/ UNCHANGED vars
         \/ \E c \in Callers : InCall(c)
         \/ (CaptureStep \/ CaptureFails) /\ UNCHANGED liveVars
  PROVE  LiveInv'
<1> USE LiveAssumption DEF LiveAssumption
<1> USE DEF LiveInv, LiveType, Locked, NoMuxer, Prepared, Serving, Ending, Starting, Stopping,
      Preparing, Detaching, Detached
<1>1. CASE StopOnError
  <2>1. /\ UNCHANGED <<ts, outside, live_state, live_mtx, valid, commu_fd, commu, rerun, attached>>
        /\ at'[Client] = at[Client]
        /\ at[Camera] = "idle" /\ at'[Camera] = "stoplock"
        /\ Stoppers = {Client, Camera}
    BY <1>1, Goes DEF StopOnError, muxerVars, dispatcherVars, handlerVars, Stoppers
  <2>2. at' \in [Stoppers -> Starting \cup Stopping
                           \cup {"idle", "adding", "register", "undo", "stoplock"}]
    BY <1>1 DEF StopOnError, Goto
  <2> QED BY <2>1, <2>2
<1>2. ASSUME ~StopOnError
      PROVE  UNCHANGED <<ts, outside, live_state, live_mtx, valid, commu_fd, commu, rerun, attached, at>>
  BY <1>2 DEF SendCommand, MuxerFails, InCall, liveVars, vars, muxerVars, dispatcherVars,
     handlerVars, threadsVars
<1>3. CASE ~StopOnError
  BY <1>2, <1>3
<1> QED BY <1>1, <1>3

LEMMA LiveStep == LiveInv /\ [Next]_vars => LiveInv'
<1> SUFFICES ASSUME LiveInv, [Next]_vars PROVE LiveInv'
  OBVIOUS
<1>1. CASE ClientGoesOn \/ StartTransfer \/ StopTransfer
  BY <1>1, ClientLive
<1>2. CASE \E t \in Stoppers : StopGoesOn(t)
  BY <1>2, StopperLive
<1>3. CASE CommuGoesOn
  BY <1>3, CommuLive
<1>4. CASE \/ StopOnError \/ SendCommand \/ MuxerFails \/ UNCHANGED vars
           \/ \E c \in Callers : InCall(c)
           \/ (CaptureStep \/ CaptureFails) /\ UNCHANGED liveVars
  BY <1>4, OthersLive
<1> QED BY <1>1, <1>2, <1>3, <1>4 DEF Next, Stoppers

LEMMA LiveInit == Init => LiveInv
<1> SUFFICES ASSUME Init PROVE LiveInv
  OBVIOUS
<1>1. /\ at \in [Stoppers -> {"idle"}] /\ at[Client] = "idle" /\ at[Camera] = "idle"
      /\ ~ts /\ ~outside /\ ~valid /\ ~commu_fd /\ attached = 0 /\ commu = "none" /\ live_state = "NONE"
  BY DEF Init, Stoppers
<1>2. \A t \in Stoppers : at[t] = "idle"
  BY <1>1
<1>3. LiveType
  <2>1. at \in [Stoppers -> Starting \cup Stopping \cup {"idle", "adding", "register", "undo", "stoplock"}]
    BY <1>1
  <2>2. outside \in BOOLEAN /\ valid \in BOOLEAN /\ commu_fd \in BOOLEAN /\ ts \in BOOLEAN
    BY DEF Init
  <2> QED BY <1>1, <2>1, <2>2 DEF LiveType, CommuPlaces, Asleep
<1>4. Locked /\ Ending
  BY <1>2 DEF Locked, Ending, Starting, Stopping, Preparing, Detaching
<1>5. NoMuxer /\ Prepared /\ Serving
  BY <1>1 DEF NoMuxer, Prepared, Serving, Preparing, Asleep
<1> QED BY <1>3, <1>4, <1>5 DEF LiveInv

LEMMA LiveAlways == Spec => []LiveInv
  BY LiveInit, LiveStep, PTL DEF Spec

\* Between two calls and two commands the muxer gets packets exactly if the stream
\* runs, once, and without a muxer nothing runs.
THEOREM AttachedCorrect == Spec => []AttachedIfRunning
<1>1. LiveInv => AttachedIfRunning
  BY LiveAssumption DEF LiveAssumption, LiveInv, LiveType, NoMuxer, Serving, AttachedIfRunning, Rests,
     ClientRests, Detached, Detaching, Preparing, Asleep, Awake, Stoppers
<1> QED BY <1>1, LiveAlways, PTL

-----------------------------------------------------------------------------
(* The server's commands.                                                  *)

LEMMA ClientObeys ==
  ASSUME LiveInv, ObeyInv, ClientGoesOn \/ StartTransfer \/ StopTransfer
  PROVE  ObeyInv'
<1> USE LiveAssumption DEF LiveAssumption
<1>0. Client \in Stoppers
  BY DEF Stoppers
<1> USE DEF LiveInv, LiveType, NoMuxer, Prepared, Starting, Stopping,
      Preparing, Detaching, Asleep, Awake, ObeyInv, CommandType, Seen, Marked, NotServers, Followed
<1>1. CASE StartTransfer \/ StopTransfer \/ Register \/ StartUndo
  <2>1. /\ UNCHANGED <<ts, outside, live_state, commu, rerun, pipe, wanted, missed>>
        /\ at[Client] \in {"idle", "register", "undo"}
        /\ at'[Client] \in {"idle", "adding", "stoplock"}
    BY <1>0, <1>1, Goes DEF StartTransfer, StopTransfer, Register, StartUndo, handlerVars,
       muxerVars, serverVars, clientVars
  <2> QED BY <2>1
<1>2. CASE LockStart
  <2>1. /\ UNCHANGED <<ts, outside, live_state, commu, rerun, pipe, wanted, missed>>
        /\ at[Client] = "adding" /\ at'[Client] = "make"
    BY <1>0, <1>2, Goes DEF LockStart, muxerVars, dispatcherVars,
       handlerVars, serverVars, clientVars
  <2> QED BY <1>0, <2>1
<1>3. CASE MakeMuxer
  <2>1. /\ UNCHANGED <<live_state, commu, rerun, pipe, wanted, missed>>
        /\ ~ts /\ ts' = TRUE /\ outside' \in BOOLEAN
        /\ at[Client] = "make" /\ at'[Client] \in {"setready", "fail"}
    BY <1>0, <1>3, Goes DEF MakeMuxer, muxerVars, dispatcherVars,
       handlerVars, serverVars, clientVars
  <2> QED BY <1>0, <2>1
<1>4. CASE MakeExists
  <2>1. /\ UNCHANGED <<ts, outside, live_state, commu, rerun, pipe, wanted, missed>>
        /\ ts
        /\ at[Client] = "make" /\ at'[Client] = "undo"
    BY <1>0, <1>4, Goes DEF MakeExists, muxerVars, dispatcherVars,
       handlerVars, serverVars, clientVars
  <2> QED BY <1>0, <2>1
<1>5. CASE SetReady
  <2>1. /\ UNCHANGED <<ts, outside, commu, pipe, wanted, missed>>
        /\ rerun' = (live_state = "RERUN")
        /\ live_state' = IF live_state = "NONE" THEN "READY" ELSE live_state
        /\ at[Client] = "setready" /\ at'[Client] = IF outside THEN "open" ELSE "setrun"
    BY <1>0, <1>5, Goes, ReadyState DEF SetReady, muxerVars, dispatcherVars,
       handlerVars, serverVars, clientVars
  <2> QED BY <1>0, <2>1
<1>6. CASE OpenPipe
  <2>1. /\ UNCHANGED <<ts, outside, live_state, commu, rerun, pipe, wanted, missed>>
        /\ at[Client] = "open" /\ at'[Client] \in {"thread", "fail"}
    BY <1>0, <1>6, Goes DEF OpenPipe, muxerVars, dispatcherVars,
       handlerVars, serverVars, clientVars
  <2> QED BY <1>0, <2>1
<1>7. CASE StartThread
  <2>1. /\ UNCHANGED <<ts, outside, live_state, rerun, pipe, wanted, missed>>
        /\ at[Client] = "thread"
        /\ (commu' = "test" /\ at'[Client] = "rewrite") \/ (commu' = commu /\ at'[Client] = "fail")
    BY <1>0, <1>7, Goes DEF StartThread, muxerVars, dispatcherVars,
       handlerVars, serverVars, clientVars
  <2> QED BY <1>0, <2>1
<1>8. CASE Rewrite
  <2>1. /\ UNCHANGED <<ts, outside, live_state, commu, rerun, wanted, missed>>
        /\ pipe' = IF rerun THEN Append(pipe, "START") ELSE pipe
        /\ at[Client] = "rewrite" /\ at'[Client] = "register"
    BY <1>0, <1>8, Goes DEF Rewrite, muxerVars, dispatcherVars,
       handlerVars, serverVars, clientVars, Rewrites
  <2> QED BY <1>0, <2>1
<1>9. CASE SetRun
  <2>1. /\ UNCHANGED <<ts, outside, commu, rerun, pipe, wanted>>
        /\ missed' = (missed \/ live_state = "RERUN")
        /\ live_state' = IF live_state \in Runnable THEN "RUN" ELSE live_state
        /\ at[Client] = "setrun" /\ at'[Client] = "attach"
    BY <1>0, <1>9, Goes, RunState DEF SetRun, muxerVars, dispatcherVars,
       handlerVars, serverVars, clientVars
  <2> QED BY <1>0, <2>1 DEF Runnable
<1>10. CASE StartAttach
  <2>1. /\ UNCHANGED <<ts, outside, live_state, commu, rerun, pipe, wanted, missed>>
        /\ at[Client] = "attach" /\ at'[Client] = "register"
    BY <1>0, <1>10, Goes DEF StartAttach, muxerVars, dispatcherVars,
       handlerVars, serverVars, clientVars, AddHandler
  <2> QED BY <1>0, <2>1
<1>11. CASE StartFails
  <2>1. /\ UNCHANGED <<outside, commu, rerun, pipe, wanted, missed>>
        /\ ts' = FALSE
        /\ live_state' = IF live_state = "PAUSE" THEN "NONE"
                         ELSE IF live_state = "RUN" THEN "RERUN" ELSE live_state
        /\ at[Client] = "fail" /\ at'[Client] = "undo"
    BY <1>0, <1>11, Goes, NoneState DEF StartFails, muxerVars, dispatcherVars,
       handlerVars, serverVars, clientVars
  <2> QED BY <1>0, <2>1
<1> QED BY <1>1, <1>2, <1>3, <1>4, <1>5, <1>6, <1>7, <1>8, <1>9, <1>10, <1>11 DEF ClientGoesOn

LEMMA StopperObeys ==
  ASSUME LiveInv, ObeyInv, NEW t \in Stoppers, StopGoesOn(t)
  PROVE  ObeyInv'
<1> USE LiveAssumption DEF LiveAssumption
<1>0. /\ Client \in Stoppers
      /\ at[t] \in Stopping => at[Client] \notin Starting \/ Client = t
  BY Alone DEF Stoppers
<1> USE DEF LiveInv, LiveType, NoMuxer, Ending, Starting, Stopping,
      Preparing, Detaching, Asleep, Awake, ObeyInv, CommandType, Seen, Marked, NotServers, Followed
<1>1. CASE LockStop(t)
  <2>1. /\ UNCHANGED <<ts, outside, live_state, commu, rerun, pipe, wanted, missed>>
        /\ Client # t => at'[Client] = at[Client]
        /\ at[t] = "stoplock" /\ at'[t] \in {"detach", "idle"}
    BY <1>0, <1>1, Goes DEF LockStop, muxerVars, dispatcherVars,
       handlerVars, serverVars
  <2> QED BY <1>0, <2>1
<1>2. CASE StopDetach(t)
  <2>1. /\ UNCHANGED <<ts, outside, live_state, commu, rerun, pipe, wanted, missed>>
        /\ Client # t => at'[Client] = at[Client]
        /\ at[t] = "detach" /\ at'[t] \in {"callback", "stopjob"}
    BY <1>0, <1>2, Goes DEF StopDetach, muxerVars, dispatcherVars,
       handlerVars, serverVars, RemoveHandler
  <2> QED BY <1>0, <2>1
<1>3. CASE StopCallBack(t)
  <2>1. /\ UNCHANGED <<ts, outside, live_state, commu, rerun, pipe, wanted, missed>>
        /\ Client # t => at'[Client] = at[Client]
        /\ at[t] = "callback" /\ at'[t] = "removing"
    BY <1>0, <1>3, Goes DEF StopCallBack, muxerVars, dispatcherVars,
       handlerVars, serverVars
  <2> QED BY <1>0, <2>1
<1>4. CASE StopCalledBack(t)
  <2>1. /\ UNCHANGED <<ts, outside, live_state, commu, rerun, pipe, wanted, missed>>
        /\ Client # t => at'[Client] = at[Client]
        /\ at[t] = "removing" /\ at'[t] = "stopjob"
    BY <1>0, <1>4, Goes DEF StopCalledBack, muxerVars, dispatcherVars,
       handlerVars, serverVars, CallBackDone
  <2> QED BY <1>0, <2>1
<1>5. CASE StopJob(t)
  <2>1. /\ UNCHANGED <<ts, outside, commu, rerun, pipe, wanted, missed>>
        /\ Client # t => at'[Client] = at[Client]
        /\ live_state' = IF live_state = "RUN" /\ ~outside THEN "PAUSE" ELSE live_state
        /\ at[t] = "stopjob" /\ at'[t] = "join"
    BY <1>0, <1>5, Goes, PauseState DEF StopJob, muxerVars, dispatcherVars,
       handlerVars, serverVars
  <2> QED BY <1>0, <2>1
<1>6. CASE StopJoin(t)
  <2>1. /\ UNCHANGED <<ts, outside, live_state, rerun, pipe, wanted, missed>>
        /\ Client # t => at'[Client] = at[Client]
        /\ commu \in {"none", "ended"} /\ commu' = "none"
        /\ at[t] = "join" /\ at'[t] = "delete"
    BY <1>0, <1>6, Goes DEF StopJoin, muxerVars, dispatcherVars,
       handlerVars, serverVars, Joined
  <2> QED BY <1>0, <2>1
<1>7. CASE StopDelete(t)
  <2>1. /\ UNCHANGED <<outside, commu, rerun, pipe, wanted, missed>>
        /\ Client # t => at'[Client] = at[Client]
        /\ ts' = FALSE
        /\ live_state' = IF live_state = "PAUSE" THEN "NONE"
                         ELSE IF live_state = "RUN" THEN "RERUN" ELSE live_state
        /\ at[t] = "delete" /\ at'[t] = "idle"
    BY <1>0, <1>7, Goes, NoneState DEF StopDelete, muxerVars, dispatcherVars,
       handlerVars, serverVars
  <2> QED BY <1>0, <2>1
<1> QED BY <1>1, <1>2, <1>3, <1>4, <1>5, <1>6, <1>7 DEF StopGoesOn

LEMMA CommuObeys ==
  ASSUME LiveInv, ObeyInv, CommuGoesOn
  PROVE  ObeyInv'
<1> USE LiveAssumption DEF LiveAssumption
<1>0. UNCHANGED <<ts, outside, at, rerun, wanted>> /\ commu \notin {"none", "ended"}
  <2>1. CASE CommuTest \/ PollNothing \/ ReadCommand \/ CommuSetRunning \/ CommuAttach
    BY <2>1 DEF CommuTest, PollNothing, ReadCommand, CommuSetRunning, CommuAttach, muxerVars, serverVars
  <2>2. CASE CommuDetach \/ CommuCallBack \/ CommuCalledBack \/ CommuPause
    BY <2>2 DEF CommuDetach, CommuCallBack, CommuCalledBack, CommuPause, muxerVars, serverVars
  <2> QED BY <2>1, <2>2 DEF CommuGoesOn
<1>1. ts /\ at[Client] \notin Preparing /\ Client \in Stoppers
  BY <1>0 DEF LiveInv, NoMuxer, Prepared, Stoppers
<1> USE DEF LiveInv, LiveType, Serving, Ending, Detached, Starting, Stopping,
      Preparing, Detaching, Asleep, Awake, ObeyInv, CommandType, Seen, Marked, NotServers, Followed
<1>2. CASE CommuTest \/ PollNothing
  <2>1. /\ UNCHANGED <<live_state, pipe, missed>>
        /\ (commu = "test" /\ commu' = IF valid THEN "poll" ELSE "ended")
           \/ (commu = "poll" /\ commu' = "test")
    BY <1>2 DEF CommuTest, PollNothing, CommuGoto, handlerVars, serverVars
  <2> QED BY <1>0, <1>1, <2>1
<1>3. CASE ReadCommand
  <2>1. /\ commu = "poll" /\ pipe # <<>> /\ pipe' = <<>>
        /\ missed' = (Len(pipe) > 1 \/ Head(pipe) # wanted)
        /\ \/ /\ Head(pipe) = "START"
              /\ live_state' = IF live_state \in Runnable THEN "RUN" ELSE live_state
              /\ commu' = IF live_state \in Runnable THEN "running" ELSE "test"
           \/ Head(pipe) = "STOP" /\ live_state' = live_state /\ commu' = "detach"
    BY <1>3, RunState DEF ReadCommand, CommuGoto
  <2> QED BY <1>0, <1>1, <2>1 DEF Runnable
<1>4. CASE CommuSetRunning
  <2>1. /\ UNCHANGED <<live_state, pipe, missed>>
        /\ commu = "running" /\ commu' = "attach"
    BY <1>4 DEF CommuSetRunning, CommuGoto, handlerVars, serverVars
  <2> QED BY <1>0, <1>1, <2>1
<1>5. CASE CommuAttach
  <2>1. /\ UNCHANGED <<live_state, pipe, missed>>
        /\ commu = "attach" /\ commu' = "test"
    BY <1>5 DEF CommuAttach, CommuGoto, handlerVars, serverVars, AddHandler
  <2> QED BY <1>0, <1>1, <2>1
<1>6. CASE CommuDetach
  <2>1. /\ UNCHANGED <<live_state, pipe, missed>>
        /\ commu = "detach" /\ commu' \in {"callback", "pausing"}
    BY <1>6 DEF CommuDetach, CommuGoto, handlerVars, serverVars, RemoveHandler
  <2> QED BY <1>0, <1>1, <2>1
<1>7. CASE CommuCallBack
  <2>1. /\ UNCHANGED <<live_state, pipe, missed>>
        /\ commu = "callback" /\ commu' = "removing"
    BY <1>7 DEF CommuCallBack, CommuGoto, handlerVars, serverVars
  <2> QED BY <1>0, <1>1, <2>1
<1>8. CASE CommuCalledBack
  <2>1. /\ UNCHANGED <<live_state, pipe, missed>>
        /\ commu = "removing" /\ commu' = "pausing"
    BY <1>8 DEF CommuCalledBack, CommuGoto, handlerVars, serverVars, CallBackDone
  <2> QED BY <1>0, <1>1, <2>1
<1>9. CASE CommuPause
  <2>1. /\ UNCHANGED <<pipe, missed>>
        /\ live_state' = IF live_state = "RUN" THEN "PAUSE" ELSE live_state
        /\ commu = "pausing" /\ commu' = "test"
    BY <1>9, PauseState DEF CommuPause, CommuGoto, handlerVars, serverVars
  <2> QED BY <1>0, <1>1, <2>1
<1> QED BY <1>2, <1>3, <1>4, <1>5, <1>6, <1>7, <1>8, <1>9 DEF CommuGoesOn

LEMMA OthersObey ==
  ASSUME LiveInv, ObeyInv,
         \/ StopOnError \/ SendCommand \/ MuxerFails \/ UNCHANGED vars
         \/ \E c \in Callers : InCall(c)
         \/ (CaptureStep \/ CaptureFails) /\ UNCHANGED liveVars
  PROVE  ObeyInv'
<1> USE LiveAssumption DEF LiveAssumption
<1> USE DEF ObeyInv, CommandType, Seen, Marked, NotServers, Followed
<1>1. CASE StopOnError
  <2>1. /\ UNCHANGED <<ts, outside, live_state, commu, rerun, pipe, wanted, missed>>
        /\ at'[Client] = at[Client]
    BY <1>1, Goes DEF StopOnError, muxerVars, handlerVars, serverVars, Stoppers
  <2> QED BY <2>1
<1>2. CASE SendCommand
  <2>1. /\ UNCHANGED <<ts, outside, live_state, commu, rerun, missed, at>>
        /\ wanted' \in {"START", "STOP"} /\ pipe' = Append(pipe, wanted')
    BY <1>2 DEF SendCommand, muxerVars, handlerVars, threadsVars
  <2> QED BY <2>1
<1>3. ASSUME ~StopOnError, ~SendCommand
      PROVE  UNCHANGED <<ts, outside, live_state, commu, rerun, pipe, wanted, missed, at>>
  BY <1>3 DEF MuxerFails, InCall, liveVars, vars, muxerVars, handlerVars, threadsVars, serverVars
<1>4. CASE ~StopOnError /\ ~SendCommand
  BY <1>3, <1>4
<1> QED BY <1>1, <1>2, <1>4

LEMMA ObeyStep == LiveInv /\ ObeyInv /\ [Next]_vars => ObeyInv'
<1> SUFFICES ASSUME LiveInv, ObeyInv, [Next]_vars PROVE ObeyInv'
  OBVIOUS
<1>1. CASE ClientGoesOn \/ StartTransfer \/ StopTransfer
  BY <1>1, ClientObeys
<1>2. CASE \E t \in Stoppers : StopGoesOn(t)
  BY <1>2, StopperObeys
<1>3. CASE CommuGoesOn
  BY <1>3, CommuObeys
<1>4. CASE \/ StopOnError \/ SendCommand \/ MuxerFails \/ UNCHANGED vars
           \/ \E c \in Callers : InCall(c)
           \/ (CaptureStep \/ CaptureFails) /\ UNCHANGED liveVars
  BY <1>4, OthersObey
<1> QED BY <1>1, <1>2, <1>3, <1>4 DEF Next, Stoppers

LEMMA ObeyInit == Init => ObeyInv
<1> SUFFICES ASSUME Init PROVE ObeyInv
  OBVIOUS
<1>1. pipe = <<>> /\ wanted = "STOP" /\ missed \in BOOLEAN /\ rerun \in BOOLEAN /\ ~ts
  BY DEF Init
<1>2. pipe \in Seq({"START", "STOP"})
  BY <1>1
<1> QED BY <1>1, <1>2 DEF ObeyInv, CommandType, Marked, NotServers, Followed

\* The server's last command is obeyed, also by a transfer that was started after
\* it: what is in the pipe, and what the thread is doing about a command it has
\* read, are all that can be between the command and the stream.
THEOREM ObeysCorrect == Spec => []Obeys
<1>1. LiveInv /\ ObeyInv => Obeys
  BY LiveAssumption DEF LiveAssumption, LiveInv, LiveType, NoMuxer, Serving, Prepared, Preparing,
     Starting, Stopping, Detaching, Detached, Stoppers, ObeyInv, Followed, NotServers, Seen,
     Obeys, Rests, ClientRests
<1>2. Spec => []ObeyInv
  BY LiveAlways, ObeyInit, ObeyStep, PTL DEF Spec
<1> QED BY <1>1, <1>2, LiveAlways, PTL


-----------------------------------------------------------------------------
(* The microphone.                                                         *)

Places == Adders \cup Removers \cup {"idle", "deinit", "join", "free"}

\* A call begins.
LEMMA Called ==
  ASSUME MicInv, NEW c \in Callers, NEW p \in {"add", "rm"}, Call(c, p, Live)
  PROVE  /\ call[c] = "idle" /\ listed' = listed
         /\ call' \in [Callers -> Places] /\ arg' \in [Callers -> {Live, Nobody}]
         /\ call'[c] = p /\ arg'[c] = Live
         /\ \A d \in Callers : d # c => call'[d] = call[d] /\ arg'[d] = arg[d]
  BY DEF MicInv, CallType, Call, CallGoto, Places, Adders, Removers, listVars

\* A step of a call: the list changes when somebody adds or removes.
LEMMA CallGoesOn ==
  ASSUME MicInv, NEW c \in Callers, CallStep(c)
  PROVE  /\ call' \in [Callers -> Places] /\ arg' \in [Callers -> {Live, Nobody}]
         /\ call[c] # "idle" /\ (call'[c] # "idle" => arg'[c] = arg[c])
         /\ \A d \in Callers : d # c => call'[d] = call[d] /\ arg'[d] = arg[d]
         /\ \/ /\ listed' = listed
               /\ call'[c] \in Adders => call[c] \in Adders
               /\ call[c] \in Removers => call'[c] \in Removers \/ listed[Live] = 0
            \/ /\ call[c] = "insert" /\ call'[c] = "idle"
               /\ listed' = [listed EXCEPT ![Live] = @ + 1]
            \/ /\ call[c] = "removing" /\ call'[c] \notin Adders
               /\ listed[Live] > 0 /\ listed' = [listed EXCEPT ![Live] = @ - 1]
<1> USE LiveAssumption DEF LiveAssumption, Places, Adders, Removers
<1>0. call \in [Callers -> Places] /\ arg \in [Callers -> {Live, Nobody}]
      /\ (call[c] # "idle" => arg[c] = Live) /\ Dispatchers = {Live}
  BY DEF MicInv, CallType
<1>1. CASE LockMtx(c) \/ Adding(c) \/ InitRunning(c) \/ InitOpen(c) \/ InitCreate(c)
  BY <1>0, <1>1 DEF LockMtx, Adding, InitRunning, InitOpen, InitCreate, CallGoto, listVars
<1>2. CASE InitEnable(c) \/ InitSetTid(c) \/ DeinitStop(c) \/ DeinitJoin(c)
  BY <1>0, <1>2 DEF InitEnable, InitSetTid, DeinitStop, DeinitJoin, CallGoto, listVars
<1>3. CASE InitFails(c) \/ DeinitFree(c)
  BY <1>0, <1>3 DEF InitFails, DeinitFree, CallGoto, Return, listVars
<1>4. CASE Insert(c)
  BY <1>0, <1>4 DEF Insert, CallGoto, Return
<1>5. CASE Remove(c)
  BY <1>0, <1>5 DEF Remove, Left, CallGoto, Return
<1>6. CASE RemoveUnknown(c)
  BY <1>0, <1>6 DEF RemoveUnknown, CallGoto, Return, listVars
<1> QED BY <1>1, <1>2, <1>3, <1>4, <1>5, <1>6 DEF CallStep

LEMMA InCallMic ==
  ASSUME MicInv, NEW c \in Callers, InCall(c)
  PROVE  MicInv'
<1> USE LiveAssumption DEF LiveAssumption, MicInv, CallType, OnlyClientAdds, GivenBack, Leaves
<1>1. UNCHANGED <<at, WIFI_TRANSFER_FLAG>> /\ Client \in Callers /\ Live \in Listeners /\ Listeners = {Live}
  BY DEF InCall, liveVars, threadsVars, clientVars, Listeners
<1>2. CallStep(c)
  BY DEF InCall
<1>3. listed' \in [Listeners -> {0, 1}]
  BY <1>1, <1>2, CallGoesOn DEF Adders
<1>4. CallType'
  BY <1>1, <1>2, <1>3, CallGoesOn DEF Places
<1>5. OnlyClientAdds'
  BY <1>1, <1>2, CallGoesOn DEF Adders
<1>6. GivenBack'
  <2>1. listed' = [listed EXCEPT ![Live] = @ - 1] /\ listed[Live] > 0 => listed'[Live] = 0
    BY <1>1
  <2>2. \/ listed'[Live] = 0
        \/ listed' = listed /\ (call[Client] \in Removers => call'[Client] \in Removers \/ listed[Live] = 0)
        \/ at[Client] = "adding"
    BY <1>1, <1>2, <2>1, CallGoesOn DEF Adders
  <2> QED BY <1>1, <2>2 DEF Stopping, Detaching
<1> QED BY <1>4, <1>5, <1>6


\* Somebody begins to take the dispatcher away.
LEMMA RemovalBegins ==
  ASSUME LiveInv, MicInv, NEW c \in Callers, Call(c, "rm", Live), WIFI_TRANSFER_FLAG' = WIFI_TRANSFER_FLAG,
         c = Client \/ at'[Client] = at[Client]
  PROVE  MicInv'
<1> USE LiveAssumption DEF LiveAssumption, MicInv, CallType, OnlyClientAdds, GivenBack, Leaves
<1>1. CallType'
  BY Called DEF Places
<1>2. OnlyClientAdds'
  BY Called DEF Adders
<1>3. GivenBack'
  BY Called DEF Removers
<1> QED BY <1>1, <1>2, <1>3

\* Who is not in a call leaves the microphone alone.
LEMMA MicSame ==
  ASSUME MicInv, UNCHANGED <<listed, call, arg>>, WIFI_TRANSFER_FLAG' \in BOOLEAN,
         at[Client] = "adding" => at'[Client] = "adding" \/ call[Client] \notin Adders,
         Leaves' => Leaves
  PROVE  MicInv'
  BY LiveAssumption DEF LiveAssumption, MicInv, CallType, OnlyClientAdds, GivenBack

LEMMA ClientMic ==
  ASSUME LiveInv, MicInv, ClientGoesOn \/ StartTransfer \/ StopTransfer
  PROVE  MicInv'
<1> USE LiveAssumption DEF LiveAssumption
<1>0. Client \in Stoppers /\ Client \in Callers
  BY DEF Stoppers
<1>1. CASE StartTransfer
  <2>1. /\ Call(Client, "add", Live) /\ at[Client] = "idle" /\ at'[Client] = "adding"
        /\ ~WIFI_TRANSFER_FLAG /\ WIFI_TRANSFER_FLAG' = WIFI_TRANSFER_FLAG
    BY <1>0, <1>1, Goes DEF StartTransfer
  <2>2. listed[Live] = 0
    BY <1>0, <2>1, Called DEF MicInv, GivenBack, Leaves, Removers
  <2>3. CallType'
    BY <1>0, <2>1, Called DEF MicInv, CallType, Places
  <2>4. OnlyClientAdds' /\ ~Leaves'
    BY <1>0, <2>1, <2>2, Called DEF MicInv, OnlyClientAdds, Leaves, Stopping, Detaching
  <2> QED BY <2>3, <2>4 DEF MicInv, GivenBack
<1>2. CASE StopTransfer \/ StartUndo
  <2>1. Call(Client, "rm", Live) /\ WIFI_TRANSFER_FLAG' = WIFI_TRANSFER_FLAG
    BY <1>2 DEF StopTransfer, StartUndo, GivesBack, clientVars
  <2> QED BY <1>0, <2>1, RemovalBegins
<1>3. CASE LockStart \/ MakeMuxer \/ MakeExists \/ SetReady \/ OpenPipe \/ StartThread
  <2>1. /\ UNCHANGED <<listed, call, arg, WIFI_TRANSFER_FLAG>>
        /\ at[Client] = "adding" => call[Client] = "idle"
        /\ at'[Client] \in Starting \cup {"undo"}
    BY <1>0, <1>3, Goes DEF LockStart, MakeMuxer, MakeExists, SetReady, OpenPipe, StartThread,
       audioVars, listVars, callVars, clientVars, Starting, Preparing
  <2>2. ~Leaves' /\ WIFI_TRANSFER_FLAG' \in BOOLEAN /\ (call[Client] = "idle" => call[Client] \notin Adders)
    BY <2>1 DEF Leaves, Starting, Preparing, Stopping, Detaching, MicInv, CallType, Adders
  <2> QED BY <2>1, <2>2, MicSame
<1>4. CASE Rewrite \/ SetRun \/ StartAttach \/ Register \/ StartFails
  <2>1. /\ UNCHANGED <<listed, call, arg>>
        /\ at[Client] # "adding"
        /\ WIFI_TRANSFER_FLAG' = WIFI_TRANSFER_FLAG \/ WIFI_TRANSFER_FLAG' = TRUE
        /\ at'[Client] \in {"attach", "register", "undo"} \/ (at'[Client] = "idle" /\ WIFI_TRANSFER_FLAG' = TRUE)
    BY <1>0, <1>4, Goes DEF Rewrite, SetRun, StartAttach, Register, StartFails, AddHandler,
       audioVars, listVars, callVars, clientVars
  <2>2. ~Leaves' /\ WIFI_TRANSFER_FLAG' \in BOOLEAN
    BY <2>1 DEF Leaves, Stopping, Detaching, MicInv, CallType
  <2> QED BY <2>1, <2>2, MicSame
<1> QED BY <1>1, <1>2, <1>3, <1>4 DEF ClientGoesOn

LEMMA StopperMic ==
  ASSUME LiveInv, MicInv, NEW t \in Stoppers, StopGoesOn(t)
  PROVE  MicInv'
<1> USE LiveAssumption DEF LiveAssumption
<1>0. Client \in Stoppers /\ t \in Callers /\ Client \in Callers
  BY DEF Stoppers
<1>1. /\ at[t] \in Stopping \cup {"stoplock"} /\ at'[t] \in Stopping \cup {"idle"}
      /\ t # Client => at'[Client] = at[Client] /\ WIFI_TRANSFER_FLAG' = WIFI_TRANSFER_FLAG
      /\ at'[t] = "idle" /\ t = Client => WIFI_TRANSFER_FLAG' = FALSE
      /\ WIFI_TRANSFER_FLAG' = WIFI_TRANSFER_FLAG \/ WIFI_TRANSFER_FLAG' = FALSE
  <2>1. CASE LockStop(t) \/ StopDetach(t) \/ StopCallBack(t) \/ StopCalledBack(t)
    BY <1>0, <2>1, Goes DEF MicInv, CallType, LockStop, StopDetach, StopCallBack, StopCalledBack, clientVars, Stopping, Detaching
  <2>2. CASE StopJob(t) \/ StopJoin(t) \/ StopDelete(t)
    BY <1>0, <2>2, Goes DEF MicInv, CallType, StopJob, StopJoin, StopDelete, clientVars, Stopping, Detaching
  <2> QED BY <2>1, <2>2 DEF StopGoesOn
<1>2. CASE Call(t, "rm", Live) /\ WIFI_TRANSFER_FLAG' = WIFI_TRANSFER_FLAG
  BY <1>0, <1>1, <1>2, RemovalBegins
<1>3. CASE UNCHANGED <<listed, call, arg>>
  <2>1. WIFI_TRANSFER_FLAG' \in BOOLEAN
    BY <1>1 DEF MicInv, CallType
  <2>2. Leaves' => Leaves
    BY <1>1 DEF Leaves, Stopping, Detaching
  <2>3. at[Client] = "adding" => at'[Client] = "adding"
    BY <1>1 DEF Stopping, Detaching
  <2> QED BY <1>3, <2>1, <2>2, <2>3, MicSame
<1>4. \/ Call(t, "rm", Live) /\ WIFI_TRANSFER_FLAG' = WIFI_TRANSFER_FLAG
      \/ UNCHANGED <<listed, call, arg>>
  <2>1. CASE LockStop(t) \/ StopDetach(t) \/ StopCalledBack(t)
    BY <2>1 DEF LockStop, StopDetach, StopCalledBack, RemoveHandler, CallBackDone, audioVars,
       audioButLists, listVars, callVars
  <2>2. CASE StopCallBack(t)
    BY <2>2 DEF StopCallBack, CallBack, clientVars, audioVars, listVars, callVars
  <2>3. CASE StopJob(t) \/ StopJoin(t) \/ StopDelete(t)
    BY <2>3 DEF StopJob, StopJoin, StopDelete, audioVars, listVars, callVars
  <2> QED BY <2>1, <2>2, <2>3 DEF StopGoesOn
<1> QED BY <1>2, <1>3, <1>4

LEMMA OthersMic ==
  ASSUME LiveInv, MicInv,
         \/ CommuGoesOn
         \/ StopOnError \/ SendCommand \/ MuxerFails \/ UNCHANGED vars
         \/ \E c \in Callers : InCall(c)
         \/ (CaptureStep \/ CaptureFails) /\ UNCHANGED liveVars
  PROVE  MicInv'
<1> USE LiveAssumption DEF LiveAssumption
<1>0. Client \in Stoppers /\ Commu \in Callers
  BY DEF Stoppers
<1>1. CASE \E c \in Callers : InCall(c)
  BY <1>1, InCallMic
<1>2. CASE commu = "callback" /\ Call(Commu, "rm", Live) /\ UNCHANGED <<at, WIFI_TRANSFER_FLAG>>
  BY <1>0, <1>2, RemovalBegins
<1>3. CASE UNCHANGED <<listed, call, arg, WIFI_TRANSFER_FLAG>> /\ at'[Client] = at[Client]
  BY <1>3, MicSame DEF MicInv, CallType, Leaves
<1>4. CASE CommuGoesOn
  <2>1. CASE CommuCallBack
    BY <1>2, <1>3, <2>1 DEF CommuCallBack, CallBack, clientVars, audioVars, listVars, callVars
  <2>2. CASE CommuTest \/ PollNothing \/ ReadCommand \/ CommuSetRunning \/ CommuAttach
    BY <1>3, <2>2 DEF CommuTest, PollNothing, ReadCommand, CommuSetRunning, CommuAttach,
       AddHandler, clientVars, audioVars, listVars, callVars
  <2>3. CASE CommuDetach \/ CommuCalledBack \/ CommuPause
    BY <1>3, <2>3 DEF CommuDetach, CommuCalledBack, CommuPause, RemoveHandler, CallBackDone,
       clientVars, audioVars, audioButLists, listVars, callVars
  <2> QED BY <1>4, <2>1, <2>2, <2>3 DEF CommuGoesOn
<1>5. CASE StopOnError \/ SendCommand \/ MuxerFails \/ UNCHANGED vars
  BY <1>0, <1>3, <1>5, Goes DEF StopOnError, SendCommand, MuxerFails, vars, liveVars, threadsVars,
     clientVars, audioVars, listVars, callVars, Stoppers
<1>6. CASE (CaptureStep \/ CaptureFails) /\ UNCHANGED liveVars
  <2>1. UNCHANGED <<listed, call, arg>>
    <3>1. CASE GenMute \/ TestStop \/ CaptureSamples \/ TryLock \/ Delivered
      BY <3>1 DEF GenMute, TestStop, CaptureSamples, TryLock, Delivered, listVars, callVars
    <3>2. CASE Choose \/ EncPcmAlways \/ Recheck \/ ThreadOut \/ CaptureFails
      BY <3>2 DEF Choose, EncPcmAlways, Recheck, ThreadOut, CaptureFails, listVars, callVars
    <3>3. CASE \E x \in Listeners : Deliver(x)
      BY <3>3 DEF Deliver, listVars, callVars
    <3> QED BY <1>6, <3>1, <3>2, <3>3 DEF CaptureStep
  <2> QED BY <1>3, <1>6, <2>1 DEF liveVars, threadsVars, clientVars
<1> QED BY <1>1, <1>4, <1>5, <1>6

LEMMA MicStep == LiveInv /\ MicInv /\ [Next]_vars => MicInv'
<1> SUFFICES ASSUME LiveInv, MicInv, [Next]_vars PROVE MicInv'
  OBVIOUS
<1>1. CASE ClientGoesOn \/ StartTransfer \/ StopTransfer
  BY <1>1, ClientMic
<1>2. CASE \E t \in Stoppers : StopGoesOn(t)
  BY <1>2, StopperMic
<1>3. CASE \/ CommuGoesOn
           \/ StopOnError \/ SendCommand \/ MuxerFails \/ UNCHANGED vars
           \/ \E c \in Callers : InCall(c)
           \/ (CaptureStep \/ CaptureFails) /\ UNCHANGED liveVars
  BY <1>3, OthersMic
<1> QED BY <1>1, <1>2, <1>3 DEF Next, Stoppers

LEMMA MicInit == Init => MicInv
<1> SUFFICES ASSUME Init PROVE MicInv
  OBVIOUS
<1>1. /\ \A c \in Callers : call[c] = "idle" /\ arg[c] = Nobody
      /\ listed \in [Listeners -> {0, 1}] /\ listed[Live] = 0 /\ WIFI_TRANSFER_FLAG \in BOOLEAN
  BY LiveAssumption DEF LiveAssumption, Init, AudioInit, Listeners
<1>2. call \in [Callers -> Places] /\ arg \in [Callers -> {Live, Nobody}]
  BY DEF Init, AudioInit, Places
<1>3. OnlyClientAdds
  BY <1>1 DEF OnlyClientAdds, Adders
<1> QED BY <1>1, <1>2, <1>3 DEF MicInv, CallType, Places, GivenBack

\* Without a transfer the microphone does not serve the live stream, whoever ended
\* the last one: the client gives back what it took before it forgets that it did.
THEOREM MicCorrect == Spec => []NoAudioAfterStop
<1>1. MicInv => NoAudioAfterStop
  BY DEF MicInv, GivenBack, Leaves, Removers, NoAudioAfterStop, ClientRests
<1>2. Spec => []MicInv
  BY LiveAlways, MicInit, MicStep, PTL DEF Spec
<1> QED BY <1>1, <1>2, PTL
=============================================================================
