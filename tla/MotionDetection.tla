--------------------------- MODULE MotionDetection ---------------------------
(***************************************************************************)
(* Recording by motion: the client that starts and stops the detection     *)
(* (example/user.cpp, process/video.cpp), the camera thread, which scales  *)
(* frames for MotionDetectHandler and handles the messages about it        *)
(* (encode_handler.cpp), and the loop of ScaleEncodeHandler, which encodes *)
(* the scaled frames, lets the processor judge their motion vectors, and   *)
(* starts and stops the recording in the processor's callback.             *)
(*                                                                         *)
(* A frame is only "there or not", its motion a choice; times are left to  *)
(* choice too.  md_processor_num_ is the number of the handlers: the       *)
(* camera thread changes both in one message and reads it between two.     *)
(* One call of start or stop at a time is assumed.                         *)
(***************************************************************************)
EXTENDS Integers, Sequences, FiniteSets

CONSTANTS
  MaxProcessors,   \* processors that are made in a behaviour (bound)
  Window,          \* frame_inverval, frames that are judged together
  Loop, Nobody     \* owners of a mutex

ASSUME MotionAssumption ==
  MaxProcessors \in Nat /\ Window \in Nat \ {0} /\ Loop # Nobody

VARIABLES
  md_process, made,           \* the processor, 0 for none; how many there were
  client,                     \* where the client is
  low_frame_rate, force_result, tval, times,  \* fields of md_process
  MD_PROCESSING_FLAG, recording,  \* flags of the video, and whether it records
  msgs, answered,             \* the camera's message queue; the sync messages handled
  camera,                     \* the camera thread is before its messages or its frame
  camerafile, low_mode,       \* there is a file; its low_frame_rate_mode
  handlers,                   \* of mv_dispatcher_
  run_, loop, yuv_buf_valid_, mtx_, list_mutex,
  crashed                     \* the process is gone

clientVars == <<md_process, made, client, MD_PROCESSING_FLAG>>
procVars == <<low_frame_rate, force_result, tval, times>>
queueVars == <<msgs, answered>>
cameraVars == <<camera, camerafile, low_mode, handlers, run_>>
loopVars == <<loop, mtx_, list_mutex>>
vars == <<clientVars, procVars, queueVars, recording, cameraVars, loopVars,
          yuv_buf_valid_, crashed>>

Nothing == 0
Sync == {"DETACH", "STOP"}

Init ==
  /\ md_process = Nothing /\ made = 0 /\ client = "idle"
  /\ low_frame_rate = -1 /\ force_result = -1 /\ tval = FALSE /\ times = 0
  /\ MD_PROCESSING_FLAG = FALSE /\ recording = FALSE
  /\ msgs = <<>> /\ answered = {}
  /\ camera = "init" /\ camerafile = FALSE /\ low_mode = "NORMAL" /\ handlers = {}
  /\ run_ = FALSE /\ loop = "test" /\ yuv_buf_valid_ = FALSE
  /\ mtx_ = Nobody /\ list_mutex = Nobody
  /\ crashed = FALSE

Msg(id, p) == [id |-> id, p |-> p]
Pending(id) == \E i \in DOMAIN msgs : msgs[i].id = id

\* remove_message_of_id: every queued message of that id goes, the others keep
\* their order.
TakeBack(id) ==
  LET others == {i \in DOMAIN msgs : msgs[i].id # id}
  IN \E f \in [1..Cardinality(others) -> others] :
       /\ \A i, j \in DOMAIN f : i < j => f[i] < f[j]
       /\ msgs' = [i \in DOMAIN f |-> msgs[f[i]]]

-----------------------------------------------------------------------------
(* The client.                                                             *)

\* start_motion_detection: the callback attaches the processor.
StartDetection ==
  /\ client = "idle" /\ md_process = Nothing /\ made < MaxProcessors
  /\ made' = made + 1 /\ md_process' = made + 1
  /\ low_frame_rate' = -1 /\ force_result' = -1 /\ tval' = FALSE /\ times' = 0
  /\ MD_PROCESSING_FLAG' = TRUE
  /\ msgs' = Append(msgs, Msg("ATTACH", made + 1))
  /\ UNCHANGED <<client, answered, recording, cameraVars, loopVars, yuv_buf_valid_,
                 crashed>>

\* stop_motion_detection: the ATTACH is taken back if nobody has seen it,
\* or the camera thread is waited for.
StopDetection ==
  /\ client = "idle" /\ md_process # Nothing
  /\ IF Pending("ATTACH")
     THEN TakeBack("ATTACH") /\ client' = "delete"
     ELSE msgs' = Append(msgs, Msg("DETACH", md_process)) /\ client' = "detaching"
  /\ UNCHANGED <<md_process, made, MD_PROCESSING_FLAG, procVars, answered, recording,
                 cameraVars, loopVars, yuv_buf_valid_, crashed>>

\* Mutant of DetachAnswered: the client does not wait.
DetachNotAwaited == client = "detaching"
DetachAnswered == client = "detaching" /\ "DETACH" \in answered

Detached ==
  /\ DetachAnswered
  /\ answered' = answered \ {"DETACH"} /\ client' = "delete"
  /\ UNCHANGED <<md_process, made, MD_PROCESSING_FLAG, procVars, msgs, recording,
                 cameraVars, loopVars, yuv_buf_valid_, crashed>>

DeleteProcessor ==
  /\ client = "delete"
  /\ MD_PROCESSING_FLAG' = FALSE /\ md_process' = Nothing /\ client' = "idle"
  /\ UNCHANGED <<made, procVars, queueVars, recording, cameraVars, loopVars,
                 yuv_buf_valid_, crashed>>

\* api_start_rec and api_stop_rec: with a processor, they only force its result.
Trigger ==
  /\ client = "idle" /\ md_process # Nothing
  /\ force_result' = 1
  /\ UNCHANGED <<clientVars, low_frame_rate, tval, times, queueVars, recording,
                 cameraVars, loopVars, yuv_buf_valid_, crashed>>

StartRec == recording' = TRUE /\ msgs' = Append(msgs, Msg("START", 0))

ClientStarts ==
  /\ client = "idle" /\ md_process = Nothing /\ ~recording
  /\ StartRec
  /\ UNCHANGED <<clientVars, procVars, answered, cameraVars, loopVars, yuv_buf_valid_,
                 crashed>>

ClientStops ==
  /\ client = "idle" /\ md_process = Nothing /\ recording
  /\ IF Pending("START")
     THEN TakeBack("START") /\ recording' = FALSE /\ UNCHANGED client
     ELSE /\ msgs' = Append(msgs, Msg("STOP", 0)) /\ client' = "stopping"
          /\ UNCHANGED recording
  /\ UNCHANGED <<md_process, made, MD_PROCESSING_FLAG, procVars, answered, cameraVars,
                 loopVars, yuv_buf_valid_, crashed>>

ClientStopped ==
  /\ client = "stopping" /\ "STOP" \in answered
  /\ answered' = answered \ {"STOP"} /\ recording' = FALSE /\ client' = "idle"
  /\ UNCHANGED <<md_process, made, MD_PROCESSING_FLAG, procVars, msgs, cameraVars,
                 loopVars, yuv_buf_valid_, crashed>>

-----------------------------------------------------------------------------
(* The camera thread: init, then one message and one frame after the other. *)

\* StartThread has created the loop's thread before it sets run_.
CameraInit ==
  /\ camera = "init"
  /\ run_' = TRUE /\ camera' = "message"
  /\ UNCHANGED <<clientVars, procVars, queueVars, recording, camerafile, low_mode,
                 handlers, loopVars, yuv_buf_valid_, crashed>>

NoMessage ==
  /\ camera = "message" /\ msgs = <<>>
  /\ camera' = "frame"
  /\ UNCHANGED <<clientVars, procVars, queueVars, recording, camerafile, low_mode,
                 handlers, run_, loopVars, yuv_buf_valid_, crashed>>

\* Mutant of Notified: only the end of a recording is notified.
NotifiedStop == {"STOP"}
\* The messages whose sender waits for do_notify.
Notified == Sync

Handle(id) ==
  /\ camera = "message" /\ msgs # <<>> /\ Head(msgs).id = id
  /\ msgs' = Tail(msgs) /\ camera' = "frame"
  /\ answered' = answered \cup ({id} \cap Notified)
  /\ UNCHANGED <<clientVars, recording, run_, loopVars, yuv_buf_valid_>>

\* AddMdProcessor, unless set_attributes has no memory.
HandleAttach ==
  /\ list_mutex = Nobody
  /\ Handle("ATTACH")
  /\ \/ handlers' = handlers \cup {Head(msgs).p}
     \/ UNCHANGED handlers
  /\ UNCHANGED <<procVars, camerafile, low_mode, crashed>>

\* set_low_frame_rate(MODE_NORMAL) of a file.
ToNormal(mode) == IF mode = "NORMAL" THEN "NORMAL" ELSE "RELATIVE"

HandleDetach ==
  /\ list_mutex = Nobody
  /\ Handle("DETACH")
  /\ handlers' = handlers \ {Head(msgs).p}
  /\ low_mode' = ToNormal(low_mode)
  /\ UNCHANGED <<procVars, camerafile, crashed>>

\* RECORD_RATE_CHANGE writes to the processor, which may be gone: a write to
\* freed memory is harmless or not.  (IsRunning only says that there is a loop.)
SetLow(p, low) ==
  IF p = md_process
  THEN low_frame_rate' = low /\ UNCHANGED <<force_result, tval, times, crashed>>
  ELSE crashed' \in BOOLEAN /\ UNCHANGED procVars

HandleLow ==
  /\ Handle("LOW")
  /\ low_mode' = IF camerafile THEN "ONLYKEY" ELSE low_mode
  /\ SetLow(Head(msgs).p, 1)
  /\ UNCHANGED <<camerafile, handlers>>

\* Back to the normal rate the file is ended and another one begun.
HandleNormal ==
  /\ Handle("NORMAL")
  /\ low_mode' = "NORMAL"
  /\ SetLow(Head(msgs).p, 0)
  /\ UNCHANGED <<camerafile, handlers>>

HandleStart ==
  /\ Handle("START")
  /\ camerafile' = TRUE /\ low_mode' = "NORMAL"
  /\ UNCHANGED <<procVars, handlers, crashed>>

HandleStop ==
  /\ Handle("STOP")
  /\ camerafile' = FALSE /\ low_mode' = "NORMAL"
  /\ UNCHANGED <<procVars, handlers, crashed>>

\* Mutant of Wakes: the loop is not notified.
WakesNever == FALSE
Wakes == loop = "wait"

\* MotionDetectHandler::Process scales the frame if somebody wants it and the
\* loop does not have mtx_.  Without time lapse, every frame sets the file
\* back to MODE_NORMAL.
Frame ==
  /\ camera = "frame"
  /\ IF handlers # {} /\ mtx_ = Nobody
     THEN yuv_buf_valid_' = TRUE /\ loop' = IF Wakes THEN "locked" ELSE loop
     ELSE UNCHANGED <<yuv_buf_valid_, loop>>
  /\ low_mode' = IF camerafile THEN ToNormal(low_mode) ELSE low_mode
  /\ mtx_' = IF loop' = loop THEN mtx_ ELSE Loop
  /\ camera' = "message"
  /\ UNCHANGED <<clientVars, procVars, queueVars, recording, camerafile, handlers,
                 run_, list_mutex, crashed>>

CameraGoesOn ==
  \/ CameraInit \/ NoMessage \/ Frame
  \/ HandleAttach \/ HandleDetach \/ HandleLow \/ HandleNormal
  \/ HandleStart \/ HandleStop

-----------------------------------------------------------------------------
(* ScaleEncodeLoop.                                                        *)

LoopGoto(p) == loop' = p

LoopTest ==
  /\ loop = "test"
  /\ LoopGoto(IF run_ THEN "lock" ELSE "ended")
  /\ UNCHANGED <<clientVars, procVars, queueVars, recording, cameraVars, mtx_,
                 list_mutex, yuv_buf_valid_, crashed>>

LoopLock ==
  /\ loop = "lock" /\ mtx_ = Nobody
  /\ mtx_' = Loop /\ LoopGoto("locked")
  /\ UNCHANGED <<clientVars, procVars, queueVars, recording, cameraVars, list_mutex,
                 yuv_buf_valid_, crashed>>

\* cond_.wait gives mtx_ back, and is left with it.
LoopWait ==
  /\ loop = "locked" /\ ~yuv_buf_valid_
  /\ mtx_' = Nobody /\ LoopGoto("wait")
  /\ UNCHANGED <<clientVars, procVars, queueVars, recording, cameraVars, list_mutex,
                 yuv_buf_valid_, crashed>>

\* Work: the frame is encoded, and has motion vectors unless it is a key frame.
LoopWork ==
  /\ loop = "locked" /\ yuv_buf_valid_
  /\ yuv_buf_valid_' = FALSE
  /\ \/ LoopGoto("worked") /\ UNCHANGED list_mutex
     \/ /\ list_mutex = Nobody /\ handlers # {}
        /\ list_mutex' = Loop /\ LoopGoto("work")
  /\ UNCHANGED <<clientVars, procVars, queueVars, recording, cameraVars, mtx_, crashed>>

WindowFull == times + 1 >= Window

\* push_mv_data: the frame is one more of the window.
Collect ==
  /\ loop = "work" /\ ~WindowFull
  /\ times' = times + 1 /\ LoopGoto("worked")
  /\ UNCHANGED <<clientVars, low_frame_rate, force_result, tval, queueVars, recording,
                 cameraVars, mtx_, list_mutex, yuv_buf_valid_, crashed>>

\* The window is full: MD_Result_doing and calc_time_val.  Something moves:
\* to the normal rate, if the rate is not normal already ...
Moves ==
  /\ loop = "work" /\ WindowFull
  /\ times' = 0 /\ force_result' = -1 /\ tval' = FALSE
  /\ LoopGoto(IF low_frame_rate = 0 THEN "worked" ELSE "start")
  /\ UNCHANGED <<clientVars, low_frame_rate, queueVars, recording, cameraVars,
                 mtx_, list_mutex, yuv_buf_valid_, crashed>>

\* ... and when nothing has moved for ten seconds, to the low rate.
Still ==
  /\ loop = "work" /\ WindowFull /\ force_result # 1
  /\ times' = 0
  /\ \/ low_frame_rate = 1 /\ LoopGoto("worked") /\ UNCHANGED tval
     \/ low_frame_rate <= 0 /\ LoopGoto("worked") /\ tval' = TRUE
     \/ low_frame_rate <= 0 /\ tval /\ LoopGoto("ratestop") /\ tval' = FALSE
  /\ UNCHANGED <<clientVars, low_frame_rate, force_result, queueVars, recording,
                 cameraVars, mtx_, list_mutex, yuv_buf_valid_, crashed>>

SendRate(id) ==
  msgs' = IF MD_PROCESSING_FLAG THEN Append(msgs, Msg(id, CHOOSE p \in handlers : TRUE))
          ELSE msgs

\* user_event_callback, in the loop's thread: the recording is started (if the
\* card is in) before the message about the rate ...
CallbackStart ==
  /\ loop = "start"
  /\ \/ ~recording /\ StartRec
     \/ UNCHANGED <<recording, msgs>>
  /\ LoopGoto("rate")
  /\ UNCHANGED <<clientVars, procVars, answered, cameraVars, mtx_, list_mutex,
                 yuv_buf_valid_, crashed>>

CallbackRate ==
  /\ loop = "rate"
  /\ SendRate("NORMAL") /\ LoopGoto("worked")
  /\ UNCHANGED <<clientVars, procVars, answered, recording, cameraVars, mtx_,
                 list_mutex, yuv_buf_valid_, crashed>>

\* ... and stopped after it.
CallbackRateStop ==
  /\ loop = "ratestop"
  /\ SendRate("LOW") /\ LoopGoto(IF recording THEN "stop" ELSE "worked")
  /\ UNCHANGED <<clientVars, procVars, answered, recording, cameraVars, mtx_,
                 list_mutex, yuv_buf_valid_, crashed>>

\* Mutant of StopsRec: the recording goes on.
StopsRecNot == FALSE
StopsRec == recording

CallbackStop ==
  /\ loop = "stop"
  /\ IF StopsRec
     THEN IF Pending("START")
          THEN TakeBack("START") /\ recording' = FALSE /\ LoopGoto("worked")
          ELSE /\ msgs' = Append(msgs, Msg("STOP", 0)) /\ UNCHANGED recording
               /\ LoopGoto("stopping")
     ELSE UNCHANGED <<msgs, recording>> /\ LoopGoto("worked")
  /\ UNCHANGED <<clientVars, procVars, answered, cameraVars, mtx_, list_mutex,
                 yuv_buf_valid_, crashed>>

CallbackStopped ==
  /\ loop = "stopping" /\ "STOP" \in answered
  /\ answered' = answered \ {"STOP"} /\ recording' = FALSE /\ LoopGoto("worked")
  /\ UNCHANGED <<clientVars, procVars, msgs, cameraVars, mtx_, list_mutex,
                 yuv_buf_valid_, crashed>>

LoopUnlock ==
  /\ loop = "worked"
  /\ list_mutex' = Nobody /\ mtx_' = Nobody /\ LoopGoto("test")
  /\ UNCHANGED <<clientVars, procVars, queueVars, recording, cameraVars,
                 yuv_buf_valid_, crashed>>

LoopGoesOn ==
  \/ LoopTest \/ LoopLock \/ LoopWait \/ LoopWork \/ Collect \/ Moves \/ Still
  \/ CallbackStart \/ CallbackRate \/ CallbackRateStop \/ CallbackStop
  \/ CallbackStopped \/ LoopUnlock

-----------------------------------------------------------------------------
ClientReturns == Detached \/ DeleteProcessor \/ ClientStopped
ClientCalls ==
  StartDetection \/ StopDetection \/ Trigger \/ ClientStarts \/ ClientStops

\* The callback waits for the camera thread to stop the recording, and the
\* camera thread for the dispatcher's mutex, to remove the processor.
CallbackCycle ==
  /\ loop = "stopping" /\ "STOP" \notin answered
  /\ camera = "message" /\ msgs # <<>> /\ Head(msgs).id \in {"ATTACH", "DETACH"}

Next ==
  \/ ~crashed /\ (ClientCalls \/ ClientReturns \/ CameraGoesOn \/ LoopGoesOn)
  \/ (crashed \/ CallbackCycle) /\ UNCHANGED vars

Spec == Init /\ [][Next]_vars

\* Every thread goes on; frames come as long as the camera is there.
Fairness ==
  /\ WF_vars(~crashed /\ ClientReturns)
  /\ WF_vars(~crashed /\ CameraGoesOn)
  /\ WF_vars(~crashed /\ LoopGoesOn)
FairSpec == Spec /\ Fairness

-----------------------------------------------------------------------------
(* Properties.                                                             *)

\* stop_motion_detection deletes the processor: by then the dispatcher, whose
\* loop calls it, does not know it any more.
HandlersLive == handlers \subseteq {md_process}

\* The rate the processor believes in and the recording go together: at the
\* low rate nothing is recorded, once the messages are handled and no
\* callback is on its way.
RecordFollows ==
  md_process \in handlers /\ low_frame_rate = 1 /\ msgs = <<>> /\ list_mutex = Nobody
    => ~recording /\ ~camerafile

\* A scaled frame is worked on (unless the thread found run_ not yet set and
\* ended, or callback and camera thread wait for each other).
ScaledServed ==
  yuv_buf_valid_ ~> ~yuv_buf_valid_ \/ loop = "ended" \/ CallbackCycle \/ crashed

\* stop_motion_detection returns, but for the same two.
StopReturns ==
  client = "detaching" ~> client = "idle" \/ CallbackCycle \/ crashed
=============================================================================
