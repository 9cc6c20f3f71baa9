------------------------ MODULE EncodeHandler_proofs ------------------------
(***************************************************************************)
(* Theorems about EncodeHandler, for all clients, muxers and calls.        *)
(*   The two unsynchronised flags of struct Video, pthread_run and         *)
(* mp4_encoding, keep the camera thread out of a handler that the video    *)
(* thread has deleted.  Every answer has a client that waits for it.       *)
(* Packets go to the muxers there are, and a new file waits for a key      *)
(* frame.  The encoder's reference count is that of the muxers that use    *)
(* it, and a detached muxer is gone when its detach returns.               *)
(*   While one client records, the flags say what there is, a stop has     *)
(* stopped when it returns, and nothing is started twice.                  *)
(***************************************************************************)
EXTENDS EncodeHandler, FiniteSetTheorems, TLAPS

-----------------------------------------------------------------------------
(* Types.                                                                  *)

\* The strengthening: a client that is about to send has a call to send.
Sendable ==
  \A c \in Clients : pc[c] \in {"cancel", "send"} =>
    call[c] \in Call \cup Part /\ call[c].do # "then_deinit"
TypeInv == TypeOK /\ Sendable

LEMMA InitType == Init => TypeInv
<1> SUFFICES ASSUME Init PROVE TypeInv
  OBVIOUS
<1> USE DEF Init
<1>1. VideoType /\ FaultType
  BY DEF VideoType, FaultType
<1>2. MuxerType
  BY DEF MuxerType
<1>3. CamType
  BY DEF CamType
<1>4. ClientType
  BY ConstantsAssumption DEF ClientType, ConstantsAssumption
<1>5. HistType
  <2>1. fails = 0 /\ MaxFails \in Nat
    BY ConstantsAssumption, Zenon DEF ConstantsAssumption
  <2>2. fails \in 0..MaxFails
    BY <2>1
  <2> QED BY <2>2, Zenon DEF HistType
<1>6. msg_queue \in Seq(Message)
  BY DEF Message
<1>7. Sendable
  BY DEF Sendable
<1> QED BY <1>1, <1>2, <1>3, <1>4, <1>5, <1>6, <1>7 DEF TypeInv, TypeOK

\* What a call sends is a message.
LEMMA SendsMessage ==
  ASSUME NEW x \in Call \cup Part, x.do # "then_deinit",
         NEW f \in Clients \cup {NoClient}
  PROVE  [id |-> Sends(x.do), mux |-> x.mux, from |-> f] \in Message
<1>1. CASE x.do = "attach" \/ x.do = "detach"
  BY <1>1 DEF Call, Part, Sends, StopsRec, StopsCache, Message, MuxerIds
<1>2. CASE x.do # "attach" /\ x.do # "detach"
  <2>1. x.mux = "none"
    BY <1>2 DEF Call, Part
  <2>2. Sends(x.do) \in PlainIds
    BY <1>2 DEF Call, Part, Sends, StopsRec, StopsCache, PlainIds
  <2> QED BY <2>1, <2>2 DEF Message
<1> QED BY <1>1, <1>2

LEMMA FlagsType ==
  ASSUME NEW do
  PROVE  SetsFlag(do) \subseteq {"RECORDING", "CACHE"}
  BY DEF SetsFlag

\* A group of variables that does not change keeps its type.
LEMMA Kept ==
  ASSUME TypeInv
  PROVE  /\ UNCHANGED videoVars => VideoType'
         /\ UNCHANGED muxerVars => MuxerType'
         /\ UNCHANGED camVars => CamType'
         /\ UNCHANGED clientVars => ClientType' /\ Sendable'
         /\ UNCHANGED histVars => HistType'
         /\ UNCHANGED fault => FaultType'
<1> USE DEF TypeInv, TypeOK
<1>1. UNCHANGED videoVars => VideoType'
  BY DEF VideoType, videoVars
<1>2. UNCHANGED muxerVars => MuxerType'
  BY DEF MuxerType, muxerVars
<1>3. UNCHANGED camVars => CamType'
  BY DEF CamType, camVars
<1>4. UNCHANGED clientVars => ClientType' /\ Sendable'
  BY DEF ClientType, Sendable, clientVars
<1>5. UNCHANGED histVars => HistType'
  BY DEF HistType, histVars
<1>6. UNCHANGED fault => FaultType'
  BY DEF FaultType
<1> QED BY <1>1, <1>2, <1>3, <1>4, <1>5, <1>6

LEMMA BeginType ==
  ASSUME TypeInv, NEW c \in Clients, Begin(c)
  PROVE  TypeInv'
<1> USE ConstantsAssumption DEF TypeInv, TypeOK
<1> PICK x \in Call \cup Part :
      /\ \/ pc[c] = "idle" /\ calls[c] < MaxCalls /\ x \in Calls[c] /\ vt # "gone"
         \/ pc[c] = "next" /\ x = call[c] /\ x.do # "then_deinit"
      /\ owned' = IF x.do = "attach" THEN [owned EXCEPT ![c] = @ \cup {x.mux}]
                                     ELSE owned
      /\ call' = [call EXCEPT ![c] = x]
      /\ calls' = [calls EXCEPT ![c] = IF pc[c] = "idle" THEN @ + 1 ELSE @]
      /\ \E l \in {"return", "done", "cancel", "send"} : pc' = [pc EXCEPT ![c] = l]
      /\ UNCHANGED <<videoVars, msg_queue, muxerVars, camVars, answered, seen,
                     histVars, fault>>
  BY Zenon DEF Begin
<1>1. x.do # "then_deinit"
  BY DEF ConstantsAssumption, Call
<1>2. x.do = "attach" => x.mux \in Muxers
  BY DEF Call, Part
<1>3. ClientType'
  BY <1>2 DEF ClientType, ConstantsAssumption
<1>4. Sendable'
  BY <1>1 DEF Sendable, ClientType
<1> QED BY <1>3, <1>4, Kept

LEMMA GoOnType ==
  ASSUME TypeInv, NEW c \in Clients, GoOn(c)
  PROVE  TypeInv'
<1> USE ConstantsAssumption DEF TypeInv, TypeOK
<1>1. CASE Cancel(c)
  <2>1. UNCHANGED <<videoVars, muxerVars, camVars, idr, fresh, fails, badAttach, fault>>
    BY <1>1, Zenon DEF Cancel
  <2>4. takenBack' = (takenBack \/ TakesBackOthers(c))
    BY <1>1, Zenon DEF Cancel
  <2>5. takenBack' \in BOOLEAN
    BY <2>4, Zenon DEF HistType, TakesBackOthers
  <2>6. HistType'
    BY <2>1, <2>5, Zenon DEF HistType
  <2>2. ClientType' /\ Sendable'
    BY <1>1 DEF Cancel, ClientType, Sendable
  <2>3. msg_queue' \in Seq(Message)
    <3> DEFINE others == {i \in DOMAIN msg_queue : msg_queue[i].id # Cancels(call[c].do)}
    <3>1. IsFiniteSet(DOMAIN msg_queue)
      BY FS_Interval
    <3>2. Cardinality(others) \in Nat
      BY <3>1, FS_Subset, FS_CardinalityType
    <3>3. PICK f \in [1..Cardinality(others) -> others] :
            msg_queue' = [i \in DOMAIN f |-> msg_queue[f[i]]]
      BY <1>1, Zenon DEF Cancel
    <3> QED BY <3>2, <3>3
  <2> QED BY <2>1, <2>2, <2>3, <2>6, Kept
<1>2. CASE Send(c)
  <2>1. UNCHANGED <<videoVars, muxerVars, camVars, histVars, fault>>
    BY <1>2, Zenon DEF Send
  <2>2. ClientType' /\ Sendable'
    BY <1>2 DEF Send, ClientType, Sendable
  <2>3. call[c] \in Call \cup Part /\ call[c].do # "then_deinit"
    BY <1>2 DEF Send, Sendable
  <2>4. PICK f \in Clients \cup {NoClient} :
          msg_queue' = Append(msg_queue, [id |-> Sends(call[c].do),
                                          mux |-> call[c].mux, from |-> f])
    BY <1>2, Zenon DEF Send
  <2>5. msg_queue' \in Seq(Message)
    BY <2>3, <2>4, SendsMessage
  <2> QED BY <2>1, <2>2, <2>5, Kept
<1>3. CASE UseAfterDelete(c)
  <2>1. UNCHANGED <<videoVars, msg_queue, muxerVars, camVars, clientVars, histVars>>
    BY <1>3, Zenon DEF UseAfterDelete
  <2>2. FaultType'
    BY <1>3 DEF UseAfterDelete, FaultType
  <2> QED BY <2>1, <2>2, Kept
<1>4. CASE Answered(c) \/ NoFlags(c) \/ ReadFlags(c)
  <2>1. UNCHANGED <<videoVars, msg_queue, muxerVars, camVars, histVars, fault>>
    BY <1>4, Zenon DEF Answered, NoFlags, ReadFlags
  <2>2. ClientType' /\ Sendable'
    BY <1>4 DEF Answered, NoFlags, ReadFlags, ClientType, Sendable, VideoType
  <2> QED BY <2>1, <2>2, Kept
<1>5. CASE WriteFlags(c)
  <2>1. UNCHANGED <<msg_queue, muxerVars, camVars, histVars, fault>>
    BY <1>5, Zenon DEF WriteFlags
  <2>2. ClientType' /\ Sendable'
    BY <1>5 DEF WriteFlags, ClientType, Sendable
  <2>3. VideoType'
    BY <1>5, FlagsType DEF WriteFlags, ClientType, VideoType
  <2> QED BY <2>1, <2>2, <2>3, Kept
<1>6. CASE Return(c)
  <2>1. UNCHANGED <<msg_queue, muxerVars, camVars, histVars, fault>>
    BY <1>6, Zenon DEF Return
  <2>2. Follows(call[c].do) \in Part \cup {NoCall}
    BY DEF Follows, Part
  <2>3. ClientType' /\ Sendable'
    BY <1>6, <2>2 DEF Return, ClientType, Sendable
  <2>4. VideoType'
    BY <1>6 DEF Return, VideoType
  <2> QED BY <2>1, <2>3, <2>4, Kept
<1>7. CASE Deinit(c)
  <2>1. UNCHANGED <<msg_queue, muxerVars, camVars, histVars, fault>>
    BY <1>7, Zenon DEF Deinit
  <2>2. ClientType' /\ Sendable'
    BY <1>7 DEF Deinit, ClientType, Sendable
  <2>3. VideoType'
    BY <1>7 DEF Deinit, VideoType
  <2> QED BY <2>1, <2>2, <2>3, Kept
<1>8. CASE Joined(c)
  <2>1. UNCHANGED <<videoVars, msg_queue, muxerVars, camVars, histVars, fault>>
    BY <1>8, Zenon DEF Joined
  <2>2. ClientType' /\ Sendable'
    BY <1>8 DEF Joined, ClientType, Sendable
  <2> QED BY <2>1, <2>2, Kept
<1> QED BY <1>1, <1>2, <1>3, <1>4, <1>5, <1>6, <1>7, <1>8, BeginType DEF GoOn

\* The helpers of the message handlers.
LEMMA HelpersType ==
  ASSUME TypeInv
  PROVE  /\ EncAfterUnref \in [Muxers -> {"none", "current", "stale"}]
         /\ Unref => h264_ref' \in Nat
         /\ Fail => fails' \in 0..MaxFails
<1> USE DEF TypeInv, TypeOK, MuxerType
<1>1. EncAfterUnref \in [Muxers -> {"none", "current", "stale"}]
  BY DEF EncAfterUnref, Dangling
<1>2. Unref => h264_ref' \in Nat
  BY DEF Unref
<1>3. Fail => fails' \in 0..MaxFails
  BY ConstantsAssumption DEF Fail, HistType, ConstantsAssumption
<1> QED BY <1>1, <1>2, <1>3

\* What the handlers do to the pending key frame and the counter of failures.
LEMMA SomeHistType ==
  ASSUME TypeInv, fails' = fails \/ Fail,
         idr' \in {idr, TRUE, FALSE}, fresh' \in {fresh, TRUE, FALSE},
         badAttach' \in {badAttach, TRUE}, takenBack' = takenBack
  PROVE  HistType'
<1> USE DEF TypeInv, TypeOK, HistType
<1>1. fails' \in 0..MaxFails
  BY HelpersType
<1>2. idr' \in BOOLEAN /\ fresh' \in BOOLEAN /\ badAttach' \in BOOLEAN
      /\ takenBack' \in BOOLEAN
  BY Zenon
<1> QED BY <1>1, <1>2

LEMMA HandleType1 ==
  ASSUME TypeInv, StartTwice \/ DetachNoEncoder
  PROVE  TypeInv'
<1>1. UNCHANGED <<videoVars, msg_queue, muxerVars, camVars, clientVars, histVars>>
  BY Zenon DEF StartTwice, DetachNoEncoder
<1>2. FaultType'
  BY DEF StartTwice, DetachNoEncoder, FaultType
<1> QED BY <1>1, <1>2, Kept DEF TypeInv, TypeOK

LEMMA HandleFileType ==
  ASSUME TypeInv, HandleStartFile \/ HandleStopFile \/ HandleSwitchFile
  PROVE  TypeInv'
<1> USE DEF TypeInv, TypeOK
<1>1. UNCHANGED <<videoVars, msg_queue, clientVars, fault>>
  BY Zenon DEF HandleStartFile, HandleStopFile, HandleSwitchFile
<1>2. CamType'
  <2>1. /\ cam' \in {"frame", "leave", "notify"} /\ msg' \in {msg, NoMessage}
        /\ ret' \in {ret, -1} /\ video_save' = video_save
    BY Zenon DEF HandleStartFile, HandleStopFile, HandleSwitchFile, RestartJob,
                 Handled, Failed, ThenNotify
  <2> QED BY <2>1 DEF CamType
<1>3. MuxerType' /\ HistType'
  <2>1. CASE HandleStartFile
    <3>1. MuxerType'
      BY <2>1 DEF HandleStartFile, MuxerType
    <3>2. fails' = fails \/ Fail
      BY <2>1, Zenon DEF HandleStartFile, EncoderFails
    <3>3. /\ idr' \in {idr, TRUE} /\ fresh' \in {fresh, TRUE}
          /\ badAttach' = badAttach /\ takenBack' = takenBack
      BY <2>1, Zenon DEF HandleStartFile
    <3> QED BY <3>1, <3>2, <3>3, SomeHistType
  <2>2. CASE HandleStopFile
    BY <2>2, HelpersType DEF HandleStopFile, FreeFile, MuxerType, HistType, histVars
  <2>3. CASE HandleSwitchFile
    BY <2>3, HelpersType DEF HandleSwitchFile, RestartJob, MuxerType, HistType
  <2> QED BY <2>1, <2>2, <2>3
<1> QED BY <1>1, <1>2, <1>3, Kept

LEMMA HandleCacheType ==
  ASSUME TypeInv,
         HandleStartCache \/ HandleStopCache \/ HandleSaveCache \/ HandleStopSaveCache
  PROVE  TypeInv'
<1> USE DEF TypeInv, TypeOK
<1>1. UNCHANGED <<videoVars, msg_queue, clientVars>>
  BY Zenon DEF HandleStartCache, HandleStopCache, HandleSaveCache, HandleStopSaveCache
<1>2. FaultType'
  BY DEF HandleStartCache, HandleStopCache, HandleSaveCache, HandleStopSaveCache, FaultType
<1>3. CamType'
  <2>1. /\ cam' \in {"frame", "leave", "notify", cam} /\ msg' \in {msg, NoMessage}
        /\ ret' \in {ret, -1} /\ video_save' \in {video_save, TRUE}
    BY Zenon DEF HandleStartCache, HandleStopCache, HandleSaveCache,
                 HandleStopSaveCache, Handled, Failed, ThenNotify
  <2> QED BY <2>1 DEF CamType
<1>4. MuxerType' /\ HistType'
  <2>1. CASE HandleStartCache
    <3>1. MuxerType'
      <4>1. /\ h264_ref' \in {h264_ref, h264_ref + 1}
            /\ cameracache' \in {cameracache, "caching"} /\ special' \in {special, TRUE}
            /\ UNCHANGED <<camerafile, handlers, muxEnc>>
        BY <2>1, Zenon DEF HandleStartCache
      <4>2. special' \in BOOLEAN
        BY <4>1, Zenon DEF MuxerType
      <4> QED BY <4>1, <4>2 DEF MuxerType
    <3>2. fails' = fails \/ Fail
      BY <2>1, Zenon DEF HandleStartCache, EncoderFails
    <3>3. idr' \in {idr, TRUE} /\ fresh' = fresh /\ badAttach' = badAttach /\ takenBack' = takenBack
      BY <2>1, Zenon DEF HandleStartCache
    <3> QED BY <3>1, <3>2, <3>3, SomeHistType
  <2>2. CASE HandleStopCache
    BY <2>2, HelpersType DEF HandleStopCache, MuxerType, HistType, histVars
  <2>3. CASE HandleSaveCache
    BY <2>3, HelpersType DEF HandleSaveCache, MuxerType, HistType
  <2>4. CASE HandleStopSaveCache
    BY <2>4 DEF HandleStopSaveCache, MuxerType, HistType, histVars
  <2> QED BY <2>1, <2>2, <2>3, <2>4
<1> QED BY <1>1, <1>2, <1>3, <1>4, Kept

LEMMA HandleMuxerType ==
  ASSUME TypeInv, HandleAttach \/ HandleDetach
  PROVE  TypeInv'
<1> USE DEF TypeInv, TypeOK
<1>1. UNCHANGED <<videoVars, msg_queue, clientVars, fault>>
  BY Zenon DEF HandleAttach, HandleDetach
<1>2. CamType'
  <2>1. /\ cam' \in {"frame", "notify"} /\ msg' \in {msg, NoMessage}
        /\ ret' = ret /\ video_save' = video_save
    BY Zenon DEF HandleAttach, HandleDetach, Handled, ThenNotify
  <2> QED BY <2>1 DEF CamType
<1>3. msg.mux \in Muxers
  <2>1. msg.id \in MuxerIds
    BY DEF HandleAttach, HandleDetach, MuxerIds
  <2>2. msg \in Message
    BY <2>1 DEF CamType, NoMessage, MuxerIds
  <2> QED BY <2>1, <2>2 DEF Message, MuxerIds, PlainIds
<1>4. MuxerType' /\ HistType'
  <2>1. CASE HandleAttach
    <3>1. MuxerType'
      BY <1>3, <2>1 DEF HandleAttach, MuxerType
    <3>2. fails' \in 0..MaxFails
      BY <2>1, HelpersType DEF HandleAttach, EncoderFails, HistType
    <3>3. /\ fresh' = fresh /\ takenBack' = takenBack
          /\ idr' \in {idr, (idr \/ h264_ref = 0)} /\ badAttach' \in {badAttach, TRUE}
      BY <2>1, Zenon DEF HandleAttach
    <3>4. idr' \in BOOLEAN /\ badAttach' \in BOOLEAN
      BY <3>3, Zenon DEF HistType
    <3> QED BY <3>1, <3>2, <3>3, <3>4 DEF HistType
  <2>2. CASE HandleDetach
    BY <1>3, <2>2, HelpersType DEF HandleDetach, MuxerType, HistType, histVars
  <2> QED BY <2>1, <2>2
<1> QED BY <1>1, <1>2, <1>4, Kept

LEMMA EncodeType ==
  ASSUME TypeInv, EncodeFrame \/ RestartFile \/ KeepFile
  PROVE  TypeInv'
<1> USE DEF TypeInv, TypeOK
<1>1. UNCHANGED <<videoVars, msg_queue, clientVars, fault>>
  BY Zenon DEF EncodeFrame, RestartFile, KeepFile
<1>2. CamType'
  <2>1. /\ cam' \in {"tail", "leave"} /\ msg' = msg
        /\ ret' \in {ret, -1} /\ video_save' = video_save
    BY Zenon DEF EncodeFrame, RestartFile, KeepFile, RestartJob, Ends, EndsFailed
  <2> QED BY <2>1 DEF CamType
<1>3. MuxerType'
  BY DEF EncodeFrame, RestartFile, KeepFile, RestartJob, MuxerType, muxerVars
<1>4. HistType'
  <2>1. CASE EncodeFrame
    <3>1. /\ fails' = fails /\ badAttach' = badAttach /\ takenBack' = takenBack
          /\ idr' \in {idr, TRUE, FALSE}
          /\ fresh' \in {fresh, (fresh /\ camerafile # "running")}
      BY <2>1, Zenon DEF EncodeFrame
    <3>2. fresh' \in {fresh, TRUE, FALSE}
      BY <3>1, Zenon
    <3> QED BY <3>1, <3>2, SomeHistType
  <2>2. CASE RestartFile
    <3>1. /\ fails' = fails \/ Fail
          /\ idr' \in {idr, TRUE} /\ fresh' \in {fresh, TRUE}
          /\ badAttach' = badAttach /\ takenBack' = takenBack
      BY <2>2, Zenon DEF RestartFile, RestartJob
    <3> QED BY <3>1, SomeHistType
  <2>3. CASE KeepFile
    BY <2>3, Kept DEF KeepFile
  <2> QED BY <2>1, <2>2, <2>3
<1> QED BY <1>1, <1>2, <1>3, <1>4, Kept

LEMMA NotifyType ==
  ASSUME TypeInv, Notify
  PROVE  TypeInv'
<1> USE DEF TypeInv, TypeOK
<1>1. UNCHANGED <<videoVars, msg_queue, muxerVars, histVars, fault>>
  BY Zenon DEF Notify
<1>2. CamType'
  BY DEF Notify, CamType
<1>3. ClientType' /\ Sendable'
  BY DEF Notify, ClientType, Sendable
<1> QED BY <1>1, <1>2, <1>3, Kept

\* The other steps of the camera thread change its own state, the queue's
\* first message, mp4_encoding or pthread_run.
LEMMA FrameType ==
  ASSUME TypeInv,
         \/ CamPeek \/ CamConfigure \/ CamEnter \/ CamCheck \/ CamEmpty
         \/ CamEmptyDeleted \/ CamPop \/ SkipFrame \/ RestartNoEncoder
         \/ CamLeave \/ CamSignal
  PROVE  TypeInv'
<1> USE DEF TypeInv, TypeOK
<1> DEFINE Acts == \/ CamPeek \/ CamConfigure \/ CamEnter \/ CamCheck \/ CamEmpty
                   \/ CamEmptyDeleted \/ SkipFrame \/ RestartNoEncoder
                   \/ CamLeave \/ CamSignal
<1>1. CASE CamPop
  <2>1. UNCHANGED <<videoVars, muxerVars, clientVars, histVars>>
    BY <1>1, Zenon DEF CamPop
  <2>2. FaultType'
    BY <1>1 DEF CamPop, FaultType
  <2>3. CASE msg_queue = <<>>
    <3>1. UNCHANGED <<msg_queue, camVars>>
      BY <1>1, <2>3, Zenon DEF CamPop, camVars
    <3> QED BY <2>1, <2>2, <3>1, Kept
  <2>4. CASE msg_queue # <<>>
    <3>1. /\ cam' = "handle" /\ UNCHANGED <<ret, video_save>>
          /\ msg' = Head(msg_queue) /\ msg_queue' = Tail(msg_queue)
      BY <1>1, <2>4, Zenon DEF CamPop
    <3>2. Head(msg_queue) \in Message /\ Tail(msg_queue) \in Seq(Message)
      BY <2>4
    <3>3. CamType'
      BY <3>1, <3>2 DEF CamType
    <3> QED BY <2>1, <2>2, <3>1, <3>2, <3>3, Kept
  <2> QED BY <2>3, <2>4
<1>2. CASE Acts
  <2>1. UNCHANGED <<msg_queue, muxerVars, clientVars, histVars>>
    BY <1>2, Zenon DEF CamPeek, CamConfigure, CamEnter, CamCheck, CamEmpty,
       CamEmptyDeleted, SkipFrame, RestartNoEncoder, CamLeave, CamSignal
  <2>2. FaultType'
    BY <1>2 DEF CamPeek, CamConfigure, CamEnter, CamCheck, CamEmpty,
       CamEmptyDeleted, SkipFrame, RestartNoEncoder, CamLeave, CamSignal, FaultType
  <2>3. CamType'
    BY <1>2 DEF CamPeek, CamConfigure, CamEnter, CamCheck, CamEmpty,
       CamEmptyDeleted, SkipFrame, RestartNoEncoder, CamLeave, CamSignal, CamType, camVars
  <2>4. VideoType'
    <3>1. /\ UNCHANGED <<flags, vt>> /\ pthread_run' \in {pthread_run, FALSE}
          /\ mp4_encoding' \in {mp4_encoding, TRUE, FALSE}
      BY <1>2, Zenon DEF CamPeek, CamConfigure, CamEnter, CamCheck, CamEmpty,
         CamEmptyDeleted, SkipFrame, RestartNoEncoder, CamLeave, LeaveEncoding,
         CamSignal, videoVars
    <3> QED BY <3>1, Zenon DEF VideoType
  <2> QED BY <2>1, <2>2, <2>3, <2>4, Kept
<1> QED BY <1>1, <1>2

LEMMA VideoThreadType ==
  ASSUME TypeInv, Video
  PROVE  TypeInv'
<1> USE DEF TypeInv, TypeOK
<1>1. UNCHANGED <<muxerVars, camVars, clientVars, histVars>>
  BY Zenon DEF Video, VideoLeave, VideoDestroy, VideoDelete
<1>2. UNCHANGED <<pthread_run, mp4_encoding, flags>> /\ vt' \in {"leaving", "destroyed", "gone"}
  BY Zenon DEF Video, VideoLeave, VideoDestroy, VideoDelete
<1>3. VideoType'
  BY <1>2, Zenon DEF VideoType
<1>4. msg_queue' \in {msg_queue, <<>>} /\ fault' \in {fault, "not closed"}
  BY Zenon DEF Video, VideoLeave, VideoDestroy, VideoDelete
<1>5. msg_queue' \in Seq(Message)
  <2>1. <<>> \in Seq(Message)
    OBVIOUS
  <2> QED BY <1>4, <2>1, Zenon
<1>6. FaultType'
  BY <1>4, Zenon DEF FaultType
<1> QED BY <1>1, <1>3, <1>5, <1>6, Kept

LEMMA NextType == TypeInv /\ [Next]_vars => TypeInv'
<1> SUFFICES ASSUME TypeInv, [Next]_vars PROVE TypeInv'
  OBVIOUS
<1>1. CASE Camera
  BY <1>1, HandleType1, HandleFileType, HandleCacheType, HandleMuxerType,
     EncodeType, NotifyType, FrameType, Zenon DEF Camera, Handle
<1>2. CASE Video
  BY <1>2, VideoThreadType
<1>3. ASSUME NEW c \in Clients, Client(c) PROVE TypeInv'
  BY <1>3, BeginType, GoOnType DEF Client
<1>4. CASE UNCHANGED vars
  BY <1>4, Kept DEF vars, TypeInv, TypeOK
<1> QED BY <1>1, <1>2, <1>3, <1>4 DEF Next

\* Every variable keeps its type: in particular msg_queue holds messages that
\* the camera thread has a handler for, and the encoder's count of references
\* never becomes negative.
THEOREM TypeCorrect == Spec => []TypeOK
<1>1. TypeInv => TypeOK
  BY DEF TypeInv
<1> QED BY <1>1, InitType, NextType, PTL DEF Spec

-----------------------------------------------------------------------------
(* The flags of struct Video.                                              *)

Inside == {"empty", "pop", "handle", "notify", "frame", "tail"}

\* The strengthening: a camera that is left has been stopped, for good; the
\* flag is set from before the test of pthread_run until the thread leaves.
StoppedForGood == vt # "run" => ~pthread_run
FlagCovers == cam \in Inside \cup {"check", "leave"} => mp4_encoding
InUseInv == StoppedForGood /\ FlagCovers /\ HandlerInUse

LEMMA InitInUse == Init => InUseInv
<1> SUFFICES ASSUME Init PROVE InUseInv
  OBVIOUS
<1>1. vt = "run" /\ cam = "out"
  BY Zenon DEF Init
<1> QED BY <1>1 DEF InUseInv, StoppedForGood, FlagCovers, HandlerInUse, Inside,
                    HandlerAlive

\* A client changes neither what the camera thread nor what the video thread
\* does; at most it stops the camera.
LEMMA ClientStep ==
  ASSUME NEW c \in Clients, Client(c)
  PROVE  /\ UNCHANGED <<vt, cam, mp4_encoding>>
         /\ pthread_run' => pthread_run
<1>1. CASE Begin(c)
  <2>1. UNCHANGED <<videoVars, camVars>>
    BY <1>1, Zenon DEF Begin
  <2> QED BY <2>1 DEF videoVars, camVars
<1>2. CASE Cancel(c)
  <2>1. UNCHANGED <<videoVars, camVars>>
    BY <1>2, Zenon DEF Cancel
  <2> QED BY <2>1 DEF videoVars, camVars
<1>3. CASE Send(c)
  <2>1. UNCHANGED <<videoVars, camVars>>
    BY <1>3, Zenon DEF Send
  <2> QED BY <2>1 DEF videoVars, camVars
<1>4. CASE UseAfterDelete(c) \/ Answered(c) \/ NoFlags(c) \/ ReadFlags(c) \/ Joined(c)
  <2>1. UNCHANGED <<videoVars, camVars>>
    BY <1>4, Zenon DEF UseAfterDelete, Answered, NoFlags, ReadFlags, Joined
  <2> QED BY <2>1 DEF videoVars, camVars
<1>5. CASE WriteFlags(c) \/ Return(c) \/ Deinit(c)
  <2>1. UNCHANGED <<vt, mp4_encoding, camVars>>
    BY <1>5, Zenon DEF WriteFlags, Return, Deinit
  <2>2. \/ pthread_run' = pthread_run
        \/ pthread_run' = FALSE
        \/ pthread_run' = (pthread_run /\ call[c].do # "deletevideo")
    BY <1>5, Zenon DEF WriteFlags, Return, Deinit
  <2>3. pthread_run' => pthread_run
    BY <2>2, Zenon
  <2> QED BY <2>1, <2>3 DEF camVars
<1> QED BY <1>1, <1>2, <1>3, <1>4, <1>5 DEF Client, GoOn

SyncIds == {"STOP_RECODEFILE", "STOP_CACHE", "STOP_SAVE_CACHE", "DETACH_USER_MUXER"}

\* Handling a message leaves the camera thread inside, or on its way out; it
\* is done with the message unless that asks for an answer.
LEMMA HandleStep ==
  ASSUME Handle
  PROVE  /\ cam = "handle" /\ UNCHANGED <<videoVars, msg_queue, clientVars>>
         /\ \/ cam' = "handle" /\ msg' = msg
            \/ cam' \in {"frame", "leave"} /\ msg' = NoMessage
            \/ cam' = "notify" /\ msg' = msg /\ msg.id \in SyncIds
<1> USE DEF Handled, Failed, ThenNotify, SyncIds
<1>1. CASE StartTwice
  BY <1>1, Zenon DEF StartTwice, camVars
<1>2. CASE HandleStartFile
  BY <1>2, Zenon DEF HandleStartFile
<1>3. CASE HandleStopFile
  BY <1>3, Zenon DEF HandleStopFile
<1>4. CASE HandleSwitchFile
  BY <1>4, Zenon DEF HandleSwitchFile, RestartJob
<1>5. CASE HandleStartCache
  BY <1>5, Zenon DEF HandleStartCache
<1>6. CASE HandleStopCache
  BY <1>6, Zenon DEF HandleStopCache
<1>7. CASE HandleSaveCache
  BY <1>7, Zenon DEF HandleSaveCache
<1>8. CASE HandleStopSaveCache
  BY <1>8, Zenon DEF HandleStopSaveCache
<1>9. CASE HandleAttach
  BY <1>9, Zenon DEF HandleAttach
<1>10. CASE HandleDetach
  BY <1>10, Zenon DEF HandleDetach
<1>11. CASE DetachNoEncoder
  BY <1>11, Zenon DEF DetachNoEncoder, camVars
<1> QED BY <1>1, <1>2, <1>3, <1>4, <1>5, <1>6, <1>7, <1>8, <1>9, <1>10, <1>11
        DEF Handle

LEMMA NextInUse ==
  ASSUME InOrder, InUseInv, [Next]_vars
  PROVE  InUseInv'
<1> USE DEF InUseInv, StoppedForGood, FlagCovers, HandlerInUse, HandlerAlive, Inside
<1>1. CASE Camera
  <2>1. CASE Handle
    BY <2>1, HandleStep DEF videoVars
  <2>2. CASE CamPeek \/ CamConfigure
    <3>1. /\ cam \in {"out", "peek"} /\ cam' \in {cam, "out", "peek", "enter"}
          /\ UNCHANGED videoVars
      BY <2>2, Zenon DEF CamPeek, CamConfigure
    <3> QED BY <3>1 DEF videoVars
  <2>3. CASE CamEnter
    BY <2>3 DEF CamEnter
  <2>4. CASE CamCheck
    BY <2>4 DEF CamCheck, videoVars
  <2>5. CASE CamEmpty
    BY <2>5 DEF CamEmpty
  <2>6. CASE CamEmptyDeleted \/ CamPop
    <3>1. cam \in {"empty", "pop"} /\ cam' \in {cam, "handle"} /\ UNCHANGED videoVars
      BY <2>6, Zenon DEF CamEmptyDeleted, CamPop, camVars
    <3> QED BY <3>1 DEF videoVars
  <2>7. CASE Notify
    <3>1. cam = "notify" /\ cam' = "frame" /\ UNCHANGED videoVars
      BY <2>7, Zenon DEF Notify
    <3> QED BY <3>1 DEF videoVars
  <2>8. CASE SkipFrame \/ EncodeFrame \/ KeepFile
    BY <2>8 DEF SkipFrame, EncodeFrame, KeepFile, Ends, videoVars
  <2>9. CASE RestartFile
    <3>1. cam = "tail" /\ cam' = "leave" /\ UNCHANGED videoVars
      BY <2>9, Zenon DEF RestartFile, RestartJob, Ends, EndsFailed
    <3> QED BY <3>1 DEF videoVars
  <2>10. CASE CamLeave \/ CamSignal
    BY <2>10 DEF CamLeave, LeaveEncoding, CamSignal, videoVars
  <2>11. CASE RestartNoEncoder
    <3>1. UNCHANGED <<videoVars, camVars>>
      BY <2>11, Zenon DEF RestartNoEncoder
    <3> QED BY <3>1 DEF videoVars, camVars
  <2> QED BY <1>1, <2>1, <2>2, <2>3, <2>4, <2>5, <2>6, <2>7, <2>8, <2>9,
            <2>10, <2>11 DEF Camera
<1>2. CASE Video
  <2>1. CASE VideoLeave
    BY <2>1 DEF VideoLeave, camVars
  <2>2. CASE VideoDestroy
    BY <2>2 DEF VideoDestroy, MayDestroy, camVars
  <2>3. CASE VideoDelete
    BY <2>3 DEF VideoDelete, camVars
  <2> QED BY <1>2, <2>1, <2>2, <2>3 DEF Video
<1>3. CASE \E c \in Clients : Client(c)
  <2>1. UNCHANGED <<vt, cam, mp4_encoding>> /\ (pthread_run' => pthread_run)
    BY <1>3, ClientStep, Zenon
  <2> QED BY <2>1
<1>4. CASE UNCHANGED vars
  BY <1>4 DEF vars, videoVars, camVars
<1> QED BY <1>1, <1>2, <1>3, <1>4 DEF Next

\* The camera thread never runs h264_encode_process of a deleted handler,
\* when mp4_encoding and pthread_run are seen in program order
\* (process/video.cpp: the wrapper h264_encode_process and record_exit).
THEOREM InUseSafe == InOrder => (Spec => []HandlerInUse)
<1> SUFFICES ASSUME InOrder PROVE Spec => []HandlerInUse
  OBVIOUS
<1>1. Init => InUseInv
  BY InitInUse
<1>2. InUseInv /\ [Next]_vars => InUseInv'
  BY NextInUse
<1>3. InUseInv => HandlerInUse
  BY DEF InUseInv
<1> QED BY <1>1, <1>2, <1>3, PTL DEF Spec

-----------------------------------------------------------------------------
(* Messages and answers.  An entry of the queue, or the message under work, *)
(* that asks for an answer has a sender that waits, each a different one.   *)

Waits(c) == pc[c] = "wait" /\ ~answered[c]

QueueWaits ==
  \A i \in DOMAIN msg_queue :
    /\ msg_queue[i].from # NoClient <=> msg_queue[i].id \in SyncIds
    /\ msg_queue[i].from # NoClient => Waits(msg_queue[i].from)
                                       /\ msg_queue[i].from # msg.from
OnePerSender ==
  \A i, j \in DOMAIN msg_queue :
    msg_queue[i].from = msg_queue[j].from /\ msg_queue[i].from # NoClient => i = j
MsgWaits ==
  /\ cam \in {"handle", "notify"} =>
       /\ msg \in Message
       /\ msg.from # NoClient <=> msg.id \in SyncIds
       /\ msg.from # NoClient => Waits(msg.from)
  /\ cam \notin {"handle", "notify"} => msg = NoMessage
  /\ cam = "notify" => msg.from # NoClient
AnswerPending == \A c \in Clients : answered[c] => pc[c] = "wait"
AnswerInv == QueueWaits /\ OnePerSender /\ MsgWaits /\ AnswerPending

LEMMA InitAnswer == Init => AnswerInv
<1> SUFFICES ASSUME Init PROVE AnswerInv
  OBVIOUS
<1>1. /\ msg_queue = <<>> /\ cam = "out" /\ msg = NoMessage
      /\ answered = [c \in Clients |-> FALSE]
  BY Zenon DEF Init
<1> QED BY <1>1 DEF AnswerInv, QueueWaits, OnePerSender, MsgWaits, AnswerPending

\* The steps of the camera thread that neither take a message nor answer one.
Frame == CamPeek \/ CamConfigure \/ CamEnter \/ CamCheck \/ CamEmpty \/ CamEmptyDeleted
         \/ SkipFrame \/ EncodeFrame \/ RestartFile \/ RestartNoEncoder \/ KeepFile
         \/ CamLeave \/ CamSignal

LEMMA FrameStep ==
  ASSUME Frame
  PROVE  /\ UNCHANGED <<msg_queue, msg, clientVars>>
         /\ cam' = cam \/ (cam \notin {"handle", "notify"} /\ cam' \notin {"handle", "notify"})
<1> USE DEF Ends, EndsFailed
<1>1. CASE CamPeek \/ CamConfigure \/ CamEnter \/ CamCheck
  BY <1>1, Zenon DEF CamPeek, CamConfigure, CamEnter, CamCheck
<1>2. CASE CamEmpty \/ SkipFrame \/ EncodeFrame \/ CamLeave \/ CamSignal
  BY <1>2, Zenon DEF CamEmpty, SkipFrame, EncodeFrame, CamLeave, CamSignal
<1>3. CASE RestartFile \/ KeepFile
  BY <1>3, Zenon DEF RestartFile, RestartJob, KeepFile
<1>4. CASE CamEmptyDeleted \/ RestartNoEncoder
  BY <1>4, Zenon DEF CamEmptyDeleted, RestartNoEncoder, camVars
<1> QED BY <1>1, <1>2, <1>3, <1>4 DEF Frame

LEMMA CameraCases == Camera <=> Frame \/ Handle \/ CamPop \/ Notify
  BY Zenon DEF Camera, Frame

\* A call that is not about to send, and does not wait, moves on.
LEMMA ClientMoves ==
  ASSUME NEW c \in Clients,
         \/ Begin(c) \/ NoFlags(c) \/ ReadFlags(c) \/ WriteFlags(c) \/ Return(c)
         \/ Deinit(c) \/ Joined(c)
  PROVE  /\ UNCHANGED <<msg_queue, muxerVars, camVars, answered, histVars>>
         /\ pc[c] \notin {"wait", "cancel", "send"}
         /\ \E l : l # "wait" /\ pc' = [pc EXCEPT ![c] = l]
<1>1. CASE Begin(c)
  BY <1>1 DEF Begin
<1>2. CASE NoFlags(c) \/ ReadFlags(c)
  BY <1>2 DEF NoFlags, ReadFlags
<1>3. CASE WriteFlags(c) \/ Deinit(c) \/ Joined(c)
  BY <1>3 DEF WriteFlags, Deinit, Joined
<1>4. CASE Return(c)
  BY <1>4 DEF Return
<1> QED BY <1>1, <1>2, <1>3, <1>4

\* The rest of the queue keeps its order, and what it holds.
LEMMA CancelQueue ==
  ASSUME TypeInv, NEW c \in Clients, Cancel(c)
  PROVE  /\ DOMAIN msg_queue' \subseteq Nat
         /\ \E f \in [DOMAIN msg_queue' -> DOMAIN msg_queue] :
              /\ \A i, j \in DOMAIN msg_queue' : f[i] = f[j] => i = j
              /\ \A i \in DOMAIN msg_queue' : msg_queue'[i] = msg_queue[f[i]]
                                             /\ msg_queue'[i].id # Cancels(call[c].do)
              /\ \A j \in DOMAIN msg_queue : msg_queue[j].id # Cancels(call[c].do) =>
                   \E i \in DOMAIN msg_queue' : f[i] = j
         /\ \/ /\ pc' = [pc EXCEPT ![c] = "send"]
               /\ \A i \in DOMAIN msg_queue : msg_queue[i].id # Cancels(call[c].do)
            \/ /\ pc' = [pc EXCEPT ![c] = "done"]
               /\ \E i \in DOMAIN msg_queue : msg_queue[i].id = Cancels(call[c].do)
<1> DEFINE others == {i \in DOMAIN msg_queue : msg_queue[i].id # Cancels(call[c].do)}
<1>1. IsFiniteSet(others) /\ Cardinality(others) \in Nat
  <2>1. msg_queue \in Seq(Message)
    BY DEF TypeInv, TypeOK
  <2>2. IsFiniteSet(DOMAIN msg_queue)
    BY <2>1, FS_Interval
  <2> QED BY <2>2, FS_Subset, FS_CardinalityType
<1>2. PICK f \in [1..Cardinality(others) -> others] :
        /\ \A i, j \in DOMAIN f : i < j => f[i] < f[j]
        /\ msg_queue' = [i \in DOMAIN f |-> msg_queue[f[i]]]
  BY Zenon DEF Cancel
<1>3. DOMAIN msg_queue \subseteq Nat
  BY DEF TypeInv, TypeOK
<1>4. f \in [DOMAIN msg_queue' -> DOMAIN msg_queue]
  BY <1>2
<1>5. \A i, j \in DOMAIN msg_queue' : f[i] = f[j] => i = j
  BY <1>1, <1>2, <1>3
<1>6. \A i \in DOMAIN msg_queue' : msg_queue'[i] = msg_queue[f[i]]
                                 /\ msg_queue'[i].id # Cancels(call[c].do)
  BY <1>2
<1>7. DOMAIN msg_queue' \subseteq Nat
  BY <1>1, <1>2
<1>8. \A j \in others : \E i \in DOMAIN msg_queue' : f[i] = j
  <2>1. f \in Injection(1..Cardinality(others), others)
    BY <1>1, <1>2, <1>3, <1>5 DEF Injection, IsInjective
  <2>2. Cardinality(1..Cardinality(others)) = Cardinality(others)
    BY <1>1, FS_Interval
  <2>3. f \in Surjection(1..Cardinality(others), others)
    BY <1>1, <2>1, <2>2, FS_Injection
  <2> QED BY <1>2, <2>3 DEF Surjection
<1>9. \/ /\ pc' = [pc EXCEPT ![c] = "send"]
         /\ \A i \in DOMAIN msg_queue : msg_queue[i].id # Cancels(call[c].do)
      \/ /\ pc' = [pc EXCEPT ![c] = "done"]
         /\ \E i \in DOMAIN msg_queue : msg_queue[i].id = Cancels(call[c].do)
  <2>1. pc' = [pc EXCEPT ![c] = IF others = DOMAIN msg_queue THEN "send" ELSE "done"]
    BY Zenon DEF Cancel
  <2> QED BY <2>1
<1>10. \A j \in DOMAIN msg_queue : msg_queue[j].id # Cancels(call[c].do) =>
         \E i \in DOMAIN msg_queue' : f[i] = j
  BY <1>8
<1> HIDE DEF others
<1> QED BY <1>4, <1>5, <1>6, <1>7, <1>9, <1>10, Zenon

\* A message that is pushed asks for an answer exactly if its sender waits.
LEMMA SendEffect ==
  ASSUME TypeInv, NEW c \in Clients, Send(c)
  PROVE  \E m \in Message :
           /\ m = [id |-> Sends(call[c].do), mux |-> call[c].mux,
                   from |-> IF Sync(call[c].do) THEN c ELSE NoClient]
           /\ msg_queue' = Append(msg_queue, m)
           /\ m.from # NoClient <=> m.id \in SyncIds
           /\ \/ m.from = c /\ c # NoClient /\ pc' = [pc EXCEPT ![c] = "wait"]
              \/ m.from = NoClient /\ pc' = [pc EXCEPT ![c] = "done"]
<1> DEFINE do == call[c].do
           m == [id |-> Sends(do), mux |-> call[c].mux,
                 from |-> IF Sync(do) THEN c ELSE NoClient]
<1>1. call[c] \in Call \cup Part /\ call[c].do # "then_deinit"
  BY DEF Send, TypeInv, Sendable
<1>2. m \in Message
  BY <1>1, SendsMessage
<1>3. do \in {"startrec", "stoprec", "start_cache", "stop_cache", "switch",
             "savefile", "stop_savecache", "deletevideo", "api_video_deinit",
             "attach", "detach", "then_stoprec"}
  BY <1>1 DEF Call, Part
<1>4. Sync(do) <=> Sends(do) \in SyncIds
  BY <1>3 DEF Sync, Cancels, Sends, SyncIds, StopsRec, StopsCache
<1>5. msg_queue' = Append(msg_queue, m)
  BY Zenon DEF Send
<1>6. pc' = [pc EXCEPT ![c] = IF Sync(do) THEN "wait" ELSE "done"]
  BY Zenon DEF Send
<1>7. c # NoClient
  BY ConstantsAssumption DEF ConstantsAssumption
<1>8. m.from # NoClient <=> m.id \in SyncIds
  BY <1>4, <1>7
<1>9. \/ m.from = c /\ c # NoClient /\ pc' = [pc EXCEPT ![c] = "wait"]
      \/ m.from = NoClient /\ pc' = [pc EXCEPT ![c] = "done"]
  BY <1>6, <1>7
<1> QED BY <1>2, <1>5, <1>8, <1>9

\* Whoever is not waiting may move: what waits keeps waiting.
LEMMA AnswerClient ==
  ASSUME TypeInv, AnswerInv, NEW c \in Clients, Client(c)
  PROVE  AnswerInv'
<1> USE DEF AnswerInv
<1>0. pc \in [Clients -> {"idle", "next", "cancel", "send", "wait", "done",
                         "flags", "return", "joining"}]
      /\ answered \in [Clients -> BOOLEAN] /\ msg_queue \in Seq(Message)
  BY DEF TypeInv, TypeOK, ClientType
<1>a. /\ \A i \in DOMAIN msg_queue : msg_queue[i].from \in Clients \cup {NoClient}
      /\ msg.from \in Clients \cup {NoClient}
  <2>1. msg \in Message \cup {NoMessage}
    BY DEF TypeInv, TypeOK, CamType
  <2> QED BY <1>0, <2>1 DEF Message, NoMessage
<1>1. ASSUME UNCHANGED <<msg_queue, cam, msg, answered>>, pc[c] # "wait",
             \E l : l # "wait" /\ pc' = [pc EXCEPT ![c] = l]
      PROVE  AnswerInv'
  <2>1. \A d \in Clients : pc'[d] = pc[d] \/ (d = c /\ pc[d] # "wait" /\ pc'[d] # "wait")
    BY <1>0, <1>1
  <2>2. QueueWaits' /\ OnePerSender'
    BY <1>a, <1>1, <2>1 DEF QueueWaits, OnePerSender, Waits
  <2>3. MsgWaits' /\ AnswerPending'
    BY <1>a, <1>1, <2>1 DEF MsgWaits, AnswerPending, Waits
  <2> QED BY <2>2, <2>3
<1>2. CASE Cancel(c)
  <2>1. /\ UNCHANGED <<cam, msg, answered>> /\ pc[c] = "cancel"
        /\ \E l \in {"send", "done"} : pc' = [pc EXCEPT ![c] = l]
    BY <1>2 DEF Cancel, camVars
  <2>2. PICK f \in [DOMAIN msg_queue' -> DOMAIN msg_queue] :
          /\ \A i, j \in DOMAIN msg_queue' : f[i] = f[j] => i = j
          /\ \A i \in DOMAIN msg_queue' : msg_queue'[i] = msg_queue[f[i]]
    BY <1>2, CancelQueue
  <2>3. \A d \in Clients : pc'[d] = pc[d] \/ (d = c /\ pc[d] # "wait" /\ pc'[d] # "wait")
    BY <1>0, <2>1
  <2>4. QueueWaits'
    BY <1>a, <2>1, <2>2, <2>3 DEF QueueWaits, Waits
  <2>5. OnePerSender'
    BY <2>1, <2>2 DEF OnePerSender
  <2>6. MsgWaits' /\ AnswerPending'
    BY <1>a, <2>1, <2>3 DEF MsgWaits, AnswerPending, Waits
  <2> QED BY <2>4, <2>5, <2>6
<1>3. CASE Send(c)
  <2>1. UNCHANGED <<cam, msg, answered>> /\ pc[c] = "send"
    BY <1>3 DEF Send, camVars
  <2>2. PICK m \in Message :
           /\ msg_queue' = Append(msg_queue, m)
           /\ m.from # NoClient <=> m.id \in SyncIds
           /\ \/ m.from = c /\ c # NoClient /\ pc' = [pc EXCEPT ![c] = "wait"]
              \/ m.from = NoClient /\ pc' = [pc EXCEPT ![c] = "done"]
    BY <1>3, SendEffect
  <2>3. ~answered[c] /\ (m.from = c => Waits(c)')
    <3>1. c # NoClient
      BY ConstantsAssumption DEF ConstantsAssumption
    <3> QED BY <1>0, <2>1, <2>2, <3>1 DEF AnswerPending, Waits
  <2>4. \A d \in Clients : d # c => pc'[d] = pc[d]
    BY <1>0, <2>2
  <2>5. msg.from # c /\ \A i \in DOMAIN msg_queue : msg_queue[i].from # c
    <3>1. c # NoClient
      BY ConstantsAssumption DEF ConstantsAssumption
    <3>2. ASSUME msg.from = c PROVE FALSE
      BY <2>1, <3>1, <3>2 DEF MsgWaits, NoMessage, Waits
    <3> QED BY <2>1, <3>1, <3>2 DEF QueueWaits, Waits
  <2>6. \A i \in DOMAIN msg_queue' :
          \/ i \in DOMAIN msg_queue /\ msg_queue'[i] = msg_queue[i]
          \/ i = Len(msg_queue) + 1 /\ msg_queue'[i] = m
    BY <1>0, <2>2
  <2>7. QueueWaits'
    BY <1>a, <2>1, <2>2, <2>3, <2>4, <2>5, <2>6 DEF QueueWaits, Waits
  <2>8. OnePerSender'
    <3> SUFFICES ASSUME NEW i \in DOMAIN msg_queue', NEW j \in DOMAIN msg_queue',
                        msg_queue'[i].from = msg_queue'[j].from,
                        msg_queue'[i].from # NoClient
                 PROVE  i = j
      BY DEF OnePerSender
    <3>1. m.from \in {c, NoClient}
      BY <2>2
    <3> QED BY <2>5, <2>6, <3>1 DEF OnePerSender
  <2>9. MsgWaits'
    BY <1>a, <2>1, <2>4, <2>5 DEF MsgWaits, Waits
  <2>10. AnswerPending'
    BY <2>1, <2>3, <2>4 DEF AnswerPending
  <2> QED BY <2>7, <2>8, <2>9, <2>10
<1>4. CASE Answered(c)
  <2>1. /\ pc[c] = "wait" /\ answered[c] /\ UNCHANGED <<msg_queue, cam, msg>>
        /\ answered' = [answered EXCEPT ![c] = FALSE] /\ pc' = [pc EXCEPT ![c] = "done"]
    BY <1>4 DEF Answered, IsAnswered, camVars
  <2>2. \A d \in Clients :
          \/ pc'[d] = pc[d] /\ answered'[d] = answered[d]
          \/ ~Waits(d) /\ ~answered'[d]
    <3>1. ~Waits(c) /\ answered'[c] = FALSE
      BY <1>0, <2>1 DEF Waits
    <3>2. \A d \in Clients : d # c => pc'[d] = pc[d] /\ answered'[d] = answered[d]
      BY <1>0, <2>1
    <3> QED BY <3>1, <3>2
  <2>3. QueueWaits' /\ OnePerSender'
    BY <1>a, <2>1, <2>2 DEF QueueWaits, OnePerSender, Waits
  <2>4. MsgWaits' /\ AnswerPending'
    BY <1>a, <2>1, <2>2 DEF MsgWaits, AnswerPending, Waits
  <2> QED BY <2>3, <2>4
<1>5. CASE UseAfterDelete(c)
  <2>1. UNCHANGED <<msg_queue, camVars, clientVars>>
    BY <1>5, Zenon DEF UseAfterDelete
  <2> QED BY <2>1 DEF camVars, clientVars, QueueWaits, OnePerSender, MsgWaits,
                      AnswerPending, Waits
<1>6. CASE Begin(c) \/ NoFlags(c) \/ ReadFlags(c) \/ WriteFlags(c) \/ Return(c)
           \/ Deinit(c) \/ Joined(c)
  <2>1. /\ UNCHANGED <<msg_queue, camVars, answered>> /\ pc[c] # "wait"
        /\ \E l : l # "wait" /\ pc' = [pc EXCEPT ![c] = l]
    BY <1>6, ClientMoves
  <2> QED BY <1>1, <2>1 DEF camVars
<1> QED BY <1>2, <1>3, <1>4, <1>5, <1>6, Zenon DEF Client, GoOn

\* The camera thread takes the first message, handles it, and answers it once.
LEMMA AnswerCamera ==
  ASSUME TypeInv, AnswerInv, Camera
  PROVE  AnswerInv'
<1> USE DEF AnswerInv
<1>0. pc \in [Clients -> {"idle", "next", "cancel", "send", "wait", "done",
                         "flags", "return", "joining"}]
      /\ answered \in [Clients -> BOOLEAN] /\ msg_queue \in Seq(Message)
  BY DEF TypeInv, TypeOK, ClientType
<1>a. /\ \A i \in DOMAIN msg_queue : msg_queue[i].from \in Clients \cup {NoClient}
      /\ msg.from \in Clients \cup {NoClient}
  <2>1. msg \in Message \cup {NoMessage}
    BY DEF TypeInv, TypeOK, CamType
  <2> QED BY <1>0, <2>1 DEF Message, NoMessage
<1>1. CASE Frame
  <2>1. /\ UNCHANGED <<msg_queue, msg, pc, answered>>
        /\ cam' = cam \/ (cam \notin {"handle", "notify"} /\ cam' \notin {"handle", "notify"})
    BY <1>1, FrameStep DEF clientVars
  <2> QED BY <2>1 DEF QueueWaits, OnePerSender, MsgWaits, AnswerPending, Waits
<1>2. CASE Handle
  <2>1. /\ UNCHANGED <<msg_queue, pc, answered>> /\ cam = "handle"
        /\ \/ cam' = "handle" /\ msg' = msg
           \/ cam' \in {"frame", "leave"} /\ msg' = NoMessage
           \/ cam' = "notify" /\ msg' = msg /\ msg.id \in SyncIds
    BY <1>2, HandleStep DEF clientVars
  <2>2. QueueWaits' /\ OnePerSender'
    BY <2>1 DEF QueueWaits, OnePerSender, Waits, NoMessage
  <2>3. MsgWaits' /\ AnswerPending'
    BY <2>1 DEF MsgWaits, AnswerPending, Waits, NoMessage
  <2> QED BY <2>2, <2>3
<1>3. CASE CamPop
  <2>1. cam = "pop" /\ UNCHANGED <<pc, answered>>
    BY <1>3 DEF CamPop, clientVars
  <2>2. CASE msg_queue = <<>>
    <3>1. UNCHANGED <<msg_queue, msg, cam>>
      BY <1>3, <2>2, Zenon DEF CamPop
    <3> QED BY <2>1, <3>1 DEF QueueWaits, OnePerSender, MsgWaits, AnswerPending, Waits
  <2>3. CASE msg_queue # <<>>
    <3>1. msg' = Head(msg_queue) /\ msg_queue' = Tail(msg_queue) /\ cam' = "handle"
      BY <1>3, <2>3, Zenon DEF CamPop
    <3>2. 1 \in DOMAIN msg_queue /\ msg' = msg_queue[1] /\ msg' \in Message
      BY <1>0, <2>3, <3>1
    <3>3. \A i \in DOMAIN msg_queue' : /\ i + 1 \in DOMAIN msg_queue /\ i + 1 # 1
                                      /\ msg_queue'[i] = msg_queue[i + 1]
      BY <1>0, <2>3, <3>1
    <3>4. QueueWaits'
      BY <2>1, <3>2, <3>3 DEF QueueWaits, OnePerSender, Waits
    <3>5. OnePerSender'
      <4> SUFFICES ASSUME NEW i \in DOMAIN msg_queue', NEW j \in DOMAIN msg_queue',
                          msg_queue'[i].from = msg_queue'[j].from,
                          msg_queue'[i].from # NoClient
                   PROVE  i = j
        BY DEF OnePerSender
      <4>1. i + 1 = j + 1
        BY <3>3 DEF OnePerSender
      <4>2. i \in Nat /\ j \in Nat
        BY <1>0, <2>3, <3>1
      <4> QED BY <4>1, <4>2
    <3>6. MsgWaits' /\ AnswerPending'
      BY <2>1, <3>1, <3>2 DEF MsgWaits, AnswerPending, QueueWaits, Waits
    <3> QED BY <3>4, <3>5, <3>6
  <2> QED BY <2>2, <2>3
<1>4. CASE Notify
  <2>1. /\ cam = "notify" /\ cam' = "frame" /\ msg' = NoMessage
        /\ answered' = [answered EXCEPT ![msg.from] = TRUE] /\ UNCHANGED <<msg_queue, pc>>
    BY <1>4, Zenon DEF Notify
  <2>2. msg.from \in Clients /\ Waits(msg.from)
    BY <1>a, <2>1 DEF MsgWaits
  <2>3. \A d \in Clients : d # msg.from => answered'[d] = answered[d]
    BY <1>0, <2>1, <2>2
  <2>4. QueueWaits' /\ OnePerSender'
    BY <1>a, <2>1, <2>3 DEF QueueWaits, OnePerSender, Waits, NoMessage
  <2>5. MsgWaits' /\ AnswerPending'
    BY <2>1, <2>2, <2>3 DEF MsgWaits, AnswerPending, Waits, NoMessage
  <2> QED BY <2>4, <2>5
<1> QED BY <1>1, <1>2, <1>3, <1>4, CameraCases

LEMMA NextAnswer ==
  ASSUME TypeInv, AnswerInv, [Next]_vars
  PROVE  AnswerInv'
<1> USE DEF AnswerInv, QueueWaits, OnePerSender, MsgWaits, AnswerPending, Waits
<1>1. CASE Video
  <2>1. UNCHANGED <<camVars, clientVars>> /\ msg_queue' \in {msg_queue, <<>>}
    BY <1>1, Zenon DEF Video, VideoLeave, VideoDestroy, VideoDelete
  <2> QED BY <2>1 DEF camVars, clientVars
<1>2. CASE UNCHANGED vars
  <2>1. UNCHANGED <<msg_queue, camVars, clientVars>>
    BY <1>2 DEF vars
  <2> QED BY <2>1 DEF camVars, clientVars
<1> QED BY <1>1, <1>2, AnswerCamera, AnswerClient DEF Next

\* do_notify locks a mutex that is on the stack of the client that waits: an
\* answer is given once, to a client that waits for it.
THEOREM AnswersCorrect == Spec => []AnswersWaiter
<1>1. Init => TypeInv /\ AnswerInv
  BY InitType, InitAnswer
<1>2. TypeInv /\ AnswerInv /\ [Next]_vars => (TypeInv /\ AnswerInv)'
  BY NextType, NextAnswer
<1>3. AnswerInv => AnswersWaiter
  BY DEF AnswerInv, AnswersWaiter, QueueWaits, OnePerSender, MsgWaits, Waits
<1> QED BY <1>1, <1>2, <1>3, PTL DEF Spec

-----------------------------------------------------------------------------
(* Muxers.  A job that does not start again leaves its muxer idle, and that *)
(* is the end of the camera: it leaves the frame and stops for good.        *)

IdleIsOver ==
  camerafile = "idle" => \/ cam \in {"leave", "signal"} /\ ret = -1
                         \/ cam = "out" /\ ~pthread_run
MuxerInv == Registered /\ BeginsWithKey /\ IdleIsOver

\* Muxers, references and key frames are the business of the camera thread.
LEMMA OthersKeepMuxers ==
  ASSUME [Next]_vars, ~Handle, ~EncodeFrame, ~RestartFile
  PROVE  UNCHANGED <<muxerVars, idr, fresh, fails, badAttach>>
<1>1. CASE Frame
  <2>1. UNCHANGED <<muxerVars, histVars>>
    <3>1. CASE CamPeek \/ CamConfigure \/ CamEnter \/ CamCheck
      BY <3>1, Zenon DEF CamPeek, CamConfigure, CamEnter, CamCheck
    <3>2. CASE CamEmpty \/ CamEmptyDeleted \/ SkipFrame \/ RestartNoEncoder
      BY <3>2, Zenon DEF CamEmpty, CamEmptyDeleted, SkipFrame, RestartNoEncoder
    <3>3. CASE KeepFile \/ CamLeave \/ CamSignal
      BY <3>3, Zenon DEF KeepFile, CamLeave, CamSignal
    <3> QED BY <1>1, <3>1, <3>2, <3>3 DEF Frame
  <2> QED BY <2>1 DEF histVars
<1>2. CASE CamPop \/ Notify
  <2>1. UNCHANGED <<muxerVars, histVars>>
    BY <1>2, Zenon DEF CamPop, Notify
  <2> QED BY <2>1 DEF histVars
<1>3. CASE Video
  <2>1. UNCHANGED <<muxerVars, histVars>>
    BY <1>3, Zenon DEF Video, VideoLeave, VideoDestroy, VideoDelete
  <2> QED BY <2>1 DEF histVars
<1>4. ASSUME NEW c \in Clients, Client(c)
      PROVE  UNCHANGED <<muxerVars, idr, fresh, fails, badAttach>>
  <2>1. CASE Begin(c) \/ NoFlags(c) \/ ReadFlags(c) \/ WriteFlags(c) \/ Return(c)
             \/ Deinit(c) \/ Joined(c)
    BY <2>1, ClientMoves DEF histVars
  <2>2. CASE Cancel(c)
    BY <2>2, Zenon DEF Cancel
  <2>3. CASE Send(c) \/ UseAfterDelete(c) \/ Answered(c)
    <3>1. UNCHANGED <<muxerVars, histVars>>
      BY <2>3, Zenon DEF Send, UseAfterDelete, Answered
    <3> QED BY <3>1 DEF histVars
  <2> QED BY <1>4, <2>1, <2>2, <2>3, Zenon DEF Client, GoOn
<1>5. CASE UNCHANGED vars
  BY <1>5 DEF vars, histVars
<1> QED BY <1>1, <1>2, <1>3, <1>4, <1>5, CameraCases DEF Next

LEMMA StoppedStays ==
  ASSUME [Next]_vars
  PROVE  pthread_run' => pthread_run
<1>1. CASE Camera
  <2>1. pthread_run' \in {pthread_run, FALSE}
    <3>1. CASE Handle
      BY <3>1, HandleStep DEF videoVars
    <3>2. CASE CamPeek \/ CamConfigure \/ CamCheck \/ CamEmptyDeleted \/ CamPop \/ Notify
      BY <3>2 DEF CamPeek, CamConfigure, CamCheck, CamEmptyDeleted, CamPop, Notify, videoVars
    <3>3. CASE CamEnter \/ CamEmpty \/ CamLeave \/ CamSignal
      BY <3>3 DEF CamEnter, CamEmpty, CamLeave, CamSignal
    <3>4. CASE SkipFrame \/ EncodeFrame \/ RestartFile \/ RestartNoEncoder \/ KeepFile
      <4>1. UNCHANGED videoVars
        BY <3>4, Zenon DEF SkipFrame, EncodeFrame, RestartFile, RestartNoEncoder, KeepFile
      <4> QED BY <4>1 DEF videoVars
    <3> QED BY <1>1, <3>1, <3>2, <3>3, <3>4 DEF Camera
  <2> QED BY <2>1, Zenon
<1>2. CASE Video
  BY <1>2 DEF Video, VideoLeave, VideoDestroy, VideoDelete
<1>3. ASSUME NEW c \in Clients, Client(c) PROVE pthread_run' => pthread_run
  BY <1>3, ClientStep
<1>4. CASE UNCHANGED vars
  BY <1>4 DEF vars, videoVars
<1> QED BY <1>1, <1>2, <1>3, <1>4 DEF Next

LEMMA InitMuxers == Init => MuxerInv
<1> SUFFICES ASSUME Init PROVE MuxerInv
  OBVIOUS
<1>1. /\ camerafile = "none" /\ cameracache = "none" /\ handlers = {}
      /\ special = FALSE /\ fresh = FALSE
  BY Zenon DEF Init
<1> QED BY <1>1 DEF MuxerInv, Registered, BeginsWithKey, IdleIsOver

\* The handlers of messages.
LEMMA HandleMuxers ==
  ASSUME TypeInv, MuxerInv, Handle
  PROVE  MuxerInv'
<1> USE DEF MuxerInv, Registered, BeginsWithKey, IdleIsOver
<1>0. /\ "file" \notin Muxers /\ special \in BOOLEAN /\ idr \in BOOLEAN /\ fresh \in BOOLEAN
      /\ h264_ref \in Nat
  BY ConstantsAssumption DEF ConstantsAssumption, TypeInv, TypeOK, MuxerType, HistType
<1>1. cam = "handle" /\ camerafile # "idle"
  BY HandleStep
<1>2. CASE StartTwice \/ DetachNoEncoder
  <2>1. UNCHANGED <<muxerVars, idr, fresh>>
    BY <1>2, Zenon DEF StartTwice, DetachNoEncoder, histVars
  <2> QED BY <1>1, <2>1 DEF muxerVars
<1>3. CASE HandleStartFile
  BY <1>0, <1>1, <1>3 DEF HandleStartFile, Failed
<1>4. CASE HandleStopFile
  <2>1. /\ camerafile' = "none" /\ UNCHANGED <<cameracache, special>>
        /\ handlers' = IF camerafile = "none" THEN handlers ELSE handlers \ {"file"}
    BY <1>4, Zenon DEF HandleStopFile, FreeFile
  <2> QED BY <2>1
<1>5. CASE HandleSwitchFile
  <2>1. UNCHANGED <<cameracache, special>>
    BY <1>5, Zenon DEF HandleSwitchFile
  <2>2. \/ UNCHANGED <<camerafile, handlers, idr, fresh>>
        \/ /\ camerafile # "none" /\ camerafile' = camerafile /\ idr' = TRUE
           /\ handlers' = handlers \cup {"file"}
        \/ /\ camerafile' = "idle" /\ handlers' = handlers \ {"file"}
           /\ cam' = "leave" /\ ret' = -1
    BY <1>5, Zenon DEF HandleSwitchFile, RestartJob, Failed
  <2>3. camerafile \in {"none", "running"}
    BY <1>1 DEF TypeInv, TypeOK, MuxerType
  <2> QED BY <2>1, <2>2, <2>3
<1>6. CASE HandleStartCache
  BY <1>0, <1>1, <1>6 DEF HandleStartCache
<1>7. CASE HandleStopCache
  BY <1>1, <1>7 DEF HandleStopCache, histVars
<1>8. CASE HandleSaveCache
  BY <1>1, <1>8 DEF HandleSaveCache
<1>9. CASE HandleStopSaveCache
  BY <1>1, <1>9 DEF HandleStopSaveCache, histVars
<1>10. CASE HandleAttach \/ HandleDetach
  <2>1. msg.mux \in Muxers
    <3>1. msg \in Message \/ msg = NoMessage
      BY DEF TypeInv, TypeOK, CamType
    <3>2. msg.id \in {"ATTACH_USER_MUXER", "DETACH_USER_MUXER"}
      BY <1>10 DEF HandleAttach, HandleDetach
    <3> QED BY <3>1, <3>2 DEF Message, NoMessage, MuxerIds, PlainIds
  <2>2. UNCHANGED <<camerafile, cameracache, special, fresh>>
    BY <1>10, Zenon DEF HandleAttach, HandleDetach, histVars
  <2>3. handlers' \in {handlers, handlers \cup {msg.mux}, handlers \ {msg.mux}}
    BY <1>10, Zenon DEF HandleAttach, HandleDetach
  <2>4. idr => idr'
    BY <1>10, Zenon DEF HandleAttach, HandleDetach, histVars
  <2> QED BY <1>0, <1>1, <2>1, <2>2, <2>3, <2>4
<1> QED BY <1>2, <1>3, <1>4, <1>5, <1>6, <1>7, <1>8, <1>9, <1>10 DEF Handle

LEMMA NextMuxers ==
  ASSUME TypeInv, MuxerInv, [Next]_vars
  PROVE  MuxerInv'
<1> USE DEF MuxerInv, Registered, BeginsWithKey, IdleIsOver
<1>1. CASE EncodeFrame
  <2>1. /\ UNCHANGED <<camerafile, handlers, special>> /\ cam = "frame"
        /\ \/ UNCHANGED <<idr, fresh, cameracache>>
           \/ /\ fresh' = (fresh /\ camerafile # "running")
              /\ cameracache' = cameracache
                 \/ (cameracache = "storing" /\ cameracache' = "caching")
    BY <1>1, Zenon DEF EncodeFrame
  <2>2. camerafile' = "idle" => FALSE
    BY <2>1
  <2>3. BeginsWithKey'
    <3>1. UNCHANGED <<idr, fresh>> \/ (fresh' => camerafile # "running")
      BY <2>1, Zenon
    <3> QED BY <2>1, <3>1
  <2>4. Registered'
    BY <2>1
  <2> QED BY <2>2, <2>3, <2>4
<1>2. CASE RestartFile
  <2>1. camerafile = "running"
    BY <1>2 DEF RestartFile, TypeInv, TypeOK, MuxerType
  <2> QED BY <1>2, <2>1 DEF RestartFile, RestartJob, EndsFailed
<1>3. CASE ~Handle /\ ~EncodeFrame /\ ~RestartFile
  <2>1. UNCHANGED <<camerafile, cameracache, handlers, special, idr, fresh>>
    BY <1>3, OthersKeepMuxers DEF muxerVars
  <2>2. ASSUME camerafile = "idle"
        PROVE  \/ cam' \in {"leave", "signal"} /\ ret' = -1
               \/ cam' = "out" /\ ~pthread_run'
    <3>1. CASE Frame
      <4>1. CASE CamLeave \/ CamSignal
        BY <2>2, <4>1 DEF CamLeave, CamSignal, videoVars
      <4>2. CASE CamPeek \/ CamConfigure \/ CamEnter \/ CamCheck
        BY <2>2, <4>2 DEF CamPeek, CamConfigure, CamEnter, CamCheck
      <4>3. CASE CamEmpty \/ CamEmptyDeleted \/ SkipFrame \/ RestartNoEncoder \/ KeepFile
        <5>1. cam \in {"empty", "frame", "handle", "tail"}
          BY <4>3 DEF CamEmpty, CamEmptyDeleted, SkipFrame, RestartNoEncoder, KeepFile
        <5> QED BY <2>2, <5>1
      <4> QED BY <1>3, <3>1, <4>1, <4>2, <4>3 DEF Frame
    <3>2. CASE CamPop \/ Notify
      BY <2>2, <3>2 DEF CamPop, Notify
    <3>3. CASE Video
      <4>1. UNCHANGED camVars
        BY <3>3, Zenon DEF Video, VideoLeave, VideoDestroy, VideoDelete
      <4> QED BY <2>2, <4>1, StoppedStays DEF camVars
    <3>4. ASSUME NEW c \in Clients, Client(c) PROVE UNCHANGED camVars
      <4>1. CASE Begin(c) \/ NoFlags(c) \/ ReadFlags(c) \/ WriteFlags(c) \/ Return(c)
                 \/ Deinit(c) \/ Joined(c)
        BY <4>1, ClientMoves
      <4>2. CASE Cancel(c) \/ Send(c) \/ UseAfterDelete(c) \/ Answered(c)
        BY <4>2, Zenon DEF Cancel, Send, UseAfterDelete, Answered
      <4> QED BY <3>4, <4>1, <4>2, Zenon DEF Client, GoOn
    <3>5. CASE UNCHANGED vars
      BY <2>2, <3>5 DEF vars, camVars, videoVars
    <3>6. CASE \E c \in Clients : Client(c)
      BY <2>2, <3>4, <3>6, StoppedStays DEF camVars
    <3> QED BY <1>3, <3>1, <3>2, <3>3, <3>5, <3>6, CameraCases DEF Next
  <2> QED BY <2>1, <2>2
<1> QED BY <1>1, <1>2, <1>3, HandleMuxers

\* Packets go to the file muxer while its job runs and to the cache while it
\* exists, through failed restarts and whatever several starters do.
THEOREM RegisteredCorrect == Spec => []Registered
<1>1. Init => TypeInv /\ MuxerInv
  BY InitType, InitMuxers
<1>2. TypeInv /\ MuxerInv /\ [Next]_vars => (TypeInv /\ MuxerInv)'
  BY NextType, NextMuxers
<1>3. MuxerInv => Registered
  BY DEF MuxerInv
<1> QED BY <1>1, <1>2, <1>3, PTL DEF Spec

\* Every file begins with a key frame: until the first frame of a job is encoded
\* a key frame is pending, whoever else asks for one, saves or fails.
THEOREM KeyCorrect == Spec => []BeginsWithKey
<1>1. Init => TypeInv /\ MuxerInv
  BY InitType, InitMuxers
<1>2. TypeInv /\ MuxerInv /\ [Next]_vars => (TypeInv /\ MuxerInv)'
  BY NextType, NextMuxers
<1>3. MuxerInv => BeginsWithKey
  BY DEF MuxerInv
<1> QED BY <1>1, <1>2, <1>3, PTL DEF Spec

-----------------------------------------------------------------------------
(* Attached muxers.  A muxer that is being attached is in one place: in a    *)
(* message of the queue, in the message under work, or in the dispatcher;    *)
(* and its owner's call says which.  The lower bounds (Attached) fail when   *)
(* an attach fails, both when a detach takes another muxer's attach back.    *)

Doing(c, do, m) == call[c] = [do |-> do, mux |-> m]
IsAttach(x, m) == x.id = "ATTACH_USER_MUXER" /\ x.mux = m
Queued(m) == \E i \in DOMAIN msg_queue : IsAttach(msg_queue[i], m)
Taken(m) == IsAttach(msg, m)
There(m) == m \in handlers \/ Taken(m) \/ Queued(m)

Owners ==
  /\ \A c, d \in Clients : c # d => owned[c] \cap owned[d] = {}
  /\ \A c \in Clients, m \in Muxers :
       /\ Doing(c, "attach", m) => m \in owned[c] /\ pc[c] \in {"send", "done", "return"}
       /\ Doing(c, "detach", m) => m \in owned[c]
                                   /\ pc[c] \in {"cancel", "send", "wait", "done", "return"}
\* A message that asks for an answer is what the call of its sender sends.
Sent(x) ==
  x.from # NoClient =>
    /\ x.mux = call[x.from].mux
    /\ x.id = "DETACH_USER_MUXER" <=> call[x.from].do = "detach"
    /\ x.id = "STOP_RECODEFILE" <=> call[x.from].do \in StopsRec
    /\ x.id = "STOP_CACHE" <=> call[x.from].do \in StopsCache
Senders == Sent(msg) /\ \A i \in DOMAIN msg_queue : Sent(msg_queue[i])

OnePlace ==
  \A m \in Muxers :
    /\ \A i, j \in DOMAIN msg_queue :
         IsAttach(msg_queue[i], m) /\ IsAttach(msg_queue[j], m) => i = j
    /\ Taken(m) => ~Queued(m)
    /\ m \in handlers => ~Taken(m) /\ ~Queued(m)
Detached ==
  \A c \in Clients, m \in Muxers :
    /\ Doing(c, "attach", m) /\ pc[c] = "send" => ~There(m)
    /\ Doing(c, "detach", m) =>
         /\ pc[c] \in {"send", "wait"} => ~Queued(m)
         /\ pc[c] = "wait" /\ (answered[c] \/ (cam = "notify" /\ msg.from = c)) => ~There(m)
         /\ pc[c] = "done" => ~There(m)
         /\ pc[c] = "return" /\ HandlerAlive => ~There(m)
NotOwned ==
  HandlerAlive => \A m \in Muxers : (\A c \in Clients : m \notin owned[c]) => ~There(m)
DetachInv == Owners /\ Senders /\ (~takenBack => OnePlace /\ Detached /\ NotOwned)

Attached ==
  \A c \in Clients, m \in Muxers :
    /\ HandlerAlive /\ m \in owned[c] =>
         \/ There(m)
         \/ Doing(c, "attach", m) /\ pc[c] = "send"
         \/ Doing(c, "detach", m) /\ pc[c] # "cancel"
    /\ Doing(c, "detach", m) /\ pc[c] = "send" => m \in handlers \/ Taken(m)
DetachAttached ==
  /\ \A i \in DOMAIN msg_queue : msg_queue[i].id = "DETACH_USER_MUXER" =>
       msg_queue[i].mux \in handlers \/ Taken(msg_queue[i].mux)
  /\ msg.id = "DETACH_USER_MUXER" /\ cam = "handle" => msg.mux \in handlers
AttachInv == ~takenBack /\ ~badAttach => Attached /\ DetachAttached

Users == {m \in Muxers : muxEnc[m] = "current" /\ m \in handlers}
CountInv ==
  /\ IsFiniteSet(handlers)
  /\ ~takenBack /\ ~badAttach =>
       h264_ref = Holders /\ \A m \in Muxers : m \in handlers => muxEnc[m] # "stale"

LEMMA InitDetach == Init => DetachInv /\ AttachInv
<1> SUFFICES ASSUME Init PROVE DetachInv /\ AttachInv
  OBVIOUS
<1>1. /\ msg_queue = <<>> /\ msg = NoMessage /\ handlers = {} /\ cam = "out"
      /\ call = [c \in Clients |-> NoCall] /\ owned = [c \in Clients |-> {}]
  BY Zenon DEF Init
<1>2. \A c \in Clients : \A m, do : Doing(c, do, m) => do = "none"
  <2> SUFFICES ASSUME NEW c \in Clients, NEW m, NEW do, Doing(c, do, m) PROVE do = "none"
    OBVIOUS
  <2>1. [do |-> do, mux |-> m].do = NoCall.do
    BY <1>1 DEF Doing
  <2> QED BY <2>1 DEF NoCall
<1>3. \A m : ~Queued(m) /\ ~Taken(m) /\ ~There(m)
  BY <1>1 DEF Queued, Taken, There, IsAttach, NoMessage
<1>4. Owners
  BY <1>1, <1>2 DEF Owners
<1>5. Senders
  BY <1>1 DEF Senders, Sent, NoMessage
<1>6. OnePlace /\ Detached /\ NotOwned
  BY <1>1, <1>2, <1>3 DEF OnePlace, Detached, NotOwned
<1>7. Attached /\ DetachAttached
  BY <1>1, <1>2 DEF Attached, DetachAttached
<1> QED BY <1>4, <1>5, <1>6, <1>7 DEF DetachInv, AttachInv

\* The steps that are no client's leave the calls alone.
LEMMA OthersKeepCalls ==
  ASSUME Camera \/ Video \/ UNCHANGED vars
  PROVE  UNCHANGED <<pc, call, owned>>
<1>1. CASE Frame
  BY <1>1, FrameStep DEF clientVars
<1>2. CASE Handle
  BY <1>2, HandleStep DEF clientVars
<1>3. CASE CamPop
  BY <1>3 DEF CamPop, clientVars
<1>4. CASE Notify
  BY <1>4 DEF Notify
<1>5. CASE Video
  BY <1>5 DEF Video, VideoLeave, VideoDestroy, VideoDelete, clientVars
<1>6. CASE UNCHANGED vars
  BY <1>6 DEF vars, clientVars
<1> QED BY <1>1, <1>2, <1>3, <1>4, <1>5, <1>6, CameraCases

\* A muxer is one client's: whoever attaches it, until it has detached it.
LEMMA OwnersClient ==
  ASSUME TypeInv, Owners, NEW c \in Clients, Client(c)
  PROVE  Owners'
<1> USE DEF Owners, Doing
<1>0. /\ pc \in [Clients -> {"idle", "next", "cancel", "send", "wait", "done",
                            "flags", "return", "joining"}]
      /\ call \in [Clients -> Call \cup Part \cup {NoCall}]
      /\ owned \in [Clients -> SUBSET Muxers]
  BY DEF TypeInv, TypeOK, ClientType
<1>1. CASE Begin(c)
  <2>1. PICK x \in Call \cup Part :
          /\ pc[c] \in {"idle", "next"}
          /\ x.do = "attach" => \A d \in Clients : x.mux \notin owned[d]
          /\ x.do = "detach" => x.mux \in owned[c]
          /\ owned' = IF x.do = "attach" THEN [owned EXCEPT ![c] = @ \cup {x.mux}]
                                         ELSE owned
          /\ call' = [call EXCEPT ![c] = x]
          /\ pc' = [pc EXCEPT ![c] = IF ~Wanted(x.do) THEN "return"
                                     ELSE IF NothingToSend(x.do) THEN "done"
                                     ELSE IF Sync(x.do) THEN "cancel" ELSE "send"]
    BY <1>1, Zenon DEF Begin
  <2>2. x.do = "attach" => pc'[c] \in {"send", "done", "return"}
    BY <1>0, <2>1 DEF Sync, Cancels, StopsRec, StopsCache
  <2>3. pc'[c] \in {"cancel", "send", "done", "return"}
    BY <1>0, <2>1
  <2>4. \A d \in Clients : d # c => call'[d] = call[d] /\ pc'[d] = pc[d] /\ owned'[d] = owned[d]
    BY <1>0, <2>1
  <2>5. call'[c] = x /\ owned'[c] = IF x.do = "attach" THEN owned[c] \cup {x.mux} ELSE owned[c]
    BY <1>0, <2>1
  <2>6. \A m : /\ x = [do |-> "attach", mux |-> m] => x.do = "attach" /\ x.mux = m
              /\ x = [do |-> "detach", mux |-> m] => x.do = "detach" /\ x.mux = m
    OBVIOUS
  <2> QED BY <2>1, <2>2, <2>3, <2>4, <2>5, <2>6
<1>2. CASE Return(c)
  <2>1. /\ owned' = IF call[c].do = "detach"
                    THEN [owned EXCEPT ![c] = @ \ {call[c].mux}] ELSE owned
        /\ call' = [call EXCEPT ![c] = Follows(call[c].do)]
        /\ \E l : pc' = [pc EXCEPT ![c] = l]
    BY <1>2, Zenon DEF Return
  <2>2. call'[c].do \notin {"attach", "detach"}
    BY <1>0, <2>1 DEF Follows, NoCall
  <2>3. owned'[c] \subseteq owned[c]
    BY <1>0, <2>1
  <2>4. \A d \in Clients : d # c => call'[d] = call[d] /\ pc'[d] = pc[d] /\ owned'[d] = owned[d]
    BY <1>0, <2>1
  <2>5. \A m : call'[c] # [do |-> "attach", mux |-> m] /\ call'[c] # [do |-> "detach", mux |-> m]
    <3> SUFFICES ASSUME NEW m, NEW do \in {"attach", "detach"},
                        call'[c] = [do |-> do, mux |-> m]
                 PROVE  FALSE
      OBVIOUS
    <3>1. call'[c].do = do
      OBVIOUS
    <3> QED BY <2>2, <3>1
  <2> QED BY <2>3, <2>4, <2>5
<1>3. CASE Joined(c)
  <2>1. /\ call' = [call EXCEPT ![c] = NoCall] /\ owned' = owned
        /\ pc' = [pc EXCEPT ![c] = "idle"]
    BY <1>3 DEF Joined
  <2> QED BY <1>0, <2>1 DEF NoCall
<1>4. CASE \/ Cancel(c) \/ Send(c) \/ Answered(c) \/ NoFlags(c) \/ ReadFlags(c)
           \/ WriteFlags(c) \/ Deinit(c)
  <2>1. UNCHANGED <<call, owned>>
    BY <1>4, Zenon DEF Cancel, Send, Answered, NoFlags, ReadFlags, WriteFlags, Deinit
  <2>2. \/ pc[c] \in {"cancel", "send", "wait"}
           /\ \E l \in {"send", "wait", "done"} : pc' = [pc EXCEPT ![c] = l]
        \/ pc[c] = "done" /\ pc' = [pc EXCEPT ![c] = "return"]
        \/ pc[c] = "done" /\ ChangesFlag(call[c].do) /\ pc' = [pc EXCEPT ![c] = "flags"]
        \/ pc[c] \in {"flags", "next"} /\ \E l : pc' = [pc EXCEPT ![c] = l]
    BY <1>4 DEF Cancel, Send, Answered, NoFlags, ReadFlags, WriteFlags, Deinit
  <2>3. ChangesFlag(call[c].do) => call[c].do \notin {"attach", "detach"}
    BY DEF ChangesFlag, SetsFlag, ClearsFlag, StopsRec, StopsCache
  <2>4. Send(c) /\ call[c].do = "attach" => pc' = [pc EXCEPT ![c] = "done"]
    BY DEF Send, Sync, Cancels, StopsRec, StopsCache
  <2>5. call[c].do = "attach" => ~Cancel(c) /\ ~Answered(c)
    <3>1. call[c].do = "attach" => Doing(c, "attach", call[c].mux) /\ call[c].mux \in Muxers
      <4>1. call[c] \in Call \cup Part \cup {NoCall}
        BY <1>0
      <4> QED BY <4>1 DEF Call, Part, NoCall
    <3>2. call[c].do = "attach" => pc[c] \in {"send", "done", "return"}
      BY <3>1
    <3> QED BY <3>2 DEF Cancel, Answered
  <2>6. \A m : /\ Doing(c, "attach", m) => call[c].do = "attach"
              /\ Doing(c, "detach", m) => call[c].do = "detach"
    OBVIOUS
  <2>7. \A d \in Clients : d # c => pc'[d] = pc[d]
    BY <1>0, <2>2
  <2>8. call[c].do = "attach" /\ pc[c] \in {"send", "done", "return"} =>
          pc'[c] \in {"send", "done", "return"}
    <3>1. pc[c] = "send" => Send(c)
      BY <1>4 DEF Cancel, Answered, NoFlags, ReadFlags, WriteFlags, Deinit
    <3>2. pc[c] # "send" => pc[c] \in {"cancel", "wait", "done", "flags", "next"}
      BY <2>2
    <3> QED BY <1>0, <2>2, <2>3, <2>4, <2>5, <3>1, <3>2
  <2>9. call[c].do = "detach" /\ pc[c] \in {"cancel", "send", "wait", "done", "return"} =>
          pc'[c] \in {"cancel", "send", "wait", "done", "return"}
    BY <1>0, <2>2, <2>3
  <2> QED BY <2>1, <2>6, <2>7, <2>8, <2>9
<1>5. CASE UseAfterDelete(c)
  <2>1. UNCHANGED clientVars
    BY <1>5, Zenon DEF UseAfterDelete
  <2> QED BY <2>1 DEF clientVars
<1> QED BY <1>1, <1>2, <1>3, <1>4, <1>5, Zenon DEF Client, GoOn

\* What the sender of a message does, it does until it has its answer.
LEMMA NextSenders ==
  ASSUME TypeInv, AnswerInv, Senders, [Next]_vars
  PROVE  Senders'
<1> USE DEF Senders
<1>0. /\ call \in [Clients -> Call \cup Part \cup {NoCall}] /\ msg_queue \in Seq(Message)
      /\ \A i \in DOMAIN msg_queue : msg_queue[i].from \in Clients \cup {NoClient}
      /\ msg.from \in Clients \cup {NoClient}
  <2>1. msg \in Message \cup {NoMessage} /\ msg_queue \in Seq(Message)
    BY DEF TypeInv, TypeOK, CamType
  <2>2. call \in [Clients -> Call \cup Part \cup {NoCall}]
    BY DEF TypeInv, TypeOK, ClientType
  <2> QED BY <2>1, <2>2 DEF Message, NoMessage
<1>1. ASSUME call' = call, msg' \in {msg, NoMessage} \cup {msg_queue[i] : i \in DOMAIN msg_queue},
             \A i \in DOMAIN msg_queue' : \E j \in DOMAIN msg_queue : msg_queue'[i] = msg_queue[j]
      PROVE  Senders'
  BY <1>1 DEF Sent, NoMessage
<1>2. CASE Frame \/ Handle \/ Notify
  <2>1. msg_queue' = msg_queue /\ call' = call /\ msg' \in {msg, NoMessage}
    BY <1>2, FrameStep, HandleStep DEF Notify, clientVars
  <2> QED BY <1>1, <2>1
<1>3. CASE CamPop
  <2>1. call' = call
    BY <1>3 DEF CamPop, clientVars
  <2>2. CASE msg_queue = <<>>
    BY <1>1, <1>3, <2>1, <2>2 DEF CamPop
  <2>3. CASE msg_queue # <<>>
    <3>1. msg' = Head(msg_queue) /\ msg_queue' = Tail(msg_queue)
      BY <1>3, <2>3, Zenon DEF CamPop
    <3>2. 1 \in DOMAIN msg_queue /\ msg' = msg_queue[1]
      BY <1>0, <2>3, <3>1
    <3>3. \A i \in DOMAIN msg_queue' : i + 1 \in DOMAIN msg_queue /\ msg_queue'[i] = msg_queue[i + 1]
      BY <1>0, <2>3, <3>1
    <3> QED BY <1>1, <2>1, <3>2, <3>3
  <2> QED BY <2>2, <2>3
<1>4. CASE Video
  <2>1. call' = call /\ msg' = msg /\ msg_queue' \in {msg_queue, <<>>}
    BY <1>4 DEF Video, VideoLeave, VideoDestroy, VideoDelete, clientVars, camVars
  <2> QED BY <1>1, <2>1
<1>5. CASE UNCHANGED vars
  BY <1>1, <1>5 DEF vars, camVars, clientVars
<1>6. ASSUME NEW c \in Clients, Client(c) PROVE Senders'
  <2>1. CASE Cancel(c)
    <3>1. UNCHANGED <<call, msg>>
      BY <2>1 DEF Cancel, camVars
    <3>2. \A i \in DOMAIN msg_queue' : \E j \in DOMAIN msg_queue : msg_queue'[i] = msg_queue[j]
      BY <2>1, CancelQueue
    <3> QED BY <1>1, <3>1, <3>2
  <2>2. CASE Send(c)
    <3>1. UNCHANGED <<call, msg>>
      BY <2>2 DEF Send, camVars
    <3>2. PICK m \in Message :
             /\ m = [id |-> Sends(call[c].do), mux |-> call[c].mux,
                     from |-> IF Sync(call[c].do) THEN c ELSE NoClient]
             /\ msg_queue' = Append(msg_queue, m)
      BY <2>2, SendEffect
    <3>3. Sent(m)
      <4> SUFFICES ASSUME m.from # NoClient PROVE Sent(m)
        BY DEF Sent
      <4>1. m.from = c /\ m.id = Sends(call[c].do) /\ m.mux = call[c].mux
        BY <3>2
      <4>2. call[c] \in Call \cup Part /\ call[c].do # "then_deinit"
        BY <2>2 DEF Send, TypeInv, Sendable
      <4>3. call[c].do \in {"startrec", "stoprec", "start_cache", "stop_cache", "switch",
                           "savefile", "stop_savecache", "deletevideo", "api_video_deinit",
                           "attach", "detach", "then_stoprec"}
        BY <4>2 DEF Call, Part
      <4> QED BY <4>1, <4>3 DEF Sent, Sends, StopsRec, StopsCache
    <3>4. \A i \in DOMAIN msg_queue' :
            msg_queue'[i] = m \/ (i \in DOMAIN msg_queue /\ msg_queue'[i] = msg_queue[i])
      BY <1>0, <3>2
    <3> QED BY <3>1, <3>3, <3>4 DEF Sent
  <2>3. CASE UseAfterDelete(c) \/ Answered(c) \/ NoFlags(c) \/ ReadFlags(c)
             \/ WriteFlags(c) \/ Deinit(c)
    <3>1. UNCHANGED <<call, msg, msg_queue>>
      BY <2>3 DEF UseAfterDelete, Answered, NoFlags, ReadFlags, WriteFlags, Deinit,
                  camVars, clientVars
    <3> QED BY <1>1, <3>1
  <2>4. CASE Begin(c) \/ Return(c) \/ Joined(c)
    <3>1. UNCHANGED <<msg_queue, msg>> /\ pc[c] # "wait"
      BY <2>4, ClientMoves DEF camVars
    <3>2. \E x : call' = [call EXCEPT ![c] = x]
      BY <2>4, Zenon DEF Begin, Return, Joined
    <3>3. \A d \in Clients : d # c => call'[d] = call[d]
      BY <1>0, <3>2
    <3>4. msg.from # NoClient => msg.from # c
      BY <3>1 DEF AnswerInv, MsgWaits, Waits, NoMessage
    <3>5. \A i \in DOMAIN msg_queue : msg_queue[i].from # NoClient => msg_queue[i].from # c
      BY <3>1 DEF AnswerInv, QueueWaits, Waits
    <3> QED BY <1>0, <3>1, <3>3, <3>4, <3>5 DEF Sent
  <2> QED BY <1>6, <2>1, <2>2, <2>3, <2>4, Zenon DEF Client, GoOn
<1> QED BY <1>2, <1>3, <1>4, <1>5, <1>6, CameraCases DEF Next

LEMMA DoingCall ==
  ASSUME TypeInv
  PROVE  \A c \in Clients :
           /\ \A m, do : Doing(c, do, m) => call[c].do = do /\ call[c].mux = m
           /\ call[c].do \in {"attach", "detach"} =>
                call[c].mux \in Muxers /\ Doing(c, call[c].do, call[c].mux)
<1> SUFFICES ASSUME NEW c \in Clients
             PROVE  /\ \A m, do : Doing(c, do, m) => call[c].do = do /\ call[c].mux = m
                    /\ call[c].do \in {"attach", "detach"} =>
                         call[c].mux \in Muxers /\ Doing(c, call[c].do, call[c].mux)
  OBVIOUS
<1>1. call[c] \in Call \cup Part \cup {NoCall}
  BY DEF TypeInv, TypeOK, ClientType
<1>2. call[c].do \in {"attach", "detach"} =>
        call[c].mux \in Muxers /\ call[c] = [do |-> call[c].do, mux |-> call[c].mux]
  BY <1>1 DEF Call, Part, NoCall
<1> QED BY <1>2 DEF Doing

\* A handler that is gone does not come back.
LEMMA GoneStays ==
  ASSUME [Next]_vars
  PROVE  HandlerAlive' => HandlerAlive
<1> USE DEF HandlerAlive
<1>1. CASE Camera
  <2>1. CASE Handle
    BY <2>1, HandleStep DEF videoVars
  <2>2. CASE ~Handle
    BY <1>1, <2>2 DEF Camera, CamPeek, CamConfigure, CamEnter, CamCheck, CamEmpty,
       CamEmptyDeleted, CamPop, Notify, SkipFrame, EncodeFrame, RestartFile,
       RestartNoEncoder, KeepFile, CamLeave, CamSignal, videoVars
  <2> QED BY <2>1, <2>2
<1>2. CASE Video
  BY <1>2 DEF Video, VideoLeave, VideoDestroy, VideoDelete
<1>3. ASSUME NEW c \in Clients, Client(c) PROVE vt' = vt
  BY <1>3, ClientStep
<1>4. CASE UNCHANGED vars
  BY <1>4 DEF vars, videoVars
<1> QED BY <1>1, <1>2, <1>3, <1>4 DEF Next

\* The other handlers do not touch what clients attach.
LEMMA HandleRest ==
  ASSUME Handle, ~HandleAttach, ~HandleDetach, "file" \notin Muxers
  PROVE  /\ \A m \in Muxers : m \in handlers' <=> m \in handlers
         /\ \/ msg' = msg /\ cam' = cam
            \/ msg.id \notin {"ATTACH_USER_MUXER", "DETACH_USER_MUXER"}
<1>1. CASE StartTwice \/ DetachNoEncoder
  <2>1. UNCHANGED <<muxerVars, camVars>>
    BY <1>1, Zenon DEF StartTwice, DetachNoEncoder
  <2> QED BY <2>1 DEF muxerVars, camVars
<1>2. CASE HandleStartFile \/ HandleStopFile \/ HandleSwitchFile
  <2>1. handlers' \in {handlers, handlers \cup {"file"}, handlers \ {"file"}}
    BY <1>2, Zenon DEF HandleStartFile, HandleStopFile, HandleSwitchFile, FreeFile, RestartJob
  <2>2. msg.id \in {"START_RECODEFILE", "STOP_RECODEFILE", "SWITCH_RECODEFILE"}
    BY <1>2 DEF HandleStartFile, HandleStopFile, HandleSwitchFile
  <2> QED BY <2>1, <2>2
<1>3. CASE HandleStartCache \/ HandleStopCache \/ HandleSaveCache \/ HandleStopSaveCache
  <2>1. handlers' = handlers
    BY <1>3, Zenon DEF HandleStartCache, HandleStopCache, HandleSaveCache, HandleStopSaveCache
  <2>2. msg.id \in {"START_CACHE", "STOP_CACHE", "START_SAVE_CACHE", "STOP_SAVE_CACHE"}
    BY <1>3 DEF HandleStartCache, HandleStopCache, HandleSaveCache, HandleStopSaveCache
  <2> QED BY <2>1, <2>2
<1> QED BY <1>1, <1>2, <1>3 DEF Handle

\* A step that moves no muxer, and at most completes calls.
LEMMA PlacesKept ==
  ASSUME OnePlace, Detached, NotOwned,
         \A m \in Muxers : (m \in handlers' <=> m \in handlers) /\ (Taken(m)' <=> Taken(m)),
         UNCHANGED <<msg_queue, owned>>, HandlerAlive' => HandlerAlive,
         \A c \in Clients, m \in Muxers :
           Doing(c, "attach", m)' /\ pc'[c] = "send" => Doing(c, "attach", m) /\ pc[c] = "send",
         \A c \in Clients, m \in Muxers : Doing(c, "detach", m)' =>
           /\ Doing(c, "detach", m)
           /\ pc'[c] \in {"send", "wait"} => pc[c] \in {"send", "wait"}
           /\ pc'[c] = "wait" /\ (answered'[c] \/ (cam' = "notify" /\ msg'.from = c)) =>
                pc[c] = "wait" /\ (answered[c] \/ (cam = "notify" /\ msg.from = c))
           /\ pc'[c] = "done" => pc[c] = "done" \/ (pc[c] = "wait" /\ answered[c])
           /\ pc'[c] = "return" => pc[c] \in {"done", "return"}
  PROVE  OnePlace' /\ Detached' /\ NotOwned'
<1>1. \A m : Queued(m)' <=> Queued(m)
  BY DEF Queued
<1>2. OnePlace'
  BY <1>1 DEF OnePlace
<1>3. \A m \in Muxers : There(m)' <=> There(m)
  BY <1>1 DEF There
<1>4. NotOwned'
  BY <1>3 DEF NotOwned
<1>5. Detached'
  BY <1>1, <1>3 DEF Detached
<1> QED BY <1>2, <1>4, <1>5

\* What is never again after it happened.
LEMMA HistoryStays ==
  ASSUME [Next]_vars
  PROVE  /\ takenBack => takenBack'
         /\ badAttach => badAttach'
<1>1. CASE Frame
  <2>1. UNCHANGED <<badAttach, takenBack>>
    BY <1>1, Zenon DEF Frame, CamPeek, CamConfigure, CamEnter, CamCheck, CamEmpty,
       CamEmptyDeleted, SkipFrame, EncodeFrame, RestartFile, RestartNoEncoder, KeepFile,
       CamLeave, CamSignal, histVars
  <2> QED BY <2>1, Zenon
<1>2. CASE Handle
  <2>1. takenBack' = takenBack /\ (badAttach' = badAttach \/ badAttach' = TRUE)
    <3>1. CASE StartTwice \/ DetachNoEncoder \/ HandleStartFile \/ HandleStopFile \/ HandleSwitchFile
      BY <3>1, Zenon DEF StartTwice, DetachNoEncoder, HandleStartFile, HandleStopFile,
         HandleSwitchFile, histVars
    <3>2. CASE HandleStartCache \/ HandleStopCache \/ HandleSaveCache \/ HandleStopSaveCache
      BY <3>2, Zenon DEF HandleStartCache, HandleStopCache, HandleSaveCache,
         HandleStopSaveCache, histVars
    <3>3. CASE HandleAttach \/ HandleDetach
      BY <3>3, Zenon DEF HandleAttach, HandleDetach, histVars
    <3> QED BY <1>2, <3>1, <3>2, <3>3 DEF Handle
  <2>2. CASE badAttach' = badAttach
    BY <2>1, <2>2, Zenon
  <2>3. CASE badAttach' = TRUE
    BY <2>1, <2>3
  <2> QED BY <2>1, <2>2, <2>3, Zenon
<1>3. CASE CamPop \/ Notify \/ Video
  <2>1. UNCHANGED histVars
    BY <1>3, Zenon DEF CamPop, Notify, Video, VideoLeave, VideoDestroy, VideoDelete
  <2> QED BY <2>1, Zenon DEF histVars
<1>4. ASSUME NEW c \in Clients, Client(c)
      PROVE  (takenBack => takenBack') /\ (badAttach => badAttach')
  <2>1. CASE Begin(c) \/ NoFlags(c) \/ ReadFlags(c) \/ WriteFlags(c) \/ Return(c)
             \/ Deinit(c) \/ Joined(c)
    BY <2>1, ClientMoves, Zenon DEF histVars
  <2>2. CASE Cancel(c)
    BY <2>2, Zenon DEF Cancel
  <2>3. CASE Send(c) \/ UseAfterDelete(c) \/ Answered(c)
    <3>1. UNCHANGED histVars
      BY <2>3, Zenon DEF Send, UseAfterDelete, Answered
    <3> QED BY <3>1, Zenon DEF histVars
  <2> QED BY <1>4, <2>1, <2>2, <2>3, Zenon DEF Client, GoOn
<1>5. CASE UNCHANGED vars
  BY <1>5, Zenon DEF vars, histVars
<1> QED BY <1>1, <1>2, <1>3, <1>4, <1>5, CameraCases, Zenon DEF Next

\* Encoding a frame, or ending a file, touches no muxer of a client's.
LEMMA FrameHandlers ==
  ASSUME Frame
  PROVE  handlers' \in {handlers, handlers \cup {"file"}, handlers \ {"file"}}
<1>1. CASE EncodeFrame \/ RestartFile
  BY <1>1, Zenon DEF EncodeFrame, RestartFile, RestartJob
<1>2. CASE CamPeek \/ CamConfigure \/ CamEnter \/ CamCheck \/ CamEmpty
  <2>1. UNCHANGED muxerVars
    BY <1>2, Zenon DEF CamPeek, CamConfigure, CamEnter, CamCheck, CamEmpty
  <2> QED BY <2>1 DEF muxerVars
<1>3. CASE CamEmptyDeleted \/ SkipFrame \/ RestartNoEncoder \/ KeepFile \/ CamLeave
           \/ CamSignal
  <2>1. UNCHANGED muxerVars
    BY <1>3, Zenon DEF CamEmptyDeleted, SkipFrame, RestartNoEncoder, KeepFile, CamLeave,
       CamSignal
  <2> QED BY <2>1 DEF muxerVars
<1> QED BY <1>1, <1>2, <1>3 DEF Frame

\* The steps of the camera and the video thread that move no muxer.
LEMMA CameraPlaces ==
  ASSUME TypeInv, AnswerInv, Senders, OnePlace, Detached, NotOwned, [Next]_vars,
         \/ Frame \/ Notify \/ VideoLeave \/ VideoDelete \/ UNCHANGED vars
         \/ Handle /\ ~HandleAttach /\ ~HandleDetach
  PROVE  OnePlace' /\ Detached' /\ NotOwned'
<1>0. "file" \notin Muxers
  BY ConstantsAssumption DEF ConstantsAssumption
<1>1. UNCHANGED <<pc, call, owned>>
  BY OthersKeepCalls, CameraCases DEF Video
<1>2. HandlerAlive' => HandlerAlive
  BY GoneStays
<1>3. \A c, m, do : Doing(c, do, m)' <=> Doing(c, do, m)
  BY <1>1 DEF Doing
<1>4. ASSUME msg_queue' = msg_queue,
             \A m \in Muxers : (m \in handlers' <=> m \in handlers) /\ (Taken(m)' <=> Taken(m)),
             \A c \in Clients :
               call[c].do = "detach" /\ (answered'[c] \/ (cam' = "notify" /\ msg'.from = c)) =>
                 answered[c] \/ (cam = "notify" /\ msg.from = c)
      PROVE  OnePlace' /\ Detached' /\ NotOwned'
  BY <1>1, <1>2, <1>3, <1>4, PlacesKept, DoingCall
<1>5. CASE Frame
  <2>1. /\ UNCHANGED <<msg_queue, msg, answered>>
        /\ cam' = cam \/ (cam \notin {"handle", "notify"} /\ cam' \notin {"handle", "notify"})
    BY <1>5, FrameStep DEF clientVars
  <2>2. handlers' \in {handlers, handlers \cup {"file"}, handlers \ {"file"}}
    BY <1>5, FrameHandlers
  <2> QED BY <1>0, <1>4, <2>1, <2>2 DEF Taken
<1>6. CASE Notify
  <2>1. /\ UNCHANGED <<msg_queue, handlers>> /\ cam' = "frame" /\ msg' = NoMessage
        /\ answered' = [answered EXCEPT ![msg.from] = TRUE] /\ cam = "notify"
    BY <1>6, Zenon DEF Notify, muxerVars
  <2>2. \A c \in Clients : answered'[c] => answered[c] \/ msg.from = c
    BY <2>1 DEF TypeInv, TypeOK, ClientType
  <2>3. msg.id # "ATTACH_USER_MUXER"
    BY <2>1 DEF AnswerInv, MsgWaits, SyncIds
  <2> QED BY <1>4, <2>1, <2>2, <2>3 DEF Taken, IsAttach, NoMessage
<1>7. CASE VideoLeave \/ VideoDelete \/ UNCHANGED vars
  <2>1. UNCHANGED <<msg_queue, handlers, cam, msg, answered>>
    BY <1>7 DEF VideoLeave, VideoDelete, vars, muxerVars, camVars, clientVars
  <2> QED BY <1>4, <2>1 DEF Taken
<1>8. CASE Handle /\ ~HandleAttach /\ ~HandleDetach
  <2>1. /\ cam = "handle" /\ UNCHANGED <<msg_queue, answered>>
        /\ \/ cam' = "handle" /\ msg' = msg
           \/ cam' \in {"frame", "leave"} /\ msg' = NoMessage
           \/ cam' = "notify" /\ msg' = msg /\ msg.id \in SyncIds
    BY <1>8, HandleStep DEF clientVars
  <2>2. /\ \A m \in Muxers : m \in handlers' <=> m \in handlers
        /\ \/ msg' = msg /\ cam' = cam
           \/ msg.id \notin {"ATTACH_USER_MUXER", "DETACH_USER_MUXER"}
    BY <1>0, <1>8, HandleRest
  <2>3. \A m \in Muxers : Taken(m)' <=> Taken(m)
    BY <2>1, <2>2 DEF Taken, IsAttach, NoMessage
  <2>4. \A c \in Clients : call[c].do = "detach" => ~(cam' = "notify" /\ msg'.from = c)
    <3> SUFFICES ASSUME NEW c \in Clients, call[c].do = "detach", cam' = "notify", msg'.from = c
                 PROVE  FALSE
      OBVIOUS
    <3>1. msg.from = c /\ c # NoClient
      BY <2>1, ConstantsAssumption DEF ConstantsAssumption
    <3>2. msg.id = "DETACH_USER_MUXER"
      BY <3>1 DEF Senders, Sent
    <3> QED BY <2>1, <2>2, <3>2
  <2> QED BY <1>4, <2>1, <2>2, <2>3, <2>4
<1> QED BY <1>5, <1>6, <1>7, <1>8

\* The steps of a client that move no muxer.
LEMMA ClientPlaces ==
  ASSUME TypeInv, Owners, OnePlace, Detached, NotOwned, [Next]_vars, NEW c \in Clients,
         \/ UseAfterDelete(c) \/ Answered(c) \/ NoFlags(c) \/ ReadFlags(c)
         \/ WriteFlags(c) \/ Deinit(c) \/ Joined(c)
  PROVE  OnePlace' /\ Detached' /\ NotOwned'
<1>0. /\ pc \in [Clients -> {"idle", "next", "cancel", "send", "wait", "done",
                            "flags", "return", "joining"}]
      /\ call \in [Clients -> Call \cup Part \cup {NoCall}]
      /\ answered \in [Clients -> BOOLEAN]
  BY DEF TypeInv, TypeOK, ClientType
<1>1. UNCHANGED <<msg_queue, owned, handlers, msg, cam>>
  BY DEF UseAfterDelete, Answered, NoFlags, ReadFlags, WriteFlags, Deinit, Joined,
         muxerVars, camVars, clientVars
<1>2. /\ \E x \in {call[c], NoCall} : call' = [call EXCEPT ![c] = x]
      /\ \A d \in Clients : answered'[d] => answered[d]
      /\ \E l : pc' = [pc EXCEPT ![c] = l]
      /\ \/ pc'[c] = pc[c]
         \/ pc[c] = "wait" /\ answered[c] /\ pc'[c] = "done"
         \/ pc[c] = "done" /\ pc'[c] = "return"
         \/ pc[c] = "flags" /\ pc'[c] = "return"
         \/ pc'[c] \in {"flags", "joining", "idle"}
  <2>1. CASE UseAfterDelete(c)
    <3>1. UNCHANGED <<pc, call, answered>>
      BY <2>1, Zenon DEF UseAfterDelete, clientVars
    <3> QED BY <1>0, <3>1
  <2>2. CASE Answered(c)
    BY <1>0, <2>2 DEF Answered, IsAnswered
  <2>3. CASE NoFlags(c) \/ ReadFlags(c) \/ WriteFlags(c)
    BY <1>0, <2>3 DEF NoFlags, ReadFlags, WriteFlags
  <2>4. CASE Deinit(c) \/ Joined(c)
    BY <1>0, <2>4 DEF Deinit, Joined
  <2> QED BY <2>1, <2>2, <2>3, <2>4
<1>3. \A d \in Clients : d # c => pc'[d] = pc[d] /\ call'[d] = call[d]
  BY <1>0, <1>2
<1>4. \A d \in Clients, m \in Muxers, do \in {"attach", "detach"} :
        Doing(d, do, m)' => Doing(d, do, m)
  <2> SUFFICES ASSUME NEW d \in Clients, NEW m \in Muxers, NEW do \in {"attach", "detach"},
                      Doing(d, do, m)'
               PROVE  Doing(d, do, m)
    OBVIOUS
  <2>1. call'[d] = [do |-> do, mux |-> m]
    BY DEF Doing
  <2>2. call'[d].do = do
    BY <2>1
  <2>3. call'[d] # NoCall
    BY <2>2 DEF NoCall
  <2>4. call'[d] = call[d]
    BY <1>0, <1>2, <1>3, <2>3
  <2> QED BY <2>1, <2>4 DEF Doing
<1>5. \A m \in Muxers : (m \in handlers' <=> m \in handlers) /\ (Taken(m)' <=> Taken(m))
  BY <1>1 DEF Taken
<1>6. HandlerAlive' => HandlerAlive
  BY GoneStays
<1>7. \A d \in Clients, m \in Muxers :
        Doing(d, "attach", m)' /\ pc'[d] = "send" => Doing(d, "attach", m) /\ pc[d] = "send"
  BY <1>2, <1>3, <1>4
<1>8. \A d \in Clients, m \in Muxers : Doing(d, "detach", m)' =>
        /\ Doing(d, "detach", m)
        /\ pc'[d] \in {"send", "wait"} => pc[d] \in {"send", "wait"}
        /\ pc'[d] = "wait" /\ (answered'[d] \/ (cam' = "notify" /\ msg'.from = d)) =>
             pc[d] = "wait" /\ (answered[d] \/ (cam = "notify" /\ msg.from = d))
        /\ pc'[d] = "done" => pc[d] = "done" \/ (pc[d] = "wait" /\ answered[d])
        /\ pc'[d] = "return" => pc[d] \in {"done", "return"}
  <2> SUFFICES ASSUME NEW d \in Clients, NEW m \in Muxers, Doing(d, "detach", m)'
               PROVE
        /\ Doing(d, "detach", m)
        /\ pc'[d] \in {"send", "wait"} => pc[d] \in {"send", "wait"}
        /\ pc'[d] = "wait" /\ (answered'[d] \/ (cam' = "notify" /\ msg'.from = d)) =>
             pc[d] = "wait" /\ (answered[d] \/ (cam = "notify" /\ msg.from = d))
        /\ pc'[d] = "done" => pc[d] = "done" \/ (pc[d] = "wait" /\ answered[d])
        /\ pc'[d] = "return" => pc[d] \in {"done", "return"}
    OBVIOUS
  <2>1. Doing(d, "detach", m)
    BY <1>4
  <2>2. pc[d] # "flags"
    BY <2>1 DEF Owners
  <2> QED BY <1>1, <1>2, <1>3, <2>1, <2>2
<1> QED BY <1>1, <1>5, <1>6, <1>7, <1>8, PlacesKept

\* The camera thread and the video thread only take muxers away, but for the
\* one muxer that moves from the message under work to the dispatcher.
LEMMA PlacesFewer ==
  ASSUME TypeInv, Detached, NotOwned, OnePlace',
         UNCHANGED <<pc, call, owned, answered>>, HandlerAlive' => HandlerAlive,
         \A m \in Muxers : (Queued(m)' => Queued(m)) /\ (There(m)' => There(m)),
         \A c \in Clients, m \in Muxers :
           Doing(c, "detach", m) /\ cam' = "notify" /\ msg'.from = c => ~There(m)'
  PROVE  OnePlace' /\ Detached' /\ NotOwned'
<1>1. \A c, m, do : Doing(c, do, m)' <=> Doing(c, do, m)
  BY DEF Doing
<1>2. NotOwned'
  BY DEF NotOwned
<1>3. Detached'
  BY <1>1 DEF Detached
<1> QED BY <1>2, <1>3

LEMMA MuxerPlaces ==
  ASSUME TypeInv, AnswerInv, Senders, OnePlace, Detached, NotOwned, [Next]_vars,
         HandleAttach \/ HandleDetach
  PROVE  OnePlace' /\ Detached' /\ NotOwned'
<1>1. /\ UNCHANGED <<msg_queue, pc, call, owned, answered>> /\ cam = "handle" /\ Handle
  BY HandleStep DEF Handle, clientVars
<1>2. HandlerAlive' => HandlerAlive
  BY GoneStays
<1>3. \A m : Queued(m)' <=> Queued(m)
  BY <1>1 DEF Queued
<1>4. CASE HandleAttach
  <2>1. /\ msg.id = "ATTACH_USER_MUXER" /\ msg' = NoMessage /\ cam' = "frame"
        /\ handlers' \in {handlers, handlers \cup {msg.mux}}
    BY <1>4, Zenon DEF HandleAttach, Handled
  <2>2. \A m : ~Taken(m)'
    BY <2>1 DEF Taken, IsAttach, NoMessage
  <2>3. \A m : m \in handlers' => m \in handlers \/ Taken(m)
    BY <2>1 DEF Taken, IsAttach
  <2>4. OnePlace'
    BY <1>1, <1>3, <2>2, <2>3 DEF OnePlace
  <2>5. \A m : There(m)' => There(m)
    BY <1>3, <2>2, <2>3 DEF There
  <2> QED BY <1>1, <1>2, <1>3, <2>1, <2>4, <2>5, PlacesFewer
<1>5. CASE HandleDetach
  <2>1. /\ msg.id = "DETACH_USER_MUXER" /\ msg' = msg /\ cam' = "notify"
        /\ handlers' = handlers \ {msg.mux}
    BY <1>5, Zenon DEF HandleDetach, ThenNotify
  <2>2. \A m : ~Taken(m)'
    BY <2>1 DEF Taken, IsAttach
  <2>3. OnePlace'
    BY <1>1, <1>3, <2>1, <2>2 DEF OnePlace
  <2>4. \A m : There(m)' => There(m)
    BY <1>3, <2>1, <2>2 DEF There
  <2>5. ASSUME NEW c \in Clients, NEW m \in Muxers, Doing(c, "detach", m), msg'.from = c
        PROVE  ~There(m)'
    <3>1. msg.from = c /\ c # NoClient
      BY <2>1, <2>5, ConstantsAssumption DEF ConstantsAssumption
    <3>2. msg.mux = m
      BY <2>5, <3>1, DoingCall DEF Senders, Sent
    <3>3. pc[c] = "wait"
      BY <1>1, <3>1 DEF AnswerInv, MsgWaits, Waits
    <3>4. ~Queued(m)
      BY <2>5, <3>3 DEF Detached
    <3> QED BY <1>3, <2>1, <2>2, <3>2, <3>4 DEF There
  <2> QED BY <1>1, <1>2, <1>3, <2>3, <2>4, <2>5, PlacesFewer
<1> QED BY <1>4, <1>5

LEMMA PopPlaces ==
  ASSUME TypeInv, AnswerInv, OnePlace, Detached, NotOwned, [Next]_vars,
         CamPop \/ VideoDestroy
  PROVE  OnePlace' /\ Detached' /\ NotOwned'
<1>1. UNCHANGED <<pc, call, owned, answered, handlers>>
  BY DEF CamPop, VideoDestroy, clientVars, muxerVars
<1>2. HandlerAlive' => HandlerAlive
  BY GoneStays
<1>3. CASE VideoDestroy
  <2>1. msg_queue' = <<>> /\ UNCHANGED <<msg, cam>>
    BY <1>3 DEF VideoDestroy, camVars
  <2>2. \A m : ~Queued(m)'
    BY <2>1 DEF Queued
  <2>3. \A m : Taken(m)' <=> Taken(m)
    BY <2>1 DEF Taken
  <2>4. OnePlace'
    BY <1>1, <2>1, <2>2, <2>3 DEF OnePlace
  <2>5. \A m : There(m)' => There(m)
    BY <1>1, <2>2, <2>3 DEF There
  <2>6. \A c \in Clients, m \in Muxers :
          Doing(c, "detach", m) /\ cam' = "notify" /\ msg'.from = c => ~There(m)'
    <3> SUFFICES ASSUME NEW c \in Clients, NEW m \in Muxers, Doing(c, "detach", m),
                        cam' = "notify", msg'.from = c
                 PROVE  ~There(m)'
      OBVIOUS
    <3>1. cam = "notify" /\ msg.from = c /\ c # NoClient
      BY <2>1, ConstantsAssumption DEF ConstantsAssumption
    <3>2. pc[c] = "wait"
      BY <3>1 DEF AnswerInv, MsgWaits, Waits
    <3> QED BY <2>5, <3>1, <3>2 DEF Detached
  <2> QED BY <1>1, <1>2, <2>2, <2>4, <2>5, <2>6, PlacesFewer
<1>4. CASE CamPop /\ msg_queue = <<>>
  <2>1. UNCHANGED <<msg_queue, msg, cam>> /\ cam = "pop"
    BY <1>4 DEF CamPop
  <2>2. \A m : (Queued(m)' <=> Queued(m)) /\ (Taken(m)' <=> Taken(m))
    BY <2>1 DEF Queued, Taken
  <2>3. OnePlace' /\ \A m : There(m)' => There(m)
    BY <1>1, <2>1, <2>2 DEF OnePlace, There
  <2> QED BY <1>1, <1>2, <2>1, <2>2, <2>3, PlacesFewer
<1>5. CASE CamPop /\ msg_queue # <<>>
  <2>1. msg' = Head(msg_queue) /\ msg_queue' = Tail(msg_queue) /\ cam' = "handle" /\ cam = "pop"
    BY <1>5, Zenon DEF CamPop
  <2>2. msg_queue \in Seq(Message)
    BY DEF TypeInv, TypeOK
  <2>3. 1 \in DOMAIN msg_queue /\ msg' = msg_queue[1]
    BY <1>5, <2>1, <2>2
  <2>4. \A i \in DOMAIN msg_queue' : /\ i \in Nat /\ i + 1 # 1 /\ i + 1 \in DOMAIN msg_queue
                                    /\ msg_queue'[i] = msg_queue[i + 1]
    BY <1>5, <2>1, <2>2
  <2>5. \A m : Queued(m)' => Queued(m)
    BY <2>4 DEF Queued
  <2>6. \A m : Taken(m)' => Queued(m)
    BY <2>3 DEF Taken, Queued
  <2>7. OnePlace'
    <3> SUFFICES ASSUME NEW m \in Muxers
                 PROVE  /\ \A i, j \in DOMAIN msg_queue' :
                             IsAttach(msg_queue'[i], m) /\ IsAttach(msg_queue'[j], m) => i = j
                        /\ Taken(m)' => ~Queued(m)'
                        /\ m \in handlers' => ~Taken(m)' /\ ~Queued(m)'
      BY DEF OnePlace, IsAttach
    <3>1. ASSUME NEW i \in DOMAIN msg_queue', NEW j \in DOMAIN msg_queue',
                 IsAttach(msg_queue'[i], m), IsAttach(msg_queue'[j], m)
          PROVE  i = j
      <4>1. i + 1 = j + 1
        BY <2>4, <3>1 DEF OnePlace
      <4> QED BY <2>4, <4>1
    <3>2. ASSUME Taken(m)', Queued(m)' PROVE FALSE
      <4>1. PICK i \in DOMAIN msg_queue' : IsAttach(msg_queue'[i], m)
        BY <3>2 DEF Queued, IsAttach
      <4>2. IsAttach(msg_queue[1], m)
        BY <2>3, <3>2 DEF Taken, IsAttach
      <4>3. 1 = i + 1
        BY <2>3, <2>4, <4>1, <4>2 DEF OnePlace
      <4> QED BY <2>4, <4>3
    <3> QED BY <1>1, <2>5, <2>6, <3>1, <3>2 DEF OnePlace
  <2>8. \A m : There(m)' => There(m)
    BY <1>1, <2>5, <2>6 DEF There
  <2> QED BY <1>1, <1>2, <2>1, <2>5, <2>7, <2>8, PlacesFewer
<1> QED BY <1>3, <1>4, <1>5

\* A call that begins attaches what nobody owns, and one that ends has
\* detached what it no longer owns.
LEMMA CallPlaces ==
  ASSUME TypeInv, Owners, OnePlace, Detached, NotOwned, [Next]_vars,
         NEW c \in Clients, Begin(c) \/ Return(c)
  PROVE  OnePlace' /\ Detached' /\ NotOwned'
<1>0. /\ pc \in [Clients -> {"idle", "next", "cancel", "send", "wait", "done",
                            "flags", "return", "joining"}]
      /\ call \in [Clients -> Call \cup Part \cup {NoCall}]
      /\ owned \in [Clients -> SUBSET Muxers]
  BY DEF TypeInv, TypeOK, ClientType
<1>1. UNCHANGED <<msg_queue, handlers, msg, cam, answered>>
  BY DEF Begin, Return, muxerVars, camVars
<1>2. HandlerAlive' => HandlerAlive
  BY GoneStays
<1>3. \A m : (Queued(m)' <=> Queued(m)) /\ (Taken(m)' <=> Taken(m)) /\ (There(m)' <=> There(m))
  BY <1>1 DEF Queued, Taken, There
<1>4. OnePlace'
  BY <1>1, <1>3 DEF OnePlace
<1>5. \A d \in Clients : d # c => call'[d] = call[d] /\ pc'[d] = pc[d] /\ owned'[d] = owned[d]
  <2>1. \E x, y, z : /\ call' = [call EXCEPT ![c] = x] /\ pc' = [pc EXCEPT ![c] = y]
                     /\ owned' = owned \/ owned' = [owned EXCEPT ![c] = z]
    BY DEF Begin, Return
  <2> QED BY <1>0, <2>1
<1>6. CASE Begin(c)
  <2>1. PICK x \in Call \cup Part :
          /\ pc[c] \in {"idle", "next"}
          /\ x.do = "attach" => \A d \in Clients : x.mux \notin owned[d]
          /\ owned' = IF x.do = "attach" THEN [owned EXCEPT ![c] = @ \cup {x.mux}]
                                         ELSE owned
          /\ call' = [call EXCEPT ![c] = x]
          /\ pc' = [pc EXCEPT ![c] = IF ~Wanted(x.do) THEN "return"
                                     ELSE IF NothingToSend(x.do) THEN "done"
                                     ELSE IF Sync(x.do) THEN "cancel" ELSE "send"]
    BY <1>6, Zenon DEF Begin
  <2>2. call'[c] = x /\ owned[c] \subseteq owned'[c]
    BY <1>0, <2>1
  <2>3. pc'[c] = "send" /\ x.do = "attach" => HandlerAlive
    BY <1>0, <2>1 DEF Wanted
  <2>4. x.do = "detach" => pc'[c] = "cancel" \/ (pc'[c] = "return" /\ ~HandlerAlive)
    BY <1>0, <2>1 DEF Wanted, NothingToSend, Sync, Cancels, StopsRec, StopsCache
  <2>5. \A m, do : Doing(c, do, m)' => x.do = do /\ x.mux = m
    BY <2>2 DEF Doing
  <2>6. NotOwned'
    BY <1>2, <1>3, <1>5, <2>2 DEF NotOwned
  <2>7. Detached'
    <3>1. ASSUME NEW m \in Muxers, Doing(c, "attach", m)', pc'[c] = "send"
          PROVE  ~There(m)'
      BY <1>3, <2>1, <2>3, <2>5, <3>1 DEF NotOwned
    <3>2. \A m : Doing(c, "detach", m)' => x.do = "detach"
      BY <2>5
    <3> QED BY <1>1, <1>2, <1>3, <1>5, <2>4, <3>1, <3>2 DEF Detached, Doing
  <2> QED BY <1>4, <2>6, <2>7
<1>7. CASE Return(c)
  <2>1. /\ pc[c] = "return"
        /\ owned' = IF call[c].do = "detach"
                    THEN [owned EXCEPT ![c] = @ \ {call[c].mux}] ELSE owned
        /\ call' = [call EXCEPT ![c] = Follows(call[c].do)]
    BY <1>7, Zenon DEF Return
  <2>2. call'[c].do \notin {"attach", "detach"}
    BY <1>0, <2>1 DEF Follows, NoCall
  <2>3. \A m, do : Doing(c, do, m)' => call'[c].do = do
    BY DEF Doing
  <2>4. Detached'
    BY <1>1, <1>2, <1>3, <1>5, <2>2, <2>3 DEF Detached, Doing
  <2>5. NotOwned'
    <3> SUFFICES ASSUME HandlerAlive', NEW m \in Muxers, \A d \in Clients : m \notin owned'[d]
                 PROVE  ~There(m)'
      BY DEF NotOwned
    <3>1. CASE m \in owned[c]
      <4>1. call[c].do = "detach" /\ call[c].mux = m
        BY <1>0, <2>1, <3>1
      <4>2. Doing(c, "detach", m)
        BY <4>1, DoingCall
      <4> QED BY <1>2, <1>3, <2>1, <4>2 DEF Detached
    <3>2. CASE m \notin owned[c]
      BY <1>2, <1>3, <1>5, <3>2 DEF NotOwned
    <3> QED BY <3>1, <3>2
  <2> QED BY <1>4, <2>4, <2>5
<1> QED BY <1>6, <1>7

\* What a detach finds queued is its own attach, unless it takes others back.
LEMMA CancelPlaces ==
  ASSUME TypeInv, Owners, OnePlace, Detached, NotOwned, [Next]_vars,
         NEW c \in Clients, Cancel(c), ~takenBack'
  PROVE  OnePlace' /\ Detached' /\ NotOwned'
<1>0. pc \in [Clients -> {"idle", "next", "cancel", "send", "wait", "done",
                         "flags", "return", "joining"}]
  BY DEF TypeInv, TypeOK, ClientType
<1>1. /\ UNCHANGED <<handlers, msg, cam, call, answered, owned>> /\ pc[c] = "cancel"
      /\ ~TakesBackOthers(c)
  BY Zenon DEF Cancel, muxerVars, camVars
<1>2. HandlerAlive' => HandlerAlive
  BY GoneStays
<1>3. PICK f \in [DOMAIN msg_queue' -> DOMAIN msg_queue] :
        /\ \A i, j \in DOMAIN msg_queue' : f[i] = f[j] => i = j
        /\ \A i \in DOMAIN msg_queue' : msg_queue'[i] = msg_queue[f[i]]
                                       /\ msg_queue'[i].id # Cancels(call[c].do)
  BY CancelQueue
<1>4. \A m : (Queued(m)' => Queued(m)) /\ (Taken(m)' <=> Taken(m)) /\ (There(m)' => There(m))
  <2>1. \A m : Queued(m)' => Queued(m)
    BY <1>3 DEF Queued, IsAttach
  <2> QED BY <1>1, <2>1 DEF Taken, There
<1>5. OnePlace'
  <2>1. \A m \in Muxers, i, j \in DOMAIN msg_queue' :
          IsAttach(msg_queue'[i], m) /\ IsAttach(msg_queue'[j], m) => i = j
    BY <1>3 DEF OnePlace
  <2> QED BY <1>1, <1>4, <2>1 DEF OnePlace, IsAttach
<1>6. NotOwned'
  BY <1>1, <1>2, <1>4 DEF NotOwned
<1>7. \A d, m, do : Doing(d, do, m)' <=> Doing(d, do, m)
  BY <1>1 DEF Doing
<1>8. \A d \in Clients : d # c => pc'[d] = pc[d]
  BY <1>0, CancelQueue
<1>9. ASSUME NEW m \in Muxers, Doing(c, "detach", m)
      PROVE  /\ ~Queued(m)'
             /\ pc'[c] = "send" \/ (pc'[c] = "done" /\ ~There(m)')
  <2>1. call[c].do = "detach" /\ call[c].mux = m
    BY <1>9, DoingCall
  <2>2. Cancels(call[c].do) = "ATTACH_USER_MUXER"
    BY <2>1 DEF Cancels, StopsRec, StopsCache
  <2>3. ~Queued(m)'
    BY <1>3, <2>2 DEF Queued, IsAttach
  <2>4. CASE pc' = [pc EXCEPT ![c] = "send"]
    BY <1>0, <2>3, <2>4
  <2>5. CASE pc' = [pc EXCEPT ![c] = "done"]
            /\ \E i \in DOMAIN msg_queue : msg_queue[i].id = Cancels(call[c].do)
    <3>1. Queued(m)
      BY <1>1, <2>1, <2>2, <2>5 DEF TakesBackOthers, Queued, IsAttach
    <3>2. ~There(m)'
      BY <1>1, <1>4, <2>3, <3>1 DEF OnePlace, There
    <3> QED BY <1>0, <2>3, <2>5, <3>2
  <2> QED BY <2>4, <2>5, CancelQueue
<1>10. \A m \in Muxers : ~Doing(c, "attach", m)
  BY <1>1 DEF Owners
<1>11. Detached'
  BY <1>1, <1>2, <1>4, <1>7, <1>8, <1>9, <1>10 DEF Detached
<1> QED BY <1>5, <1>6, <1>11

\* What an attach sends is nowhere else.
LEMMA SendPlaces ==
  ASSUME TypeInv, AnswerInv, Owners, OnePlace, Detached, NotOwned, [Next]_vars,
         NEW c \in Clients, Send(c)
  PROVE  OnePlace' /\ Detached' /\ NotOwned'
<1>0. pc \in [Clients -> {"idle", "next", "cancel", "send", "wait", "done",
                         "flags", "return", "joining"}] /\ msg_queue \in Seq(Message)
  BY DEF TypeInv, TypeOK, ClientType
<1>1. UNCHANGED <<handlers, msg, cam, call, answered, owned>> /\ pc[c] = "send"
  BY DEF Send, muxerVars, camVars
<1>2. HandlerAlive' => HandlerAlive
  BY GoneStays
<1>3. PICK x \in Message :
           /\ x = [id |-> Sends(call[c].do), mux |-> call[c].mux,
                   from |-> IF Sync(call[c].do) THEN c ELSE NoClient]
           /\ msg_queue' = Append(msg_queue, x)
           /\ \/ x.from = c /\ c # NoClient /\ pc' = [pc EXCEPT ![c] = "wait"]
              \/ x.from = NoClient /\ pc' = [pc EXCEPT ![c] = "done"]
  BY SendEffect
<1>4. \A d \in Clients : d # c => pc'[d] = pc[d]
  BY <1>0, <1>3
<1>5. /\ \A i \in DOMAIN msg_queue' :
           \/ i \in DOMAIN msg_queue /\ msg_queue'[i] = msg_queue[i]
           \/ i = Len(msg_queue) + 1 /\ msg_queue'[i] = x
      /\ \A i \in DOMAIN msg_queue : i \in DOMAIN msg_queue' /\ msg_queue'[i] = msg_queue[i]
  BY <1>0, <1>3
<1>6. \A m : Taken(m)' <=> Taken(m)
  BY <1>1 DEF Taken
<1>7. \A m : Queued(m)' => Queued(m) \/ IsAttach(x, m)
  BY <1>5 DEF Queued, IsAttach
<1>8. \A d, m, do : Doing(d, do, m)' <=> Doing(d, do, m)
  BY <1>1 DEF Doing
<1>9. \A m \in Muxers : IsAttach(x, m) => Doing(c, "attach", m)
  <2> SUFFICES ASSUME NEW m \in Muxers, IsAttach(x, m) PROVE Doing(c, "attach", m)
    OBVIOUS
  <2>1. Sends(call[c].do) = "ATTACH_USER_MUXER" /\ call[c].mux = m
    BY <1>3 DEF IsAttach
  <2>2. call[c] \in Call \cup Part /\ call[c].do # "then_deinit"
    BY <1>1 DEF TypeInv, Sendable
  <2>3. call[c].do = "attach"
    <3>1. call[c].do \in {"startrec", "stoprec", "start_cache", "stop_cache", "switch",
                         "savefile", "stop_savecache", "deletevideo", "api_video_deinit",
                         "attach", "detach", "then_stoprec"}
      BY <2>2 DEF Call, Part
    <3> QED BY <2>1, <3>1 DEF Sends, StopsRec, StopsCache
  <2> QED BY <2>1, <2>3, DoingCall
<1>10. ~answered[c] /\ ~(cam = "notify" /\ msg.from = c)
  <2>1. c # NoClient
    BY ConstantsAssumption DEF ConstantsAssumption
  <2> QED BY <1>1, <2>1 DEF AnswerInv, AnswerPending, MsgWaits, Waits
<1>11. OnePlace'
  <2> SUFFICES ASSUME NEW m \in Muxers
               PROVE  /\ \A i, j \in DOMAIN msg_queue' :
                           IsAttach(msg_queue'[i], m) /\ IsAttach(msg_queue'[j], m) => i = j
                      /\ Taken(m)' => ~Queued(m)'
                      /\ m \in handlers' => ~Taken(m)' /\ ~Queued(m)'
    BY DEF OnePlace, IsAttach
  <2>1. IsAttach(x, m) => ~There(m)
    BY <1>1, <1>9 DEF Detached
  <2>2. ASSUME NEW i \in DOMAIN msg_queue', NEW j \in DOMAIN msg_queue',
               IsAttach(msg_queue'[i], m), IsAttach(msg_queue'[j], m)
        PROVE  i = j
    <3>1. CASE IsAttach(x, m)
      <4>1. \A k \in DOMAIN msg_queue : ~IsAttach(msg_queue[k], m)
        BY <2>1, <3>1 DEF There, Queued
      <4> QED BY <1>5, <2>2, <4>1
    <3>2. CASE ~IsAttach(x, m)
      BY <1>5, <2>2, <3>2 DEF OnePlace
    <3> QED BY <3>1, <3>2
  <2> QED BY <1>1, <1>6, <1>7, <2>1, <2>2 DEF OnePlace, There
<1>12. NotOwned'
  <2>1. \A m \in Muxers : There(m)' => There(m) \/ m \in owned[c]
    BY <1>1, <1>6, <1>7, <1>9 DEF There, Owners
  <2> QED BY <1>1, <1>2, <2>1 DEF NotOwned
<1>13. Detached'
  <2>1. \A m \in Muxers, d \in Clients, do \in {"attach", "detach"} :
          Doing(d, do, m) /\ IsAttach(x, m) => d = c /\ do = "attach"
    <3> SUFFICES ASSUME NEW m \in Muxers, NEW d \in Clients, NEW do \in {"attach", "detach"},
                        Doing(d, do, m), IsAttach(x, m)
                 PROVE  d = c /\ do = "attach"
      OBVIOUS
    <3>1. Doing(c, "attach", m)
      BY <1>9
    <3>2. m \in owned[c] /\ m \in owned[d]
      BY <3>1 DEF Owners
    <3>3. d = c
      BY <3>2 DEF Owners
    <3> QED BY <3>1, <3>3, DoingCall
  <2>2. \A m \in Muxers : Doing(c, "attach", m) => pc'[c] # "send"
    BY <1>0, <1>3
  <2>3. \A m \in Muxers, d \in Clients, do \in {"attach", "detach"} :
          Doing(d, do, m) /\ (d # c \/ do = "detach") =>
            (Queued(m)' => Queued(m)) /\ (There(m)' => There(m))
    BY <1>1, <1>6, <1>7, <2>1 DEF There
  <2>4. pc'[c] \in {"wait", "done"}
    BY <1>0, <1>3
  <2>5. \A m \in Muxers : Doing(c, "detach", m) => pc'[c] = "wait"
    <3> SUFFICES ASSUME NEW m \in Muxers, Doing(c, "detach", m) PROVE pc'[c] = "wait"
      OBVIOUS
    <3>1. call[c].do = "detach"
      BY DoingCall
    <3>2. Sync(call[c].do)
      BY <3>1 DEF Sync, Cancels, StopsRec, StopsCache
    <3>3. c # NoClient
      BY ConstantsAssumption DEF ConstantsAssumption
    <3> QED BY <1>0, <1>3, <3>2, <3>3
  <2>6. \A m \in Muxers : Doing(c, "detach", m) => ~Queued(m)'
    BY <1>1, <2>3 DEF Detached
  <2> QED BY <1>1, <1>2, <1>4, <1>8, <1>10, <2>2, <2>3, <2>4, <2>5, <2>6 DEF Detached
<1> QED BY <1>11, <1>12, <1>13

\* A muxer is in one place, and in none when its owner says so.
LEMMA NextDetach ==
  ASSUME TypeInv, AnswerInv, DetachInv, [Next]_vars
  PROVE  DetachInv'
<1>1. Owners'
  <2>1. CASE Camera \/ Video \/ UNCHANGED vars
    BY <2>1, OthersKeepCalls DEF DetachInv, Owners, Doing
  <2> QED BY <2>1, OwnersClient DEF Next, DetachInv
<1>2. Senders'
  BY NextSenders DEF DetachInv
<1>3. ASSUME ~takenBack' PROVE OnePlace' /\ Detached' /\ NotOwned'
  <2>1. ~takenBack /\ Owners /\ Senders /\ OnePlace /\ Detached /\ NotOwned
    BY <1>3, HistoryStays DEF DetachInv
  <2>2. CASE Camera
    BY <2>1, <2>2, CameraCases, CameraPlaces, MuxerPlaces, PopPlaces
  <2>3. CASE Video
    BY <2>1, <2>3, CameraPlaces, PopPlaces DEF Video
  <2>4. ASSUME NEW c \in Clients, Client(c) PROVE OnePlace' /\ Detached' /\ NotOwned'
    BY <1>3, <2>1, <2>4, ClientPlaces, CallPlaces, CancelPlaces, SendPlaces
       DEF Client, GoOn
  <2> QED BY <2>1, <2>2, <2>3, <2>4, CameraPlaces DEF Next
<1> QED BY <1>1, <1>2, <1>3 DEF DetachInv

\* A message about a muxer names one.
LEMMA MessageMuxer ==
  ASSUME TypeInv
  PROVE  /\ \A i \in DOMAIN msg_queue :
              msg_queue[i].id \in MuxerIds => msg_queue[i].mux \in Muxers
         /\ msg.id \in MuxerIds => msg.mux \in Muxers
<1>1. \A x \in Message \cup {NoMessage} : x.id \in MuxerIds => x.mux \in Muxers
  BY DEF Message, NoMessage, MuxerIds, PlainIds
<1>2. msg_queue \in Seq(Message) /\ msg \in Message \cup {NoMessage}
  BY DEF TypeInv, TypeOK, CamType
<1> QED BY <1>1, <1>2

\* The steps of the camera and the video thread that attach no muxer.
LEMMA CameraAttached ==
  ASSUME TypeInv, AnswerInv, Attached, DetachAttached, [Next]_vars,
         \/ Frame \/ Notify \/ VideoLeave \/ VideoDelete \/ UNCHANGED vars
         \/ Handle /\ ~HandleAttach /\ ~HandleDetach
  PROVE  Attached' /\ DetachAttached'
<1>0. "file" \notin Muxers
  BY ConstantsAssumption DEF ConstantsAssumption
<1>1. UNCHANGED <<pc, call, owned>>
  BY OthersKeepCalls, CameraCases DEF Video
<1>2. HandlerAlive' => HandlerAlive
  BY GoneStays
<1>3. \A c, m, do : Doing(c, do, m)' <=> Doing(c, do, m)
  BY <1>1 DEF Doing
<1>4. ASSUME msg_queue' = msg_queue, ~(msg'.id = "DETACH_USER_MUXER" /\ cam' = "handle") \/
                                     (msg' = msg /\ cam' = cam),
             \A m \in Muxers : (m \in handlers' <=> m \in handlers) /\ (Taken(m)' <=> Taken(m))
      PROVE  Attached' /\ DetachAttached'
  <2>1. \A m \in Muxers : There(m)' <=> There(m)
    BY <1>4 DEF There, Queued
  <2>2. Attached'
    BY <1>1, <1>2, <1>3, <1>4, <2>1 DEF Attached
  <2>3. DetachAttached'
    BY <1>4, MessageMuxer DEF DetachAttached, MuxerIds
  <2> QED BY <2>2, <2>3
<1>5. CASE Frame
  <2>1. /\ UNCHANGED <<msg_queue, msg>>
        /\ cam' = cam \/ (cam \notin {"handle", "notify"} /\ cam' \notin {"handle", "notify"})
    BY <1>5, FrameStep DEF clientVars
  <2>2. handlers' \in {handlers, handlers \cup {"file"}, handlers \ {"file"}}
    BY <1>5, FrameHandlers
  <2> QED BY <1>0, <1>4, <2>1, <2>2 DEF Taken
<1>6. CASE Notify
  <2>1. /\ UNCHANGED <<msg_queue, handlers>> /\ cam' = "frame" /\ msg' = NoMessage
        /\ cam = "notify"
    BY <1>6, Zenon DEF Notify, muxerVars
  <2>3. msg.id # "ATTACH_USER_MUXER"
    BY <2>1 DEF AnswerInv, MsgWaits, SyncIds
  <2> QED BY <1>4, <2>1, <2>3 DEF Taken, IsAttach, NoMessage
<1>7. CASE VideoLeave \/ VideoDelete \/ UNCHANGED vars
  <2>1. UNCHANGED <<msg_queue, handlers, cam, msg>>
    BY <1>7 DEF VideoLeave, VideoDelete, vars, muxerVars, camVars
  <2> QED BY <1>4, <2>1 DEF Taken
<1>8. CASE Handle /\ ~HandleAttach /\ ~HandleDetach
  <2>1. /\ cam = "handle" /\ msg_queue' = msg_queue
        /\ \/ cam' = "handle" /\ msg' = msg
           \/ cam' \in {"frame", "leave"} /\ msg' = NoMessage
           \/ cam' = "notify" /\ msg' = msg /\ msg.id \in SyncIds
    BY <1>8, HandleStep
  <2>2. /\ \A m \in Muxers : m \in handlers' <=> m \in handlers
        /\ \/ msg' = msg /\ cam' = cam
           \/ msg.id \notin {"ATTACH_USER_MUXER", "DETACH_USER_MUXER"}
    BY <1>0, <1>8, HandleRest
  <2>3. \A m \in Muxers : Taken(m)' <=> Taken(m)
    BY <2>1, <2>2 DEF Taken, IsAttach, NoMessage
  <2> QED BY <1>4, <2>1, <2>2, <2>3
<1> QED BY <1>5, <1>6, <1>7, <1>8

\* An attach puts its muxer into the dispatcher; a detach takes it away, and
\* its owner waits for that.
LEMMA MuxerAttached ==
  ASSUME TypeInv, AnswerInv, Owners, Senders, OnePlace, Attached, DetachAttached,
         [Next]_vars, ~badAttach', HandleAttach \/ HandleDetach
  PROVE  Attached' /\ DetachAttached'
<1>1. /\ UNCHANGED <<msg_queue, pc, call, owned>> /\ cam = "handle" /\ Handle
  BY HandleStep DEF Handle, clientVars
<1>2. HandlerAlive' => HandlerAlive
  BY GoneStays
<1>3. \A m : Queued(m)' <=> Queued(m)
  BY <1>1 DEF Queued
<1>4. \A c, m, do : Doing(c, do, m)' <=> Doing(c, do, m)
  BY <1>1 DEF Doing
<1>5. CASE HandleAttach
  <2>1. /\ msg.id = "ATTACH_USER_MUXER" /\ msg' = NoMessage /\ cam' = "frame"
        /\ handlers' = handlers \cup {msg.mux}
    BY <1>5, Zenon DEF HandleAttach, Handled
  <2>2. \A m : (m \in handlers \/ Taken(m)) <=> m \in handlers'
    BY <2>1 DEF Taken, IsAttach
  <2>3. \A m : There(m) => There(m)'
    BY <1>3, <2>2 DEF There
  <2>4. Attached'
    BY <1>1, <1>2, <1>4, <2>2, <2>3 DEF Attached
  <2>5. DetachAttached'
    BY <1>1, <2>1, <2>2 DEF DetachAttached
  <2> QED BY <2>4, <2>5
<1>6. CASE HandleDetach
  <2>1. /\ msg.id = "DETACH_USER_MUXER" /\ msg' = msg /\ cam' = "notify"
        /\ handlers' = handlers \ {msg.mux}
    BY <1>6, Zenon DEF HandleDetach, ThenNotify
  <2>2. \A m : m # msg.mux => (m \in handlers' <=> m \in handlers)
    BY <2>1
  <2>3. \A m : (Taken(m)' <=> Taken(m)) /\ ~Taken(m)
    BY <2>1 DEF Taken, IsAttach
  <2>4. msg.from \in Clients /\ msg.from # NoClient /\ pc[msg.from] = "wait"
    <3>1. msg \in Message /\ msg.from # NoClient /\ pc[msg.from] = "wait"
      BY <1>1, <2>1 DEF AnswerInv, MsgWaits, SyncIds, Waits
    <3> QED BY <3>1 DEF Message
  <2>5. msg.mux \in Muxers /\ Doing(msg.from, "detach", msg.mux)
    <3>1. call[msg.from].do = "detach" /\ call[msg.from].mux = msg.mux
      BY <2>1, <2>4 DEF Senders, Sent
    <3> QED BY <2>4, <3>1, DoingCall
  <2>6. \A c \in Clients : msg.mux \in owned[c] => c = msg.from
    BY <2>4, <2>5 DEF Owners
  <2>7. \A m : m # msg.mux => (There(m)' <=> There(m))
    BY <1>3, <2>2, <2>3 DEF There
  <2>8. \A c \in Clients, m \in Muxers : Doing(c, "detach", m) /\ pc[c] = "send" => m # msg.mux
    <3> SUFFICES ASSUME NEW c \in Clients, Doing(c, "detach", msg.mux), pc[c] = "send"
                 PROVE  FALSE
      OBVIOUS
    <3>1. c = msg.from
      BY <2>5, <2>6 DEF Owners
    <3> QED BY <2>4, <3>1
  <2>9. Attached'
    BY <1>1, <1>2, <1>4, <2>2, <2>3, <2>4, <2>5, <2>6, <2>7, <2>8 DEF Attached
  <2>10. \A i \in DOMAIN msg_queue : msg_queue[i].id = "DETACH_USER_MUXER" =>
           msg_queue[i].mux # msg.mux
    <3> SUFFICES ASSUME NEW i \in DOMAIN msg_queue, msg_queue[i].id = "DETACH_USER_MUXER",
                        msg_queue[i].mux = msg.mux
                 PROVE  FALSE
      OBVIOUS
    <3>1. /\ msg_queue[i].from # NoClient /\ msg_queue[i].from # msg.from
      BY DEF AnswerInv, QueueWaits, SyncIds
    <3>2. msg_queue[i].from \in Clients
      BY <3>1 DEF TypeInv, TypeOK, Message
    <3>3. call[msg_queue[i].from].do = "detach" /\ call[msg_queue[i].from].mux = msg.mux
      BY <3>1 DEF Senders, Sent
    <3>4. msg.mux \in owned[msg_queue[i].from]
      BY <2>5, <3>2, <3>3, DoingCall DEF Owners
    <3> QED BY <2>6, <3>1, <3>2, <3>4
  <2>11. DetachAttached'
    BY <1>1, <2>1, <2>2, <2>3, <2>10 DEF DetachAttached
  <2> QED BY <2>9, <2>11
<1> QED BY <1>5, <1>6

LEMMA PopAttached ==
  ASSUME TypeInv, AnswerInv, Attached, DetachAttached, [Next]_vars, CamPop \/ VideoDestroy
  PROVE  Attached' /\ DetachAttached'
<1>1. UNCHANGED <<pc, call, owned, handlers>>
  BY DEF CamPop, VideoDestroy, clientVars, muxerVars
<1>2. HandlerAlive' => HandlerAlive
  BY GoneStays
<1>3. \A c, m, do : Doing(c, do, m)' <=> Doing(c, do, m)
  BY <1>1 DEF Doing
<1>4. CASE VideoDestroy
  <2>1. msg_queue' = <<>> /\ UNCHANGED <<msg, cam>> /\ ~HandlerAlive'
    BY <1>4 DEF VideoDestroy, camVars, HandlerAlive
  <2>2. \A m : Taken(m)' <=> Taken(m)
    BY <2>1 DEF Taken
  <2> QED BY <1>1, <1>3, <2>1, <2>2 DEF Attached, DetachAttached
<1>5. CASE CamPop /\ msg_queue = <<>>
  <2>1. UNCHANGED <<msg_queue, msg, cam>>
    BY <1>5 DEF CamPop
  <2>2. \A m : (There(m)' <=> There(m)) /\ (Taken(m)' <=> Taken(m))
    BY <1>1, <2>1 DEF There, Queued, Taken
  <2> QED BY <1>1, <1>2, <1>3, <2>1, <2>2 DEF Attached, DetachAttached
<1>6. CASE CamPop /\ msg_queue # <<>>
  <2>1. msg' = Head(msg_queue) /\ msg_queue' = Tail(msg_queue) /\ cam' = "handle" /\ cam = "pop"
    BY <1>6, Zenon DEF CamPop
  <2>2. msg_queue \in Seq(Message)
    BY DEF TypeInv, TypeOK
  <2>3. 1 \in DOMAIN msg_queue /\ msg' = msg_queue[1]
    BY <1>6, <2>1, <2>2
  <2>4. \A i \in DOMAIN msg_queue' : i + 1 \in DOMAIN msg_queue
                                    /\ msg_queue'[i] = msg_queue[i + 1]
    BY <1>6, <2>1, <2>2
  <2>5. \A i \in DOMAIN msg_queue : i # 1 =>
          i - 1 \in DOMAIN msg_queue' /\ msg_queue'[i - 1] = msg_queue[i]
    BY <1>6, <2>1, <2>2
  <2>6. \A m : ~Taken(m)
    BY <2>1 DEF AnswerInv, MsgWaits, Taken, IsAttach, NoMessage
  <2>7. \A m : There(m) => There(m)'
    <3>1. \A m : Queued(m) => Queued(m)' \/ Taken(m)'
      BY <2>3, <2>5 DEF Queued, Taken, IsAttach
    <3> QED BY <1>1, <2>6, <3>1 DEF There
  <2>8. Attached'
    BY <1>1, <1>2, <1>3, <2>6, <2>7 DEF Attached
  <2>9. DetachAttached'
    BY <1>1, <2>1, <2>3, <2>4, <2>6 DEF DetachAttached
  <2> QED BY <2>8, <2>9
<1> QED BY <1>4, <1>5, <1>6

\* The steps of a client that send nothing and take nothing back.
LEMMA ClientAttached ==
  ASSUME TypeInv, Owners, Attached, DetachAttached, [Next]_vars, NEW c \in Clients,
         \/ UseAfterDelete(c) \/ Answered(c) \/ NoFlags(c) \/ ReadFlags(c)
         \/ WriteFlags(c) \/ Deinit(c) \/ Joined(c)
  PROVE  Attached' /\ DetachAttached'
<1>0. /\ pc \in [Clients -> {"idle", "next", "cancel", "send", "wait", "done",
                            "flags", "return", "joining"}]
      /\ call \in [Clients -> Call \cup Part \cup {NoCall}]
  BY DEF TypeInv, TypeOK, ClientType
<1>1. UNCHANGED <<msg_queue, owned, handlers, msg, cam>>
  BY DEF UseAfterDelete, Answered, NoFlags, ReadFlags, WriteFlags, Deinit, Joined,
         muxerVars, camVars, clientVars
<1>2. HandlerAlive' => HandlerAlive
  BY GoneStays
<1>3. \A m : (There(m)' <=> There(m)) /\ (Taken(m)' <=> Taken(m))
  BY <1>1 DEF There, Queued, Taken
<1>4. \/ UNCHANGED <<pc, call>>
      \/ /\ pc[c] \in {"wait", "done", "flags", "next"} /\ call' = call
         /\ \E l \in {"done", "return", "flags", "joining"} : pc' = [pc EXCEPT ![c] = l]
      \/ /\ pc[c] = "joining" /\ call' = [call EXCEPT ![c] = NoCall]
         /\ pc' = [pc EXCEPT ![c] = "idle"]
  BY DEF UseAfterDelete, Answered, NoFlags, ReadFlags, WriteFlags, Deinit, Joined, clientVars
<1>5. \A d \in Clients : d # c => pc'[d] = pc[d] /\ call'[d] = call[d]
  BY <1>0, <1>4
<1>6. \A m \in Muxers, do \in {"attach", "detach"} : Doing(c, do, m)' => Doing(c, do, m)
  <2> SUFFICES ASSUME NEW m \in Muxers, NEW do \in {"attach", "detach"}, Doing(c, do, m)'
               PROVE  Doing(c, do, m)
    OBVIOUS
  <2>1. call'[c] = [do |-> do, mux |-> m]
    BY DEF Doing
  <2>2. call'[c].do = do
    BY <2>1
  <2>3. call'[c] # NoCall
    BY <2>2 DEF NoCall
  <2>4. call'[c] = call[c]
    BY <1>0, <1>4, <2>3
  <2> QED BY <2>1, <2>4 DEF Doing
<1>7. \A m \in Muxers, do \in {"attach", "detach"} :
        Doing(c, do, m) => (Doing(c, do, m)' /\ pc[c] # "joining")
  BY <1>4 DEF Doing, Owners
<1>8. pc'[c] = pc[c] \/ (pc[c] # "send" /\ pc'[c] \notin {"send", "cancel"})
  BY <1>0, <1>4
<1>9. \A d \in Clients, m \in Muxers, do \in {"attach", "detach"} :
        /\ Doing(d, do, m)' <=> Doing(d, do, m)
        /\ Doing(d, do, m) => /\ pc'[d] = "send" <=> pc[d] = "send"
                              /\ pc'[d] = "cancel" <=> pc[d] = "cancel"
  BY <1>0, <1>4, <1>5, <1>6, <1>7, <1>8 DEF Doing
<1>10. Attached'
  BY <1>1, <1>2, <1>3, <1>9 DEF Attached
<1> QED BY <1>1, <1>3, <1>10 DEF DetachAttached

\* A call that begins owns what it will send; one that ends owns it no more.
LEMMA CallAttached ==
  ASSUME TypeInv, Owners, Attached, DetachAttached, [Next]_vars,
         NEW c \in Clients, Begin(c) \/ Return(c)
  PROVE  Attached' /\ DetachAttached'
<1>0. /\ pc \in [Clients -> {"idle", "next", "cancel", "send", "wait", "done",
                            "flags", "return", "joining"}]
      /\ call \in [Clients -> Call \cup Part \cup {NoCall}]
      /\ owned \in [Clients -> SUBSET Muxers]
  BY DEF TypeInv, TypeOK, ClientType
<1>1. UNCHANGED <<msg_queue, handlers, msg, cam>>
  BY DEF Begin, Return, muxerVars, camVars
<1>2. HandlerAlive' => HandlerAlive
  BY GoneStays
<1>3. \A m : (There(m)' <=> There(m)) /\ (Taken(m)' <=> Taken(m))
  BY <1>1 DEF There, Queued, Taken
<1>4. \A d \in Clients : d # c => call'[d] = call[d] /\ pc'[d] = pc[d] /\ owned'[d] = owned[d]
  <2>1. \E x, y, z : /\ call' = [call EXCEPT ![c] = x] /\ pc' = [pc EXCEPT ![c] = y]
                     /\ owned' = owned \/ owned' = [owned EXCEPT ![c] = z]
    BY DEF Begin, Return
  <2> QED BY <1>0, <2>1
<1>5. DetachAttached'
  BY <1>1, <1>3 DEF DetachAttached
<1>6. ASSUME /\ \A m \in Muxers : HandlerAlive' /\ m \in owned'[c] =>
                  \/ There(m)
                  \/ Doing(c, "attach", m)' /\ pc'[c] = "send"
             /\ \A m \in Muxers : ~(Doing(c, "detach", m)' /\ pc'[c] = "send")
      PROVE  Attached'
  BY <1>1, <1>2, <1>3, <1>4, <1>6 DEF Attached, Doing
<1>7. CASE Begin(c)
  <2>1. PICK x \in Call \cup Part :
          /\ pc[c] \in {"idle", "next"}
          /\ owned' = IF x.do = "attach" THEN [owned EXCEPT ![c] = @ \cup {x.mux}]
                                         ELSE owned
          /\ call' = [call EXCEPT ![c] = x]
          /\ pc' = [pc EXCEPT ![c] = IF ~Wanted(x.do) THEN "return"
                                     ELSE IF NothingToSend(x.do) THEN "done"
                                     ELSE IF Sync(x.do) THEN "cancel" ELSE "send"]
    BY <1>7, Zenon DEF Begin
  <2>2. vt' = vt
    BY <1>7 DEF Begin, videoVars
  <2>3. x.do = "attach" /\ HandlerAlive => pc'[c] = "send"
    BY <1>0, <2>1 DEF Wanted, NothingToSend, Sync, Cancels, StopsRec, StopsCache
  <2>4. x.do = "detach" => pc'[c] # "send"
    BY <1>0, <2>1 DEF Sync, Cancels, StopsRec, StopsCache
  <2>5. x.do = "attach" => x = [do |-> "attach", mux |-> x.mux]
    BY DEF Call, Part
  <2>6. \A m \in Muxers : m \in owned[c] /\ HandlerAlive => There(m)
    BY <2>1 DEF Attached, Owners
  <2>7. call'[c] = x
    BY <1>0, <2>1
  <2>8. \A m \in Muxers : HandlerAlive' /\ m \in owned'[c] =>
                  \/ There(m)
                  \/ Doing(c, "attach", m)' /\ pc'[c] = "send"
    BY <1>0, <1>2, <2>1, <2>3, <2>5, <2>6, <2>7 DEF Doing
  <2>9. \A m : Doing(c, "detach", m)' => x.do = "detach"
    BY <2>7 DEF Doing
  <2> QED BY <1>5, <1>6, <2>4, <2>8, <2>9
<1>8. CASE Return(c)
  <2>1. /\ pc[c] = "return"
        /\ owned' = IF call[c].do = "detach"
                    THEN [owned EXCEPT ![c] = @ \ {call[c].mux}] ELSE owned
        /\ pc' = [pc EXCEPT ![c] = IF Follows(call[c].do) = NoCall THEN "idle" ELSE "next"]
    BY <1>8, Zenon DEF Return
  <2>2. pc'[c] # "send"
    BY <1>0, <2>1
  <2>3. ASSUME NEW m \in Muxers, HandlerAlive', m \in owned'[c] PROVE There(m)
    <3>1. m \in owned[c] /\ ~(call[c].do = "detach" /\ call[c].mux = m)
      BY <1>0, <2>1, <2>3
    <3>2. ~Doing(c, "detach", m)
      BY <3>1, DoingCall
    <3> QED BY <1>2, <2>1, <2>3, <3>1, <3>2 DEF Attached
  <2> QED BY <1>5, <1>6, <2>2, <2>3
<1> QED BY <1>7, <1>8

\* A detach that finds no attach queued finds its muxer attached.
LEMMA CancelAttached ==
  ASSUME TypeInv, Owners, Attached, DetachAttached, [Next]_vars,
         NEW c \in Clients, Cancel(c), ~takenBack'
  PROVE  Attached' /\ DetachAttached'
<1>0. pc \in [Clients -> {"idle", "next", "cancel", "send", "wait", "done",
                         "flags", "return", "joining"}]
  BY DEF TypeInv, TypeOK, ClientType
<1>1. /\ UNCHANGED <<handlers, msg, cam, call, owned>> /\ pc[c] = "cancel"
      /\ ~TakesBackOthers(c) /\ HandlerAlive
  BY Zenon DEF Cancel, muxerVars, camVars
<1>2. HandlerAlive' => HandlerAlive
  BY GoneStays
<1>3. PICK f \in [DOMAIN msg_queue' -> DOMAIN msg_queue] :
        /\ \A i \in DOMAIN msg_queue' : msg_queue'[i] = msg_queue[f[i]]
        /\ \A j \in DOMAIN msg_queue : msg_queue[j].id # Cancels(call[c].do) =>
             \E i \in DOMAIN msg_queue' : f[i] = j
  BY CancelQueue
<1>4. \A m : Taken(m)' <=> Taken(m)
  BY <1>1 DEF Taken
<1>5. \A d, m, do : Doing(d, do, m)' <=> Doing(d, do, m)
  BY <1>1 DEF Doing
<1>6. \A d \in Clients : d # c => pc'[d] = pc[d]
  BY <1>0, CancelQueue
<1>7. pc'[c] \in {"send", "done"}
  BY <1>0, CancelQueue
<1>8. \A m \in Muxers : There(m) => There(m)' \/ Doing(c, "detach", m)
  <2> SUFFICES ASSUME NEW m \in Muxers, NEW j \in DOMAIN msg_queue,
                      IsAttach(msg_queue[j], m), ~Doing(c, "detach", m)
               PROVE  Queued(m)'
    BY <1>1, <1>4 DEF There, Queued
  <2>1. msg_queue[j].id # Cancels(call[c].do)
    <3> SUFFICES ASSUME Cancels(call[c].do) = "ATTACH_USER_MUXER" PROVE FALSE
      BY DEF IsAttach
    <3>1. call[c].do = "detach"
      BY DEF Cancels, StopsRec, StopsCache
    <3>2. call[c].mux = m
      BY <1>1, <3>1 DEF TakesBackOthers, IsAttach
    <3> QED BY <3>1, <3>2, DoingCall
  <2> QED BY <1>3, <2>1 DEF Queued, IsAttach
<1>9. ASSUME NEW m \in Muxers, Doing(c, "detach", m), pc'[c] = "send"
      PROVE  m \in handlers \/ Taken(m)
  <2>1. call[c].do = "detach"
    BY <1>9, DoingCall
  <2>2. Cancels(call[c].do) = "ATTACH_USER_MUXER"
    BY <2>1 DEF Cancels, StopsRec, StopsCache
  <2>3. \A i \in DOMAIN msg_queue : msg_queue[i].id # Cancels(call[c].do)
    BY <1>0, <1>9, CancelQueue
  <2>4. ~Queued(m)
    BY <2>2, <2>3 DEF Queued, IsAttach
  <2>5. m \in owned[c] /\ ~Doing(c, "attach", m)
    BY <1>9, <2>1, DoingCall DEF Owners
  <2> QED BY <1>1, <1>9, <2>4, <2>5 DEF Attached, There
<1>10. Attached'
  <2> SUFFICES ASSUME NEW d \in Clients, NEW m \in Muxers
               PROVE  /\ HandlerAlive' /\ m \in owned'[d] =>
                           \/ There(m)'
                           \/ Doing(d, "attach", m)' /\ pc'[d] = "send"
                           \/ Doing(d, "detach", m)' /\ pc'[d] # "cancel"
                      /\ Doing(d, "detach", m)' /\ pc'[d] = "send" =>
                           m \in handlers' \/ Taken(m)'
    BY DEF Attached
  <2>1. CASE d = c
    <3>1. ~Doing(c, "attach", m)
      BY <1>1 DEF Owners
    <3> QED BY <1>1, <1>2, <1>4, <1>5, <1>7, <1>8, <1>9, <2>1, <3>1 DEF Attached
  <2>2. CASE d # c
    <3>1. m \in owned[d] => ~Doing(c, "detach", m)
      BY <2>2 DEF Owners
    <3> QED BY <1>1, <1>2, <1>4, <1>5, <1>6, <1>8, <2>2, <3>1 DEF Attached
  <2> QED BY <2>1, <2>2
<1>11. DetachAttached'
  BY <1>1, <1>3, <1>4 DEF DetachAttached
<1> QED BY <1>10, <1>11

LEMMA SendAttached ==
  ASSUME TypeInv, Owners, Attached, DetachAttached, [Next]_vars, NEW c \in Clients, Send(c)
  PROVE  Attached' /\ DetachAttached'
<1>0. pc \in [Clients -> {"idle", "next", "cancel", "send", "wait", "done",
                         "flags", "return", "joining"}] /\ msg_queue \in Seq(Message)
  BY DEF TypeInv, TypeOK, ClientType
<1>1. UNCHANGED <<handlers, msg, cam, call, owned>> /\ pc[c] = "send"
  BY DEF Send, muxerVars, camVars
<1>2. HandlerAlive' => HandlerAlive
  BY GoneStays
<1>3. PICK x \in Message :
           /\ x = [id |-> Sends(call[c].do), mux |-> call[c].mux,
                   from |-> IF Sync(call[c].do) THEN c ELSE NoClient]
           /\ msg_queue' = Append(msg_queue, x)
           /\ \/ pc' = [pc EXCEPT ![c] = "wait"]
              \/ pc' = [pc EXCEPT ![c] = "done"]
  BY SendEffect
<1>4. (\A d \in Clients : d # c => pc'[d] = pc[d]) /\ pc'[c] \in {"wait", "done"}
  BY <1>0, <1>3
<1>5. /\ \A i \in DOMAIN msg_queue' :
           \/ i \in DOMAIN msg_queue /\ msg_queue'[i] = msg_queue[i]
           \/ msg_queue'[i] = x
      /\ \A i \in DOMAIN msg_queue : i \in DOMAIN msg_queue' /\ msg_queue'[i] = msg_queue[i]
      /\ \E i \in DOMAIN msg_queue' : msg_queue'[i] = x
  <2>1. Len(msg_queue) + 1 \in DOMAIN msg_queue' /\ msg_queue'[Len(msg_queue) + 1] = x
    BY <1>0, <1>3
  <2> QED BY <1>0, <1>3, <2>1
<1>6. \A m : (Taken(m)' <=> Taken(m)) /\ (There(m) => There(m)')
  BY <1>1, <1>5 DEF Taken, There, Queued, IsAttach
<1>7. \A d, m, do : Doing(d, do, m)' <=> Doing(d, do, m)
  BY <1>1 DEF Doing
<1>8. \A m \in Muxers : Doing(c, "attach", m) => There(m)'
  <2> SUFFICES ASSUME NEW m \in Muxers, Doing(c, "attach", m) PROVE There(m)'
    OBVIOUS
  <2>1. call[c].do = "attach" /\ call[c].mux = m
    BY DoingCall
  <2>2. IsAttach(x, m)
    BY <1>3, <2>1 DEF IsAttach, Sends, StopsRec, StopsCache
  <2> QED BY <1>5, <2>2 DEF There, Queued, IsAttach
<1>9. x.id = "DETACH_USER_MUXER" => x.mux \in handlers \/ Taken(x.mux)
  <2> SUFFICES ASSUME x.id = "DETACH_USER_MUXER" PROVE x.mux \in handlers \/ Taken(x.mux)
    OBVIOUS
  <2>1. call[c] \in Call \cup Part /\ call[c].do # "then_deinit"
    BY <1>1 DEF TypeInv, Sendable
  <2>2. call[c].do = "detach"
    <3>1. call[c].do \in {"startrec", "stoprec", "start_cache", "stop_cache", "switch",
                         "savefile", "stop_savecache", "deletevideo", "api_video_deinit",
                         "attach", "detach", "then_stoprec"}
      BY <2>1 DEF Call, Part
    <3>2. Sends(call[c].do) = "DETACH_USER_MUXER"
      BY <1>3
    <3> QED BY <3>1, <3>2 DEF Sends, StopsRec, StopsCache
  <2> QED BY <1>1, <1>3, <2>2, DoingCall DEF Attached
<1>10. Attached'
  BY <1>1, <1>2, <1>4, <1>6, <1>7, <1>8 DEF Attached
<1>11. DetachAttached'
  BY <1>1, <1>5, <1>6, <1>9 DEF DetachAttached
<1> QED BY <1>10, <1>11

\* As long as no attach fails and none is taken back, a muxer that is owned is
\* attached, or about to be, and what is to be detached is there.
LEMMA NextAttach ==
  ASSUME TypeInv, AnswerInv, DetachInv, AttachInv, [Next]_vars
  PROVE  AttachInv'
<1> SUFFICES ASSUME ~takenBack', ~badAttach' PROVE Attached' /\ DetachAttached'
  BY DEF AttachInv
<1>1. /\ Owners /\ Senders /\ OnePlace
      /\ Attached /\ DetachAttached
  BY HistoryStays DEF DetachInv, AttachInv
<1>2. CASE Camera
  BY <1>1, <1>2, CameraCases, CameraAttached, MuxerAttached, PopAttached
<1>3. CASE Video
  BY <1>1, <1>3, CameraAttached, PopAttached DEF Video
<1>4. ASSUME NEW c \in Clients, Client(c) PROVE Attached' /\ DetachAttached'
  BY <1>1, <1>4, ClientAttached, CallAttached, CancelAttached, SendAttached DEF Client, GoOn
<1> QED BY <1>1, <1>2, <1>3, <1>4, CameraAttached DEF Next

\* The references that are counted: those of the file muxer, of the cache, and
\* of the muxers attached with an encoder.
FileRef == IF camerafile = "none" THEN 0 ELSE 1
CacheRef == IF cameracache = "none" THEN 0 ELSE 1
Counted == /\ h264_ref = FileRef + CacheRef + Cardinality(Users)
           /\ \A m \in Muxers : m \in handlers => muxEnc[m] # "stale"

LEMMA CountedHolders ==
  /\ Counted <=> h264_ref = Holders /\ \A m \in Muxers : m \in handlers => muxEnc[m] # "stale"
  /\ Counted' <=> /\ h264_ref' = Holders'
                  /\ \A m \in Muxers : m \in handlers' => muxEnc'[m] # "stale"
  BY DEF Counted, Holders, Users, FileRef, CacheRef

LEMMA InitCount == Init => CountInv
<1> SUFFICES ASSUME Init PROVE CountInv
  OBVIOUS
<1>1. /\ handlers = {} /\ h264_ref = 0 /\ camerafile = "none" /\ cameracache = "none"
  BY Zenon DEF Init
<1>2. Users = {} /\ IsFiniteSet(handlers)
  BY <1>1, FS_EmptySet DEF Users
<1>3. Counted
  BY <1>1, <1>2, FS_EmptySet DEF Counted, FileRef, CacheRef
<1> QED BY <1>2, <1>3, CountedHolders DEF CountInv

LEMMA UsersFinite ==
  ASSUME IsFiniteSet(handlers)
  PROVE  IsFiniteSet(Users) /\ Cardinality(Users) \in Nat
<1>1. Users \in SUBSET handlers
  BY DEF Users
<1> QED BY <1>1, FS_Subset, FS_CardinalityType

\* Whoever gives a reference back: with the last one no muxer uses the encoder
\* whose pointer then dangles.
LEMMA UnrefCounted ==
  ASSUME TypeInv, Counted, IsFiniteSet(handlers), Unref, muxEnc' = EncAfterUnref,
         \A m \in Muxers : m \in handlers' => m \in handlers,
         Users \ (handlers \ handlers') = {m \in Muxers : muxEnc[m] = "current" /\ m \in handlers'},
         h264_ref - 1 = FileRef' + CacheRef'
                          + Cardinality({m \in Muxers : muxEnc[m] = "current" /\ m \in handlers'})
  PROVE  Counted'
<1> DEFINE U == {m \in Muxers : muxEnc[m] = "current" /\ m \in handlers'}
<1>0. /\ h264_ref \in Nat /\ muxEnc \in [Muxers -> {"none", "current", "stale"}]
      /\ FileRef' \in {0, 1} /\ CacheRef' \in {0, 1}
  BY DEF TypeInv, TypeOK, MuxerType, FileRef, CacheRef
<1>1. IsFiniteSet(U) /\ Cardinality(U) \in Nat
  <2>1. U \in SUBSET handlers
    OBVIOUS
  <2> QED BY <2>1, FS_Subset, FS_CardinalityType
<1>2. h264_ref # 0 /\ h264_ref' = h264_ref - 1
  <2>1. h264_ref - 1 = FileRef' + CacheRef' + Cardinality(U)
    OBVIOUS
  <2>2. h264_ref # 0
    BY <1>0, <1>1, <2>1
  <2> QED BY <2>2 DEF Unref
<1>3. CASE h264_ref # 1
  <2>1. muxEnc' = muxEnc
    BY <1>3 DEF EncAfterUnref
  <2>2. Users' = U
    BY <2>1 DEF Users
  <2> QED BY <1>2, <2>1, <2>2 DEF Counted
<1>4. CASE h264_ref = 1
  <2>1. Cardinality(U) = 0
    <3>1. 0 = FileRef' + CacheRef' + Cardinality(U)
      BY <1>4
    <3> QED BY <1>0, <1>1, <3>1
  <2>2. U = {}
    BY <1>1, <2>1, FS_EmptySet
  <2>3. muxEnc' = Dangling
    BY <1>4 DEF EncAfterUnref
  <2>4. \A m \in Muxers : m \in handlers' => muxEnc[m] = "none" /\ muxEnc'[m] = "none"
    BY <1>0, <2>2, <2>3 DEF Counted, Dangling
  <2>5. Users' = {}
    BY <2>4 DEF Users
  <2>6. Cardinality(Users') = Cardinality(U)
    BY <2>2, <2>5
  <2>7. h264_ref' = FileRef' + CacheRef' + Cardinality(Users')
    BY <1>2, <2>6
  <2> QED BY <2>4, <2>7 DEF Counted
<1> QED BY <1>3, <1>4

LEMMA HandleCounted ==
  ASSUME TypeInv, OnePlace, DetachAttached, Counted, IsFiniteSet(handlers), Handle,
         ~badAttach'
  PROVE  Counted'
<1>0. /\ h264_ref \in Nat /\ muxEnc \in [Muxers -> {"none", "current", "stale"}]
      /\ FileRef \in {0, 1} /\ CacheRef \in {0, 1}
      /\ IsFiniteSet(Users) /\ Cardinality(Users) \in Nat
      /\ "file" \notin Muxers
  BY UsersFinite, ConstantsAssumption
     DEF TypeInv, TypeOK, MuxerType, FileRef, CacheRef, ConstantsAssumption
<1>1. ASSUME UNCHANGED <<camerafile, cameracache, h264_ref, muxEnc>>,
             \A m \in Muxers : m \in handlers' <=> m \in handlers
      PROVE  Counted'
  <2>1. Users' = Users
    BY <1>1 DEF Users
  <2> QED BY <1>1, <2>1 DEF Counted, FileRef, CacheRef
<1>2. CASE StartTwice \/ DetachNoEncoder
  <2>1. UNCHANGED muxerVars
    BY <1>2, Zenon DEF StartTwice, DetachNoEncoder
  <2> QED BY <1>1, <2>1 DEF muxerVars
<1>3. CASE HandleStartFile
  <2>1. \/ UNCHANGED <<camerafile, cameracache, h264_ref, muxEnc, handlers>>
        \/ /\ camerafile = "none" /\ camerafile' = "running" /\ h264_ref' = h264_ref + 1
           /\ UNCHANGED <<muxEnc, cameracache>> /\ handlers' = handlers \cup {"file"}
    BY <1>3, Zenon DEF HandleStartFile
  <2>2. CASE UNCHANGED <<camerafile, cameracache, h264_ref, muxEnc, handlers>>
    BY <1>1, <2>2
  <2>3. CASE /\ camerafile = "none" /\ camerafile' = "running" /\ h264_ref' = h264_ref + 1
             /\ UNCHANGED <<muxEnc, cameracache>> /\ handlers' = handlers \cup {"file"}
    <3>1. Users' = Users
      BY <1>0, <2>3 DEF Users
    <3>2. FileRef' = FileRef + 1 /\ CacheRef' = CacheRef
      BY <2>3 DEF FileRef, CacheRef
    <3>3. h264_ref' = FileRef' + CacheRef' + Cardinality(Users')
      BY <1>0, <2>3, <3>1, <3>2 DEF Counted
    <3> QED BY <1>0, <2>3, <3>3 DEF Counted
  <2> QED BY <2>1, <2>2, <2>3
<1>4. CASE HandleStopFile
  <2>1. FreeFile /\ cameracache' = cameracache
    BY <1>4, Zenon DEF HandleStopFile
  <2>2. CASE camerafile = "none"
    BY <1>1, <2>1, <2>2 DEF FreeFile
  <2>3. CASE camerafile # "none"
    <3>1. camerafile' = "none" /\ handlers' = handlers \ {"file"} /\ Unref
          /\ muxEnc' = EncAfterUnref
      BY <2>1, <2>3, Zenon DEF FreeFile
    <3>2. {m \in Muxers : muxEnc[m] = "current" /\ m \in handlers'} = Users
      BY <1>0, <3>1 DEF Users
    <3>3. Users \ (handlers \ handlers') = Users
      BY <1>0, <3>1 DEF Users
    <3>4. FileRef' = FileRef - 1 /\ CacheRef' = CacheRef
      BY <2>1, <2>3, <3>1 DEF FileRef, CacheRef
    <3>5. h264_ref - 1 = FileRef' + CacheRef' + Cardinality(Users)
      BY <1>0, <3>4 DEF Counted
    <3> QED BY <3>1, <3>2, <3>3, <3>5, UnrefCounted
  <2> QED BY <2>2, <2>3
<1>5. CASE HandleSwitchFile
  <2>1. /\ UNCHANGED <<cameracache, h264_ref, muxEnc>>
        /\ handlers' \in {handlers, handlers \cup {"file"}, handlers \ {"file"}}
        /\ camerafile' = camerafile \/ (camerafile # "none" /\ camerafile' = "idle")
    BY <1>5, Zenon DEF HandleSwitchFile, RestartJob
  <2>2. Users' = Users /\ FileRef' = FileRef /\ CacheRef' = CacheRef
    BY <1>0, <2>1 DEF Users, FileRef, CacheRef
  <2> QED BY <1>0, <2>1, <2>2 DEF Counted
<1>6. CASE HandleStartCache
  <2>1. \/ UNCHANGED <<camerafile, cameracache, h264_ref, muxEnc, handlers>>
        \/ /\ cameracache = "none" /\ cameracache' = "caching" /\ h264_ref' = h264_ref + 1
           /\ UNCHANGED <<muxEnc, camerafile, handlers>>
    BY <1>6, Zenon DEF HandleStartCache
  <2>2. CASE UNCHANGED <<camerafile, cameracache, h264_ref, muxEnc, handlers>>
    BY <1>1, <2>2
  <2>3. CASE /\ cameracache = "none" /\ cameracache' = "caching" /\ h264_ref' = h264_ref + 1
             /\ UNCHANGED <<muxEnc, camerafile, handlers>>
    <3>1. Users' = Users
      BY <2>3 DEF Users
    <3>2. FileRef' = FileRef /\ CacheRef' = CacheRef + 1
      BY <2>3 DEF FileRef, CacheRef
    <3>3. h264_ref' = FileRef' + CacheRef' + Cardinality(Users')
      BY <1>0, <2>3, <3>1, <3>2 DEF Counted
    <3> QED BY <2>3, <3>3 DEF Counted
  <2> QED BY <2>1, <2>2, <2>3
<1>7. CASE HandleStopCache
  <2>1. /\ UNCHANGED <<camerafile, handlers>> /\ cameracache' = "none"
        /\ IF cameracache = "none" THEN UNCHANGED <<h264_ref, muxEnc>>
                                   ELSE Unref /\ muxEnc' = EncAfterUnref
    BY <1>7, Zenon DEF HandleStopCache
  <2>2. CASE cameracache = "none"
    BY <1>1, <2>1, <2>2
  <2>3. CASE cameracache # "none"
    <3>1. {m \in Muxers : muxEnc[m] = "current" /\ m \in handlers'} = Users
      BY <2>1 DEF Users
    <3>2. Users \ (handlers \ handlers') = Users
      BY <2>1
    <3>3. FileRef' = FileRef /\ CacheRef' = CacheRef - 1
      BY <2>1, <2>3 DEF FileRef, CacheRef
    <3>4. h264_ref - 1 = FileRef' + CacheRef' + Cardinality(Users)
      BY <1>0, <3>3 DEF Counted
    <3> QED BY <2>1, <2>3, <3>1, <3>2, <3>4, UnrefCounted
  <2> QED BY <2>2, <2>3
<1>8. CASE HandleSaveCache \/ HandleStopSaveCache
  <2>1. /\ UNCHANGED <<camerafile, handlers, h264_ref, muxEnc>>
        /\ \/ cameracache' = cameracache
           \/ cameracache # "none" /\ cameracache' \in {"storing", "caching"}
    BY <1>8 DEF HandleSaveCache, HandleStopSaveCache
  <2>2. Users' = Users /\ FileRef' = FileRef /\ CacheRef' = CacheRef
    BY <2>1 DEF Users, FileRef, CacheRef
  <2> QED BY <2>1, <2>2 DEF Counted
<1>9. CASE HandleAttach
  <2>1. /\ UNCHANGED <<camerafile, cameracache>> /\ handlers' = handlers \cup {msg.mux}
        /\ \/ h264_ref' = h264_ref + 1 /\ muxEnc' = [muxEnc EXCEPT ![msg.mux] = "current"]
           \/ h264_ref' = h264_ref /\ muxEnc' = [muxEnc EXCEPT ![msg.mux] = "none"]
    BY <1>9, Zenon DEF HandleAttach
  <2>2. msg.mux \in Muxers /\ msg.mux \notin handlers
    <3>1. msg.id = "ATTACH_USER_MUXER"
      BY <1>9 DEF HandleAttach
    <3>2. msg.mux \in Muxers
      BY <3>1, MessageMuxer DEF MuxerIds
    <3> QED BY <3>1, <3>2 DEF OnePlace, Taken, IsAttach
  <2>3. FileRef' = FileRef /\ CacheRef' = CacheRef
    BY <2>1 DEF FileRef, CacheRef
  <2>4. CASE h264_ref' = h264_ref + 1 /\ muxEnc' = [muxEnc EXCEPT ![msg.mux] = "current"]
    <3>1. Users' = Users \cup {msg.mux} /\ msg.mux \notin Users
      BY <1>0, <2>1, <2>2, <2>4 DEF Users
    <3>2. Cardinality(Users') = Cardinality(Users) + 1
      BY <1>0, <3>1, FS_AddElement
    <3>3. h264_ref' = FileRef' + CacheRef' + Cardinality(Users')
      BY <1>0, <2>3, <2>4, <3>2 DEF Counted
    <3>4. \A m \in Muxers : m \in handlers' => muxEnc'[m] # "stale"
      BY <1>0, <2>1, <2>2, <2>4 DEF Counted
    <3> QED BY <3>3, <3>4 DEF Counted
  <2>5. CASE h264_ref' = h264_ref /\ muxEnc' = [muxEnc EXCEPT ![msg.mux] = "none"]
    <3>1. Users' = Users
      BY <1>0, <2>1, <2>2, <2>5 DEF Users
    <3>2. \A m \in Muxers : m \in handlers' => muxEnc'[m] # "stale"
      BY <1>0, <2>1, <2>2, <2>5 DEF Counted
    <3> QED BY <2>3, <2>5, <3>1, <3>2 DEF Counted
  <2> QED BY <2>1, <2>4, <2>5
<1>10. CASE HandleDetach
  <2>1. cam = "handle" /\ msg.id = "DETACH_USER_MUXER" /\ muxEnc[msg.mux] # "none"
        /\ UNCHANGED <<camerafile, cameracache>> /\ handlers' = handlers \ {msg.mux}
    BY <1>10, Zenon DEF HandleDetach
  <2>2. msg.mux \in Muxers /\ msg.mux \in handlers /\ muxEnc[msg.mux] = "current"
    <3>1. msg.mux \in Muxers
      BY <2>1, MessageMuxer DEF MuxerIds
    <3> QED BY <1>0, <2>1, <3>1 DEF DetachAttached, Counted
  <2>3. msg.mux \in Users
    BY <2>2 DEF Users
  <2>4. {m \in Muxers : muxEnc[m] = "current" /\ m \in handlers'} = Users \ {msg.mux}
    BY <2>1 DEF Users
  <2>5. Cardinality(Users \ {msg.mux}) = Cardinality(Users) - 1
    BY <1>0, <2>3, FS_RemoveElement
  <2>6. Cardinality(Users) # 0
    BY <1>0, <2>3, FS_EmptySet
  <2>7. FileRef' = FileRef /\ CacheRef' = CacheRef
    BY <2>1 DEF FileRef, CacheRef
  <2>8. h264_ref # 0 /\ h264_ref - 1 = FileRef' + CacheRef' + Cardinality(Users \ {msg.mux})
    BY <1>0, <2>5, <2>6, <2>7 DEF Counted
  <2>9. Unref /\ muxEnc' = EncAfterUnref
    BY <1>10, <2>2, <2>8 DEF HandleDetach
  <2>10. Users \ (handlers \ handlers') = Users \ {msg.mux}
    BY <2>1, <2>2
  <2> QED BY <2>1, <2>4, <2>8, <2>9, <2>10, UnrefCounted
<1> QED BY <1>2, <1>3, <1>4, <1>5, <1>6, <1>7, <1>8, <1>9, <1>10 DEF Handle

LEMMA NextCount ==
  ASSUME TypeInv, DetachInv, AttachInv, CountInv, [Next]_vars
  PROVE  CountInv'
<1>0. "file" \notin Muxers
  BY ConstantsAssumption DEF ConstantsAssumption
<1>1. IsFiniteSet(handlers')
  <2>1. IsFiniteSet(handlers)
    BY DEF CountInv
  <2>2. \E x : handlers' \in {handlers, handlers \cup {x}, handlers \ {x}}
    <3>1. CASE Handle
      BY <3>1, Zenon DEF Handle, StartTwice, HandleStartFile, HandleStopFile, FreeFile,
         HandleSwitchFile, RestartJob, HandleStartCache, HandleStopCache, HandleSaveCache,
         HandleStopSaveCache, HandleAttach, HandleDetach, DetachNoEncoder, muxerVars
    <3>2. CASE EncodeFrame \/ RestartFile
      BY <3>2, FrameHandlers DEF Frame
    <3>3. CASE ~Handle /\ ~EncodeFrame /\ ~RestartFile
      BY <3>3, OthersKeepMuxers DEF muxerVars
    <3> QED BY <3>1, <3>2, <3>3
  <2> QED BY <2>1, <2>2, FS_AddElement, FS_RemoveElement
<1>2. ASSUME ~takenBack', ~badAttach' PROVE Counted'
  <2>1. ~takenBack /\ ~badAttach
    BY <1>2, HistoryStays
  <2>2. OnePlace /\ DetachAttached /\ Counted /\ IsFiniteSet(handlers)
    BY <2>1, CountedHolders DEF DetachInv, AttachInv, CountInv
  <2>3. ASSUME UNCHANGED <<h264_ref, muxEnc>>, FileRef' = FileRef, CacheRef' = CacheRef,
               \A m \in Muxers : m \in handlers' <=> m \in handlers
        PROVE  Counted'
    <3>1. Users' = Users
      BY <2>3 DEF Users
    <3> QED BY <2>2, <2>3, <3>1 DEF Counted
  <2>4. CASE Handle
    BY <1>2, <2>2, <2>4, HandleCounted
  <2>5. CASE EncodeFrame
    <3>1. /\ UNCHANGED <<h264_ref, muxEnc, camerafile, handlers>>
          /\ cameracache' = cameracache \/ (cameracache = "storing" /\ cameracache' = "caching")
      BY <2>5, Zenon DEF EncodeFrame
    <3> QED BY <2>3, <3>1 DEF FileRef, CacheRef
  <2>6. CASE RestartFile
    <3>1. /\ UNCHANGED <<h264_ref, muxEnc, cameracache>> /\ camerafile # "none"
          /\ camerafile' = camerafile \/ camerafile' = "idle"
          /\ handlers' \in {handlers \cup {"file"}, handlers \ {"file"}}
      BY <2>6, Zenon DEF RestartFile, RestartJob
    <3> QED BY <1>0, <2>3, <3>1 DEF FileRef, CacheRef
  <2>7. CASE ~Handle /\ ~EncodeFrame /\ ~RestartFile
    <3>1. UNCHANGED <<h264_ref, muxEnc, cameracache, camerafile, handlers>>
      BY <2>7, OthersKeepMuxers DEF muxerVars
    <3> QED BY <2>3, <3>1 DEF FileRef, CacheRef
  <2> QED BY <2>4, <2>5, <2>6, <2>7
<1> QED BY <1>1, <1>2, CountedHolders DEF CountInv

\* The encoder's reference count is the number of those that use it, however
\* many clients start, stop, attach and detach at once, and whatever fails
\* (EncodeHandler::h264_encoder_ref and unref): as long as no attached muxer's
\* job failed to start and no detach took another muxer's attach back.
THEOREM RefcountCorrect == Spec => []RefcountExact
<1> DEFINE I == TypeInv /\ AnswerInv /\ DetachInv /\ AttachInv /\ CountInv
<1>1. Init => I
  BY InitType, InitAnswer, InitDetach, InitCount
<1>2. I /\ [Next]_vars => I'
  BY NextType, NextAnswer, NextDetach, NextAttach, NextCount
<1>3. I => RefcountExact
  BY DEF CountInv, RefcountExact
<1> HIDE DEF I
<1> QED BY <1>1, <1>2, <1>3, PTL DEF Spec

\* When video_record_detach_user_muxer has sent and been answered, or found its
\* own attach still queued, the dispatcher no longer has the muxer, which the
\* caller then deletes: whatever other clients attach and detach meanwhile, as
\* long as no detach took another muxer's attach back.
THEOREM DetachCorrect == Spec => []DetachComplete
<1> DEFINE I == TypeInv /\ AnswerInv /\ DetachInv
<1>1. Init => I
  BY InitType, InitAnswer, InitDetach
<1>2. I /\ [Next]_vars => I'
  BY NextType, NextAnswer, NextDetach
<1>3. I => DetachComplete
  <2> SUFFICES ASSUME I, NEW c \in Clients, pc[c] \in {"done", "flags"},
                      call[c].do = "detach", ~takenBack
               PROVE  call[c].mux \notin handlers
    BY DEF DetachComplete
  <2>1. call[c].mux \in Muxers /\ Doing(c, "detach", call[c].mux)
    BY DoingCall
  <2>2. pc[c] = "done"
    BY <2>1 DEF DetachInv, Owners
  <2> QED BY <2>1, <2>2 DEF DetachInv, Detached, There
<1> HIDE DEF I
<1> QED BY <1>1, <1>2, <1>3, PTL DEF Spec

-----------------------------------------------------------------------------
(* The flags of encode_status.  A client that makes all the calls which set *)
(* or clear them finds a flag set while its muxer exists or is about to,    *)
(* and a stop leaves nothing of what it stopped.  Two such clients would    *)
(* not: both may find a flag clear, and send their starts.                  *)

OneRecorder == \E r \in Clients : \A c \in Clients \ {r} : \A x \in Calls[c] : ~ChangesFlag(x.do)

Kinds == {"RECORDING", "CACHE"}
StartId(k) == IF k = "RECORDING" THEN "START_RECODEFILE" ELSE "START_CACHE"
StopId(k) == IF k = "RECORDING" THEN "STOP_RECODEFILE" ELSE "STOP_CACHE"
Muxer(k) == IF k = "RECORDING" THEN camerafile ELSE cameracache
Exists(k) == Muxer(k) # "none"
Starts(k) == {i \in DOMAIN msg_queue : msg_queue[i].id = StartId(k)}
Pending(k) == Starts(k) # {}
InHand(k) == msg.id = StartId(k)
Coming(k) == Exists(k) \/ Pending(k) \/ InHand(k)

\* The camera runs, and h264_encode_process has not failed.
Running == pthread_run /\ ret = 0
RetFlag == ret # 0 => cam \in {"leave", "signal"}

\* Past Empty() the camera thread keeps the handler; a deleted handler has
\* neither messages nor, unless its destructor found them, muxers.
Within == {"pop", "handle", "notify", "frame", "tail"}
Flagged == cam \in Within => mp4_encoding
FoundOpen == fault = "not closed"
Deleted ==
  ~HandlerAlive => /\ cam \notin Within /\ msg_queue = <<>>
                   /\ FoundOpen \/ \A k \in Kinds : ~Exists(k)
AliveInv == StoppedForGood /\ RetFlag /\ Flagged /\ Deleted

\* There is at most one start, or a muxer and no start.
OneStart(k) ==
  /\ \A i, j \in Starts(k) : i = j
  /\ InHand(k) => ~Pending(k)
  /\ Exists(k) => ~InHand(k) /\ ~Pending(k)
\* The flag is sound at every moment, and complete while the camera runs.
FlagSays(k) == /\ k \notin flags => ~Coming(k)
               /\ Running /\ k \in flags => Coming(k)
\* Where the recorder r is, as far as k is concerned.
Heard(r) == answered[r] \/ (cam = "notify" /\ msg.from = r)
Settled(r, k) == ~About(r, k) \/ pc[r] \in {"idle", "next", "return", "joining"}
Starting(r, k) ==
  k \in SetsFlag(call[r].do) =>
    /\ pc[r] \notin {"cancel", "wait"}
    /\ pc[r] = "send" => ~Coming(k)
    /\ pc[r] \in {"done", "flags"} /\ Running => Coming(k)
Stopping(r, k) ==
  k \in ClearsFlag(call[r].do) =>
    /\ pc[r] \in {"send", "wait"} => ~Pending(k)
    /\ pc[r] = "wait" /\ Heard(r) => ~Coming(k)
    /\ pc[r] \in {"done", "flags"} => ~Coming(k)
KindInv(r, k) ==
  OneStart(k) /\ (Settled(r, k) => FlagSays(k)) /\ Starting(r, k) /\ Stopping(r, k)

\* The other clients leave the flags alone; r's copy of them is up to date.
Alone(r) == /\ \A c \in Clients \ {r} : ~ChangesFlag(call[c].do) /\ pc[c] # "flags"
            /\ pc[r] = "flags" => seen[r] = flags
RecorderInv(r) == Alone(r) /\ \A k \in Kinds : KindInv(r, k)

LEMMA InitRecorder ==
  ASSUME Init, NEW r \in Clients
  PROVE  AliveInv /\ RecorderInv(r)
<1>1. /\ msg_queue = <<>> /\ msg = NoMessage /\ cam = "out" /\ vt = "run" /\ ret = 0
      /\ camerafile = "none" /\ cameracache = "none" /\ flags = {}
      /\ call = [c \in Clients |-> NoCall] /\ pc = [c \in Clients |-> "idle"]
  BY Zenon DEF Init
<1>2. AliveInv
  BY <1>1 DEF AliveInv, StoppedForGood, RetFlag, Flagged, Within, Deleted, HandlerAlive
<1>3. \A c \in Clients : SetsFlag(call[c].do) = {} /\ ClearsFlag(call[c].do) = {}
  BY <1>1 DEF SetsFlag, ClearsFlag, StopsRec, StopsCache, NoCall
<1>4. Alone(r)
  BY <1>1, <1>3 DEF Alone, ChangesFlag
<1>5. ASSUME NEW k \in Kinds PROVE KindInv(r, k)
  <2>1. ~Coming(k) /\ Starts(k) = {}
    BY <1>1 DEF Coming, Exists, Muxer, Pending, Starts, InHand, StartId, NoMessage
  <2>2. OneStart(k)
    BY <2>1 DEF OneStart, Coming
  <2> QED BY <1>1, <1>3, <2>1, <2>2 DEF KindInv, FlagSays, Starting, Stopping
<1> QED BY <1>2, <1>4, <1>5 DEF RecorderInv

-----------------------------------------------------------------------------
\* What a call about k sends and cancels; no other call touches the starts of k.
LEMMA KindCalls ==
  ASSUME NEW k \in Kinds, NEW do
  PROVE  /\ k \in SetsFlag(do) => Sends(do) = StartId(k) /\ ~Sync(do) /\ k \notin ClearsFlag(do)
         /\ k \in ClearsFlag(do) => Cancels(do) = StartId(k) /\ Sync(do) /\ Sends(do) = StopId(k)
         /\ k \notin ClearsFlag(do) => Cancels(do) # StartId(k)
<1> USE DEF Kinds, SetsFlag, ClearsFlag, Cancels, Sync, StartId, StopId, StopsRec, StopsCache
<1>1. k \in SetsFlag(do) => ~Sync(do) /\ k \notin ClearsFlag(do)
  OBVIOUS
<1>2. k \in ClearsFlag(do) => Cancels(do) = StartId(k) /\ Sync(do)
  OBVIOUS
<1>3. k \notin ClearsFlag(do) => Cancels(do) # StartId(k)
  OBVIOUS
<1>4. /\ k \in SetsFlag(do) => Sends(do) = StartId(k)
      /\ k \in ClearsFlag(do) => Sends(do) = StopId(k)
  BY DEF Sends
<1> QED BY <1>1, <1>2, <1>3, <1>4

LEMMA SendsKind ==
  ASSUME NEW k \in Kinds, NEW x \in Call \cup Part, x.do # "then_deinit"
  PROVE  /\ k \notin SetsFlag(x.do) => Sends(x.do) # StartId(k)
         /\ Sends(x.do) = StopId(k) <=> k \in ClearsFlag(x.do)
<1>1. x.do \in {"startrec", "stoprec", "start_cache", "stop_cache", "switch",
               "savefile", "stop_savecache", "deletevideo", "api_video_deinit",
               "attach", "detach", "then_stoprec"}
  BY DEF Call, Part
<1> QED BY <1>1 DEF Kinds, SetsFlag, ClearsFlag, Sends, StartId, StopId, StopsRec, StopsCache

\* A step of the camera thread that handles no message keeps the muxers there are.
LEMMA FrameKinds ==
  ASSUME TypeInv, Frame, NEW k \in Kinds
  PROVE  Exists(k)' <=> Exists(k)
<1> USE DEF Exists, Muxer
<1>1. CASE EncodeFrame
  BY <1>1 DEF EncodeFrame
<1>2. CASE RestartFile
  BY <1>2 DEF RestartFile, RestartJob
<1>3. CASE CamPeek \/ CamConfigure \/ CamEnter \/ CamCheck \/ CamEmpty
  <2>1. UNCHANGED muxerVars
    BY <1>3, Zenon DEF CamPeek, CamConfigure, CamEnter, CamCheck, CamEmpty
  <2> QED BY <2>1 DEF muxerVars
<1>4. CASE CamEmptyDeleted \/ SkipFrame \/ RestartNoEncoder \/ KeepFile \/ CamLeave
           \/ CamSignal
  <2>1. UNCHANGED muxerVars
    BY <1>4, Zenon DEF CamEmptyDeleted, SkipFrame, RestartNoEncoder, KeepFile, CamLeave,
       CamSignal
  <2> QED BY <2>1 DEF muxerVars
<1> QED BY <1>1, <1>2, <1>3, <1>4 DEF Frame

\* Handling a message: not about k, the start of k, or the stop of k.
LEMMA HandleKinds ==
  ASSUME TypeInv, Handle, NEW k \in Kinds
  PROVE  \/ (Exists(k)' <=> Exists(k)) /\ (msg' = msg \/ msg.id # StartId(k))
            /\ (cam' # "notify" \/ msg.id # StopId(k))
         \/ msg.id = StartId(k) /\ ~Exists(k) /\ (Exists(k)' \/ ret' = -1)
            /\ msg' = NoMessage /\ cam' # "notify"
         \/ msg.id = StopId(k) /\ ~Exists(k)' /\ msg' = msg
<1> USE DEF Kinds, Exists, Muxer, StartId, StopId, Handled, Failed, ThenNotify
<1>1. CASE StartTwice \/ DetachNoEncoder
  <2>1. UNCHANGED <<muxerVars, camVars>> /\ cam = "handle"
    BY <1>1, Zenon DEF StartTwice, DetachNoEncoder
  <2> QED BY <2>1 DEF muxerVars, camVars
<1>2. CASE HandleStartFile
  BY <1>2 DEF HandleStartFile
<1>3. CASE HandleStopFile
  BY <1>3 DEF HandleStopFile, FreeFile
<1>4. CASE HandleSwitchFile
  BY <1>4 DEF HandleSwitchFile, RestartJob
<1>5. CASE HandleStartCache
  BY <1>5 DEF HandleStartCache
<1>6. CASE HandleStopCache
  BY <1>6 DEF HandleStopCache
<1>7. CASE HandleSaveCache
  <2>1. /\ camerafile' = camerafile /\ msg.id = "START_SAVE_CACHE" /\ cam' # "notify"
        /\ \/ cameracache' = cameracache
           \/ cameracache # "none" /\ cameracache' = "storing"
    <3>1. /\ camerafile' = camerafile /\ msg.id = "START_SAVE_CACHE" /\ cam' \in {cam, "frame"}
          /\ \/ cameracache' = cameracache
             \/ cameracache # "none" /\ cameracache' = "storing"
      BY <1>7, Zenon DEF HandleSaveCache
    <3> QED BY <3>1, HandleStep
  <2> QED BY <2>1
<1>8. CASE HandleStopSaveCache
  BY <1>8 DEF HandleStopSaveCache
<1>9. CASE HandleAttach
  <2>1. UNCHANGED <<camerafile, cameracache>> /\ msg.id = "ATTACH_USER_MUXER" /\ cam' = "frame"
    BY <1>9, Zenon DEF HandleAttach
  <2> QED BY <2>1
<1>10. CASE HandleDetach
  <2>1. UNCHANGED <<camerafile, cameracache>> /\ msg.id = "DETACH_USER_MUXER"
    BY <1>10, Zenon DEF HandleDetach
  <2> QED BY <2>1
<1> QED BY <1>1, <1>2, <1>3, <1>4, <1>5, <1>6, <1>7, <1>8, <1>9, <1>10
        DEF Handle
\* What starts there are, and whether a muxer exists, as seen from the steps
\* that are not the recorder's: they may end what is coming only when the
\* recorder waits for that, or the camera does not run any more.
LEMMA OthersKeepKind ==
  ASSUME NEW r \in Clients, NEW k \in Kinds, KindInv(r, k),
         pc'[r] = pc[r], call'[r] = call[r], flags' = flags,
         Running' => Running, OneStart(k)',
         Coming(k)' => Coming(k), Pending(k)' => Pending(k),
         Running' /\ Coming(k) =>
           Coming(k)' \/ (pc[r] = "wait" /\ k \in ClearsFlag(call[r].do)),
         pc[r] = "wait" /\ k \in ClearsFlag(call[r].do) /\ Heard(r)' =>
           Heard(r) \/ ~Coming(k)'
  PROVE  KindInv(r, k)'
<1>1. Settled(r, k)' => FlagSays(k)'
  BY DEF KindInv, Settled, About, FlagSays
<1>2. Starting(r, k)'
  <2>1. k \in SetsFlag(call[r].do) => pc[r] # "wait"
    BY DEF KindInv, Starting
  <2> QED BY <2>1 DEF KindInv, Starting
<1>3. Stopping(r, k)'
  BY DEF KindInv, Stopping
<1> QED BY <1>1, <1>2, <1>3 DEF KindInv

\* The camera does not run again.
LEMMA RunningFalls ==
  ASSUME TypeInv, AliveInv, [Next]_vars
  PROVE  (Running' => Running) /\ RetFlag' /\ StoppedForGood'
<1> USE DEF AliveInv, RetFlag, Running, StoppedForGood
<1>0. ret \in {0, -1}
  BY DEF TypeInv, TypeOK, CamType
<1>1. CASE Handle
  <2>1. cam = "handle" /\ UNCHANGED videoVars
    BY <1>1, HandleStep
  <2>2. ret = 0
    BY <2>1
  <2>3. ret' # 0 => cam' = "leave"
    <3>1. CASE StartTwice \/ DetachNoEncoder
      <4>1. UNCHANGED camVars
        BY <3>1, Zenon DEF StartTwice, DetachNoEncoder
      <4> QED BY <2>2, <4>1 DEF camVars
    <3>2. CASE HandleStartFile \/ HandleStopFile \/ HandleSwitchFile \/ HandleStartCache
               \/ HandleStopCache \/ HandleStopSaveCache
      <4>1. ret' = ret \/ cam' = "leave"
        BY <3>2, Zenon DEF HandleStartFile, HandleStopFile, HandleSwitchFile,
           HandleStartCache, HandleStopCache, HandleStopSaveCache, RestartJob, Handled,
           Failed, ThenNotify
      <4> QED BY <2>2, <4>1
    <3>3. CASE HandleSaveCache \/ HandleAttach \/ HandleDetach
      <4>1. ret' = ret
        BY <3>3, Zenon DEF HandleSaveCache, HandleAttach, HandleDetach, Handled, ThenNotify
      <4> QED BY <2>2, <4>1
    <3> QED BY <1>1, <3>1, <3>2, <3>3 DEF Handle
  <2> QED BY <2>1, <2>2, <2>3 DEF videoVars
<1>2. CASE Camera /\ ~Handle
  <2>1. CASE CamPeek \/ CamConfigure \/ CamEmptyDeleted \/ CamPop \/ RestartNoEncoder
    <3>1. UNCHANGED <<videoVars, ret>> /\ cam \notin {"leave", "signal"}
      <4>1. UNCHANGED <<videoVars, ret>>
        BY <2>1, Zenon DEF CamPeek, CamConfigure, CamEmptyDeleted, CamPop,
           RestartNoEncoder, camVars
      <4>2. cam \in {"out", "peek", "empty", "pop", "tail", "handle"}
        BY <2>1, Zenon DEF CamPeek, CamConfigure, CamEmptyDeleted, CamPop, RestartNoEncoder
      <4> QED BY <4>1, <4>2
    <3> QED BY <3>1 DEF videoVars
  <2>2. CASE CamEnter \/ CamCheck \/ CamEmpty \/ Notify \/ SkipFrame \/ EncodeFrame \/ KeepFile
    <3>1. UNCHANGED <<pthread_run, vt>> /\ cam \notin {"leave", "signal"}
      <4>1. UNCHANGED <<pthread_run, vt>>
        BY <2>2, Zenon DEF CamEnter, CamCheck, CamEmpty, Notify, SkipFrame, EncodeFrame,
           KeepFile, videoVars
      <4>2. cam \in {"enter", "check", "empty", "notify", "frame", "tail"}
        BY <2>2, Zenon DEF CamEnter, CamCheck, CamEmpty, Notify, SkipFrame, EncodeFrame,
           KeepFile
      <4> QED BY <4>1, <4>2
    <3>2. ret' \in {ret, 0}
      BY <2>2, Zenon DEF CamEnter, CamCheck, CamEmpty, Notify, SkipFrame, EncodeFrame,
         KeepFile, Ends
    <3> QED BY <3>1, <3>2
  <2>3. CASE RestartFile
    <3>1. cam = "tail" /\ cam' = "leave" /\ UNCHANGED videoVars
      BY <2>3, Zenon DEF RestartFile, RestartJob, Ends, EndsFailed
    <3> QED BY <3>1 DEF videoVars
  <2>4. CASE CamLeave \/ CamSignal
    BY <1>0, <2>4 DEF CamLeave, CamSignal
  <2> QED BY <1>2, <2>1, <2>2, <2>3, <2>4 DEF Camera
<1>3. CASE Video
  <2>1. /\ UNCHANGED <<pthread_run, camVars>>
        /\ \/ vt = "run" /\ ~pthread_run
           \/ vt \in {"leaving", "destroyed"} /\ vt' \in {"destroyed", "gone"}
    BY <1>3, Zenon DEF Video, VideoLeave, VideoDestroy, VideoDelete
  <2> QED BY <2>1 DEF camVars
<1>4. ASSUME NEW c \in Clients, Client(c)
      PROVE  (Running' => Running) /\ RetFlag' /\ StoppedForGood'
  <2>1. UNCHANGED ret
    <3>1. CASE Begin(c) \/ NoFlags(c) \/ ReadFlags(c) \/ WriteFlags(c) \/ Return(c)
               \/ Deinit(c) \/ Joined(c)
      BY <3>1, ClientMoves DEF camVars
    <3>2. CASE Cancel(c) \/ Send(c) \/ UseAfterDelete(c) \/ Answered(c)
      <4>1. UNCHANGED camVars
        BY <3>2, Zenon DEF Cancel, Send, UseAfterDelete, Answered
      <4> QED BY <4>1 DEF camVars
    <3> QED BY <1>4, <3>1, <3>2, Zenon DEF Client, GoOn
  <2> QED BY <1>4, <2>1, ClientStep
<1>5. CASE UNCHANGED vars
  BY <1>5 DEF vars, camVars, videoVars
<1> QED BY <1>1, <1>2, <1>3, <1>4, <1>5 DEF Next


\* The camera thread gets past Empty() with mp4_encoding set and the handler
\* there; the video thread then waits.
LEMMA FrameWithin ==
  ASSUME Flagged, Frame
  PROVE  /\ vt' = vt
         /\ cam' \in Within => mp4_encoding' /\ (cam \in Within \/ HandlerAlive)
<1> USE DEF Flagged, Within
<1>1. CASE CamPeek \/ CamConfigure
  <2>1. UNCHANGED videoVars /\ cam' \in {"peek", "enter", "out"}
    <3>1. UNCHANGED videoVars /\ cam' \in {cam, "peek", "enter", "out"} /\ cam \in {"out", "peek"}
      BY <1>1, Zenon DEF CamPeek, CamConfigure
    <3> QED BY <3>1
  <2> QED BY <2>1 DEF videoVars
<1>2. CASE CamEnter \/ CamCheck
  BY <1>2 DEF CamEnter, CamCheck, videoVars
<1>3. CASE CamEmpty
  BY <1>3 DEF CamEmpty
<1>4. CASE CamEmptyDeleted
  <2>1. UNCHANGED <<videoVars, camVars>> /\ cam = "empty"
    BY <1>4, Zenon DEF CamEmptyDeleted
  <2> QED BY <2>1 DEF videoVars, camVars
<1>5. CASE SkipFrame \/ EncodeFrame \/ KeepFile
  BY <1>5 DEF SkipFrame, EncodeFrame, KeepFile, Ends, videoVars
<1>6. CASE RestartFile
  <2>1. cam = "tail" /\ cam' = "leave" /\ UNCHANGED videoVars
    BY <1>6, Zenon DEF RestartFile, RestartJob, Ends, EndsFailed
  <2> QED BY <2>1 DEF videoVars
<1>7. CASE RestartNoEncoder
  <2>1. UNCHANGED <<videoVars, camVars>>
    BY <1>7, Zenon DEF RestartNoEncoder
  <2> QED BY <2>1 DEF videoVars, camVars
<1>8. CASE CamLeave \/ CamSignal
  BY <1>8 DEF CamLeave, CamSignal
<1> QED BY <1>1, <1>2, <1>3, <1>4, <1>5, <1>6, <1>7, <1>8 DEF Frame

\* What a client's step leaves alone.
LEMMA ClientKeeps ==
  ASSUME NEW c \in Clients, Client(c)
  PROVE  /\ UNCHANGED <<vt, cam, mp4_encoding, ret, msg, muxerVars>>
         /\ msg_queue' = msg_queue \/ HandlerAlive
<1>1. CASE Begin(c) \/ NoFlags(c) \/ ReadFlags(c) \/ WriteFlags(c) \/ Return(c)
           \/ Deinit(c) \/ Joined(c)
  BY <1>1, ClientMoves, ClientStep DEF camVars
<1>2. CASE Cancel(c) \/ Send(c) \/ UseAfterDelete(c) \/ Answered(c)
  <2>1. UNCHANGED <<camVars, muxerVars>> /\ (msg_queue' = msg_queue \/ HandlerAlive)
    BY <1>2, Zenon DEF Cancel, Send, UseAfterDelete, Answered
  <2> QED BY <2>1, ClientStep DEF camVars
<1> QED BY <1>1, <1>2, Zenon DEF Client, GoOn

\* Nothing happens to a handler that is gone; its destructor found no muxer.
LEMMA NextDeleted ==
  ASSUME TypeInv, AliveInv, fault = "none", Next
  PROVE  Flagged' /\ Deleted'
<1> USE DEF AliveInv
<1>1. CASE Handle
  <2>1. /\ cam = "handle" /\ UNCHANGED videoVars
        /\ cam' \in {"handle", "frame", "leave", "notify"}
    BY <1>1, HandleStep
  <2> QED BY <2>1 DEF videoVars, HandlerAlive, Flagged, Within, Deleted
<1>2. CASE CamPop \/ Notify
  <2>1. /\ cam \in {"pop", "notify"} /\ UNCHANGED videoVars
    BY <1>2, Zenon DEF CamPop, Notify
  <2> QED BY <2>1 DEF videoVars, HandlerAlive, Flagged, Within, Deleted
<1>3. CASE Frame
  <2>1. UNCHANGED vt /\ (cam' \in Within => mp4_encoding' /\ (cam \in Within \/ HandlerAlive))
    BY <1>3, FrameWithin
  <2>2. msg_queue' = msg_queue /\ \A k \in Kinds : Exists(k)' <=> Exists(k)
    BY <1>3, FrameStep, FrameKinds
  <2>3. ~FoundOpen
    BY Zenon DEF FoundOpen
  <2> HIDE DEF AliveInv
  <2>4. Flagged /\ Deleted
    BY Zenon DEF AliveInv
  <2> QED BY <2>1, <2>2, <2>3, <2>4, Zenon DEF Flagged, Deleted, HandlerAlive
<1>4. CASE Video
  <2>1. CASE VideoLeave \/ VideoDelete
    <3>1. /\ UNCHANGED <<mp4_encoding, cam, msg_queue, muxerVars, fault>>
          /\ \/ vt = "run" /\ vt' = "leaving"
             \/ vt = "destroyed" /\ vt' = "gone"
      BY <2>1, Zenon DEF VideoLeave, VideoDelete, camVars
    <3>2. \A k \in Kinds : Exists(k)' <=> Exists(k)
      BY <3>1 DEF Exists, Muxer, muxerVars
    <3>3. HandlerAlive' <=> HandlerAlive
      BY <3>1 DEF HandlerAlive
    <3> QED BY <3>1, <3>2, <3>3, Zenon DEF Flagged, Deleted, FoundOpen
  <2>2. CASE VideoDestroy
    <3>1. /\ UNCHANGED <<mp4_encoding, cam, muxerVars>> /\ ~mp4_encoding /\ msg_queue' = <<>>
          /\ AllClosed \/ FoundOpen'
      BY <2>2, Zenon DEF VideoDestroy, camVars, MayDestroy, FoundOpen
    <3>2. AllClosed => \A k \in Kinds : ~Exists(k)'
      BY <3>1 DEF AllClosed, Exists, Muxer, muxerVars
    <3> QED BY <3>1, <3>2, Zenon DEF Flagged, Deleted
  <2> QED BY <1>4, <2>1, <2>2 DEF Video
<1>5. ASSUME NEW c \in Clients, Client(c) PROVE Flagged' /\ Deleted'
  <2>1. UNCHANGED <<vt, cam, mp4_encoding, muxerVars>> /\ (msg_queue' = msg_queue \/ HandlerAlive)
    BY <1>5, ClientKeeps
  <2>2. /\ \A k \in Kinds : Exists(k)' <=> Exists(k)
        /\ HandlerAlive' <=> HandlerAlive
    BY <2>1 DEF Exists, Muxer, muxerVars, HandlerAlive
  <2>3. ~FoundOpen
    BY Zenon DEF FoundOpen
  <2> QED BY <2>1, <2>2, <2>3, Zenon DEF Flagged, Deleted
<1>6. CASE UNCHANGED vars
  BY <1>6, Zenon DEF vars, Flagged, Deleted, FoundOpen, HandlerAlive, Exists, Muxer, videoVars,
     muxerVars, camVars
<1> QED BY <1>1, <1>2, <1>3, <1>4, <1>5, <1>6, CameraCases, Zenon DEF Next

-----------------------------------------------------------------------------
\* Steps that are not a client's leave the flags and the recorder alone.
LEMMA OthersKeepFlags ==
  ASSUME Camera \/ Video \/ UNCHANGED vars
  PROVE  flags' = flags /\ UNCHANGED <<pc, call, seen>>
<1>1. CASE Frame
  <2>1. flags' = flags
    BY <1>1, Zenon DEF Frame, CamPeek, CamConfigure, CamEnter, CamCheck, CamEmpty,
       CamEmptyDeleted, SkipFrame, EncodeFrame, RestartFile, RestartNoEncoder, KeepFile,
       CamLeave, CamSignal, videoVars
  <2> QED BY <1>1, <2>1, FrameStep DEF clientVars
<1>2. CASE Handle
  BY <1>2, HandleStep DEF clientVars, videoVars
<1>3. CASE CamPop \/ Notify
  BY <1>3, Zenon DEF CamPop, Notify, clientVars, videoVars
<1>4. CASE Video
  BY <1>4, Zenon DEF Video, VideoLeave, VideoDestroy, VideoDelete, clientVars
<1>5. CASE UNCHANGED vars
  BY <1>5 DEF vars, clientVars, videoVars
<1> QED BY <1>1, <1>2, <1>3, <1>4, <1>5, CameraCases

\* Nobody but the recorder writes the flags.
LEMMA ClientAlone ==
  ASSUME TypeInv, NEW r \in Clients, Alone(r),
         \A c \in Clients \ {r} : \A x \in Calls[c] : ~ChangesFlag(x.do),
         NEW c \in Clients, Client(c)
  PROVE  Alone(r)' /\ (c # r => flags' = flags)
<1>0. /\ pc \in [Clients -> {"idle", "next", "cancel", "send", "wait", "done",
                            "flags", "return", "joining"}]
      /\ call \in [Clients -> Call \cup Part \cup {NoCall}]
      /\ seen \in [Clients -> SUBSET {"RECORDING", "CACHE"}]
  BY DEF TypeInv, TypeOK, ClientType
<1>1. \A d \in Clients : d # c => pc'[d] = pc[d] /\ call'[d] = call[d] /\ seen'[d] = seen[d]
  <2>1. CASE Begin(c) \/ Return(c) \/ Deinit(c) \/ Joined(c)
    <3>1. seen' = seen /\ (\E l : pc' = [pc EXCEPT ![c] = l])
          /\ (call' = call \/ \E x : call' = [call EXCEPT ![c] = x])
      BY <2>1, Zenon DEF Begin, Return, Deinit, Joined
    <3> QED BY <1>0, <3>1
  <2>2. CASE Cancel(c) \/ Send(c) \/ Answered(c) \/ NoFlags(c) \/ ReadFlags(c) \/ WriteFlags(c)
    <3>1. /\ seen' = seen \/ \E x : seen' = [seen EXCEPT ![c] = x]
          /\ \E l : pc' = [pc EXCEPT ![c] = l]
          /\ call' = call
      BY <2>2, Zenon DEF Cancel, Send, Answered, NoFlags, ReadFlags, WriteFlags
    <3> QED BY <1>0, <3>1
  <2>3. CASE UseAfterDelete(c)
    <3>1. UNCHANGED clientVars
      BY <2>3, Zenon DEF UseAfterDelete
    <3> QED BY <3>1 DEF clientVars
  <2> QED BY <2>1, <2>2, <2>3, Zenon DEF Client, GoOn
<1>2. flags' = flags \/ (WriteFlags(c) /\ pc[c] = "flags")
  BY Zenon DEF Client, GoOn, Begin, Cancel, Send, UseAfterDelete, Answered, NoFlags,
     ReadFlags, WriteFlags, Return, Deinit, Joined, videoVars
<1>3. CASE c = r
  <2>1. ASSUME pc'[r] = "flags" PROVE seen'[r] = flags' /\ flags' = flags
    <3>1. CASE ReadFlags(r)
      <4>1. seen' = [seen EXCEPT ![r] = flags] /\ UNCHANGED videoVars
        BY <3>1, Zenon DEF ReadFlags
      <4> QED BY <1>0, <4>1 DEF videoVars
    <3>2. CASE UseAfterDelete(r)
      <4>1. UNCHANGED clientVars /\ pc[r] \in {"cancel", "send"}
        BY <3>2, Zenon DEF UseAfterDelete
      <4> QED BY <2>1, <4>1 DEF clientVars
    <3>3. CASE ~ReadFlags(r) /\ ~UseAfterDelete(r)
      <4>1. \E l \in {"idle", "next", "cancel", "send", "wait", "done", "return", "joining"} :
              pc' = [pc EXCEPT ![r] = l]
        <5>1. CASE Begin(r)
          BY <5>1, Zenon DEF Begin
        <5>2. CASE Cancel(r) \/ Send(r) \/ Answered(r) \/ NoFlags(r) \/ WriteFlags(r)
          BY <5>2, Zenon DEF Cancel, Send, Answered, NoFlags, WriteFlags
        <5>3. CASE Return(r) \/ Deinit(r) \/ Joined(r)
          BY <5>3, Zenon DEF Return, Deinit, Joined
        <5> QED BY <1>3, <3>3, <5>1, <5>2, <5>3, Zenon DEF Client, GoOn
      <4> QED BY <1>0, <2>1, <4>1
    <3> QED BY <3>1, <3>2, <3>3
  <2> QED BY <1>1, <1>3, <2>1 DEF Alone
<1>4. CASE c # r
  <2>1. ~ChangesFlag(call[c].do) /\ pc[c] # "flags"
    BY <1>4 DEF Alone
  <2>2. ~ChangesFlag(call'[c].do) /\ pc'[c] # "flags"
    <3>1. CASE Begin(c)
      <4>1. PICK x \in Call \cup Part :
              /\ x \in Calls[c] \/ x = call[c]
              /\ call' = [call EXCEPT ![c] = x]
              /\ \E l \in {"return", "done", "cancel", "send"} : pc' = [pc EXCEPT ![c] = l]
        BY <3>1, Zenon DEF Begin
      <4> QED BY <1>0, <1>4, <2>1, <4>1
    <3>2. CASE Return(c)
      <4>1. /\ call' = [call EXCEPT ![c] = Follows(call[c].do)]
            /\ \E l \in {"idle", "next"} : pc' = [pc EXCEPT ![c] = l]
        BY <3>2, Zenon DEF Return
      <4>2. Follows(call[c].do) \in {NoCall, [do |-> "then_deinit", mux |-> "none"]}
        BY <2>1 DEF Follows, ChangesFlag, SetsFlag, ClearsFlag, StopsRec, StopsCache
      <4>3. ~ChangesFlag("then_deinit") /\ ~ChangesFlag("none")
        BY DEF ChangesFlag, SetsFlag, ClearsFlag, StopsRec, StopsCache
      <4> QED BY <1>0, <4>1, <4>2, <4>3 DEF NoCall
    <3>3. CASE Joined(c)
      <4>1. call' = [call EXCEPT ![c] = NoCall] /\ pc' = [pc EXCEPT ![c] = "idle"]
        BY <3>3, Zenon DEF Joined
      <4>2. ~ChangesFlag("none")
        BY DEF ChangesFlag, SetsFlag, ClearsFlag, StopsRec, StopsCache
      <4> QED BY <1>0, <4>1, <4>2 DEF NoCall
    <3>4. CASE Cancel(c) \/ Send(c) \/ Answered(c) \/ NoFlags(c) \/ Deinit(c)
      <4>1. /\ call' = call
            /\ \E l \in {"send", "wait", "done", "return", "joining"} : pc' = [pc EXCEPT ![c] = l]
        BY <3>4, Zenon DEF Cancel, Send, Answered, NoFlags, Deinit
      <4> QED BY <1>0, <2>1, <4>1
    <3>5. CASE ReadFlags(c) \/ WriteFlags(c)
      BY <2>1, <3>5, Zenon DEF ReadFlags, WriteFlags
    <3>6. CASE UseAfterDelete(c)
      <4>1. UNCHANGED clientVars
        BY <3>6, Zenon DEF UseAfterDelete
      <4> QED BY <2>1, <4>1 DEF clientVars
    <3> QED BY <3>1, <3>2, <3>3, <3>4, <3>5, <3>6, Zenon DEF Client, GoOn
  <2>3. flags' = flags
    BY <1>2, <2>1
  <2> QED BY <1>1, <1>4, <2>2, <2>3 DEF Alone
<1> QED BY <1>3, <1>4

\* A muxer's state, its start under work and the queue are all that OneStart
\* is about.
LEMMA StartsKept ==
  ASSUME NEW k \in Kinds, msg_queue' = msg_queue, msg' = msg, Exists(k)' <=> Exists(k)
  PROVE  /\ Pending(k)' <=> Pending(k)
         /\ Coming(k)' <=> Coming(k)
         /\ OneStart(k) => OneStart(k)'
<1>1. Starts(k)' = Starts(k) /\ (InHand(k)' <=> InHand(k))
  BY DEF Starts, InHand
<1>2. Pending(k)' <=> Pending(k)
  BY <1>1 DEF Pending
<1> QED BY <1>1, <1>2 DEF OneStart, Coming

\* The stop of k comes from the recorder, which waits.
LEMMA StopFromRecorder ==
  ASSUME TypeInv, AnswerInv, Senders, NEW r \in Clients, Alone(r), NEW k \in Kinds,
         cam \in {"handle", "notify"}, msg.id = StopId(k)
  PROVE  msg.from = r /\ pc[r] = "wait" /\ k \in ClearsFlag(call[r].do)
<1>1. msg.id \in SyncIds
  BY DEF StopId, SyncIds
<1>2. msg.from # NoClient /\ Waits(msg.from) /\ msg \in Message
  BY <1>1 DEF AnswerInv, MsgWaits
<1>3. msg.from \in Clients
  BY <1>2 DEF Message
<1>4. k \in ClearsFlag(call[msg.from].do)
  BY <1>2 DEF Senders, Sent, StopId, Kinds, ClearsFlag, StopsRec, StopsCache
<1>5. msg.from = r
  BY <1>3, <1>4 DEF Alone, ChangesFlag
<1> QED BY <1>2, <1>4, <1>5 DEF Waits

\* The steps of the camera thread and of the video thread.
LEMMA CameraKind ==
  ASSUME TypeInv, AnswerInv, Senders, AliveInv, [Next]_vars,
         NEW r \in Clients, Alone(r), NEW k \in Kinds, KindInv(r, k),
         Camera \/ Video \/ UNCHANGED vars
  PROVE  KindInv(r, k)'
<1>1. pc' = pc /\ call' = call /\ flags' = flags
  BY OthersKeepFlags
<1>2. Running' => Running
  BY RunningFalls
<1>3. OneStart(k)
  BY DEF KindInv
<1>a. ASSUME OneStart(k)', Coming(k)' => Coming(k), Pending(k)' => Pending(k),
             Running' /\ Coming(k) =>
               Coming(k)' \/ (pc[r] = "wait" /\ k \in ClearsFlag(call[r].do)),
             pc[r] = "wait" /\ k \in ClearsFlag(call[r].do) /\ Heard(r)' =>
               Heard(r) \/ ~Coming(k)'
      PROVE  KindInv(r, k)'
  BY <1>1, <1>2, <1>a, OthersKeepKind
<1>4. CASE Frame
  <2>1. /\ UNCHANGED <<msg_queue, msg, answered>>
        /\ cam' = cam \/ (cam \notin {"handle", "notify"} /\ cam' \notin {"handle", "notify"})
    BY <1>4, FrameStep DEF clientVars
  <2>2. Exists(k)' <=> Exists(k)
    BY <1>4, FrameKinds
  <2>3. Heard(r)' => Heard(r)
    BY <2>1 DEF Heard
  <2> QED BY <1>3, <1>a, <2>1, <2>2, <2>3, StartsKept
<1>5. CASE Handle
  <2>1. /\ cam = "handle" /\ UNCHANGED <<msg_queue, answered>>
        /\ \/ cam' = "handle" /\ msg' = msg
           \/ cam' \in {"frame", "leave"} /\ msg' = NoMessage
           \/ cam' = "notify" /\ msg' = msg /\ msg.id \in SyncIds
    BY <1>5, HandleStep DEF clientVars
  <2>2. Starts(k)' = Starts(k) /\ (Pending(k)' <=> Pending(k))
    BY <2>1 DEF Starts, Pending
  <2>3. CASE /\ msg.id = StartId(k) /\ ~Exists(k) /\ (Exists(k)' \/ ret' = -1)
             /\ msg' = NoMessage /\ cam' # "notify"
    <3>1. Coming(k) /\ ~Pending(k) /\ ~Pending(k)'
      BY <1>3, <2>2, <2>3 DEF Coming, InHand, OneStart
    <3>2. Running' => Coming(k)'
      BY <2>3 DEF Running, Coming
    <3>3. Heard(r)' => Heard(r)
      BY <2>1, <2>3 DEF Heard
    <3>4. OneStart(k)'
      <4>1. ~InHand(k)'
        BY <2>3 DEF InHand, NoMessage, StartId
      <4> QED BY <1>3, <2>2, <3>1, <4>1 DEF OneStart
    <3> QED BY <1>a, <3>1, <3>2, <3>3, <3>4
  <2>4. CASE msg.id = StopId(k) /\ ~Exists(k)' /\ msg' = msg
    <3>1. pc[r] = "wait" /\ k \in ClearsFlag(call[r].do)
      BY <2>1, <2>4, StopFromRecorder
    <3>2. ~Pending(k)
      BY <3>1 DEF KindInv, Stopping
    <3>3. ~InHand(k)'
      BY <2>4 DEF InHand, StartId, StopId
    <3>4. ~Coming(k)' /\ OneStart(k)'
      BY <1>3, <2>2, <2>4, <3>2, <3>3 DEF Coming, OneStart
    <3> QED BY <1>a, <2>2, <3>1, <3>4
  <2>5. CASE /\ Exists(k)' <=> Exists(k)
             /\ msg' = msg \/ msg.id # StartId(k)
             /\ cam' # "notify" \/ msg.id # StopId(k)
    <3>1. InHand(k)' <=> InHand(k)
      BY <2>1, <2>5 DEF InHand, NoMessage, StartId
    <3>2. (Coming(k)' <=> Coming(k)) /\ OneStart(k)'
      BY <1>3, <2>2, <2>5, <3>1 DEF Coming, OneStart
    <3>3. k \in ClearsFlag(call[r].do) /\ Heard(r)' => Heard(r)
      <4> SUFFICES ASSUME k \in ClearsFlag(call[r].do), cam' = "notify", msg'.from = r
                   PROVE  FALSE
        BY <2>1 DEF Heard
      <4>1. msg.from = r /\ r # NoClient
        BY <2>1, ConstantsAssumption DEF ConstantsAssumption
      <4>2. msg.id = StopId(k)
        BY <4>1 DEF Senders, Sent, StopId, Kinds, ClearsFlag, StopsRec, StopsCache
      <4> QED BY <2>5, <4>2
    <3> QED BY <1>a, <2>2, <3>2, <3>3
  <2> QED BY <1>5, <2>3, <2>4, <2>5, HandleKinds
<1>6. CASE CamPop
  <2>1. cam = "pop" /\ UNCHANGED <<answered, muxerVars>>
    BY <1>6, Zenon DEF CamPop, clientVars
  <2>2. Exists(k)' <=> Exists(k)
    BY <2>1 DEF Exists, Muxer, muxerVars
  <2>3. CASE msg_queue = <<>>
    <3>1. UNCHANGED <<msg_queue, msg, cam>>
      BY <1>6, <2>3, Zenon DEF CamPop
    <3>2. Heard(r)' => Heard(r)
      BY <2>1, <3>1 DEF Heard
    <3> QED BY <1>3, <1>a, <2>2, <3>1, <3>2, StartsKept
  <2>4. CASE msg_queue # <<>>
    <3>1. msg' = Head(msg_queue) /\ msg_queue' = Tail(msg_queue) /\ cam' = "handle"
      BY <1>6, <2>4, Zenon DEF CamPop
    <3>2. msg_queue \in Seq(Message)
      BY DEF TypeInv, TypeOK
    <3>3. 1 \in DOMAIN msg_queue /\ msg' = msg_queue[1]
      BY <2>4, <3>1, <3>2
    <3>4. /\ \A i \in DOMAIN msg_queue' : /\ i \in Nat /\ i + 1 # 1 /\ i + 1 \in DOMAIN msg_queue
                                         /\ msg_queue'[i] = msg_queue[i + 1]
          /\ \A j \in DOMAIN msg_queue : j # 1 => /\ j \in Int /\ j - 1 \in DOMAIN msg_queue'
                                                  /\ msg_queue'[j - 1] = msg_queue[j]
      BY <2>4, <3>1, <3>2
    <3>5. /\ \A i \in Starts(k)' : i \in Nat /\ i + 1 # 1 /\ i + 1 \in Starts(k)
          /\ \A j \in Starts(k) : j # 1 => j - 1 \in Starts(k)'
          /\ InHand(k)' <=> 1 \in Starts(k)
      BY <3>3, <3>4 DEF Starts, InHand
    <3>6. ~InHand(k)
      <4>1. msg = NoMessage
        BY <2>1 DEF AnswerInv, MsgWaits
      <4> QED BY <4>1 DEF InHand, NoMessage, StartId
    <3>7. Pending(k) <=> Pending(k)' \/ InHand(k)'
      BY <3>5 DEF Pending
    <3>8. Coming(k)' <=> Coming(k)
      BY <2>2, <3>6, <3>7 DEF Coming
    <3>9. OneStart(k)'
      <4>1. \A i, j \in Starts(k)' : i = j
        <5> SUFFICES ASSUME NEW i \in Starts(k)', NEW j \in Starts(k)' PROVE i = j
          OBVIOUS
        <5>1. i \in Nat /\ j \in Nat /\ i + 1 \in Starts(k) /\ j + 1 \in Starts(k)
          BY <3>5
        <5>2. i + 1 = j + 1
          BY <1>3, <5>1 DEF OneStart
        <5> QED BY <5>1, <5>2
      <4>2. InHand(k)' => ~Pending(k)'
        BY <1>3, <3>5 DEF OneStart, Pending
      <4>3. Exists(k)' => ~Pending(k)' /\ ~InHand(k)'
        BY <1>3, <2>2, <3>7 DEF OneStart
      <4> QED BY <4>1, <4>2, <4>3 DEF OneStart
    <3>10. Heard(r)' => Heard(r)
      BY <2>1, <3>1 DEF Heard
    <3> QED BY <1>a, <3>7, <3>8, <3>9, <3>10
  <2> QED BY <2>3, <2>4
<1>7. CASE Notify
  <2>1. /\ cam = "notify" /\ cam' = "frame" /\ msg' = NoMessage
        /\ answered' = [answered EXCEPT ![msg.from] = TRUE]
        /\ UNCHANGED <<msg_queue, muxerVars>>
    BY <1>7, Zenon DEF Notify
  <2>2. Heard(r)' => Heard(r)
    BY <2>1 DEF Heard, TypeInv, TypeOK, ClientType
  <2>3. Exists(k)' <=> Exists(k)
    BY <2>1 DEF Exists, Muxer, muxerVars
  <2>4. ~InHand(k) /\ ~InHand(k)'
    BY <2>1 DEF InHand, NoMessage, StartId, AnswerInv, MsgWaits, SyncIds
  <2>5. Starts(k)' = Starts(k) /\ (Pending(k)' <=> Pending(k))
    BY <2>1 DEF Starts, Pending
  <2>6. (Coming(k)' <=> Coming(k)) /\ OneStart(k)'
    BY <1>3, <2>3, <2>4, <2>5 DEF Coming, OneStart
  <2> QED BY <1>a, <2>2, <2>5, <2>6
<1>8. CASE Video
  <2>1. /\ UNCHANGED <<muxerVars, camVars, answered>> /\ (msg_queue' = msg_queue \/ msg_queue' = <<>>)
    BY <1>8, Zenon DEF Video, VideoLeave, VideoDestroy, VideoDelete, clientVars
  <2>2. ~Running'
    <3>1. vt' # "run"
      BY <1>8, Zenon DEF Video, VideoLeave, VideoDestroy, VideoDelete
    <3> QED BY <3>1, RunningFalls DEF StoppedForGood, Running
  <2>3. (Exists(k)' <=> Exists(k)) /\ (InHand(k)' <=> InHand(k)) /\ (Heard(r)' <=> Heard(r))
    BY <2>1 DEF Exists, Muxer, muxerVars, InHand, camVars, Heard
  <2>4. Starts(k)' = Starts(k) \/ Starts(k)' = {}
    BY <2>1 DEF Starts
  <2>5. /\ Pending(k)' => Pending(k)
        /\ Coming(k)' => Coming(k)
        /\ OneStart(k)'
    BY <1>3, <2>3, <2>4 DEF Pending, Coming, OneStart
  <2> QED BY <1>a, <2>2, <2>3, <2>5
<1>9. CASE UNCHANGED vars
  <2>1. UNCHANGED <<msg_queue, muxerVars, camVars, answered>>
    BY <1>9, Zenon DEF vars, clientVars
  <2>2. (Exists(k)' <=> Exists(k)) /\ msg' = msg /\ (Heard(r)' <=> Heard(r))
    BY <2>1 DEF Exists, Muxer, muxerVars, camVars, Heard
  <2> QED BY <1>3, <1>a, <2>1, <2>2, StartsKept
<1> QED BY <1>4, <1>5, <1>6, <1>7, <1>8, <1>9, CameraCases

\* The queue keeps its starts of k when something else is taken back, and
\* when something else is sent.
LEMMA CancelStarts ==
  ASSUME TypeInv, NEW c \in Clients, Cancel(c), NEW k \in Kinds, OneStart(k)
  PROVE  /\ k \notin ClearsFlag(call[c].do) => (Pending(k)' <=> Pending(k)) /\ OneStart(k)'
         /\ k \in ClearsFlag(call[c].do) =>
              /\ ~Pending(k)' /\ OneStart(k)'
              /\ \/ pc' = [pc EXCEPT ![c] = "send"]
                 \/ pc' = [pc EXCEPT ![c] = "done"] /\ Pending(k)
<1>1. UNCHANGED <<muxerVars, msg>>
  BY Zenon DEF Cancel, camVars
<1>2. (Exists(k)' <=> Exists(k)) /\ (InHand(k)' <=> InHand(k))
  BY <1>1 DEF Exists, Muxer, muxerVars, InHand
<1>3. PICK f \in [DOMAIN msg_queue' -> DOMAIN msg_queue] :
        /\ \A i, j \in DOMAIN msg_queue' : f[i] = f[j] => i = j
        /\ \A i \in DOMAIN msg_queue' : msg_queue'[i] = msg_queue[f[i]]
                                       /\ msg_queue'[i].id # Cancels(call[c].do)
        /\ \A j \in DOMAIN msg_queue : msg_queue[j].id # Cancels(call[c].do) =>
             \E i \in DOMAIN msg_queue' : f[i] = j
  BY CancelQueue, Zenon
<1>4. \A i \in Starts(k)' : i \in DOMAIN msg_queue' /\ f[i] \in Starts(k)
  BY <1>3 DEF Starts
<1>5. \A i, j \in Starts(k)' : i = j
  BY <1>3, <1>4 DEF OneStart
<1>6. Pending(k)' => Pending(k)
  BY <1>4 DEF Pending
<1>7. OneStart(k)'
  BY <1>2, <1>5, <1>6 DEF OneStart
<1>8. ASSUME k \notin ClearsFlag(call[c].do), Pending(k) PROVE Pending(k)'
  <2>1. PICK j \in Starts(k) : TRUE
    BY <1>8 DEF Pending
  <2>2. j \in DOMAIN msg_queue /\ msg_queue[j].id = StartId(k)
    BY <2>1 DEF Starts
  <2>3. Cancels(call[c].do) # StartId(k)
    BY <1>8, KindCalls
  <2>4. PICK i \in DOMAIN msg_queue' : f[i] = j
    BY <1>3, <2>2, <2>3
  <2>5. i \in Starts(k)'
    BY <1>3, <2>2, <2>4 DEF Starts
  <2> QED BY <2>5 DEF Pending
<1>9. ASSUME k \in ClearsFlag(call[c].do)
      PROVE  /\ ~Pending(k)'
             /\ \/ pc' = [pc EXCEPT ![c] = "send"]
                \/ pc' = [pc EXCEPT ![c] = "done"] /\ Pending(k)
  <2>1. Cancels(call[c].do) = StartId(k)
    BY <1>9, KindCalls
  <2>2. ~Pending(k)'
    BY <1>3, <2>1 DEF Pending, Starts
  <2>3. \/ pc' = [pc EXCEPT ![c] = "send"]
        \/ /\ pc' = [pc EXCEPT ![c] = "done"]
           /\ \E i \in DOMAIN msg_queue : msg_queue[i].id = StartId(k)
    <3>1. \/ pc' = [pc EXCEPT ![c] = "send"]
          \/ /\ pc' = [pc EXCEPT ![c] = "done"]
             /\ \E i \in DOMAIN msg_queue : msg_queue[i].id = Cancels(call[c].do)
      BY CancelQueue, Zenon
    <3> QED BY <2>1, <3>1, Zenon
  <2> QED BY <2>2, <2>3 DEF Pending, Starts
<1> QED BY <1>6, <1>7, <1>8, <1>9

LEMMA SendStarts ==
  ASSUME TypeInv, NEW c \in Clients, Send(c), NEW k \in Kinds,
         k \notin SetsFlag(call[c].do)
  PROVE  Starts(k)' = Starts(k) /\ (Pending(k)' <=> Pending(k))
<1>1. PICK m \in Message :
         /\ m = [id |-> Sends(call[c].do), mux |-> call[c].mux,
                 from |-> IF Sync(call[c].do) THEN c ELSE NoClient]
         /\ msg_queue' = Append(msg_queue, m)
  BY SendEffect
<1>2. call[c] \in Call \cup Part /\ call[c].do # "then_deinit"
  BY DEF Send, TypeInv, Sendable
<1>3. m.id # StartId(k)
  BY <1>1, <1>2, SendsKind
<1>4. msg_queue \in Seq(Message)
  BY DEF TypeInv, TypeOK
<1>5. /\ \A i \in DOMAIN msg_queue' :
           \/ i \in DOMAIN msg_queue /\ msg_queue'[i] = msg_queue[i]
           \/ msg_queue'[i] = m
      /\ \A i \in DOMAIN msg_queue : i \in DOMAIN msg_queue' /\ msg_queue'[i] = msg_queue[i]
  BY <1>1, <1>4
<1>6. Starts(k)' = Starts(k)
  BY <1>3, <1>5 DEF Starts
<1> QED BY <1>6 DEF Pending

\* The steps of the other clients.
LEMMA OtherKind ==
  ASSUME TypeInv, AliveInv, [Next]_vars, NEW r \in Clients, Alone(r),
         NEW k \in Kinds, KindInv(r, k), NEW c \in Clients \ {r}, Client(c), flags' = flags
  PROVE  KindInv(r, k)'
<1>0. /\ pc \in [Clients -> {"idle", "next", "cancel", "send", "wait", "done",
                            "flags", "return", "joining"}]
      /\ call \in [Clients -> Call \cup Part \cup {NoCall}]
      /\ answered \in [Clients -> BOOLEAN]
  BY DEF TypeInv, TypeOK, ClientType
<1>1. UNCHANGED <<cam, msg, muxerVars>>
  BY ClientKeeps
<1>2. Exists(k)' <=> Exists(k)
  BY <1>1 DEF Exists, Muxer, muxerVars
<1>3. k \notin SetsFlag(call[c].do) /\ k \notin ClearsFlag(call[c].do)
  BY DEF Alone, ChangesFlag
<1>4. OneStart(k)' /\ (Pending(k)' <=> Pending(k)) /\ (Coming(k)' <=> Coming(k))
  <2>1. OneStart(k)
    BY DEF KindInv
  <2>2. CASE Cancel(c)
    <3>1. OneStart(k)' /\ (Pending(k)' <=> Pending(k))
      BY <1>3, <2>1, <2>2, CancelStarts
    <3> QED BY <1>1, <1>2, <3>1 DEF Coming, InHand
  <2>3. CASE Send(c)
    <3>1. Starts(k)' = Starts(k) /\ (Pending(k)' <=> Pending(k))
      BY <1>3, <2>3, SendStarts
    <3> QED BY <1>1, <1>2, <2>1, <3>1 DEF Coming, InHand, OneStart
  <2>4. CASE ~Cancel(c) /\ ~Send(c)
    <3>1. msg_queue' = msg_queue
      BY <2>4, Zenon DEF Client, GoOn, Begin, UseAfterDelete, Answered, NoFlags,
         ReadFlags, WriteFlags, Return, Deinit, Joined
    <3> QED BY <1>1, <1>2, <2>1, <3>1, StartsKept
  <2> QED BY <2>2, <2>3, <2>4
<1>5. pc'[r] = pc[r] /\ call'[r] = call[r] /\ answered'[r] = answered[r]
  <2>1. CASE Begin(c) \/ Return(c) \/ Deinit(c) \/ Joined(c)
    <3>1. answered' = answered /\ (\E l : pc' = [pc EXCEPT ![c] = l])
          /\ (call' = call \/ \E x : call' = [call EXCEPT ![c] = x])
      BY <2>1, Zenon DEF Begin, Return, Deinit, Joined
    <3> QED BY <1>0, <3>1
  <2>2. CASE Cancel(c) \/ Send(c) \/ Answered(c) \/ NoFlags(c) \/ ReadFlags(c) \/ WriteFlags(c)
    <3>1. /\ answered' = answered \/ \E x : answered' = [answered EXCEPT ![c] = x]
          /\ \E l : pc' = [pc EXCEPT ![c] = l]
          /\ call' = call
      BY <2>2, Zenon DEF Cancel, Send, Answered, NoFlags, ReadFlags, WriteFlags
    <3> QED BY <1>0, <3>1
  <2>3. CASE UseAfterDelete(c)
    <3>1. UNCHANGED clientVars
      BY <2>3, Zenon DEF UseAfterDelete
    <3> QED BY <3>1 DEF clientVars
  <2> QED BY <2>1, <2>2, <2>3, Zenon DEF Client, GoOn
<1>6. Heard(r)' <=> Heard(r)
  BY <1>1, <1>5 DEF Heard
<1> QED BY <1>4, <1>5, <1>6, RunningFalls, OthersKeepKind

\* A step of the recorder that leaves the muxers and the queue alone: what it
\* owes k where it goes to.
LEMMA RecorderMoves ==
  ASSUME TypeInv, NEW r \in Clients, NEW k \in Kinds, KindInv(r, k),
         Running' => Running, msg_queue' = msg_queue, msg' = msg, UNCHANGED muxerVars,
         Settled(r, k)' => FlagSays(k)', Starting(r, k)', Stopping(r, k)'
  PROVE  KindInv(r, k)'
<1>1. Exists(k)' <=> Exists(k)
  BY DEF Exists, Muxer, muxerVars
<1> QED BY <1>1, StartsKept DEF KindInv

\* A call of the recorder begins: it was settled, and its test trusts the flag.
LEMMA RecorderBegins ==
  ASSUME TypeInv, AnswerInv, AliveInv, fault = "none", [Next]_vars, NEW r \in Clients,
         NEW k \in Kinds, KindInv(r, k), Begin(r)
  PROVE  KindInv(r, k)'
<1>0. /\ pc \in [Clients -> {"idle", "next", "cancel", "send", "wait", "done",
                            "flags", "return", "joining"}]
      /\ call \in [Clients -> Call \cup Part \cup {NoCall}]
  BY DEF TypeInv, TypeOK, ClientType
<1>1. PICK x \in Call \cup Part :
        /\ pc[r] \in {"idle", "next"}
        /\ call' = [call EXCEPT ![r] = x]
        /\ pc' = [pc EXCEPT ![r] = IF ~Wanted(x.do) THEN "return"
                                   ELSE IF NothingToSend(x.do) THEN "done"
                                   ELSE IF Sync(x.do) THEN "cancel" ELSE "send"]
        /\ UNCHANGED <<videoVars, msg_queue, muxerVars, camVars>>
  BY Zenon DEF Begin
<1>2. msg' = msg /\ flags' = flags /\ (Running' => Running)
  BY <1>1, RunningFalls DEF camVars, videoVars
<1>3. (Exists(k)' <=> Exists(k)) /\ (Coming(k)' <=> Coming(k))
  <2>1. Exists(k)' <=> Exists(k)
    BY <1>1 DEF Exists, Muxer, muxerVars
  <2> QED BY <1>1, <1>2, <2>1, StartsKept
<1>4. FlagSays(k) /\ FlagSays(k)'
  <2>1. FlagSays(k)
    BY <1>1 DEF KindInv, Settled
  <2> QED BY <1>2, <1>3, <2>1 DEF FlagSays
<1>5. /\ call'[r] = x
      /\ pc'[r] = IF ~Wanted(x.do) THEN "return"
                  ELSE IF NothingToSend(x.do) THEN "done"
                  ELSE IF Sync(x.do) THEN "cancel" ELSE "send"
  BY <1>0, <1>1
<1>6. Starting(r, k)'
  <2> SUFFICES ASSUME k \in SetsFlag(x.do)
               PROVE  pc'[r] = "return" \/ (pc'[r] = "send" /\ ~Coming(k)')
    BY <1>5 DEF Starting
  <2>1. ~Sync(x.do) /\ ~NothingToSend(x.do)
    BY KindCalls DEF SetsFlag, NothingToSend
  <2>2. Wanted(x.do) => k \notin flags
    <3>1. CASE x.do = "startrec" /\ k = "RECORDING"
      <4>1. Wanted("startrec") => "RECORDING" \notin flags
        BY ConstantsAssumption DEF Wanted, ConstantsAssumption, StopsCache
      <4> QED BY <3>1, <4>1, Zenon
    <3>2. CASE x.do = "start_cache" /\ k = "CACHE"
      <4>1. Wanted("start_cache") => "CACHE" \notin flags
        BY ConstantsAssumption DEF Wanted, ConstantsAssumption, StopsCache
      <4> QED BY <3>2, <4>1, Zenon
    <3> QED BY <3>1, <3>2 DEF SetsFlag, Kinds
  <2> QED BY <1>3, <1>4, <1>5, <2>1, <2>2 DEF FlagSays
<1>7. Stopping(r, k)'
  <2> SUFFICES ASSUME k \in ClearsFlag(x.do)
               PROVE  pc'[r] \in {"return", "cancel"} \/ (pc'[r] = "done" /\ ~Coming(k)')
    BY <1>5 DEF Stopping
  <2>1. Sync(x.do)
    BY KindCalls
  <2>2. ASSUME NothingToSend(x.do) PROVE ~Coming(k)
    <3>1. ~HandlerAlive
      BY <2>2 DEF NothingToSend
    <3>2. cam \notin Within /\ msg_queue = <<>> /\ ~Exists(k)
      <4>1. ~FoundOpen
        BY Zenon DEF FoundOpen
      <4> QED BY <3>1, <4>1 DEF AliveInv, Deleted
    <3>3. ~InHand(k)
      BY <3>2 DEF AnswerInv, MsgWaits, Within, InHand, NoMessage, StartId
    <3> QED BY <3>2, <3>3 DEF Coming, Pending, Starts
  <2> QED BY <1>3, <1>5, <2>1, <2>2
<1> QED BY <1>1, <1>2, <1>4, <1>6, <1>7, RecorderMoves

\* The recorder takes its starts back, or sends.
LEMMA RecorderCancels ==
  ASSUME TypeInv, AnswerInv, AliveInv, [Next]_vars, NEW r \in Clients, NEW k \in Kinds,
         KindInv(r, k), Cancel(r)
  PROVE  KindInv(r, k)'
<1>0. /\ pc \in [Clients -> {"idle", "next", "cancel", "send", "wait", "done",
                            "flags", "return", "joining"}]
  BY DEF TypeInv, TypeOK, ClientType
<1>1. /\ pc[r] = "cancel" /\ UNCHANGED <<videoVars, muxerVars, camVars, call>>
      /\ \E l \in {"send", "done"} : pc' = [pc EXCEPT ![r] = l]
  BY Zenon DEF Cancel
<1>2. /\ Exists(k)' <=> Exists(k)
      /\ InHand(k)' <=> InHand(k)
      /\ Running' <=> Running
  BY <1>1 DEF Exists, Muxer, muxerVars, camVars, InHand, Running, videoVars
<1>3. k \notin SetsFlag(call[r].do)
  BY <1>1 DEF KindInv, Starting
<1>4. OneStart(k)
  BY DEF KindInv
<1>5. CASE k \in ClearsFlag(call[r].do)
  <2>1. /\ ~Pending(k)' /\ OneStart(k)'
        /\ \/ pc' = [pc EXCEPT ![r] = "send"]
           \/ pc' = [pc EXCEPT ![r] = "done"] /\ Pending(k)
    BY <1>4, <1>5, CancelStarts
  <2>2. pc'[r] = "send" \/ (pc'[r] = "done" /\ ~Coming(k)')
    <3>1. pc'[r] = "send" \/ (pc'[r] = "done" /\ Pending(k))
      BY <1>0, <2>1
    <3>2. Pending(k) => ~Exists(k) /\ ~InHand(k)
      BY <1>4 DEF OneStart
    <3> QED BY <1>2, <2>1, <3>1, <3>2 DEF Coming
  <2> QED BY <1>1, <1>3, <1>5, <2>1, <2>2 DEF KindInv, Settled, About, Starting, Stopping
<1>6. CASE k \notin ClearsFlag(call[r].do)
  <2>1. (Pending(k)' <=> Pending(k)) /\ OneStart(k)'
    BY <1>4, <1>6, CancelStarts
  <2>2. Coming(k)' <=> Coming(k)
    BY <1>2, <2>1 DEF Coming
  <2>3. FlagSays(k)'
    <3>1. FlagSays(k)
      BY <1>3, <1>6 DEF KindInv, Settled, About
    <3> QED BY <1>1, <1>2, <2>2, <3>1 DEF FlagSays, videoVars
  <2> QED BY <1>1, <1>3, <1>6, <2>1, <2>3 DEF KindInv, Starting, Stopping
<1> QED BY <1>5, <1>6

LEMMA RecorderSends ==
  ASSUME TypeInv, AnswerInv, AliveInv, [Next]_vars, NEW r \in Clients, NEW k \in Kinds,
         KindInv(r, k), Send(r)
  PROVE  KindInv(r, k)'
<1>0. /\ pc \in [Clients -> {"idle", "next", "cancel", "send", "wait", "done",
                            "flags", "return", "joining"}]
  BY DEF TypeInv, TypeOK, ClientType
<1>1. /\ pc[r] = "send" /\ UNCHANGED <<videoVars, muxerVars, camVars, call, answered>>
  BY Zenon DEF Send
<1>2. /\ Exists(k)' <=> Exists(k)
      /\ InHand(k)' <=> InHand(k)
      /\ Running' <=> Running
      /\ flags' = flags /\ (Heard(r)' <=> Heard(r))
  BY <1>1 DEF Exists, Muxer, muxerVars, camVars, InHand, Running, videoVars, Heard
<1>3. OneStart(k)
  BY DEF KindInv
<1>4. PICK m \in Message :
         /\ m = [id |-> Sends(call[r].do), mux |-> call[r].mux,
                 from |-> IF Sync(call[r].do) THEN r ELSE NoClient]
         /\ msg_queue' = Append(msg_queue, m)
         /\ \/ m.from = r /\ r # NoClient /\ pc' = [pc EXCEPT ![r] = "wait"]
            \/ m.from = NoClient /\ pc' = [pc EXCEPT ![r] = "done"]
  BY SendEffect
<1>5. CASE k \in SetsFlag(call[r].do)
  <2>1. m.id = StartId(k) /\ m.from = NoClient /\ k \notin ClearsFlag(call[r].do)
    BY <1>4, <1>5, KindCalls
  <2>2. pc'[r] = "done"
    BY <1>0, <1>4, <2>1
  <2>3. ~Coming(k)
    BY <1>1, <1>5 DEF KindInv, Starting
  <2>4. \A i \in DOMAIN msg_queue' :
          \/ i \in DOMAIN msg_queue /\ msg_queue'[i] = msg_queue[i]
          \/ i = Len(msg_queue) + 1
    BY <1>4 DEF TypeInv, TypeOK
  <2>5. Len(msg_queue) + 1 \in DOMAIN msg_queue' /\ msg_queue'[Len(msg_queue) + 1] = m
    BY <1>4 DEF TypeInv, TypeOK
  <2>6. Starts(k)' = {Len(msg_queue) + 1}
    BY <2>1, <2>3, <2>4, <2>5 DEF Coming, Pending, Starts
  <2>7. OneStart(k)' /\ Coming(k)'
    BY <1>2, <2>3, <2>6 DEF OneStart, Coming, Pending
  <2> QED BY <1>1, <1>5, <2>1, <2>2, <2>7 DEF KindInv, Settled, About, Starting, Stopping
<1>6. CASE k \notin SetsFlag(call[r].do)
  <2>1. Starts(k)' = Starts(k) /\ (Pending(k)' <=> Pending(k))
    BY <1>6, SendStarts
  <2>2. (Coming(k)' <=> Coming(k)) /\ OneStart(k)'
    BY <1>2, <1>3, <2>1 DEF Coming, OneStart
  <2>3. CASE k \in ClearsFlag(call[r].do)
    <3>1. Sync(call[r].do)
      BY <2>3, KindCalls
    <3>2. pc'[r] = "wait" /\ ~Heard(r)
      <4>1. m.from = r /\ pc'[r] = "wait" /\ r # NoClient
        BY <1>0, <1>4, <3>1, ConstantsAssumption DEF ConstantsAssumption
      <4>2. ~answered[r]
        BY <1>1 DEF AnswerInv, AnswerPending
      <4>3. ~(cam = "notify" /\ msg.from = r)
        BY <1>1, <4>1 DEF AnswerInv, MsgWaits, Waits
      <4> QED BY <4>1, <4>2, <4>3 DEF Heard
    <3>3. ~Pending(k)
      BY <1>1, <2>3 DEF KindInv, Stopping
    <3> QED BY <1>1, <1>2, <1>6, <2>1, <2>2, <2>3, <3>2, <3>3
            DEF KindInv, Settled, About, Starting, Stopping
  <2>4. CASE k \notin ClearsFlag(call[r].do)
    <3>1. FlagSays(k)
      BY <1>6, <2>4 DEF KindInv, Settled, About
    <3>2. FlagSays(k)'
      BY <1>2, <2>2, <3>1 DEF FlagSays
    <3> QED BY <1>1, <1>6, <2>2, <2>4, <3>2 DEF KindInv, Starting, Stopping
  <2> QED BY <2>3, <2>4
<1> QED BY <1>5, <1>6

\* The recorder is answered, and writes the flags.
LEMMA RecorderFlags ==
  ASSUME TypeInv, AliveInv, [Next]_vars, NEW r \in Clients, Alone(r),
         NEW k \in Kinds, KindInv(r, k),
         \/ Answered(r) \/ NoFlags(r) \/ ReadFlags(r) \/ WriteFlags(r)
         \/ Deinit(r) \/ Joined(r) \/ Return(r) \/ UseAfterDelete(r)
  PROVE  KindInv(r, k)'
<1>0. /\ pc \in [Clients -> {"idle", "next", "cancel", "send", "wait", "done",
                            "flags", "return", "joining"}]
      /\ call \in [Clients -> Call \cup Part \cup {NoCall}]
      /\ answered \in [Clients -> BOOLEAN]
      /\ flags \in SUBSET {"RECORDING", "CACHE"}
  BY DEF TypeInv, TypeOK, ClientType, VideoType
<1>1. UNCHANGED <<msg_queue, muxerVars, camVars>>
  BY Zenon DEF Answered, NoFlags, ReadFlags, WriteFlags, Deinit, Joined, Return, UseAfterDelete
<1>2. /\ msg' = msg /\ cam' = cam /\ (Running' => Running)
      /\ (Exists(k)' <=> Exists(k)) /\ (Coming(k)' <=> Coming(k))
  <2>1. (Exists(k)' <=> Exists(k)) /\ msg' = msg /\ cam' = cam
    BY <1>1 DEF Exists, Muxer, muxerVars, camVars
  <2> QED BY <1>1, <2>1, StartsKept, RunningFalls
<1>3. ASSUME Settled(r, k)' => FlagSays(k)', Starting(r, k)', Stopping(r, k)' PROVE KindInv(r, k)'
  BY <1>1, <1>2, <1>3, RecorderMoves
<1>4. FlagSays(k) /\ flags' = flags => FlagSays(k)'
  BY <1>2 DEF FlagSays
<1>5. CASE Answered(r)
  <2>1. pc[r] = "wait" /\ answered[r] /\ UNCHANGED <<videoVars, call>>
        /\ pc' = [pc EXCEPT ![r] = "done"]
    BY <1>5, Zenon DEF Answered, IsAnswered
  <2>2. pc'[r] = "done" /\ flags' = flags /\ Heard(r) /\ k \notin SetsFlag(call[r].do)
    BY <1>0, <2>1 DEF videoVars, Heard, KindInv, Starting
  <2>3. Settled(r, k)' => FlagSays(k)'
    BY <1>4, <2>1, <2>2 DEF KindInv, Settled, About
  <2>4. Stopping(r, k)'
    BY <1>2, <2>1, <2>2 DEF KindInv, Stopping
  <2> QED BY <1>3, <2>1, <2>2, <2>3, <2>4 DEF Starting
<1>6. CASE NoFlags(r) \/ ReadFlags(r)
  <2>1. /\ pc[r] = "done" /\ UNCHANGED <<videoVars, call>>
        /\ \/ pc' = [pc EXCEPT ![r] = "flags"]
           \/ pc' = [pc EXCEPT ![r] = "return"] /\ ~ChangesFlag(call[r].do)
    BY <1>6, Zenon DEF NoFlags, ReadFlags
  <2>2. (pc'[r] = "flags" \/ (pc'[r] = "return" /\ ~About(r, k))) /\ flags' = flags
    BY <1>0, <2>1 DEF videoVars, About, ChangesFlag
  <2>3. Settled(r, k)' => FlagSays(k)'
    BY <1>4, <2>1, <2>2 DEF KindInv, Settled, About, videoVars
  <2>4. Starting(r, k)' /\ Stopping(r, k)'
    BY <1>2, <2>1, <2>2 DEF KindInv, Starting, Stopping
  <2> QED BY <1>3, <2>3, <2>4
<1>7. CASE WriteFlags(r)
  <2>1. /\ pc[r] = "flags" /\ call' = call /\ pc' = [pc EXCEPT ![r] = "return"]
        /\ flags' = (seen[r] \cup SetsFlag(call[r].do)) \ ClearsFlag(call[r].do)
    BY <1>7, Zenon DEF WriteFlags
  <2>2. flags' = (flags \cup SetsFlag(call[r].do)) \ ClearsFlag(call[r].do)
    BY <2>1 DEF Alone
  <2>3. pc'[r] = "return"
    BY <1>0, <2>1
  <2>4. FlagSays(k)'
    <3>1. CASE k \in SetsFlag(call[r].do)
      <4>1. k \in flags' /\ (Running => Coming(k))
        BY <2>1, <2>2, <3>1, KindCalls DEF KindInv, Starting
      <4> QED BY <1>2, <4>1 DEF FlagSays
    <3>2. CASE k \in ClearsFlag(call[r].do)
      <4>1. k \notin flags' /\ ~Coming(k)
        BY <2>1, <2>2, <3>2 DEF KindInv, Stopping
      <4> QED BY <1>2, <4>1 DEF FlagSays
    <3>3. CASE ~About(r, k)
      <4>1. k \in flags' <=> k \in flags
        BY <2>2, <3>3 DEF About
      <4>2. FlagSays(k)
        BY <3>3 DEF KindInv, Settled
      <4> QED BY <1>2, <4>1, <4>2 DEF FlagSays
    <3> QED BY <3>1, <3>2, <3>3 DEF About
  <2>5. Starting(r, k)' /\ Stopping(r, k)'
    BY <2>1, <2>3 DEF Starting, Stopping
  <2> QED BY <1>3, <2>4, <2>5
<1>8. CASE Deinit(r) \/ Joined(r) \/ Return(r)
  <2>1. /\ pc[r] \in {"next", "joining", "return"} /\ flags' = flags
        /\ \E l \in {"idle", "next", "joining"} : pc' = [pc EXCEPT ![r] = l]
    BY <1>8, Zenon DEF Deinit, Joined, Return, videoVars
  <2>2. pc'[r] \in {"idle", "next", "joining"}
    BY <1>0, <2>1
  <2>3. FlagSays(k)'
    BY <1>4, <2>1 DEF KindInv, Settled
  <2>4. Starting(r, k)' /\ Stopping(r, k)'
    BY <2>2 DEF Starting, Stopping
  <2> QED BY <1>3, <2>3, <2>4
<1>9. CASE UseAfterDelete(r)
  <2>1. UNCHANGED <<clientVars, videoVars>>
    BY <1>9, Zenon DEF UseAfterDelete
  <2>2. pc'[r] = pc[r] /\ call'[r] = call[r] /\ (Heard(r)' <=> Heard(r)) /\ flags' = flags
    BY <1>2, <2>1 DEF clientVars, videoVars, Heard
  <2>3. Pending(k)' <=> Pending(k)
    BY <1>1, <1>2, StartsKept
  <2>4. (Settled(r, k)' => FlagSays(k)') /\ Starting(r, k)' /\ Stopping(r, k)'
    BY <1>2, <1>4, <2>2, <2>3 DEF KindInv, Settled, About, Starting, Stopping
  <2> QED BY <1>3, <2>4
<1> QED BY <1>5, <1>6, <1>7, <1>8, <1>9

LEMMA NextRecorder ==
  ASSUME TypeInv, AnswerInv, Senders, AliveInv, NEW r \in Clients, RecorderInv(r),
         \A c \in Clients \ {r} : \A x \in Calls[c] : ~ChangesFlag(x.do), [Next]_vars
  PROVE  AliveInv' /\ RecorderInv(r)'
<1>1. Alone(r) /\ \A k \in Kinds : KindInv(r, k)
  BY DEF RecorderInv
<1>2. CASE UNCHANGED vars
  <2>1. AliveInv'
    BY <1>2, Zenon DEF vars, AliveInv, StoppedForGood, RetFlag, Flagged, Deleted, HandlerAlive,
       FoundOpen, Exists, Muxer, videoVars, muxerVars, camVars
  <2>2. Alone(r)'
    BY <1>1, <1>2, OthersKeepFlags DEF Alone
  <2>3. \A k \in Kinds : KindInv(r, k)'
    BY <1>1, <1>2, CameraKind
  <2> QED BY <2>1, <2>2, <2>3 DEF RecorderInv
<1>3. CASE Next /\ fault = "none"
  <2>1. AliveInv'
    BY <1>3, NextDeleted, RunningFalls DEF AliveInv
  <2>2. CASE Camera \/ Video
    <3>1. Alone(r)'
      BY <1>1, <2>2, OthersKeepFlags DEF Alone
    <3>2. \A k \in Kinds : KindInv(r, k)'
      BY <1>1, <1>3, <2>2, CameraKind
    <3> QED BY <2>1, <3>1, <3>2 DEF RecorderInv
  <2>3. ASSUME NEW c \in Clients, Client(c) PROVE RecorderInv(r)'
    <3>1. Alone(r)' /\ (c # r => flags' = flags)
      BY <1>1, <2>3, ClientAlone
    <3>2. ASSUME NEW k \in Kinds PROVE KindInv(r, k)'
      <4>1. CASE c # r
        BY <1>1, <2>3, <3>1, <4>1, OtherKind
      <4>2. CASE c = r /\ Begin(r)
        BY <1>1, <1>3, <4>2, RecorderBegins
      <4>3. CASE c = r /\ Cancel(r)
        BY <1>1, <4>3, RecorderCancels
      <4>4. CASE c = r /\ Send(r)
        BY <1>1, <4>4, RecorderSends
      <4>5. CASE /\ c = r
                 /\ \/ Answered(r) \/ NoFlags(r) \/ ReadFlags(r) \/ WriteFlags(r)
                    \/ Deinit(r) \/ Joined(r) \/ Return(r) \/ UseAfterDelete(r)
        BY <1>1, <4>5, RecorderFlags
      <4> QED BY <2>3, <4>1, <4>2, <4>3, <4>4, <4>5, Zenon DEF Client, GoOn
    <3> QED BY <3>1, <3>2 DEF RecorderInv
  <2> QED BY <1>3, <2>1, <2>2, <2>3, <1>2 DEF Next
<1> QED BY <1>2, <1>3, Zenon DEF Next

-----------------------------------------------------------------------------
\* Nobody can have the flags but one client r: its calls keep them in step.
LEMMA RecorderAlways ==
  ASSUME NEW r \in Clients,
         \A c \in Clients \ {r} : \A x \in Calls[c] : ~ChangesFlag(x.do)
  PROVE  Spec => [](TypeInv /\ AnswerInv /\ Senders /\ AliveInv /\ RecorderInv(r))
<1>1. Init => TypeInv /\ AnswerInv /\ Senders /\ AliveInv /\ RecorderInv(r)
  BY InitType, InitAnswer, InitDetach, InitRecorder DEF DetachInv
<1>2. TypeInv /\ AnswerInv /\ Senders /\ AliveInv /\ RecorderInv(r) /\ [Next]_vars
      => (TypeInv /\ AnswerInv /\ Senders /\ AliveInv /\ RecorderInv(r))'
  BY NextType, NextAnswer, NextSenders, NextRecorder
<1> QED BY <1>1, <1>2, PTL DEF Spec

LEMMA ComingExpected ==
  /\ Expected("START_RECODEFILE", camerafile) <=> Coming("RECORDING")
  /\ Expected("START_CACHE", cameracache) <=> Coming("CACHE")
  BY DEF Expected, Coming, Exists, Muxer, Pending, Starts, InHand, StartId

\* While the camera runs and no call about it is under way, a flag of
\* encode_status says whether its muxer exists or is about to
\* (process/video.cpp: video_record_start_record and its like test and set
\* the flags), when one client makes all the calls that change the flags.
THEOREM FlagsCorrect == OneRecorder => (Spec => []FlagsMatch)
<1> SUFFICES ASSUME OneRecorder PROVE Spec => []FlagsMatch
  OBVIOUS
<1>1. PICK r \in Clients : \A c \in Clients \ {r} : \A x \in Calls[c] : ~ChangesFlag(x.do)
  BY DEF OneRecorder
<1>2. Spec => [](TypeInv /\ AnswerInv /\ Senders /\ AliveInv /\ RecorderInv(r))
  BY <1>1, RecorderAlways
<1>3. RecorderInv(r) => FlagsMatch
  <2> SUFFICES ASSUME RecorderInv(r), pthread_run, ret = 0
               PROVE  /\ ~About(r, "RECORDING") =>
                           ("RECORDING" \in flags <=> Coming("RECORDING"))
                      /\ ~About(r, "CACHE") => ("CACHE" \in flags <=> Coming("CACHE"))
    BY ComingExpected, Zenon DEF FlagsMatch
  <2>1. \A k \in Kinds : ~About(r, k) => FlagSays(k)
    BY DEF RecorderInv, KindInv, Settled
  <2>2. \A k \in Kinds : ~About(r, k) => (k \in flags <=> Coming(k))
    BY <2>1 DEF FlagSays, Running
  <2> QED BY <2>2 DEF Kinds
<1> QED BY <1>2, <1>3, PTL

\* When a stop returns from stop_record_file or stop_cache - answered, or its
\* start taken back from the queue - the muxer is deleted and no start of it is
\* left (encode_handler.cpp: send_record_stop and its like), when one client
\* makes all the calls that change the flags; a detached muxer is gone,
\* whoever detaches it.
THEOREM StopsCorrect == OneRecorder => (Spec => []StopComplete)
<1> SUFFICES ASSUME OneRecorder PROVE Spec => []StopComplete
  OBVIOUS
<1>1. PICK r \in Clients : \A c \in Clients \ {r} : \A x \in Calls[c] : ~ChangesFlag(x.do)
  BY DEF OneRecorder
<1>2. Spec => [](TypeInv /\ AnswerInv /\ Senders /\ AliveInv /\ RecorderInv(r))
  BY <1>1, RecorderAlways
<1>3. RecorderInv(r) /\ DetachComplete => StopComplete
  <2> SUFFICES ASSUME RecorderInv(r), NEW c \in Clients, pc[c] \in {"done", "flags"}
               PROVE  /\ call[c].do \in StopsRec => ~Coming("RECORDING")
                      /\ call[c].do \in StopsCache => ~Coming("CACHE")
    BY ComingExpected, Zenon DEF StopComplete
  <2>1. \A k \in Kinds : k \in ClearsFlag(call[c].do) => ~Coming(k)
    <3>1. \A k \in Kinds : k \in ClearsFlag(call[c].do) => c = r
      BY DEF RecorderInv, Alone, ChangesFlag
    <3> QED BY <3>1 DEF RecorderInv, KindInv, Stopping
  <2> QED BY <2>1 DEF Kinds, ClearsFlag, StopsRec, StopsCache
<1> QED BY <1>2, <1>3, DetachCorrect, PTL

\* MUXER_ALLOC asserts that there is no such muxer yet (encode_handler.cpp): it
\* never finds one, when one client makes all the calls that change the flags.
THEOREM NeverStartedTwice == OneRecorder => (Spec => [][~StartTwice]_vars)
<1> SUFFICES ASSUME OneRecorder PROVE Spec => [][~StartTwice]_vars
  OBVIOUS
<1>1. PICK r \in Clients : \A c \in Clients \ {r} : \A x \in Calls[c] : ~ChangesFlag(x.do)
  BY DEF OneRecorder
<1>2. Spec => [](TypeInv /\ AnswerInv /\ Senders /\ AliveInv /\ RecorderInv(r))
  BY <1>1, RecorderAlways
<1>3. RecorderInv(r) => ~StartTwice
  <2> SUFFICES ASSUME RecorderInv(r), StartTwice PROVE FALSE
    OBVIOUS
  <2>1. \/ msg.id = "START_RECODEFILE" /\ camerafile # "none"
        \/ msg.id = "START_CACHE" /\ cameracache # "none"
    BY Zenon DEF StartTwice
  <2>2. \E k \in Kinds : InHand(k) /\ Exists(k)
    BY <2>1 DEF Kinds, InHand, Exists, Muxer, StartId
  <2> QED BY <2>2 DEF RecorderInv, KindInv, OneStart
<1> QED BY <1>2, <1>3, PTL DEF Spec
=============================================================================
