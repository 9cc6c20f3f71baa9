-------------------------- MODULE CameraMuxer_proofs --------------------------
(***************************************************************************)
(* Theorems about CameraMuxer, for any number of writers, jobs and packets. *)
(* First, the destructor, which waits only for the threads in w_tid_list,  *)
(* leaves no thread that uses the muxer.  Then the invariant ControlInv    *)
(* says which of the writers is the one in charge of the job that was      *)
(* begun last: that a woken writer finds a packet follows from it, and     *)
(* with StartInv, which follows the START messages and the files they      *)
(* open, that a flushed file is closed when stop_current_job returns.  The *)
(* last parts prove the muxer's counter and its references, from the       *)
(* invariant RefsInv that a packet is in one place at a time.              *)
(***************************************************************************)
EXTENDS CameraMuxer, TLAPS, SequenceTheorems, FiniteSetTheorems

-----------------------------------------------------------------------------
(* No thread outlives the muxer.                                           *)

\* The strengthening: every thread that may still use the muxer is in the
\* list, or is being put there by start_new_job; a deleted muxer has none.
PcType == pc \in [Writers -> WriterStates]
Listed(w) == w \in w_tid_list \/ (ctl = "creating" /\ joining = w)
LiveListed == \A w \in Writers : Live(w) => Listed(w)
NoneListed == ctl = "none" => w_tid_list = {}
DeleteInv == PcType /\ LiveListed /\ NoneListed

LEMMA InitDelete == Init => DeleteInv
<1> SUFFICES ASSUME Init PROVE DeleteInv
  OBVIOUS
<1>1. /\ pc = [w \in Writers |-> "free"]
      /\ w_tid_list = {}
  BY Zenon DEF Init
<1> QED BY <1>1 DEF DeleteInv, PcType, LiveListed, NoneListed, Live, WriterStates

\* What a step of writer w does to the program counters and to the list.
WriterMoves(w) ==
  /\ Live(w) \/ pc[w] = "detach"
  /\ \E s \in WriterStates : pc' = [pc EXCEPT ![w] = s]
  /\ Live(w)' => Live(w)
  /\ w_tid_list' = w_tid_list \/ (w_tid_list' = w_tid_list \ {w} /\ ~Live(w)')
  /\ ctl' = ctl /\ joining' = joining

LEMMA WriterStep ==
  ASSUME PcType, NEW w \in Writers, Writer(w)
  PROVE  WriterMoves(w)
<1> USE DEF PcType, WriterMoves, Live, WriterStates, Goto
<1>1. CASE Check(w)
  BY <1>1 DEF Check, muxerVars, ctlVars
<1>2. CASE GetMessage(w)
  BY <1>2 DEF GetMessage, ctlVars
<1>3. CASE MuxerInit(w) \/ MuxerInitFails(w)
  BY <1>3 DEF MuxerInit, MuxerInitFails, muxerVars, ctlVars
<1>4. CASE TakeList(w)
  BY <1>4 DEF TakeList, AfterTake, ctlVars
<1>5. CASE Notify(w) \/ Block(w) \/ NotifyFlushed(w)
  BY <1>5 DEF Notify, Block, NotifyFlushed, muxerVars, ctlVars
<1>6. CASE Pop(w)
  BY <1>6 DEF Pop, AfterPop, ctlVars
<1>7. CASE Write(w)
  BY <1>7 DEF Write, muxerVars, ctlVars
<1>8. CASE Drain(w)
  BY <1>8 DEF Drain, muxerVars, ctlVars
<1>9. CASE Drained(w) \/ Tailer(w)
  BY <1>9 DEF Drained, Tailer, muxerVars, ctlVars
<1>10. CASE End(w)
  BY <1>10 DEF End, remove_wtid, ctlVars
<1>11. CASE Detach(w)
  BY <1>11 DEF Detach, muxerVars, ctlVars
<1> QED BY <1>1, <1>2, <1>3, <1>4, <1>5, <1>6, <1>7, <1>8, <1>9, <1>10, <1>11
        DEF Writer

LEMMA WriterDelete ==
  ASSUME DeleteInv, NEW w \in Writers, Writer(w)
  PROVE  DeleteInv'
<1> USE DEF DeleteInv, PcType, LiveListed, NoneListed, Listed
<1>1. WriterMoves(w)
  BY WriterStep
<1>2. PcType'
  BY <1>1 DEF WriterMoves
<1>3. LiveListed'
  <2> SUFFICES ASSUME NEW v \in Writers, Live(v)' PROVE Listed(v)'
    OBVIOUS
  <2>1. Live(v)
    BY <1>1 DEF WriterMoves, Live
  <2>2. v \in w_tid_list => v \in w_tid_list'
    BY <1>1 DEF WriterMoves
  <2> QED BY <2>1, <2>2, <1>1 DEF WriterMoves
<1>4. NoneListed'
  BY <1>1 DEF WriterMoves
<1> QED BY <1>2, <1>3, <1>4

\* Waking the blocked writer makes no thread live that was not.
LEMMA WakeKeeps ==
  ASSUME PcType
  PROVE  /\ WakeWriter \in [Writers -> WriterStates]
         /\ \A w \in Writers : pc' = WakeWriter => (Live(w)' <=> Live(w))
  BY DEF PcType, WakeWriter, WriterStates, Live

LEMMA ControlDelete ==
  ASSUME DeleteInv, Control
  PROVE  DeleteInv'
<1> USE DEF DeleteInv, PcType, LiveListed, NoneListed, Listed
<1>1. CASE InitUri
  BY <1>1 DEF InitUri, writerVars, Live
<1>2. CASE StartPublish
  BY <1>2 DEF StartPublish, writerVars, Live
<1>3. CASE StopCheck \/ StopWakeNull \/ StopReturn
  BY <1>3 DEF StopCheck, StopWakeNull, StopReturn, muxerVars, writerVars, Live
<1>4. CASE StopPost \/ DeleteBegin
  BY <1>4 DEF StopPost, DeleteBegin, writerVars, Live
<1>5. CASE StopWake
  BY <1>5, WakeKeeps DEF StopWake
<1>6. CASE SyncJoin
  BY <1>6 DEF SyncJoin, muxerVars, writerVars, Live
<1>7. CASE Destroy
  BY <1>7 DEF Destroy, AllJoined, writerVars, Live
<1>8. ASSUME NEW w \in Writers, StartCreate(w)
      PROVE  DeleteInv'
  BY <1>8 DEF StartCreate, muxerVars, Live, WriterStates
<1>9. ASSUME NEW w \in Writers, SyncPick(w)
      PROVE  DeleteInv'
  BY <1>9 DEF SyncPick, muxerVars, writerVars, Live
<1> QED BY <1>1, <1>2, <1>3, <1>4, <1>5, <1>6, <1>7, <1>8, <1>9 DEF Control

LEMMA PushDelete ==
  ASSUME DeleteInv, PushVideo \/ PushAudio
  PROVE  DeleteInv'
<1>1. /\ pc' = WakeWriter
      /\ UNCHANGED <<w_tid_list, ctl, joining>>
  BY Zenon DEF PushVideo, PushAudio, push_packet
<1> QED BY <1>1, WakeKeeps DEF DeleteInv, PcType, LiveListed, NoneListed, Listed

LEMMA NextDelete == DeleteInv /\ [Next]_vars => DeleteInv'
<1> SUFFICES ASSUME DeleteInv, [Next]_vars PROVE DeleteInv'
  OBVIOUS
<1>1. CASE Control
  BY <1>1, ControlDelete
<1>2. ASSUME NEW g, StopRequest(g)
      PROVE  DeleteInv'
  BY <1>2 DEF StopRequest, writerVars, DeleteInv, PcType, LiveListed, NoneListed,
              Listed, Live
<1>3. CASE PushVideo \/ PushAudio
  BY <1>3, PushDelete
<1>4. ASSUME NEW w \in Writers, Writer(w)
      PROVE  DeleteInv'
  BY <1>4, WriterDelete
<1>5. CASE UNCHANGED vars
  BY <1>5 DEF vars, muxerVars, ctlVars, writerVars, DeleteInv, PcType, LiveListed,
              NoneListed, Listed, Live
<1> QED BY <1>1, <1>2, <1>3, <1>4, <1>5 DEF Next, Done

\* ~CameraMuxer returns only when no writer thread can touch the muxer any
\* more (camera_muxer.cpp: sync_jobs_complete, thread_end of muxer_process),
\* whatever the number of threads, jobs and packets.
THEOREM MuxerOutlivesWriters == Spec => []NoUseAfterDelete
<1>1. DeleteInv => NoUseAfterDelete
  BY DEF DeleteInv, LiveListed, NoneListed, NoUseAfterDelete, Listed
<1> QED BY InitDelete, NextDelete, <1>1, PTL DEF Spec

-----------------------------------------------------------------------------
(* The writer in charge.                                                   *)

Exits == {"NORMAL", "FLUSH", "IMMEDIATE"}
Message == [id : Exits \cup {"START", "none"}, job : 0..MaxJobs]
Item == Packet \cup {empty_packet}

MuxerType ==
  /\ exit_id \in Exits
  /\ packet_list \in Seq(Item) \cup {NoPtr}
  /\ msg_queue \in Seq(Message)
  /\ attached \in BOOLEAN /\ notified \in BOOLEAN /\ failed \in BOOLEAN
  /\ pc \in [Writers -> WriterStates]
  /\ msg \in [Writers -> Message]
  /\ hand \in [Writers -> Item]
  /\ private \in [Writers -> Seq(Item)]
  /\ out \in [Writers -> 0..MaxJobs]
  /\ jobs \in 0..MaxJobs /\ pushed \in 0..MaxPackets
  /\ file \in [1..MaxJobs -> Seq(Item)]
  /\ closedBy \in [1..MaxJobs -> Exits \cup {"open", "START", "none"}]

\* A writer that takes packets from the shared list, or may yet do so.
Reading(w) ==
  pc[w] \in {"check", "getmsg", "init", "take", "pop", "blocked", "woken", "write"}
\* A writer that stop_current_job waits for.
Flushing(w) == pc[w] \in {"drain", "tailer", "flushed"} /\ msg[w].id = "FLUSH"
Answering(w) == pc[w] \in {"take", "notify"} \/ Flushing(w)
\* The writer in charge: the one that has not answered its stop.
Current(w) == Reading(w) \/ Answering(w)

Busy == ctl \in {"inited", "creating", "running", "stopping", "posting"}
Quiet == ctl \in {"none", "inited", "stopped", "syncing", "joining"}
Ended == ctl \in {"waking", "waiting", "crashed"}
Begun == ctl # "none" => jobs # 0

OneCurrent == \A v, w \in Writers : Current(v) /\ Current(w) => v = w
NoneCurrent == Quiet \/ notified => \A w \in Writers : ~Current(w)
NotifiedWaits == notified => ctl = "waiting" /\ msg_queue = <<>>
TidSet == /\ ctl \in {"running", "stopping", "posting"} => write_tid # NoThread
          /\ ctl = "creating" => joining \in Writers
AttachedRuns == attached <=> ctl = "running"
\* Which message a writer holds, and that the exit is the last one queued.
NoMsg == \A w \in Writers :
  pc[w] \in {"check", "getmsg", "pop", "blocked", "woken", "write"} => msg[w] = NoMessage
StateMsg == \A w \in Writers :
  /\ pc[w] = "init" => msg[w].id = "START"
  /\ pc[w] = "notify" => msg[w].id \in {"NORMAL", "IMMEDIATE"}
  /\ pc[w] = "flushed" => msg[w].id = "FLUSH"
ExitMessage == [id |-> exit_id, job |-> 0]
ExitLast == \A i \in 1..Len(msg_queue) :
  \/ msg_queue[i].id = "START"
  \/ msg_queue[i] = ExitMessage /\ i = Len(msg_queue) /\ Ended
AnswerEnded == \A w \in Writers :
  Answering(w) => Ended /\ msg_queue = <<>> /\ msg[w].id = exit_id
\* The shared list is there while anybody uses it.
ListThere == packet_list = NoPtr => ~Busy /\ \A w \in Writers : ~Reading(w)

ChargeInv ==
  /\ Begun /\ OneCurrent /\ NoneCurrent /\ NotifiedWaits /\ TidSet /\ AttachedRuns
  /\ NoMsg /\ StateMsg /\ ExitLast /\ AnswerEnded /\ ListThere /\ NoPopFromEmpty
ControlInv == MuxerType /\ DeleteInv /\ ChargeInv

LEMMA InitCharge == Init => MuxerType /\ ChargeInv
<1> SUFFICES ASSUME Init PROVE MuxerType /\ ChargeInv
  OBVIOUS
<1>1. /\ exit_id \in Exits /\ packet_list = NoPtr /\ msg_queue = <<>>
      /\ ctl = "none" /\ attached = FALSE /\ notified = FALSE /\ failed = FALSE
      /\ pc = [w \in Writers |-> "free"] /\ msg = [w \in Writers |-> NoMessage]
      /\ hand = [w \in Writers |-> empty_packet] /\ private = [w \in Writers |-> <<>>]
      /\ out = [w \in Writers |-> 0] /\ jobs = 0 /\ pushed = 0
      /\ file = [j \in 1..MaxJobs |-> <<>>]
      /\ closedBy = [j \in 1..MaxJobs |-> "open"]
  BY ConstantsAssumption DEF Init, Exits
<1>2. NoMessage \in Message /\ empty_packet \in Item
  BY ConstantsAssumption DEF NoMessage, Message, Item
<1>3. MuxerType
  <2>1. /\ exit_id \in Exits /\ packet_list \in Seq(Item) \cup {NoPtr}
        /\ msg_queue \in Seq(Message)
    BY <1>1
  <2>2. attached \in BOOLEAN /\ notified \in BOOLEAN /\ failed \in BOOLEAN
    BY <1>1
  <2>3. /\ pc \in [Writers -> WriterStates] /\ msg \in [Writers -> Message]
        /\ hand \in [Writers -> Item] /\ private \in [Writers -> Seq(Item)]
        /\ out \in [Writers -> 0..MaxJobs]
    BY <1>1, <1>2, ConstantsAssumption DEF WriterStates
  <2>4. jobs \in 0..MaxJobs /\ pushed \in 0..MaxPackets
    BY <1>1, ConstantsAssumption
  <2>5. /\ file \in [1..MaxJobs -> Seq(Item)]
        /\ closedBy \in [1..MaxJobs -> Exits \cup {"open", "START", "none"}]
    BY <1>1, ConstantsAssumption
  <2> QED BY <2>1, <2>2, <2>3, <2>4, <2>5 DEF MuxerType
<1>4. \A w \in Writers : pc[w] = "free"
  BY <1>1
<1>5. Begun /\ NotifiedWaits /\ TidSet /\ AttachedRuns /\ ExitLast
  BY <1>1 DEF Begun, NotifiedWaits, TidSet, AttachedRuns, ExitLast
<1>6. OneCurrent /\ NoneCurrent /\ NoMsg /\ StateMsg /\ AnswerEnded /\ ListThere
        /\ NoPopFromEmpty
  BY <1>1, <1>4 DEF OneCurrent, NoneCurrent, NoMsg, StateMsg, AnswerEnded, ListThere,
     NoPopFromEmpty, Current, Reading, Answering, Flushing, Busy
<1> QED BY <1>3, <1>5, <1>6 DEF ChargeInv

\* Packet lists and their parts: none is NoPtr.
LEMMA ListsTyped ==
  ASSUME NEW s \in Seq(Item)
  PROVE  s # NoPtr
<1> DEFINE All == [n : Nat, kind : {"key", "delta", "audio", "empty"}, job : Nat]
<1>1. Item \subseteq All
  BY ConstantsAssumption DEF Item, Packet, empty_packet
<1>2. s \in Seq(All)
  <2> HIDE DEF All
  <2> QED BY <1>1, Z3
<1> QED BY <1>2, ConstantsAssumption

\* What a step of writer w does, as far as the charge is concerned.
WriterCharge(w) ==
  /\ UNCHANGED <<exit_id, write_tid, ctl, attached, joining, jobs>>
  /\ \A v \in Writers \ {w} : pc'[v] = pc[v] /\ msg'[v] = msg[v]
  /\ Current(w)' => Current(w)
  /\ Reading(w)' => Reading(w)
  /\ notified' # notified => notified' = TRUE /\ ctl = "waiting" /\ Answering(w) /\ ~Current(w)'
  /\ packet_list' # packet_list => Reading(w)
  /\ packet_list' = NoPtr => packet_list = NoPtr \/ (pc[w] = "take" /\ ~Reading(w)')
  /\ pc'[w] # "woken"
  /\ pc'[w] \in {"check", "getmsg", "pop", "blocked", "woken", "write"} => msg'[w] = NoMessage
  /\ pc'[w] = "init" => msg'[w].id = "START"
  /\ pc'[w] = "notify" => msg'[w].id \in {"NORMAL", "IMMEDIATE"}
  /\ pc'[w] = "flushed" => msg'[w].id = "FLUSH"
  /\ \/ msg_queue' = msg_queue /\ (Answering(w)' => Answering(w) /\ msg'[w] = msg[w])
     \/ /\ Current(w) /\ ~Answering(w)
        /\ msg_queue # <<>> /\ msg_queue' = Tail(msg_queue)
        /\ msg'[w] = Head(msg_queue)
        /\ Answering(w)' => Head(msg_queue).id # "START"

LEMMA WriterChargeStep ==
  ASSUME MuxerType, ChargeInv, NEW w \in Writers, Writer(w)
  PROVE  WriterCharge(w)
<1> USE DEF MuxerType, WriterCharge, Current, Reading, Answering, Flushing, Goto,
            WriterStates
<1>a. /\ pc[w] \in {"check", "getmsg", "pop", "blocked", "woken", "write"} =>
           msg[w] = NoMessage
      /\ pc[w] = "init" => msg[w].id = "START"
      /\ pc[w] = "notify" => msg[w].id \in {"NORMAL", "IMMEDIATE"}
      /\ pc[w] = "flushed" => msg[w].id = "FLUSH"
  BY DEF ChargeInv, NoMsg, StateMsg
<1>1. CASE Check(w)
  BY <1>1, <1>a DEF Check, muxerVars, ctlVars, NoMessage
<1>2. CASE GetMessage(w)
  <2>1. CASE msg_queue = <<>>
    BY <1>2, <2>1, <1>a DEF GetMessage, ctlVars
  <2>2. CASE msg_queue # <<>>
    <3>1. Head(msg_queue) \in Message
      BY <2>2
    <3> QED BY <1>2, <2>2, <3>1, <1>a DEF GetMessage, ctlVars
  <2> QED BY <2>1, <2>2
<1>3. CASE MuxerInit(w)
  BY <1>3 DEF MuxerInit, muxerVars, ctlVars
<1>4. CASE MuxerInitFails(w)
  BY <1>4 DEF MuxerInitFails, ctlVars
<1>5. CASE TakeList(w)
  BY <1>5 DEF TakeList, AfterTake, ctlVars
<1>6. CASE Notify(w)
  <2>1. /\ ctl = "waiting" /\ notified' = TRUE /\ msg' = msg /\ pc[w] = "notify"
        /\ pc' = [pc EXCEPT ![w] = IF msg[w].id = "NORMAL" THEN "drain" ELSE "tailer"]
        /\ UNCHANGED <<exit_id, write_tid, ctl, attached, joining, jobs, packet_list,
                       msg_queue>>
    BY <1>6 DEF Notify, muxerVars
  <2>2. pc'[w] \in {"drain", "tailer"} /\ ~Flushing(w)'
    BY <2>1, <1>a
  <2> QED BY <2>1, <2>2
<1>7. CASE Block(w)
  BY <1>7, <1>a DEF Block, muxerVars, ctlVars
<1>8. CASE Pop(w)
  <2>1. packet_list \in Seq(Item) /\ packet_list # <<>>
    BY <1>8 DEF Pop
  <2>2. Tail(packet_list) \in Seq(Item)
    BY <2>1
  <2>3. Tail(packet_list) # NoPtr
    BY <2>2, ListsTyped
  <2> QED BY <1>8, <1>a, <2>3 DEF Pop, AfterPop, ctlVars
<1>9. CASE Write(w)
  BY <1>9, <1>a DEF Write, muxerVars, ctlVars
<1>10. CASE Drain(w)
  BY <1>10 DEF Drain, muxerVars, ctlVars
<1>11. CASE Drained(w)
  BY <1>11 DEF Drained, muxerVars, ctlVars
<1>12. CASE Tailer(w)
  BY <1>12 DEF Tailer, muxerVars, ctlVars
<1>13. CASE NotifyFlushed(w)
  <2>1. /\ ctl = "waiting" /\ notified' = TRUE /\ msg' = msg /\ pc[w] = "flushed"
        /\ pc' = [pc EXCEPT ![w] = "end"]
        /\ UNCHANGED <<exit_id, write_tid, ctl, attached, joining, jobs, packet_list,
                       msg_queue>>
    BY <1>13 DEF NotifyFlushed, muxerVars
  <2> QED BY <2>1, <1>a
<1>14. CASE End(w)
  BY <1>14 DEF End, ctlVars
<1>15. CASE Detach(w)
  BY <1>15 DEF Detach, muxerVars, ctlVars
<1> QED BY <1>1, <1>2, <1>3, <1>4, <1>5, <1>6, <1>7, <1>8, <1>9, <1>10, <1>11,
           <1>12, <1>13, <1>14, <1>15 DEF Writer

LEMMA WriterKeepsCharge ==
  ASSUME ControlInv, NEW w \in Writers, Writer(w)
  PROVE  ChargeInv'
<1> USE DEF ControlInv, ChargeInv
<1>1. WriterCharge(w)
  BY WriterChargeStep
<1>2. \A v \in Writers \ {w} :
        /\ Reading(v)' <=> Reading(v)
        /\ Answering(v)' <=> Answering(v)
        /\ Current(v)' <=> Current(v)
  <2> SUFFICES ASSUME NEW v \in Writers \ {w}
               PROVE  /\ Reading(v)' <=> Reading(v)
                      /\ Answering(v)' <=> Answering(v)
                      /\ Current(v)' <=> Current(v)
    OBVIOUS
  <2>1. pc'[v] = pc[v] /\ msg'[v] = msg[v]
    BY <1>1 DEF WriterCharge
  <2> QED BY <2>1 DEF Current, Reading, Answering, Flushing
<1>3. OneCurrent'
  <2> SUFFICES ASSUME NEW u \in Writers, NEW v \in Writers, Current(u)', Current(v)'
               PROVE  u = v
    BY DEF OneCurrent
  <2>1. Current(u) /\ Current(v)
    BY <1>1, <1>2 DEF WriterCharge
  <2> QED BY <2>1 DEF OneCurrent
<1>4. NoneCurrent'
  <2> SUFFICES ASSUME (Quiet \/ notified)', NEW v \in Writers PROVE ~Current(v)'
    BY DEF NoneCurrent
  <2>1. CASE Quiet \/ notified
    BY <2>1, <1>1, <1>2 DEF NoneCurrent, WriterCharge
  <2>2. CASE ~(Quiet \/ notified)
    <3>1. Answering(w) /\ ~Current(w)'
      BY <2>2, <1>1 DEF Quiet, WriterCharge
    <3> QED BY <3>1, <1>2 DEF OneCurrent, Current
  <2> QED BY <2>1, <2>2
<1>5. NotifiedWaits'
  <2> SUFFICES ASSUME notified' PROVE (ctl = "waiting" /\ msg_queue = <<>>)'
    BY DEF NotifiedWaits
  <2>1. CASE notified
    BY <2>1, <1>1 DEF NotifiedWaits, WriterCharge
  <2>2. CASE ~notified
    BY <2>2, <1>1 DEF AnswerEnded, WriterCharge
  <2> QED BY <2>1, <2>2
<1>6. TidSet' /\ AttachedRuns' /\ Begun'
  BY <1>1 DEF TidSet, AttachedRuns, Begun, WriterCharge
<1>7. NoMsg' /\ StateMsg'
  BY <1>1 DEF NoMsg, StateMsg, WriterCharge
<1>8. ExitLast'
  <2>1. CASE msg_queue' = msg_queue
    BY <2>1, <1>1 DEF ExitLast, ExitMessage, Ended, WriterCharge
  <2>2. CASE msg_queue # <<>> /\ msg_queue' = Tail(msg_queue)
    <3> SUFFICES ASSUME NEW i \in 1..Len(Tail(msg_queue))
                 PROVE  \/ Tail(msg_queue)[i].id = "START"
                        \/ /\ Tail(msg_queue)[i] = ExitMessage
                           /\ i = Len(Tail(msg_queue)) /\ Ended
      BY <2>2, <1>1 DEF ExitLast, ExitMessage, Ended, WriterCharge
    <3>1. /\ i + 1 \in 1..Len(msg_queue) /\ Tail(msg_queue)[i] = msg_queue[i + 1]
          /\ Len(Tail(msg_queue)) = Len(msg_queue) - 1
      BY <2>2 DEF MuxerType
    <3> QED BY <3>1 DEF ExitLast
  <2> QED BY <2>1, <2>2, <1>1 DEF WriterCharge
<1>9. AnswerEnded'
  <2> SUFFICES ASSUME NEW v \in Writers, Answering(v)'
               PROVE  (Ended /\ msg_queue = <<>> /\ msg[v].id = exit_id)'
    BY DEF AnswerEnded
  <2>1. CASE v = w /\ msg_queue' = msg_queue /\ Answering(w) /\ msg'[w] = msg[w]
    BY <2>1, <1>1 DEF AnswerEnded, Ended, WriterCharge
  <2>2. CASE /\ v = w /\ msg_queue # <<>> /\ msg_queue' = Tail(msg_queue)
             /\ msg'[w] = Head(msg_queue) /\ Head(msg_queue).id # "START"
    <3>1. Head(msg_queue) = msg_queue[1] /\ 1 \in 1..Len(msg_queue)
      BY <2>2 DEF MuxerType
    <3>2. msg_queue[1] = ExitMessage /\ Len(msg_queue) = 1 /\ Ended
      BY <2>2, <3>1 DEF ExitLast
    <3>3. Tail(msg_queue) = <<>>
      BY <2>2, <3>2 DEF MuxerType
    <3> QED BY <2>2, <3>1, <3>2, <3>3, <1>1 DEF ExitMessage, Ended, WriterCharge
  <2>3. CASE v # w
    <3>1. Answering(v)
      BY <2>3, <1>2
    <3>2. ~Current(w)
      BY <3>1, <2>3 DEF OneCurrent, Current
    <3>3. msg_queue' = msg_queue
      BY <3>2, <1>1 DEF WriterCharge
    <3> QED BY <3>1, <3>3, <2>3, <1>1 DEF AnswerEnded, Ended, WriterCharge
  <2> QED BY <2>1, <2>2, <2>3, <1>1 DEF WriterCharge
<1>10. ListThere'
  <2> SUFFICES ASSUME packet_list' = NoPtr
               PROVE  ~Busy' /\ \A v \in Writers : ~Reading(v)'
    BY DEF ListThere
  <2>1. CASE packet_list = NoPtr
    BY <2>1, <1>1, <1>2 DEF ListThere, Busy, WriterCharge
  <2>2. CASE pc[w] = "take" /\ ~Reading(w)'
    <3>2. ~Busy
      BY <2>2 DEF AnswerEnded, Answering, Ended, Busy
    <3> QED BY <2>2, <3>2, <1>1, <1>2 DEF OneCurrent, Current, Reading, Busy, WriterCharge
  <2> QED BY <2>1, <2>2, <1>1 DEF WriterCharge
<1>11. NoPopFromEmpty'
  <2> SUFFICES ASSUME NEW v \in Writers, pc'[v] = "woken"
               PROVE  packet_list' \notin {NoPtr, <<>>}
    BY DEF NoPopFromEmpty
  <2>1. v # w /\ pc[v] = "woken"
    BY <1>1 DEF WriterCharge
  <2>2. ~Reading(w)
    BY <2>1 DEF OneCurrent, Current, Reading
  <2> QED BY <2>1, <2>2, <1>1 DEF NoPopFromEmpty, WriterCharge
<1> QED BY <1>3, <1>4, <1>5, <1>6, <1>7, <1>8, <1>9, <1>10, <1>11

\* Steps of the controlling thread and the pushes, which leave every writer where
\* it is, or wake it.
WritersStay ==
  /\ msg' = msg
  /\ pc' = pc \/ pc' = WakeWriter

LEMMA StayCharge ==
  ASSUME MuxerType, WritersStay, NEW w \in Writers
  PROVE  /\ Reading(w)' <=> Reading(w)
         /\ Answering(w)' <=> Answering(w)
         /\ Current(w)' <=> Current(w)
<1>1. msg'[w] = msg[w]
  BY DEF WritersStay
<1>2. pc'[w] = pc[w] \/ (pc[w] = "blocked" /\ pc'[w] = "woken")
  BY DEF WritersStay, WakeWriter
<1> QED BY <1>1, <1>2 DEF Reading, Answering, Flushing, Current

\* The four parts that speak only of what the writers hold.
LEMMA StayMessages ==
  ASSUME ControlInv, WritersStay
  PROVE  /\ OneCurrent' /\ NoMsg' /\ StateMsg'
         /\ (notified' => notified) /\ (Quiet' => Quiet) => NoneCurrent'
<1>1. OneCurrent'
  <2> SUFFICES ASSUME NEW u \in Writers, NEW v \in Writers, Current(u)', Current(v)'
               PROVE  u = v
    BY DEF OneCurrent
  <2> QED BY StayCharge DEF ControlInv, ChargeInv, OneCurrent
<1>2. NoMsg' /\ StateMsg'
  <2> SUFFICES ASSUME NEW w \in Writers
               PROVE  /\ pc'[w] \in {"check", "getmsg", "pop", "blocked", "woken", "write"}
                           => msg'[w] = NoMessage
                      /\ pc'[w] = "init" => msg'[w].id = "START"
                      /\ pc'[w] = "notify" => msg'[w].id \in {"NORMAL", "IMMEDIATE"}
                      /\ pc'[w] = "flushed" => msg'[w].id = "FLUSH"
    BY DEF NoMsg, StateMsg, NoMessage
  <2>1. msg'[w] = msg[w]
    BY DEF WritersStay
  <2>2. pc'[w] = pc[w] \/ (pc[w] = "blocked" /\ pc'[w] = "woken")
    BY DEF WritersStay, WakeWriter
  <2> QED BY <2>1, <2>2 DEF ControlInv, ChargeInv, NoMsg, StateMsg
<1>3. ASSUME notified' => notified, Quiet' => Quiet
      PROVE  NoneCurrent'
  <2> SUFFICES ASSUME Quiet' \/ notified', NEW w \in Writers
               PROVE  ~Current(w)'
    BY DEF NoneCurrent
  <2> QED BY <1>3, StayCharge DEF ControlInv, ChargeInv, NoneCurrent
<1> QED BY <1>1, <1>2, <1>3

LEMMA InitUriCharge ==
  ASSUME ControlInv, InitUri
  PROVE  ChargeInv'
<1> USE DEF ControlInv, ChargeInv
<1>1. /\ ctl \in {"none", "stopped"} /\ ctl' = "inited"
      /\ jobs \in Nat /\ jobs' = jobs + 1
      /\ packet_list' # NoPtr
      /\ msg_queue' = Append(msg_queue, [id |-> "START", job |-> jobs + 1])
      /\ UNCHANGED <<write_tid, attached, joining, notified, pc, msg>>
  <2>1. <<>> \in Seq(Item)
    OBVIOUS
  <2>2. <<>> # NoPtr
    BY <2>1, ListsTyped
  <2> QED BY <2>2 DEF InitUri, MuxerType, writerVars
<1>2. WritersStay
  BY <1>1 DEF WritersStay
<1>3. \A w \in Writers : ~Current(w)'
  BY <1>1, <1>2, StayCharge DEF NoneCurrent, Quiet
<1>4. OneCurrent' /\ NoMsg' /\ StateMsg'
  BY <1>2, StayMessages
<1>5. Begun' /\ NotifiedWaits' /\ TidSet' /\ AttachedRuns' /\ NoneCurrent'
  BY <1>1, <1>3 DEF Begun, NotifiedWaits, TidSet, AttachedRuns, NoneCurrent
<1>6. ExitLast'
  <2> SUFFICES ASSUME NEW i \in 1..Len(msg_queue') PROVE msg_queue'[i].id = "START"
    BY DEF ExitLast
  <2> QED BY <1>1 DEF ExitLast, Ended, MuxerType
<1>7. AnswerEnded' /\ ListThere' /\ NoPopFromEmpty'
  BY <1>1, <1>3 DEF AnswerEnded, ListThere, NoPopFromEmpty, Current, Reading
<1> QED BY <1>4, <1>5, <1>6, <1>7

LEMMA StartCreateCharge ==
  ASSUME ControlInv, NEW w \in Writers, StartCreate(w)
  PROVE  ChargeInv'
<1> USE DEF ControlInv, ChargeInv
<1>1. /\ ctl = "inited" /\ ctl' = "creating" /\ joining' = w
      /\ pc[w] = "free" /\ pc' = [pc EXCEPT ![w] = "check"]
      /\ msg' = [msg EXCEPT ![w] = NoMessage]
      /\ UNCHANGED <<exit_id, packet_list, msg_queue, write_tid, attached, notified, jobs>>
  BY DEF StartCreate, muxerVars
<1>2. \A v \in Writers : ~Current(v)
  BY <1>1 DEF NoneCurrent, Quiet
<1>3. ~notified
  BY <1>1 DEF NotifiedWaits
<1>4. \A v \in Writers \ {w} : pc'[v] = pc[v] /\ msg'[v] = msg[v]
  BY <1>1 DEF MuxerType
<1>5. pc'[w] = "check" /\ msg'[w] = NoMessage
  BY <1>1 DEF MuxerType
<1>6. \A v \in Writers : v # w => ~Current(v)'
  BY <1>2, <1>4 DEF Current, Reading, Answering, Flushing
<1>7. OneCurrent' /\ NoneCurrent'
  BY <1>1, <1>3, <1>6 DEF OneCurrent, NoneCurrent, Quiet
<1>8. NoMsg' /\ StateMsg'
  BY <1>4, <1>5 DEF NoMsg, StateMsg, NoMessage
<1>9. Begun' /\ NotifiedWaits' /\ TidSet' /\ AttachedRuns'
  BY <1>1, <1>3 DEF Begun, NotifiedWaits, TidSet, AttachedRuns
<1>10. ExitLast'
  BY <1>1 DEF ExitLast, ExitMessage, Ended
<1>11. AnswerEnded' /\ ListThere' /\ NoPopFromEmpty'
  <2>1. ~Answering(w)'
    BY <1>5 DEF Answering, Flushing
  <2>2. packet_list # NoPtr
    BY <1>1 DEF ListThere, Busy
  <2>3. \A v \in Writers : ~Answering(v)'
    BY <1>6, <2>1 DEF Current
  <2>4. \A v \in Writers : pc'[v] # "woken"
    BY <1>6, <1>5 DEF Current, Reading
  <2> QED BY <1>1, <2>2, <2>3, <2>4 DEF AnswerEnded, ListThere, NoPopFromEmpty
<1> QED BY <1>7, <1>8, <1>9, <1>10, <1>11

\* The controlling thread goes on inside a call: only ctl, and what it says of
\* the thread, changes.
LEMMA GoOnCharge ==
  ASSUME ControlInv,
         UNCHANGED <<packet_list, msg_queue, pc, msg, jobs>>,
         \/ StartPublish \/ (\E g \in {"restart", "delete"} : StopRequest(g))
         \/ StopCheck \/ StopWakeNull \/ StopReturn \/ DeleteBegin \/ SyncJoin
         \/ \E w \in Writers : SyncPick(w)
  PROVE  ChargeInv'
<1> USE DEF ControlInv, ChargeInv
<1>1. WritersStay
  BY DEF WritersStay
<1>2. OneCurrent' /\ NoMsg' /\ StateMsg'
  BY <1>1, StayMessages
<1>3. NoPopFromEmpty'
  BY DEF NoPopFromEmpty
<1>4. CASE StartPublish \/ (\E g \in {"restart", "delete"} : StopRequest(g))
  <2>1. /\ \/ ctl = "creating" /\ ctl' = "running" /\ write_tid' = joining /\ attached' = TRUE
           \/ ctl = "running" /\ ctl' = "stopping" /\ write_tid' = write_tid /\ attached' = FALSE
        /\ notified' = notified
    BY <1>4 DEF StartPublish, StopRequest
  <2>2. Begun' /\ NotifiedWaits' /\ TidSet' /\ AttachedRuns'
    BY <2>1, ConstantsAssumption DEF Begun, NotifiedWaits, TidSet, AttachedRuns
  <2>3. NoneCurrent'
    BY <2>1, <1>1, StayMessages DEF Quiet
  <2>4. \A i \in 1..Len(msg_queue) : msg_queue[i].id = "START"
    BY <2>1 DEF ExitLast, Ended
  <2>5. \A w \in Writers : ~Answering(w)'
    BY <2>1, <1>1, StayCharge DEF AnswerEnded, Ended
  <2>6. ExitLast' /\ AnswerEnded'
    BY <2>4, <2>5 DEF ExitLast, AnswerEnded
  <2>7. ListThere'
    BY <2>1 DEF ListThere, Busy
  <2> QED BY <1>2, <1>3, <2>2, <2>3, <2>6, <2>7
<1>5. CASE StopCheck
  <2>1. /\ ctl = "stopping"
        /\ ctl' = IF NothingToStop THEN "stopped" ELSE "posting"
        /\ UNCHANGED <<exit_id, write_tid, attached, joining, notified>>
    BY <1>5 DEF StopCheck, muxerVars
  <2>2. Begun' /\ NotifiedWaits' /\ TidSet' /\ AttachedRuns'
    BY <2>1 DEF Begun, NotifiedWaits, TidSet, AttachedRuns
  <2>3. ASSUME ctl' = "stopped", NEW w \in Writers PROVE ~Current(w)'
    <3>1. w_tid_list = {}
      BY <2>1, <2>3 DEF NothingToStop, TidSet
    <3>2. ~Live(w)
      BY <3>1, <2>1 DEF DeleteInv, LiveListed, Listed
    <3>3. ~Current(w)
      BY <3>2 DEF Live, Current, Reading, Answering, Flushing
    <3> QED BY <3>3, <1>1, StayCharge
  <2>4. NoneCurrent'
    BY <2>1, <2>3 DEF NoneCurrent, NotifiedWaits, Quiet
  <2>5. ~Ended
    BY <2>1 DEF Ended
  <2>6. \A w \in Writers : ~Answering(w)'
    BY <2>5, <1>1, StayCharge DEF AnswerEnded
  <2>7. ExitLast' /\ AnswerEnded'
    BY <2>5, <2>6 DEF ExitLast, AnswerEnded
  <2>8. ListThere'
    BY <2>1 DEF ListThere, Busy
  <2> QED BY <1>2, <1>3, <2>2, <2>4, <2>7, <2>8
<1>6. CASE StopWakeNull
  <2>1. /\ ctl = "waking" /\ ctl' = "crashed"
        /\ UNCHANGED <<exit_id, write_tid, attached, joining, notified>>
    BY <1>6 DEF StopWakeNull, muxerVars
  <2>2. Begun' /\ NotifiedWaits' /\ TidSet' /\ AttachedRuns'
    BY <2>1 DEF Begun, NotifiedWaits, TidSet, AttachedRuns
  <2>3. NoneCurrent'
    BY <2>1, <1>1, StayMessages DEF Quiet
  <2>4. ExitLast' /\ AnswerEnded' /\ ListThere'
    BY <2>1 DEF ExitLast, ExitMessage, AnswerEnded, Answering, Flushing, ListThere,
                Reading, Ended, Busy
  <2> QED BY <1>2, <1>3, <2>2, <2>3, <2>4
<1>7. CASE \/ StopReturn \/ DeleteBegin \/ SyncJoin \/ \E w \in Writers : SyncPick(w)
  <2>1. /\ (ctl = "waiting" /\ notified) \/ ctl \in {"stopped", "syncing", "joining"}
        /\ ctl' \in {"stopped", "syncing", "joining"}
        /\ notified' = FALSE /\ attached' = attached
    BY <1>7 DEF StopReturn, DeleteBegin, SyncJoin, SyncPick, NotifiedWaits
  <2>2. Begun' /\ NotifiedWaits' /\ TidSet' /\ AttachedRuns'
    BY <2>1 DEF Begun, NotifiedWaits, TidSet, AttachedRuns
  <2>3. \A w \in Writers : ~Current(w)'
    BY <2>1, <1>1, StayCharge DEF NoneCurrent, Quiet
  <2>4. NoneCurrent' /\ AnswerEnded'
    BY <2>3 DEF NoneCurrent, AnswerEnded, Current
  <2>5. ExitLast'
    BY <2>1 DEF ExitLast, NotifiedWaits, Ended
  <2>6. ListThere'
    BY <2>1, <2>3 DEF ListThere, Busy, Current
  <2> QED BY <1>2, <1>3, <2>2, <2>4, <2>5, <2>6
<1> QED BY <1>4, <1>5, <1>6, <1>7

LEMMA StopPostCharge ==
  ASSUME ControlInv, StopPost
  PROVE  ChargeInv'
<1> USE DEF ControlInv, ChargeInv
<1>1. /\ ctl = "posting" /\ ctl' = "waking" /\ notified' = FALSE
      /\ msg_queue' = Append(msg_queue, ExitMessage)
      /\ UNCHANGED <<exit_id, packet_list, attached, joining, pc, msg, jobs>>
  BY DEF StopPost, writerVars, ExitMessage
<1>2. WritersStay
  BY <1>1 DEF WritersStay
<1>3. OneCurrent' /\ NoMsg' /\ StateMsg' /\ NoneCurrent'
  BY <1>1, <1>2, StayMessages DEF Quiet
<1>4. Begun' /\ NotifiedWaits' /\ TidSet' /\ AttachedRuns'
  BY <1>1 DEF Begun, NotifiedWaits, TidSet, AttachedRuns
<1>5. ExitLast'
  <2> SUFFICES ASSUME NEW i \in 1..Len(msg_queue')
               PROVE  \/ msg_queue'[i].id = "START"
                      \/ msg_queue'[i] = ExitMessage /\ i = Len(msg_queue')
    BY <1>1 DEF ExitLast, ExitMessage, Ended
  <2>1. \A k \in 1..Len(msg_queue) : msg_queue[k].id = "START"
    BY <1>1 DEF ExitLast, Ended
  <2> QED BY <1>1, <2>1 DEF MuxerType
<1>6. \A w \in Writers : ~Answering(w)'
  BY <1>1, <1>2, StayCharge DEF AnswerEnded, Ended
<1>7. AnswerEnded' /\ ListThere' /\ NoPopFromEmpty'
  BY <1>1, <1>6 DEF AnswerEnded, ListThere, Reading, NoPopFromEmpty, Busy
<1> QED BY <1>3, <1>4, <1>5, <1>7

\* A packet is put at the end of the list and the writer is woken.
LEMMA AppendCharge ==
  ASSUME ControlInv,
         NEW s \in Seq(Item), NEW p \in Item, packet_list' = Append(s, p),
         pc' = WakeWriter, msg' = msg, notified' = notified, attached' = attached,
         \/ ctl = "waking" /\ ctl' = "waiting"
         \/ ctl = "running" /\ ctl' = ctl,
         UNCHANGED <<exit_id, msg_queue, write_tid, joining, jobs>>
  PROVE  ChargeInv'
<1> USE DEF ControlInv, ChargeInv
<1>1. WritersStay
  BY DEF WritersStay
<1>2. OneCurrent' /\ NoMsg' /\ StateMsg' /\ NoneCurrent'
  BY <1>1, StayMessages DEF Quiet
<1>3. Begun' /\ NotifiedWaits' /\ TidSet' /\ AttachedRuns'
  BY DEF Begun, NotifiedWaits, TidSet, AttachedRuns
<1>4. Ended' <=> Ended
  BY DEF Ended
<1>5. ExitLast'
  BY <1>4 DEF ExitLast, ExitMessage
<1>6. AnswerEnded'
  <2> SUFFICES ASSUME NEW w \in Writers, Answering(w)'
               PROVE  Ended' /\ msg_queue' = <<>> /\ msg'[w].id = exit_id'
    BY DEF AnswerEnded
  <2> QED BY <1>1, <1>4, StayCharge DEF AnswerEnded
<1>7. Append(s, p) \in Seq(Item) /\ Append(s, p) # <<>>
  BY AppendProperties
<1>8. packet_list' # NoPtr /\ packet_list' # <<>>
  BY <1>7, ListsTyped
<1>9. ListThere' /\ NoPopFromEmpty'
  BY <1>8 DEF ListThere, NoPopFromEmpty
<1> QED BY <1>2, <1>3, <1>5, <1>6, <1>9

\* What an overflow leaves of a list, and what it drops, are lists.
LEMMA DropTyped ==
  ASSUME NEW T, NEW s \in Seq(T)
  PROVE  DropTo(s) \in Seq(T) /\ Len(DropTo(s)) <= Len(s)
<1>1. CASE \E i \in DOMAIN s : IsSecondKey(s, i)
  <2> DEFINE i == CHOOSE i \in DOMAIN s : IsSecondKey(s, i)
  <2>1. i \in DOMAIN s
    BY <1>1
  <2>2. i \in 1..Len(s)
    BY <2>1
  <2>3. DropTo(s) = SubSeq(s, i, Len(s))
    BY <1>1 DEF DropTo
  <2> HIDE DEF i
  <2>4. /\ SubSeq(s, i, Len(s)) \in Seq(T)
        /\ Len(SubSeq(s, i, Len(s))) = Len(s) - i + 1
    BY <2>2, SubSeqProperties
  <2> QED BY <2>2, <2>3, <2>4
<1>2. CASE ~\E i \in DOMAIN s : IsSecondKey(s, i)
  <2>1. DropTo(s) = <<>>
    BY <1>2 DEF DropTo
  <2> QED BY <2>1
<1> QED BY <1>1, <1>2

\* What a push does to the list: the packet is put behind what is kept.
LEMMA PushAppends ==
  ASSUME ControlInv, NEW kind \in {"key", "delta", "audio"}, push_packet(kind)
  PROVE  \E s \in Seq(Item), p \in Packet :
           /\ packet_list \in Seq(Item) /\ jobs \in 1..MaxJobs
           /\ s = (IF Overflow THEN DropTo(packet_list) ELSE packet_list)
           /\ p = [n |-> pushed + 1, kind |-> kind, job |-> jobs]
           /\ packet_list' = Append(s, p)
<1> USE DEF ControlInv, ChargeInv, MuxerType
<1> DEFINE s == IF Overflow THEN DropTo(packet_list) ELSE packet_list
           p == [n |-> pushed + 1, kind |-> kind, job |-> jobs]
<1>1. attached /\ packet_list \in Seq(Item) /\ pushed < MaxPackets
  BY DEF push_packet
<1>2. jobs \in 1..MaxJobs
  BY <1>1, ConstantsAssumption DEF AttachedRuns, Begun
<1>3. p \in Packet
  BY <1>1, <1>2, ConstantsAssumption DEF Packet
<1>4. s \in Seq(Item)
  BY <1>1, DropTyped
<1>5. packet_list' = Append(s, p)
  BY DEF push_packet
<1> HIDE DEF s, p
<1> QED BY <1>1, <1>2, <1>3, <1>4, <1>5 DEF s, p

LEMMA PushCharge ==
  ASSUME ControlInv, PushVideo \/ PushAudio
  PROVE  ChargeInv'
<1>1. PICK kind \in {"key", "delta", "audio"} : push_packet(kind)
  BY DEF PushVideo, PushAudio
<1>2. PICK s \in Seq(Item), p \in Packet : packet_list' = Append(s, p)
  BY <1>1, PushAppends
<1>3. p \in Item
  BY DEF Item
<1>4. /\ ctl = "running" /\ pc' = WakeWriter
      /\ UNCHANGED <<ctl, msg, notified, attached, exit_id, msg_queue, write_tid, joining,
                     jobs>>
  BY <1>1 DEF push_packet, ControlInv, ChargeInv, AttachedRuns
<1> QED BY <1>2, <1>3, <1>4, AppendCharge

LEMMA DestroyCharge ==
  ASSUME ControlInv, Destroy
  PROVE  ChargeInv'
<1> USE DEF ControlInv, ChargeInv
<1>1. /\ ctl = "syncing" /\ ctl' = "none" /\ msg_queue' = <<>> /\ packet_list' = NoPtr
      /\ UNCHANGED <<exit_id, attached, joining, notified, pc, msg, jobs>>
  BY DEF Destroy, writerVars
<1>2. WritersStay
  BY <1>1 DEF WritersStay
<1>3. OneCurrent' /\ NoMsg' /\ StateMsg' /\ NoneCurrent'
  BY <1>1, <1>2, StayMessages DEF Quiet
<1>4. Begun' /\ NotifiedWaits' /\ TidSet' /\ AttachedRuns' /\ ExitLast'
  BY <1>1 DEF Begun, NotifiedWaits, TidSet, AttachedRuns, ExitLast
<1>5. \A w \in Writers : ~Current(w)'
  BY <1>1, <1>2, StayCharge DEF NoneCurrent, Quiet
<1>6. AnswerEnded' /\ ListThere' /\ NoPopFromEmpty'
  BY <1>1, <1>5 DEF AnswerEnded, ListThere, NoPopFromEmpty, Current, Reading, Busy
<1> QED BY <1>3, <1>4, <1>6

LEMMA ControlCharge ==
  ASSUME ControlInv, Control
  PROVE  ChargeInv'
<1>1. CASE InitUri
  BY <1>1, InitUriCharge
<1>2. ASSUME NEW w \in Writers, StartCreate(w) PROVE ChargeInv'
  BY <1>2, StartCreateCharge
<1>3. CASE StartPublish \/ StopCheck \/ StopWakeNull \/ StopReturn \/ DeleteBegin \/ SyncJoin
  <2>1. UNCHANGED <<packet_list, msg_queue, pc, msg, jobs>>
    BY <1>3 DEF StartPublish, StopCheck, StopWakeNull, StopReturn, DeleteBegin, SyncJoin,
                muxerVars, writerVars
  <2> QED BY <1>3, <2>1, GoOnCharge
<1>4. ASSUME NEW w \in Writers, SyncPick(w) PROVE ChargeInv'
  <2>1. UNCHANGED <<packet_list, msg_queue, pc, msg, jobs>>
    BY <1>4 DEF SyncPick, muxerVars, writerVars
  <2> QED BY <1>4, <2>1, GoOnCharge
<1>5. CASE StopPost
  BY <1>5, StopPostCharge
<1>6. CASE StopWake
  <2>1. packet_list \in Seq(Item)
    BY <1>6 DEF StopWake, ControlInv, MuxerType
  <2>2. empty_packet \in Item
    BY DEF Item
  <2>3. /\ packet_list' = Append(packet_list, empty_packet) /\ pc' = WakeWriter
        /\ ctl = "waking" /\ ctl' = "waiting"
        /\ UNCHANGED <<msg, notified, attached, exit_id, msg_queue, write_tid, joining, jobs>>
    BY <1>6 DEF StopWake, WithEmptyPacket
  <2> QED BY <2>1, <2>2, <2>3, AppendCharge
<1>7. CASE Destroy
  BY <1>7, DestroyCharge
<1> QED BY <1>1, <1>2, <1>3, <1>4, <1>5, <1>6, <1>7 DEF Control

LEMMA WriteType ==
  ASSUME MuxerType, NEW w \in Writers, NEW p \in Item, WriteFree(w, p)
  PROVE  file' \in [1..MaxJobs -> Seq(Item)]
<1>1. CASE out[w] = 0
  BY <1>1 DEF WriteFree, MuxerType
<1>2. CASE out[w] # 0
  <2>1. Append(file[out[w]], p) \in Seq(Item)
    BY <1>2, AppendProperties DEF MuxerType
  <2> QED BY <1>2, <2>1 DEF WriteFree, MuxerType
<1> QED BY <1>1, <1>2

LEMMA WriterType ==
  ASSUME ControlInv, NEW w \in Writers, Writer(w)
  PROVE  MuxerType'
<1> USE DEF MuxerType
<1>0. MuxerType
  BY DEF ControlInv
<1>a. pc' \in [Writers -> WriterStates]
  BY WriterDelete DEF ControlInv, DeleteInv, PcType
<1>1. CASE Check(w)
  BY <1>0, <1>1, <1>a DEF Check, muxerVars, ctlVars, dataVars
<1>2. CASE GetMessage(w)
  <2>1. CASE msg_queue = <<>>
    BY <1>0, <1>2, <1>a, <2>1 DEF GetMessage, ctlVars, dataVars, fileVars
  <2>2. CASE msg_queue # <<>>
    <3>1. Head(msg_queue) \in Message /\ Tail(msg_queue) \in Seq(Message)
      BY <1>0, <2>2, HeadTailProperties
    <3> QED BY <1>0, <1>2, <1>a, <2>2, <3>1 DEF GetMessage, ctlVars, dataVars, fileVars
  <2> QED BY <2>1, <2>2
<1>3. CASE MuxerInit(w)
  <2>1. msg[w].job \in 0..MaxJobs /\ NoMessage \in Message
    BY <1>0, ConstantsAssumption DEF Message, NoMessage
  <2> QED BY <1>0, <1>3, <1>a, <2>1 DEF MuxerInit, muxerVars, ctlVars, dataVars, fileVars
<1>4. CASE MuxerInitFails(w)
  BY <1>0, <1>4, <1>a DEF MuxerInitFails, ctlVars, dataVars
<1>5. CASE TakeList(w)
  <2>1. packet_list \in Seq(Item)
    BY <1>0, <1>5 DEF TakeList, ControlInv, ChargeInv, ListThere, Reading
  <2> QED BY <1>0, <1>5, <1>a, <2>1 DEF TakeList, ctlVars, dataVars, fileVars
<1>6. CASE Notify(w)
  BY <1>0, <1>6, <1>a DEF Notify, muxerVars, dataVars, fileVars
<1>7. CASE Block(w)
  BY <1>0, <1>7, <1>a DEF Block, muxerVars, ctlVars, dataVars, fileVars
<1>8. CASE Pop(w)
  <2>1. packet_list \in Seq(Item) /\ packet_list # <<>>
    BY <1>0, <1>8 DEF Pop
  <2>2. Head(packet_list) \in Item /\ Tail(packet_list) \in Seq(Item)
    BY <2>1, HeadTailProperties
  <2> QED BY <1>0, <1>8, <1>a, <2>2 DEF Pop, ctlVars, dataVars, fileVars
<1>9. CASE Write(w)
  <2>1. file' \in [1..MaxJobs -> Seq(Item)]
    BY <1>0, <1>9, WriteType DEF Write
  <2>2. empty_packet \in Item
    BY DEF Item
  <2> QED BY <1>0, <1>9, <1>a, <2>1, <2>2 DEF Write, WriteFree, muxerVars, ctlVars
<1>10. CASE Drain(w)
  <2>1. Head(private[w]) \in Item /\ Tail(private[w]) \in Seq(Item)
    BY <1>0, <1>10, HeadTailProperties DEF Drain
  <2>2. /\ file' \in [1..MaxJobs -> Seq(Item)]
        /\ UNCHANGED <<closedBy, failed, pushed>>
    BY <1>0, <1>10, <2>1, WriteType DEF Drain, WriteFree, dataVars, fileVars
  <2> QED BY <1>0, <1>10, <1>a, <2>1, <2>2 DEF Drain, muxerVars, ctlVars
<1>11. CASE Drained(w)
  BY <1>0, <1>11, <1>a DEF Drained, muxerVars, ctlVars, dataVars, fileVars
<1>12. CASE Tailer(w)
  <2>1. msg[w].id \in Exits \cup {"open", "START", "none"}
    BY <1>0 DEF Message
  <2> QED BY <1>0, <1>12, <1>a, <2>1 DEF Tailer, muxerVars, ctlVars, dataVars
<1>13. CASE NotifyFlushed(w)
  BY <1>0, <1>13, <1>a DEF NotifyFlushed, muxerVars, dataVars, fileVars
<1>14. CASE End(w)
  BY <1>0, <1>14, <1>a DEF End, ctlVars, dataVars, fileVars
<1>15. CASE Detach(w)
  BY <1>0, <1>15, <1>a DEF Detach, muxerVars, ctlVars, dataVars, fileVars
<1> QED BY <1>1, <1>2, <1>3, <1>4, <1>5, <1>6, <1>7, <1>8, <1>9, <1>10, <1>11,
           <1>12, <1>13, <1>14, <1>15 DEF Writer

LEMMA PushType ==
  ASSUME ControlInv, PushVideo \/ PushAudio
  PROVE  MuxerType'
<1> USE DEF MuxerType
<1>1. PICK kind \in {"key", "delta", "audio"} : push_packet(kind)
  BY DEF PushVideo, PushAudio
<1>2. PICK s \in Seq(Item), p \in Packet : packet_list' = Append(s, p)
  BY <1>1, PushAppends
<1>3. p \in Item
  BY DEF Item
<1>4. packet_list' \in Seq(Item)
  BY <1>2, <1>3, AppendProperties
<1>5. WakeWriter \in [Writers -> WriterStates]
  BY WakeKeeps DEF ControlInv, DeleteInv
<1>6. /\ pc' = WakeWriter /\ pushed' = pushed + 1 /\ pushed < MaxPackets
      /\ UNCHANGED <<exit_id, msg_queue, attached, notified, msg, hand, private, out, jobs,
                     file, closedBy, failed>>
  BY <1>1 DEF push_packet, fileVars
<1> QED BY <1>4, <1>5, <1>6, ConstantsAssumption DEF ControlInv

LEMMA ControlType ==
  ASSUME ControlInv, Control \/ \E g \in {"restart", "delete"} : StopRequest(g)
  PROVE  MuxerType'
<1> USE DEF MuxerType
<1>0. MuxerType
  BY DEF ControlInv
<1>1. CASE InitUri
  <2>1. [id |-> "START", job |-> jobs + 1] \in Message /\ jobs + 1 \in 0..MaxJobs
    BY <1>0, <1>1, ConstantsAssumption DEF InitUri, Message
  <2>2. Append(msg_queue, [id |-> "START", job |-> jobs + 1]) \in Seq(Message)
    BY <1>0, <2>1, AppendProperties
  <2>3. exit_id' \in Exits
    BY <1>0, <1>1, ConstantsAssumption DEF InitUri, Exits
  <2>4. packet_list' \in Seq(Item) \cup {NoPtr}
    BY <1>0, <1>1 DEF InitUri
  <2> QED BY <1>0, <1>1, <2>1, <2>2, <2>3, <2>4 DEF InitUri, writerVars, dataVars, fileVars
<1>2. ASSUME NEW w \in Writers, StartCreate(w) PROVE MuxerType'
  <2>1. NoMessage \in Message
    BY ConstantsAssumption DEF NoMessage, Message
  <2> QED BY <1>0, <1>2, <2>1, ConstantsAssumption
          DEF StartCreate, WriterStates, muxerVars, dataVars, fileVars
<1>3. CASE StartPublish \/ StopCheck \/ StopWakeNull \/ StopReturn \/ DeleteBegin \/ SyncJoin
  BY <1>0, <1>3 DEF StartPublish, StopCheck, StopWakeNull, StopReturn, DeleteBegin, SyncJoin,
     muxerVars, writerVars, dataVars, fileVars
<1>4. ASSUME NEW w \in Writers, SyncPick(w) PROVE MuxerType'
  BY <1>0, <1>4 DEF SyncPick, muxerVars, writerVars, dataVars, fileVars
<1>5. CASE StopPost
  <2>1. [id |-> exit_id, job |-> 0] \in Message
    BY <1>0, ConstantsAssumption DEF Message
  <2>2. Append(msg_queue, [id |-> exit_id, job |-> 0]) \in Seq(Message)
    BY <1>0, <2>1, AppendProperties
  <2> QED BY <1>0, <1>5, <2>2 DEF StopPost, writerVars, dataVars, fileVars
<1>6. CASE StopWake
  <2>1. packet_list \in Seq(Item) /\ empty_packet \in Item
    BY <1>0, <1>6 DEF StopWake, Item
  <2>2. Append(packet_list, empty_packet) \in Seq(Item)
    BY <2>1, AppendProperties
  <2>3. WakeWriter \in [Writers -> WriterStates]
    BY WakeKeeps DEF ControlInv, DeleteInv
  <2> QED BY <1>0, <1>6, <2>2, <2>3 DEF StopWake, WithEmptyPacket, dataVars, fileVars
<1>7. CASE Destroy
  BY <1>0, <1>7 DEF Destroy, writerVars, fileVars
<1>8. ASSUME NEW g \in {"restart", "delete"}, StopRequest(g) PROVE MuxerType'
  <2>1. exit_id' \in Exits
    BY <1>0, <1>8, ConstantsAssumption DEF StopRequest, Exits
  <2> QED BY <1>0, <1>8, <2>1 DEF StopRequest, writerVars, dataVars, fileVars
<1> QED BY <1>1, <1>2, <1>3, <1>4, <1>5, <1>6, <1>7, <1>8 DEF Control

LEMMA NextControl == ControlInv /\ [Next]_vars => ControlInv'
<1> SUFFICES ASSUME ControlInv, [Next]_vars PROVE ControlInv'
  OBVIOUS
<1>1. DeleteInv'
  BY NextDelete DEF ControlInv
<1>2. CASE Control
  BY <1>2, <1>1, ControlType, ControlCharge DEF ControlInv
<1>3. ASSUME NEW g \in {"restart", "delete"}, StopRequest(g)
      PROVE  ControlInv'
  <2>1. UNCHANGED <<packet_list, msg_queue, pc, msg, jobs>>
    BY <1>3 DEF StopRequest, writerVars
  <2>2. ChargeInv'
    BY <1>3, <2>1, GoOnCharge
  <2>3. MuxerType'
    BY <1>3, ControlType
  <2> QED BY <1>1, <2>2, <2>3 DEF ControlInv
<1>4. CASE PushVideo \/ PushAudio
  BY <1>4, <1>1, PushType, PushCharge DEF ControlInv
<1>5. ASSUME NEW w \in Writers, Writer(w)
      PROVE  ControlInv'
  BY <1>5, <1>1, WriterType, WriterKeepsCharge DEF ControlInv
<1>6. CASE UNCHANGED vars
  <2>1. WritersStay
    BY <1>6 DEF WritersStay, vars, writerVars
  <2>2. MuxerType'
    BY <1>6 DEF ControlInv, MuxerType, vars, muxerVars, ctlVars, writerVars, dataVars, fileVars
  <2>3. /\ UNCHANGED <<packet_list, msg_queue, exit_id, ctl, jobs, notified, attached, write_tid,
                      joining, pc>>
    BY <1>6 DEF vars, muxerVars, ctlVars, writerVars
  <2>4. OneCurrent' /\ NoMsg' /\ StateMsg' /\ NoneCurrent'
    BY <2>1, <2>3, StayMessages DEF Quiet
  <2>5. /\ Begun' /\ NotifiedWaits' /\ TidSet' /\ AttachedRuns' /\ ExitLast'
        /\ NoPopFromEmpty'
    BY <2>3 DEF ControlInv, ChargeInv, Begun, NotifiedWaits, TidSet, AttachedRuns, ExitLast,
       ExitMessage, Ended, NoPopFromEmpty
  <2>6. AnswerEnded' /\ ListThere'
    <3>1. \A w \in Writers : /\ Answering(w)' <=> Answering(w)
                             /\ Reading(w)' <=> Reading(w)
                             /\ msg'[w] = msg[w]
      BY <2>1, StayCharge DEF ControlInv, WritersStay
    <3> QED BY <2>3, <3>1 DEF ControlInv, ChargeInv, AnswerEnded, ListThere, Ended, Busy
  <2> QED BY <1>1, <2>2, <2>4, <2>5, <2>6 DEF ControlInv, ChargeInv
<1> QED BY <1>2, <1>3, <1>4, <1>5, <1>6 DEF Next, Done

\* A writer that was woken, by a push or by stop_current_job, finds a packet: the
\* front of the list it pops, without a second test, is there (wait_pop_packet),
\* for any number of writers, jobs and packets, starts that fail included.
THEOREM PopCorrect == Spec => []NoPopFromEmpty
<1>1. Init => ControlInv
  BY InitDelete, InitCharge DEF ControlInv
<1>2. ControlInv => NoPopFromEmpty
  BY DEF ControlInv, ChargeInv
<1> QED BY <1>1, NextControl, <1>2, PTL DEF Spec

-----------------------------------------------------------------------------
(* The START message of a job, and the file it opens.                      *)

\* The START message of job j is queued, or a writer is about to obey it.
StartOf(j) == [id |-> "START", job |-> j]
Starting(j) ==
  \/ \E i \in 1..Len(msg_queue) : msg_queue[i] = StartOf(j)
  \/ \E w \in Writers : pc[w] = "init" /\ msg[w] = StartOf(j)

\* START messages are obeyed in the order of their jobs, each once: a file is
\* opened once, by one writer.
StartOrdered ==
  /\ \A i, k \in 1..Len(msg_queue) :
       i < k /\ msg_queue[i].id = "START" /\ msg_queue[k].id = "START"
         => msg_queue[i].job < msg_queue[k].job
  /\ \A w \in Writers : \A i \in 1..Len(msg_queue) :
       pc[w] = "init" /\ msg_queue[i].id = "START" => msg[w].job < msg_queue[i].job
OutOrdered ==
  \A w \in Writers, j \in 0..MaxJobs : Current(w) /\ Starting(j) => out[w] < j
StartBegun == \A j \in 0..MaxJobs : Starting(j) => j \in 1..jobs
OutBegun == \A w \in Writers : out[w] <= jobs
OutOnce == \A w \in Writers, j \in 1..MaxJobs : out[w] = j => ~Starting(j)
OneOut == \A v, w \in Writers : out[v] # 0 /\ out[v] = out[w] => v = w
\* The writer in charge has opened the file of the last job, or will.
JobStarts == \A j \in 0..MaxJobs : j = jobs =>
  /\ ctl = "inited" => Starting(j)
  /\ \A w \in Writers : Current(w) => out[w] = j \/ Starting(j)
\* A flushed file is closed, and stays so.
FlushedClosed == \A w \in Writers :
  pc[w] = "flushed" /\ out[w] # 0 => closedBy[out[w]] = "FLUSH"
Flushed == notified /\ exit_id = "FLUSH" =>
  /\ closedBy[jobs] = "FLUSH"
  /\ \A w \in Writers : out[w] = jobs => pc[w] \in {"end", "detach", "free"}

StartInv == /\ StartOrdered /\ OutOrdered /\ StartBegun /\ OutBegun /\ OutOnce /\ OneOut /\ JobStarts
            /\ FlushedClosed /\ Flushed

\* What a step of writer w does to the files that are open.
WriterFiles(w) ==
  /\ \A v \in Writers \ {w} : pc'[v] = pc[v] /\ msg'[v] = msg[v] /\ out'[v] = out[v]
  /\ \/ pc[w] # "init" /\ out'[w] = out[w]
     \/ pc[w] = "init" /\ pc'[w] = "pop" /\ out'[w] = msg[w].job
     \/ pc[w] = "init" /\ ~Current(w)' /\ out'[w] = out[w]
  /\ closedBy' = closedBy \/ pc[w] = "tailer"
  /\ \A j \in 1..MaxJobs : j # out[w] => closedBy'[j] = closedBy[j]
  /\ pc'[w] = "flushed" /\ out[w] # 0 => closedBy'[out[w]] = "FLUSH"
  /\ notified' # notified =>
       \/ pc[w] = "notify" /\ msg[w].id # "FLUSH"
       \/ pc[w] = "flushed" /\ pc'[w] = "end"
  /\ notified => notified' 
  /\ \/ msg_queue' = msg_queue /\ pc'[w] # "init"
     \/ /\ msg_queue # <<>> /\ msg_queue' = Tail(msg_queue)
        /\ pc[w] = "getmsg" /\ Current(w)' /\ msg'[w] = Head(msg_queue)
        /\ Head(msg_queue).id = "START" <=> pc'[w] = "init"
  /\ pc[w] \in {"end", "detach", "free"} => pc'[w] \in {"end", "detach", "free"}

LEMMA WriterFilesStep ==
  ASSUME ControlInv, NEW w \in Writers, Writer(w)
  PROVE  WriterFiles(w)
<1> USE DEF MuxerType, WriterFiles, Current, Reading, Answering, Flushing, Goto,
            WriterStates
<1>0. MuxerType
  BY DEF ControlInv
<1>a. /\ pc[w] = "notify" => msg[w].id \in {"NORMAL", "IMMEDIATE"}
      /\ pc[w] = "init" => msg[w].id = "START"
  BY DEF ControlInv, ChargeInv, StateMsg
<1>1. CASE Check(w)
  BY <1>0, <1>1 DEF Check, muxerVars, ctlVars
<1>2. CASE GetMessage(w)
  <2>1. CASE msg_queue = <<>>
    BY <1>0, <1>2, <2>1 DEF GetMessage, ctlVars, fileVars
  <2>2. CASE msg_queue # <<>>
    <3>1. Head(msg_queue) \in Message /\ Head(msg_queue) = msg_queue[1]
      BY <1>0, <2>2
    <3>2. Head(msg_queue).id \in Exits \cup {"START"}
      BY <1>0, <2>2, <3>1 DEF ControlInv, ChargeInv, ExitLast, ExitMessage
    <3> QED BY <1>0, <1>2, <2>2, <3>1, <3>2 DEF GetMessage, ctlVars, fileVars, Exits
  <2> QED BY <2>1, <2>2
<1>3. CASE MuxerInit(w)
  BY <1>0, <1>3 DEF MuxerInit, muxerVars, ctlVars, fileVars
<1>4. CASE MuxerInitFails(w)
  BY <1>0, <1>4 DEF MuxerInitFails, ctlVars
<1>5. CASE TakeList(w)
  BY <1>0, <1>5 DEF TakeList, AfterTake, ctlVars, fileVars
<1>6. CASE Notify(w)
  BY <1>0, <1>a, <1>6 DEF Notify, muxerVars, fileVars
<1>7. CASE Block(w)
  BY <1>0, <1>7 DEF Block, muxerVars, ctlVars, fileVars
<1>8. CASE Pop(w)
  BY <1>0, <1>8 DEF Pop, AfterPop, ctlVars, fileVars
<1>9. CASE Write(w)
  BY <1>0, <1>9 DEF Write, WriteFree, muxerVars, ctlVars
<1>10. CASE Drain(w)
  BY <1>0, <1>10 DEF Drain, WriteFree, muxerVars, ctlVars, fileVars
<1>11. CASE Drained(w)
  BY <1>0, <1>11 DEF Drained, muxerVars, ctlVars, fileVars
<1>12. CASE Tailer(w)
  BY <1>0, <1>12 DEF Tailer, muxerVars, ctlVars
<1>13. CASE NotifyFlushed(w)
  BY <1>0, <1>13 DEF NotifyFlushed, muxerVars, fileVars
<1>14. CASE End(w)
  BY <1>0, <1>14 DEF End, ctlVars, fileVars
<1>15. CASE Detach(w)
  BY <1>0, <1>15 DEF Detach, muxerVars, ctlVars, fileVars
<1> QED BY <1>1, <1>2, <1>3, <1>4, <1>5, <1>6, <1>7, <1>8, <1>9, <1>10, <1>11,
           <1>12, <1>13, <1>14, <1>15 DEF Writer

\* A step of a writer sends no START; what it gives up is the one it obeys.
LEMMA WriterStarting ==
  ASSUME ControlInv, StartOrdered, NEW w \in Writers, WriterFiles(w), NEW j \in 0..MaxJobs
  PROVE  /\ Starting(j)' => Starting(j)
         /\ Starting(j) => Starting(j)' \/ (pc[w] = "init" /\ msg[w] = StartOf(j))
         /\ pc[w] = "init" /\ msg[w] = StartOf(j) => ~Starting(j)'
<1> USE DEF Starting
<1>0. msg_queue \in Seq(Message)
  BY DEF ControlInv, MuxerType
<1>1. \A v \in Writers \ {w} : pc'[v] = pc[v] /\ msg'[v] = msg[v]
  BY DEF WriterFiles
<1>2. CASE msg_queue' = msg_queue /\ pc'[w] # "init"
  <2>1. Starting(j)' => Starting(j)
    BY <1>1, <1>2
  <2>2. Starting(j) => Starting(j)' \/ (pc[w] = "init" /\ msg[w] = StartOf(j))
    BY <1>1, <1>2
  <2>3. ASSUME pc[w] = "init", msg[w] = StartOf(j) PROVE ~Starting(j)'
    <3>1. \A i \in 1..Len(msg_queue) : msg_queue[i] # StartOf(j)
      <4> SUFFICES ASSUME NEW i \in 1..Len(msg_queue), msg_queue[i] = StartOf(j)
                   PROVE  FALSE
        OBVIOUS
      <4>1. msg_queue[i].id = "START" /\ msg_queue[i].job = j /\ msg[w].job = j
        BY <2>3 DEF StartOf
      <4>2. msg[w].job < msg_queue[i].job
        BY <4>1, <2>3 DEF StartOrdered
      <4> QED BY <4>1, <4>2
    <3>2. \A v \in Writers \ {w} : pc[v] # "init"
      BY <2>3 DEF ControlInv, ChargeInv, OneCurrent, Current, Reading
    <3> QED BY <1>1, <1>2, <3>1, <3>2
  <2> QED BY <2>1, <2>2, <2>3
<1>3. CASE /\ msg_queue # <<>> /\ msg_queue' = Tail(msg_queue)
           /\ pc[w] = "getmsg" /\ msg'[w] = Head(msg_queue)
           /\ Head(msg_queue).id = "START" <=> pc'[w] = "init"
  <2>1. /\ Head(msg_queue) = msg_queue[1] /\ 1 \in 1..Len(msg_queue)
        /\ Len(Tail(msg_queue)) = Len(msg_queue) - 1
        /\ \A i \in 1..(Len(msg_queue) - 1) : Tail(msg_queue)[i] = msg_queue[i + 1]
    BY <1>0, <1>3, HeadTailProperties
  <2>2. ASSUME Starting(j)' PROVE Starting(j)
    <3>1. CASE \E i \in 1..Len(msg_queue') : msg_queue'[i] = StartOf(j)
      <4>1. PICK i \in 1..(Len(msg_queue) - 1) : msg_queue[i + 1] = StartOf(j)
        BY <3>1, <2>1, <1>3
      <4>2. i + 1 \in 1..Len(msg_queue)
        BY <4>1, <1>0
      <4> QED BY <4>1, <4>2
    <3>2. CASE \E v \in Writers : pc'[v] = "init" /\ msg'[v] = StartOf(j)
      <4>1. PICK v \in Writers : pc'[v] = "init" /\ msg'[v] = StartOf(j)
        BY <3>2
      <4>2. CASE v = w
        BY <4>1, <4>2, <1>3, <2>1
      <4>3. CASE v # w
        BY <4>1, <4>3, <1>1
      <4> QED BY <4>2, <4>3
    <3> QED BY <2>2, <3>1, <3>2
  <2>3. ASSUME Starting(j) PROVE Starting(j)'
    <3>1. CASE \E i \in 1..Len(msg_queue) : msg_queue[i] = StartOf(j)
      <4>1. PICK i \in 1..Len(msg_queue) : msg_queue[i] = StartOf(j)
        BY <3>1
      <4>2. CASE i = 1
        BY <4>1, <4>2, <1>3, <2>1 DEF StartOf
      <4>3. CASE i # 1
        <5>1. i - 1 \in 1..(Len(msg_queue) - 1) /\ i = (i - 1) + 1
          BY <4>1, <4>3, <1>0
        <5>2. i - 1 \in 1..Len(msg_queue') /\ msg_queue'[i - 1] = StartOf(j)
          BY <5>1, <4>1, <2>1, <1>3
        <5> QED BY <5>2
      <4> QED BY <4>2, <4>3
    <3>2. CASE \E v \in Writers : pc[v] = "init" /\ msg[v] = StartOf(j)
      <4>1. PICK v \in Writers : pc[v] = "init" /\ msg[v] = StartOf(j)
        BY <3>2
      <4>2. v # w
        BY <4>1, <1>3
      <4> QED BY <4>1, <4>2, <1>1
    <3> QED BY <2>3, <3>1, <3>2
  <2> QED BY <2>2, <2>3, <1>3
<1> QED BY <1>2, <1>3 DEF WriterFiles

LEMMA WriterKeepsStart ==
  ASSUME ControlInv, StartInv, NEW w \in Writers, Writer(w)
  PROVE  StartInv'
<1> USE DEF StartInv
<1>1. WriterFiles(w) /\ WriterCharge(w)
  BY WriterFilesStep, WriterChargeStep DEF ControlInv
<1>2. /\ UNCHANGED <<ctl, jobs, exit_id>>
      /\ \A v \in Writers \ {w} : pc'[v] = pc[v] /\ msg'[v] = msg[v] /\ out'[v] = out[v]
  BY <1>1 DEF WriterCharge, WriterFiles
<1>3. \A j \in 0..MaxJobs :
        /\ Starting(j)' => Starting(j)
        /\ Starting(j) => Starting(j)' \/ (pc[w] = "init" /\ msg[w] = StartOf(j))
        /\ pc[w] = "init" /\ msg[w] = StartOf(j) => ~Starting(j)'
  BY <1>1, WriterStarting
<1>4. \A v \in Writers : out[v] \in 0..MaxJobs /\ msg[v].job \in 0..MaxJobs
  BY DEF ControlInv, MuxerType, Message
<1>5. ASSUME pc[w] = "init", NEW j \in 0..MaxJobs, j = msg[w].job
      PROVE  msg[w] = StartOf(j) /\ Starting(j) /\ ~Starting(j)' /\ j \in 1..jobs
  <2>1. msg[w] = StartOf(j)
    BY <1>5 DEF ControlInv, ChargeInv, StateMsg, MuxerType, Message, StartOf
  <2>2. Starting(j)
    BY <1>5, <2>1 DEF Starting
  <2>3. ~Starting(j)'
    BY <1>3, <1>5, <2>1
  <2> QED BY <2>1, <2>2, <2>3 DEF StartBegun
<1>6. StartOrdered'
  <2>0. msg_queue \in Seq(Message)
    BY DEF ControlInv, MuxerType
  <2>1. CASE msg_queue' = msg_queue /\ pc'[w] # "init"
    BY <2>1, <1>2 DEF StartOrdered
  <2>2. CASE /\ msg_queue # <<>> /\ msg_queue' = Tail(msg_queue)
             /\ pc[w] = "getmsg" /\ msg'[w] = Head(msg_queue)
    <3>1. /\ Head(msg_queue) = msg_queue[1] /\ 1 \in 1..Len(msg_queue)
          /\ Len(Tail(msg_queue)) = Len(msg_queue) - 1
          /\ \A i \in 1..(Len(msg_queue) - 1) :
               /\ Tail(msg_queue)[i] = msg_queue[i + 1]
               /\ i + 1 \in 1..Len(msg_queue) /\ 1 < i + 1
      BY <2>0, <2>2, HeadTailProperties
    <3>2. ASSUME NEW i \in 1..Len(msg_queue'), NEW k \in 1..Len(msg_queue'), i < k,
                 msg_queue'[i].id = "START", msg_queue'[k].id = "START"
          PROVE  msg_queue'[i].job < msg_queue'[k].job
      <4>1. /\ i \in 1..(Len(msg_queue) - 1) /\ k \in 1..(Len(msg_queue) - 1)
            /\ msg_queue'[i] = msg_queue[i + 1] /\ msg_queue'[k] = msg_queue[k + 1]
        BY <3>1, <2>2
      <4>2. i + 1 < k + 1
        BY <4>1, <3>2
      <4> QED BY <4>1, <4>2, <3>1, <3>2 DEF StartOrdered
    <3>3. ASSUME NEW v \in Writers, NEW i \in 1..Len(msg_queue'), pc'[v] = "init",
                 msg_queue'[i].id = "START"
          PROVE  msg'[v].job < msg_queue'[i].job
      <4>1. i \in 1..(Len(msg_queue) - 1) /\ msg_queue'[i] = msg_queue[i + 1]
        BY <3>1, <2>2
      <4>2. CASE v = w
        <5>1. msg_queue[1].id = "START"
          BY <3>1, <3>3, <4>2, <2>2, <1>1 DEF WriterCharge
        <5> QED BY <5>1, <3>1, <3>3, <4>1, <4>2, <2>2 DEF StartOrdered
      <4>3. CASE v # w
        BY <3>1, <3>3, <4>1, <4>3, <1>2 DEF StartOrdered
      <4> QED BY <4>2, <4>3
    <3> QED BY <3>2, <3>3 DEF StartOrdered
  <2> QED BY <2>1, <2>2, <1>1 DEF WriterFiles
<1>14. OutOrdered'
  <2> SUFFICES ASSUME NEW v \in Writers, NEW j \in 0..MaxJobs, Current(v)', Starting(j)'
               PROVE  out'[v] < j
    BY DEF OutOrdered
  <2>1. Starting(j)
    BY <1>3
  <2>2. Current(v)
    BY <1>1, <1>2 DEF WriterCharge, Current, Reading, Answering, Flushing
  <2>3. CASE out'[v] = out[v]
    BY <2>1, <2>2, <2>3 DEF OutOrdered
  <2>4. CASE v = w /\ pc[w] = "init" /\ out'[w] = msg[w].job /\ pc'[w] = "pop"
    <3>1. \A u \in Writers : pc'[u] # "init"
      BY <2>4, <1>2 DEF ControlInv, ChargeInv, OneCurrent, Current, Reading
    <3>2. msg_queue' = msg_queue
      BY <2>4, <1>1 DEF WriterFiles
    <3>3. PICK i \in 1..Len(msg_queue) : msg_queue[i] = StartOf(j)
      BY <3>1, <3>2 DEF Starting
    <3> QED BY <2>4, <3>3 DEF StartOrdered, StartOf
  <2> QED BY <2>3, <2>4, <1>1, <1>2 DEF WriterFiles
<1>7. StartBegun'
  <2> SUFFICES ASSUME NEW j \in 0..MaxJobs, Starting(j)' PROVE j \in 1..jobs
    BY <1>2 DEF StartBegun
  <2> QED BY <1>3 DEF StartBegun
<1>8. OutBegun'
  <2> SUFFICES ASSUME NEW v \in Writers PROVE out'[v] <= jobs
    BY <1>2 DEF OutBegun
  <2>1. CASE pc[w] = "init" /\ out'[w] = msg[w].job /\ v = w
    <3>1. PICK j \in 0..MaxJobs : j = msg[w].job
      BY <1>4
    <3>2. j \in 1..jobs
      BY <2>1, <3>1, <1>5
    <3> QED BY <2>1, <3>1, <3>2 DEF ControlInv, MuxerType
  <2>2. CASE out'[v] = out[v]
    BY <2>2 DEF OutBegun
  <2> QED BY <2>1, <2>2, <1>1 DEF WriterFiles
<1>9. OutOnce'
  <2> SUFFICES ASSUME NEW v \in Writers, NEW j \in 1..MaxJobs, out'[v] = j
               PROVE  ~Starting(j)'
    BY DEF OutOnce
  <2>1. CASE j = out[v]
    BY <2>1, <1>3 DEF OutOnce
  <2>2. CASE j # out[v]
    <3>1. v = w /\ pc[w] = "init" /\ j = msg[w].job
      BY <2>2, <1>1 DEF WriterFiles
    <3> QED BY <3>1, <1>5
  <2> QED BY <2>1, <2>2
<1>10. OneOut'
  <2> SUFFICES ASSUME NEW u \in Writers, NEW v \in Writers, out'[u] # 0, out'[u] = out'[v],
                      u # v
               PROVE  FALSE
    BY DEF OneOut
  <2>1. CASE pc[w] = "init" /\ out'[w] = msg[w].job
    <3>1. PICK j \in 0..MaxJobs : j = msg[w].job
      BY <1>4
    <3>2. \A x \in Writers : out[x] # 0 => out[x] # j
      BY <2>1, <3>1, <1>4, <1>5 DEF OutOnce
    <3> QED BY <3>1, <3>2, <2>1, <1>2 DEF OneOut
  <2>2. CASE out'[w] = out[w]
    BY <2>2, <1>2 DEF OneOut
  <2> QED BY <2>1, <2>2, <1>1 DEF WriterFiles
<1>11. JobStarts'
  <2> SUFFICES ASSUME NEW j \in 0..MaxJobs, j = jobs
               PROVE  /\ ctl = "inited" => Starting(j)'
                      /\ \A v \in Writers : Current(v)' => out'[v] = j \/ Starting(j)'
    BY <1>2 DEF JobStarts
  <2>1. ASSUME ctl = "inited" PROVE Starting(j)'
    <3>1. Starting(j) /\ ~Current(w)
      BY <2>1 DEF JobStarts, ControlInv, ChargeInv, NoneCurrent, Quiet
    <3>2. pc[w] # "init"
      BY <3>1 DEF Current, Reading
    <3> QED BY <3>1, <3>2, <1>3
  <2>2. ASSUME NEW v \in Writers, Current(v)' PROVE out'[v] = j \/ Starting(j)'
    <3>1. CASE v = w /\ pc[w] # "init"
      <4>1. Current(w) /\ out'[w] = out[w]
        BY <3>1, <2>2, <1>1 DEF WriterCharge, WriterFiles
      <4> QED BY <4>1, <3>1, <1>3 DEF JobStarts
    <3>2. CASE v = w /\ pc[w] = "init"
      <4>1. Current(w) /\ out'[w] = msg[w].job
        BY <3>2, <2>2, <1>1 DEF WriterCharge, WriterFiles
      <4>2. PICK k \in 0..MaxJobs : k = msg[w].job
        BY <1>4
      <4>3. CASE k = j
        BY <3>2, <4>1, <4>2, <4>3
      <4>4. CASE k # j
        <5>1. msg[w] # StartOf(j)
          BY <4>2, <4>4 DEF StartOf
        <5>2. CASE Starting(j)
          BY <5>1, <5>2, <1>3
        <5>3. CASE out[w] = j /\ ~Starting(j)
          <6>1. Starting(k) /\ k \in 1..jobs
            BY <3>2, <4>2, <1>5
          <6>2. jobs \in 1..MaxJobs
            BY <6>1 DEF ControlInv, MuxerType
          <6>3. out[w] < k
            BY <4>1, <6>1 DEF OutOrdered
          <6> QED BY <5>3, <6>1, <6>2, <6>3
        <5> QED BY <5>2, <5>3, <4>1 DEF JobStarts
      <4> QED BY <4>3, <4>4
    <3>3. CASE v # w
      <4>1. Current(v)
        BY <3>3, <2>2, <1>2 DEF Current, Reading, Answering, Flushing
      <4>2. pc[w] # "init"
        BY <4>1, <3>3 DEF ControlInv, ChargeInv, OneCurrent, Current, Reading
      <4> QED BY <4>1, <4>2, <3>3, <1>2, <1>3 DEF JobStarts
    <3> QED BY <3>1, <3>2, <3>3
  <2> QED BY <2>1, <2>2
<1>12. FlushedClosed'
  <2> SUFFICES ASSUME NEW v \in Writers, pc'[v] = "flushed", out'[v] # 0
               PROVE  closedBy'[out'[v]] = "FLUSH"
    BY DEF FlushedClosed
  <2>1. CASE v = w
    <3>1. out'[w] = out[w]
      BY <2>1, <1>1 DEF WriterFiles, Current, Reading
    <3> QED BY <2>1, <3>1, <1>1 DEF WriterFiles
  <2>2. CASE v # w
    <3>1. out[v] # out[w]
      BY <2>2, <1>2 DEF OneOut
    <3>2. out[v] \in 1..MaxJobs
      BY <2>2, <1>2, <1>4
    <3> QED BY <2>2, <3>1, <3>2, <1>1, <1>2 DEF WriterFiles, FlushedClosed
  <2> QED BY <2>1, <2>2
<1>13. Flushed'
  <2> SUFFICES ASSUME notified', exit_id = "FLUSH"
               PROVE  /\ closedBy'[jobs] = "FLUSH"
                      /\ \A v \in Writers : out'[v] = jobs => pc'[v] \in {"end", "detach", "free"}
    BY <1>2 DEF Flushed
  <2>1. CASE notified
    <3>1. /\ closedBy[jobs] = "FLUSH" /\ ~Current(w)
          /\ \A v \in Writers : out[v] = jobs => pc[v] \in {"end", "detach", "free"}
      BY <2>1 DEF Flushed, ControlInv, ChargeInv, NoneCurrent
    <3>2. pc[w] # "init" /\ out'[w] = out[w]
      BY <3>1, <1>1 DEF WriterFiles, Current, Reading
    <3>3. closedBy'[jobs] = "FLUSH"
      <4>1. jobs \in 1..MaxJobs
        BY <2>1 DEF ControlInv, ChargeInv, MuxerType, Begun, NotifiedWaits
      <4> QED BY <3>1, <4>1, <1>1 DEF WriterFiles
    <3>4. ASSUME NEW v \in Writers, out'[v] = jobs PROVE pc'[v] \in {"end", "detach", "free"}
      BY <3>4, <3>1, <3>2, <1>1, <1>2 DEF WriterFiles
    <3> QED BY <3>3, <3>4
  <2>2. CASE ~notified
    <3>1. Answering(w) /\ msg_queue = <<>> /\ msg[w].id = exit_id /\ ctl = "waiting"
      BY <2>2, <1>1 DEF WriterCharge, ControlInv, ChargeInv, AnswerEnded
    <3>2. pc[w] = "flushed" /\ pc'[w] = "end"
      BY <2>2, <3>1, <1>1 DEF WriterFiles
    <3>3. jobs \in 1..MaxJobs
      BY <3>1 DEF ControlInv, ChargeInv, MuxerType, Begun
    <3>4. \A j \in 0..MaxJobs : ~Starting(j)
      <4>1. \A v \in Writers : pc[v] # "init"
        BY <3>1, <3>2 DEF ControlInv, ChargeInv, OneCurrent, Current, Reading
      <4> QED BY <4>1, <3>1 DEF Starting
    <3>5. out[w] = jobs
      BY <3>1, <3>3, <3>4 DEF JobStarts, Current
    <3>6. closedBy[jobs] = "FLUSH" /\ closedBy' = closedBy
      BY <3>2, <3>3, <3>5, <1>1 DEF FlushedClosed, WriterFiles
    <3>7. \A v \in Writers : out[v] = jobs => v = w
      BY <3>3, <3>5 DEF OneOut
    <3>8. out'[w] = out[w]
      BY <3>2, <1>1 DEF WriterFiles
    <3> QED BY <3>2, <3>6, <3>7, <3>8, <1>2
  <2> QED BY <2>1, <2>2
<1> QED BY <1>6, <1>7, <1>8, <1>9, <1>10, <1>11, <1>12, <1>13, <1>14

\* The writers stay where they are, and no START is sent or dropped.
LEMMA StayStarting ==
  ASSUME WritersStay, MuxerType, msg_queue' = msg_queue, NEW j \in 0..MaxJobs
  PROVE  Starting(j)' <=> Starting(j)
<1>1. \A w \in Writers : /\ msg'[w] = msg[w]
                         /\ pc'[w] = "init" <=> pc[w] = "init"
  BY DEF WritersStay, WakeWriter
<1> QED BY <1>1 DEF Starting

LEMMA StayStart ==
  ASSUME ControlInv, StartInv, WritersStay,
         UNCHANGED <<msg_queue, out, closedBy, jobs>>, ctl' # "inited",
         notified' => notified /\ exit_id' = exit_id
  PROVE  StartInv'
<1> USE DEF StartInv
<1>1. \A w \in Writers : /\ msg'[w] = msg[w]
                         /\ pc'[w] = pc[w] \/ (pc[w] = "blocked" /\ pc'[w] = "woken")
                         /\ Current(w)' <=> Current(w)
  BY StayCharge DEF WritersStay, WakeWriter, ControlInv
<1>2. \A j \in 0..MaxJobs : Starting(j)' <=> Starting(j)
  BY StayStarting DEF ControlInv
<1>3. StartOrdered'
  BY <1>1 DEF StartOrdered
<1>4. OutOrdered' /\ StartBegun' /\ OutBegun'
  BY <1>1, <1>2 DEF OutOrdered, StartBegun, OutBegun
<1>5. OutOnce' /\ OneOut'
  BY <1>2 DEF OutOnce, OneOut
<1>6. JobStarts'
  BY <1>1, <1>2 DEF JobStarts
<1>7. FlushedClosed' /\ Flushed'
  BY <1>1 DEF FlushedClosed, Flushed
<1> QED BY <1>3, <1>4, <1>5, <1>6, <1>7

\* What InitUri, StartCreate and StopPost do to the START messages.
LEMMA InitUriStarting ==
  ASSUME ControlInv, InitUri, NEW j \in 0..MaxJobs
  PROVE  Starting(j)' <=> Starting(j) \/ j = jobs + 1
<1>1. /\ ctl \in {"none", "stopped"} /\ jobs \in Nat
      /\ msg_queue' = Append(msg_queue, StartOf(jobs + 1))
      /\ UNCHANGED <<pc, msg>>
  BY DEF InitUri, ControlInv, MuxerType, writerVars, StartOf
<1>2. \A w \in Writers : pc[w] # "init"
  BY <1>1 DEF ControlInv, ChargeInv, NoneCurrent, Quiet, Current, Reading
<1>3. /\ msg_queue \in Seq(Message)
      /\ Len(msg_queue') = Len(msg_queue) + 1
      /\ \A i \in 1..Len(msg_queue) : msg_queue'[i] = msg_queue[i]
      /\ msg_queue'[Len(msg_queue) + 1] = StartOf(jobs + 1)
  BY <1>1, AppendProperties DEF ControlInv, MuxerType
<1>4. Starting(j)' <=> \E i \in 1..Len(msg_queue') : msg_queue'[i] = StartOf(j)
  BY <1>1, <1>2 DEF Starting
<1>5. Starting(j) <=> \E i \in 1..Len(msg_queue) : msg_queue[i] = StartOf(j)
  BY <1>2 DEF Starting
<1>6. StartOf(jobs + 1) = StartOf(j) <=> j = jobs + 1
  BY DEF StartOf
<1>7. \A i \in 1..Len(msg_queue') : i \in 1..Len(msg_queue) \/ i = Len(msg_queue) + 1
  BY <1>3
<1>8. /\ \A i \in 1..Len(msg_queue) : i \in 1..Len(msg_queue')
      /\ Len(msg_queue) + 1 \in 1..Len(msg_queue')
  BY <1>3
<1> QED BY <1>3, <1>4, <1>5, <1>6, <1>7, <1>8

LEMMA StartCreateStarting ==
  ASSUME ControlInv, NEW w \in Writers, StartCreate(w), NEW j \in 0..MaxJobs
  PROVE  Starting(j)' <=> Starting(j)
<1>1. /\ ctl = "inited" /\ UNCHANGED msg_queue /\ pc'[w] = "check"
      /\ \A v \in Writers \ {w} : pc'[v] = pc[v]
  BY DEF StartCreate, muxerVars, ControlInv, MuxerType
<1>2. \A v \in Writers : pc[v] # "init" /\ pc'[v] # "init"
  BY <1>1 DEF ControlInv, ChargeInv, NoneCurrent, Quiet, Current, Reading
<1> QED BY <1>1, <1>2 DEF Starting

LEMMA StopPostStarting ==
  ASSUME ControlInv, StopPost, NEW j \in 0..MaxJobs
  PROVE  Starting(j)' <=> Starting(j)
<1>1. msg_queue' = Append(msg_queue, ExitMessage) /\ UNCHANGED <<pc, msg>>
  BY DEF StopPost, writerVars, ExitMessage
<1>2. /\ msg_queue \in Seq(Message)
      /\ Len(msg_queue') = Len(msg_queue) + 1
      /\ \A i \in 1..Len(msg_queue) : msg_queue'[i] = msg_queue[i]
      /\ msg_queue'[Len(msg_queue) + 1] = ExitMessage
  BY <1>1, AppendProperties DEF ControlInv, MuxerType
<1>3. ExitMessage # StartOf(j)
  <2>1. ExitMessage.id # StartOf(j).id
    BY DEF ExitMessage, StartOf, ControlInv, MuxerType, Exits
  <2> QED BY <2>1
<1>4. /\ \A i \in 1..Len(msg_queue') : i \in 1..Len(msg_queue) \/ i = Len(msg_queue) + 1
      /\ \A i \in 1..Len(msg_queue) : i \in 1..Len(msg_queue')
  BY <1>2
<1> QED BY <1>1, <1>2, <1>3, <1>4 DEF Starting

LEMMA InitUriStart ==
  ASSUME ControlInv, StartInv, InitUri
  PROVE  StartInv'
<1> USE DEF StartInv
<1>1. /\ ctl \in {"none", "stopped"} /\ ctl' = "inited"
      /\ jobs \in Nat /\ jobs' = jobs + 1 /\ jobs + 1 \in 1..MaxJobs
      /\ msg_queue' = Append(msg_queue, StartOf(jobs + 1))
      /\ UNCHANGED <<notified, pc, msg, out, closedBy>>
  BY ConstantsAssumption DEF InitUri, ControlInv, MuxerType, writerVars, fileVars, StartOf
<1>2. ~notified /\ \A w \in Writers : ~Current(w)
  BY <1>1 DEF ControlInv, ChargeInv, NoneCurrent, NotifiedWaits, Quiet
<1>3. \A w \in Writers : pc[w] # "init"
  BY <1>2 DEF Current, Reading
<1>4. \A w \in Writers : ~Current(w)'
  BY <1>1, <1>2 DEF Current, Reading, Answering, Flushing
<1>5. /\ msg_queue \in Seq(Message)
      /\ Len(msg_queue') = Len(msg_queue) + 1
      /\ \A i \in 1..Len(msg_queue) : msg_queue'[i] = msg_queue[i]
      /\ msg_queue'[Len(msg_queue) + 1] = StartOf(jobs + 1)
  BY <1>1, AppendProperties DEF ControlInv, MuxerType
<1>6. \A j \in 0..MaxJobs : Starting(j)' <=> Starting(j) \/ j = jobs + 1
  BY InitUriStarting
<1>7. \A i \in 1..Len(msg_queue) : msg_queue[i].id = "START" => msg_queue[i].job < jobs + 1
  <2> SUFFICES ASSUME NEW i \in 1..Len(msg_queue), msg_queue[i].id = "START"
               PROVE  msg_queue[i].job < jobs + 1
    OBVIOUS
  <2>1. msg_queue[i] \in Message
    BY <1>5
  <2>2. PICK j \in 0..MaxJobs : j = msg_queue[i].job
    BY <2>1 DEF Message
  <2>3. msg_queue[i] = StartOf(j)
    BY <2>1, <2>2 DEF Message, StartOf
  <2>4. Starting(j)
    BY <2>3 DEF Starting
  <2> QED BY <2>2, <2>4, <1>1 DEF StartBegun
<1>8. StartOrdered'
  <2>1. ASSUME NEW i \in 1..Len(msg_queue'), NEW k \in 1..Len(msg_queue'), i < k,
               msg_queue'[i].id = "START", msg_queue'[k].id = "START"
        PROVE  msg_queue'[i].job < msg_queue'[k].job
    <3>1. i \in 1..Len(msg_queue)
      BY <1>5, <2>1
    <3>2. CASE k \in 1..Len(msg_queue)
      BY <2>1, <3>1, <3>2, <1>5 DEF StartOrdered
    <3>3. CASE k = Len(msg_queue) + 1
      <4>1. msg_queue'[k].job = jobs + 1
        BY <3>3, <1>5 DEF StartOf
      <4> QED BY <4>1, <2>1, <3>1, <1>5, <1>7
    <3> QED BY <3>2, <3>3, <1>5
  <2> QED BY <2>1, <1>1, <1>3 DEF StartOrdered
<1>9. OutOrdered' /\ StartBegun' /\ OutBegun'
  <2>1. OutOrdered'
    BY <1>4 DEF OutOrdered
  <2>2. StartBegun'
    BY <1>1, <1>6 DEF StartBegun
  <2>3. OutBegun'
    BY <1>1 DEF OutBegun, ControlInv, MuxerType
  <2> QED BY <2>1, <2>2, <2>3
<1>10. OutOnce' /\ OneOut'
  <2>1. \A w \in Writers : out[w] # jobs + 1
    BY <1>1 DEF OutBegun, ControlInv, MuxerType
  <2> QED BY <2>1, <1>1, <1>6 DEF OutOnce, OneOut
<1>11. JobStarts'
  BY <1>1, <1>4, <1>6 DEF JobStarts
<1>12. FlushedClosed' /\ Flushed'
  BY <1>1, <1>2 DEF FlushedClosed, Flushed
<1> QED BY <1>8, <1>9, <1>10, <1>11, <1>12

LEMMA StartCreateStart ==
  ASSUME ControlInv, StartInv, NEW w \in Writers, StartCreate(w)
  PROVE  StartInv'
<1> USE DEF StartInv
<1>1. /\ ctl = "inited" /\ ctl' = "creating"
      /\ pc' = [pc EXCEPT ![w] = "check"] /\ out' = [out EXCEPT ![w] = 0]
      /\ UNCHANGED <<msg_queue, jobs, notified, closedBy>>
      /\ \A v \in Writers \ {w} : pc'[v] = pc[v] /\ msg'[v] = msg[v] /\ out'[v] = out[v]
      /\ pc'[w] = "check" /\ out'[w] = 0
  BY DEF StartCreate, muxerVars, fileVars, ControlInv, MuxerType
<1>2. ~notified /\ \A v \in Writers : ~Current(v)
  BY <1>1 DEF ControlInv, ChargeInv, NoneCurrent, NotifiedWaits, Quiet
<1>3. \A v \in Writers : pc[v] # "init" /\ pc'[v] # "init"
  BY <1>1, <1>2 DEF Current, Reading
<1>4. \A v \in Writers : v # w => ~Current(v)'
  BY <1>1, <1>2 DEF Current, Reading, Answering, Flushing
<1>5. \A j \in 0..MaxJobs : Starting(j)' <=> Starting(j)
  BY StartCreateStarting
<1>6. jobs \in 0..MaxJobs
  BY DEF ControlInv, MuxerType
<1>7. StartOrdered'
  BY <1>1, <1>3 DEF StartOrdered
<1>8. OutOrdered' /\ StartBegun' /\ OutBegun'
  <2>1. OutOrdered'
    BY <1>1, <1>4, <1>5, <1>6 DEF OutOrdered, StartBegun
  <2>2. StartBegun'
    BY <1>1, <1>5 DEF StartBegun
  <2>3. OutBegun'
    BY <1>1, <1>6 DEF OutBegun
  <2> QED BY <2>1, <2>2, <2>3
<1>9. OutOnce' /\ OneOut'
  <2>1. OutOnce'
    BY <1>1, <1>5 DEF OutOnce
  <2>2. OneOut'
    BY <1>1 DEF OneOut
  <2> QED BY <2>1, <2>2
<1>10. JobStarts'
  BY <1>1, <1>4, <1>5 DEF JobStarts
<1>11. FlushedClosed' /\ Flushed'
  BY <1>1, <1>2 DEF FlushedClosed, Flushed
<1> QED BY <1>7, <1>8, <1>9, <1>10, <1>11

LEMMA StopPostStart ==
  ASSUME ControlInv, StartInv, StopPost
  PROVE  StartInv'
<1> USE DEF StartInv
<1>1. /\ ctl' = "waking" /\ notified' = FALSE
      /\ msg_queue' = Append(msg_queue, ExitMessage)
      /\ UNCHANGED <<jobs, pc, msg, out, closedBy>>
  BY DEF StopPost, writerVars, fileVars, ExitMessage
<1>2. /\ msg_queue \in Seq(Message)
      /\ Len(msg_queue') = Len(msg_queue) + 1
      /\ \A i \in 1..Len(msg_queue) : msg_queue'[i] = msg_queue[i]
      /\ msg_queue'[Len(msg_queue) + 1] = ExitMessage
  BY <1>1, AppendProperties DEF ControlInv, MuxerType
<1>3. ExitMessage.id # "START"
  BY DEF ExitMessage, ControlInv, MuxerType, Exits
<1>4. \A i \in 1..Len(msg_queue') :
        msg_queue'[i].id = "START" => i \in 1..Len(msg_queue) /\ msg_queue'[i] = msg_queue[i]
  <2> SUFFICES ASSUME NEW i \in 1..Len(msg_queue'), msg_queue'[i].id = "START"
               PROVE  i \in 1..Len(msg_queue) /\ msg_queue'[i] = msg_queue[i]
    OBVIOUS
  <2>1. i # Len(msg_queue) + 1
    BY <1>2, <1>3
  <2> QED BY <2>1, <1>2
<1>6. \A j \in 0..MaxJobs : Starting(j)' <=> Starting(j)
  BY StopPostStarting
<1>7. \A w \in Writers : Current(w)' <=> Current(w)
  BY <1>1 DEF Current, Reading, Answering, Flushing
<1>8. StartOrdered'
  BY <1>1, <1>4 DEF StartOrdered
<1>9. OutOrdered' /\ StartBegun' /\ OutBegun'
  BY <1>1, <1>6, <1>7 DEF OutOrdered, StartBegun, OutBegun
<1>10. OutOnce' /\ OneOut'
  BY <1>1, <1>6 DEF OutOnce, OneOut
<1>11. JobStarts'
  BY <1>1, <1>6, <1>7 DEF JobStarts
<1>12. FlushedClosed' /\ Flushed'
  BY <1>1 DEF FlushedClosed, Flushed
<1> QED BY <1>8, <1>9, <1>10, <1>11, <1>12

LEMMA DestroyStart ==
  ASSUME ControlInv, StartInv, Destroy
  PROVE  StartInv'
<1> USE DEF StartInv
<1>1. /\ ctl = "syncing" /\ ctl' = "none" /\ msg_queue' = <<>>
      /\ UNCHANGED <<jobs, pc, msg, out, closedBy, notified>>
  BY DEF Destroy, writerVars, fileVars
<1>2. ~notified /\ \A w \in Writers : ~Current(w)
  BY <1>1 DEF ControlInv, ChargeInv, NoneCurrent, NotifiedWaits, Quiet
<1>3. \A w \in Writers : pc'[w] # "init" /\ ~Current(w)'
  BY <1>1, <1>2 DEF Current, Reading, Answering, Flushing
<1>4. \A j \in 0..MaxJobs : ~Starting(j)'
  BY <1>1, <1>3 DEF Starting
<1>5. StartOrdered' /\ OutOrdered' /\ StartBegun' /\ OutBegun'
  BY <1>1, <1>3, <1>4 DEF StartOrdered, OutOrdered, StartBegun, OutBegun
<1>6. OutOnce' /\ OneOut' /\ JobStarts' /\ FlushedClosed' /\ Flushed'
  BY <1>1, <1>2, <1>3, <1>4 DEF OutOnce, OneOut, JobStarts, FlushedClosed, Flushed
<1> QED BY <1>5, <1>6

LEMMA NextStart == ControlInv /\ StartInv /\ [Next]_vars => StartInv'
<1> SUFFICES ASSUME ControlInv, StartInv, [Next]_vars PROVE StartInv'
  OBVIOUS
<1>1. CASE InitUri
  BY <1>1, InitUriStart
<1>2. ASSUME NEW w \in Writers, StartCreate(w) PROVE StartInv'
  BY <1>2, StartCreateStart
<1>3. CASE \/ StartPublish \/ StopCheck \/ StopWakeNull \/ StopReturn \/ DeleteBegin \/ SyncJoin
           \/ \E w \in Writers : SyncPick(w)
  <2>1. /\ UNCHANGED <<msg_queue, pc, msg, out, closedBy, jobs, exit_id>>
        /\ ctl' # "inited" /\ (notified' => notified)
    BY <1>3 DEF StartPublish, StopCheck, StopWakeNull, StopReturn, DeleteBegin, SyncJoin,
       SyncPick, muxerVars, writerVars, fileVars
  <2>2. WritersStay
    BY <2>1 DEF WritersStay
  <2> QED BY <2>1, <2>2, StayStart
<1>4. ASSUME NEW g \in {"restart", "delete"}, StopRequest(g) PROVE StartInv'
  <2>1. /\ UNCHANGED <<msg_queue, pc, msg, out, closedBy, jobs>> /\ ctl' # "inited" /\ ~notified'
    BY <1>4 DEF StopRequest, writerVars, fileVars, ControlInv, ChargeInv, NotifiedWaits
  <2>2. WritersStay
    BY <2>1 DEF WritersStay
  <2> QED BY <2>1, <2>2, StayStart
<1>5. CASE StopWake
  <2>1. /\ UNCHANGED <<msg_queue, out, closedBy, jobs, exit_id, notified>> /\ ctl' # "inited"
        /\ WritersStay
    BY <1>5 DEF StopWake, fileVars, WritersStay
  <2> QED BY <2>1, StayStart
<1>6. CASE PushVideo \/ PushAudio
  <2>1. PICK kind \in {"key", "delta", "audio"} : push_packet(kind)
    BY <1>6 DEF PushVideo, PushAudio
  <2>2. /\ UNCHANGED <<msg_queue, out, closedBy, jobs, exit_id, notified>> /\ ctl' # "inited"
        /\ WritersStay
    BY <2>1 DEF push_packet, fileVars, WritersStay, ControlInv, ChargeInv, AttachedRuns
  <2> QED BY <2>2, StayStart
<1>7. CASE StopPost
  BY <1>7, StopPostStart
<1>8. CASE Destroy
  BY <1>8, DestroyStart
<1>9. ASSUME NEW w \in Writers, Writer(w) PROVE StartInv'
  BY <1>9, WriterKeepsStart
<1>10. CASE UNCHANGED vars
  <2>1. UNCHANGED <<msg_queue, pc, msg, out, closedBy, jobs, exit_id, notified, ctl>>
    BY <1>10 DEF vars, muxerVars, ctlVars, writerVars, fileVars
  <2>2. WritersStay
    BY <2>1 DEF WritersStay
  <2>3. CASE ctl # "inited"
    BY <2>1, <2>2, <2>3, StayStart
  <2>4. CASE ctl = "inited"
    <3>1. \A w \in Writers : Current(w)' <=> Current(w)
      BY <2>2, StayCharge DEF ControlInv
    <3>2. \A j \in 0..MaxJobs : Starting(j)' <=> Starting(j)
      BY <2>1, <2>2, StayStarting DEF ControlInv
    <3> QED BY <2>1, <3>1, <3>2 DEF StartInv, StartOrdered, OutOrdered, StartBegun, OutBegun,
               OutOnce, OneOut, JobStarts, FlushedClosed, Flushed
  <2> QED BY <2>3, <2>4
<1> QED BY <1>1, <1>2, <1>3, <1>4, <1>5, <1>6, <1>7, <1>8, <1>9, <1>10
        DEF Next, Control, Done

LEMMA InitStart == Init => StartInv
<1> SUFFICES ASSUME Init PROVE StartInv
  OBVIOUS
<1>1. /\ msg_queue = <<>> /\ ctl = "none" /\ notified = FALSE /\ jobs = 0
      /\ pc = [w \in Writers |-> "free"] /\ out = [w \in Writers |-> 0]
  BY DEF Init
<1>2. \A w \in Writers : pc[w] = "free" /\ out[w] = 0 /\ ~Current(w)
  BY <1>1 DEF Current, Reading, Answering, Flushing
<1>3. \A j \in 0..MaxJobs : ~Starting(j)
  BY <1>1, <1>2 DEF Starting
<1> QED BY <1>1, <1>2, <1>3 DEF StartInv, StartOrdered, OutOrdered, StartBegun, OutBegun, OutOnce,
           OneOut, JobStarts, FlushedClosed, Flushed

\* stop_current_job of a muxer that exits with FLUSH returns only when the file of
\* the job is closed, with its tailer (NotifyFlushed, muxer_process), for any number
\* of writers, jobs and packets, and whatever starts have failed before.
THEOREM FlushCorrect == Spec => FlushCloses
<1> DEFINE Inv == ControlInv /\ StartInv
<1>1. Init => Inv
  BY InitDelete, InitCharge, InitStart DEF ControlInv
<1>2. Inv /\ [Next]_vars => Inv'
  BY NextControl, NextStart
<1>3. Inv /\ [Next]_vars =>
        [ctl = "waiting" /\ ctl' = "stopped" /\ exit_id = "FLUSH" => closedBy[jobs] = "FLUSH"]_vars
  <2> SUFFICES ASSUME Inv, Next, ctl = "waiting", ctl' = "stopped", exit_id = "FLUSH"
               PROVE  closedBy[jobs] = "FLUSH"
    OBVIOUS
  <2>1. notified
    <3>1. CASE Control
      BY <3>1 DEF Control, InitUri, StartPublish, StopCheck, StopPost, StopWake, StopWakeNull,
         StopReturn, DeleteBegin, SyncJoin, Destroy, StartCreate, SyncPick
    <3>2. ASSUME NEW w \in Writers, Writer(w) PROVE FALSE
      <4>1. WriterCharge(w)
        BY <3>2, WriterChargeStep DEF ControlInv
      <4> QED BY <4>1 DEF WriterCharge
    <3>3. CASE PushVideo \/ PushAudio
      BY <3>3 DEF PushVideo, PushAudio, push_packet
    <3>4. CASE Done
      BY <3>4 DEF Done, vars, ctlVars
    <3> QED BY <3>1, <3>2, <3>3, <3>4 DEF Next, StopRequest
  <2> QED BY <2>1 DEF StartInv, Flushed
<1> QED BY <1>1, <1>2, <1>3, PTL DEF Spec, FlushCloses

-----------------------------------------------------------------------------
(* The count of video packets.                                             *)

\* The positions D of two lists, put behind each other, are those of the first, A,
\* and those of the second, B, moved behind the first k.
Adds(k, m, A, B, D) ==
  /\ A \subseteq 1..k /\ B \subseteq 1..m /\ D \subseteq 1..(k + m)
  /\ \A i \in 1..k : i \in D <=> i \in A
  /\ \A i \in 1..m : k + i \in D <=> i \in B

LEMMA CountSplit ==
  ASSUME NEW k \in Nat, NEW m \in Nat, NEW A, NEW B, NEW D, Adds(k, m, A, B, D)
  PROVE  /\ Cardinality(A) \in Nat /\ Cardinality(B) \in Nat
         /\ Cardinality(D) = Cardinality(A) + Cardinality(B)
<1> USE DEF Adds
<1> DEFINE C == {k + i : i \in B}
<1>1. IsFiniteSet(A) /\ IsFiniteSet(B)
  <2>1. IsFiniteSet(1..k) /\ IsFiniteSet(1..m)
    BY FS_Interval
  <2> QED BY <2>1, FS_Subset
<1>2. ExistsBijection(B, C)
  <2> DEFINE f == [i \in B |-> k + i]
  <2>1. f \in Bijection(B, C)
    <3>1. f \in [B -> C]
      OBVIOUS
    <3>2. \A i, j \in B : f[i] = f[j] => i = j
      OBVIOUS
    <3>3. \A y \in C : \E i \in B : f[i] = y
      OBVIOUS
    <3> QED BY <3>1, <3>2, <3>3 DEF Bijection, Injection, Surjection, IsInjective
  <2> QED BY <2>1 DEF ExistsBijection
<1>3. IsFiniteSet(C) /\ Cardinality(C) = Cardinality(B)
  <2> HIDE DEF C
  <2> QED BY <1>1, <1>2, FS_Bijection
<1>4. A \cap C = {}
  OBVIOUS
<1>5. /\ Cardinality(A) \in Nat /\ Cardinality(B) \in Nat
      /\ Cardinality(A \cup C) = Cardinality(A) + Cardinality(C) - Cardinality(A \cap C)
  <2> HIDE DEF C
  <2> QED BY <1>1, <1>3, FS_Union, FS_CardinalityType
<1>6. Cardinality(A \cap C) = 0
  BY <1>4, FS_EmptySet
<1>7. /\ Cardinality(A) \in Nat /\ Cardinality(B) \in Nat
      /\ Cardinality(A \cup C) = Cardinality(A) + Cardinality(B)
  <2> HIDE DEF C
  <2> QED BY <1>3, <1>5, <1>6
<1>8. D = A \cup C
  <2>1. \A i \in 1..(k + m) : i \in 1..k \/ (i - k \in 1..m /\ i = k + (i - k))
    OBVIOUS
  <2>2. ASSUME NEW i \in D PROVE i \in A \cup C
    BY <2>1
  <2>3. A \subseteq D
    OBVIOUS
  <2>4. C \subseteq D
    OBVIOUS
  <2> QED BY <2>2, <2>3, <2>4
<1> QED BY <1>7, <1>8

LEMMA VideoConcat ==
  ASSUME NEW s \in Seq(Item), NEW t \in Seq(Item)
  PROVE  /\ VideoCount(s) \in Nat /\ VideoCount(t) \in Nat
         /\ VideoCount(s \o t) = VideoCount(s) + VideoCount(t)
<1> DEFINE A == {i \in DOMAIN s : IsVideo(s[i])}
           B == {i \in DOMAIN t : IsVideo(t[i])}
           C == {i \in DOMAIN (s \o t) : IsVideo((s \o t)[i])}
<1>1. /\ Len(s) \in Nat /\ DOMAIN s = 1..Len(s) /\ Len(t) \in Nat /\ DOMAIN t = 1..Len(t)
  BY LenProperties
<1>2. /\ DOMAIN (s \o t) = 1..(Len(s) + Len(t))
      /\ \A i \in 1..Len(s) : (s \o t)[i] = s[i]
      /\ \A i \in 1..Len(t) : (s \o t)[Len(s) + i] = t[i]
  BY <1>1, ConcatProperties, LenProperties
<1>3. /\ \A i \in 1..Len(s) : i \in C <=> i \in A
      /\ \A i \in 1..Len(t) : Len(s) + i \in C <=> i \in B
  BY <1>1, <1>2
<1>4. /\ A \in SUBSET (1..Len(s)) /\ B \in SUBSET (1..Len(t))
      /\ C \in SUBSET (1..(Len(s) + Len(t)))
  BY <1>1, <1>2
<1>5. /\ VideoCount(s) = Cardinality(A) /\ VideoCount(t) = Cardinality(B)
      /\ VideoCount(s \o t) = Cardinality(C)
  BY DEF VideoCount
<1>6. Len(s) \in Nat /\ Len(t) \in Nat
  BY <1>1
<1> HIDE DEF A, B, C
<1>7. Adds(Len(s), Len(t), A, B, C)
  BY <1>3, <1>4 DEF Adds
<1> QED BY <1>5, <1>6, <1>7, CountSplit

LEMMA VideoOfOne ==
  /\ VideoCount(<<>>) = 0
  /\ \A p \in Item : VideoCount(<<p>>) = Counted(p)
<1>1. VideoCount(<<>>) = 0
  <2>1. {i \in DOMAIN <<>> : IsVideo(<<>>[i])} = {}
    OBVIOUS
  <2> QED BY <2>1, FS_EmptySet DEF VideoCount
<1>2. ASSUME NEW p \in Item
      PROVE  VideoCount(<<p>>) = Counted(p)
  <2>1. DOMAIN <<p>> = {1} /\ <<p>>[1] = p
    OBVIOUS
  <2>2. CASE IsVideo(p)
    <3>1. {i \in DOMAIN <<p>> : IsVideo(<<p>>[i])} = {1}
      BY <2>1, <2>2
    <3> QED BY <3>1, <2>2, FS_Singleton DEF VideoCount, Counted
  <2>3. CASE ~IsVideo(p)
    <3>1. {i \in DOMAIN <<p>> : IsVideo(<<p>>[i])} = {}
      BY <2>1, <2>3
    <3> QED BY <3>1, <2>3, FS_EmptySet DEF VideoCount, Counted
  <2> QED BY <2>2, <2>3
<1> QED BY <1>1, <1>2

\* An overflow cuts the list in two.
LEMMA DropSplits ==
  ASSUME NEW T, NEW s \in Seq(T)
  PROVE  /\ Dropped(s) \in Seq(T) /\ DropTo(s) \in Seq(T)
         /\ s = Dropped(s) \o DropTo(s)
<1>1. CASE \E i \in DOMAIN s : IsSecondKey(s, i)
  <2> DEFINE i == CHOOSE i \in DOMAIN s : IsSecondKey(s, i)
  <2>1. i \in 1..Len(s)
    BY <1>1, LenProperties
  <2>2. DropTo(s) = SubSeq(s, i, Len(s))
    BY <1>1 DEF DropTo
  <2> HIDE DEF i
  <2>3. /\ DropTo(s) \in Seq(T) /\ Len(DropTo(s)) = Len(s) - i + 1
    BY <2>1, <2>2, SubSeqProperties
  <2>4. Dropped(s) = SubSeq(s, 1, i - 1)
    BY <2>1, <2>3 DEF Dropped
  <2>5. Dropped(s) \in Seq(T)
    BY <2>1, <2>4, SubSeqProperties
  <2>6. SubSeq(s, 1, i - 1) \o SubSeq(s, (i - 1) + 1, Len(s)) = SubSeq(s, 1, Len(s))
    <3>1. /\ Len(s) \in Nat /\ 1 \in 1..(Len(s) + 1) /\ i - 1 \in (1 - 1)..Len(s)
          /\ Len(s) \in (i - 1)..Len(s)
      BY <2>1, LenProperties
    <3> QED BY <3>1, ConcatAdjacentSubSeq
  <2>7. SubSeq(s, 1, Len(s)) = s
    BY SubSeqFull
  <2> QED BY <2>1, <2>2, <2>3, <2>4, <2>5, <2>6, <2>7
<1>2. CASE ~\E i \in DOMAIN s : IsSecondKey(s, i)
  <2>1. DropTo(s) = <<>>
    BY <1>2 DEF DropTo
  <2>2. Dropped(s) = s
    BY <2>1, SubSeqFull DEF Dropped
  <2> QED BY <2>1, <2>2, ConcatEmptySeq
<1> QED BY <1>1, <1>2

LEMMA VideoAppend ==
  ASSUME NEW s \in Seq(Item), NEW p \in Item
  PROVE  VideoCount(s) \in Nat /\ VideoCount(Append(s, p)) = VideoCount(s) + Counted(p)
<1>1. Append(s, p) = s \o <<p>> /\ <<p>> \in Seq(Item)
  BY AppendIsConcat
<1> QED BY <1>1, VideoConcat, VideoOfOne

\* A list with a front is its front and the rest.
LEMMA HeadFirst ==
  ASSUME NEW T, NEW s \in Seq(T), s # <<>>
  PROVE  Head(s) \in T /\ Tail(s) \in Seq(T) /\ <<Head(s)>> \in Seq(T) /\ s = <<Head(s)>> \o Tail(s)
<1>1. /\ Head(s) \in T /\ Tail(s) \in Seq(T) /\ Len(s) \in Nat \ {0}
      /\ Head(s) = s[1] /\ Len(Tail(s)) = Len(s) - 1
      /\ \A i \in 1..Len(Tail(s)) : Tail(s)[i] = s[i + 1]
  BY HeadTailProperties, LenProperties, EmptySeq
<1> DEFINE t == <<Head(s)>> \o Tail(s)
<1>2. <<Head(s)>> \in Seq(T) /\ Len(<<Head(s)>>) = 1 /\ <<Head(s)>>[1] = s[1]
  BY <1>1
<1>3. /\ t \in Seq(T) /\ Len(t) = Len(s)
      /\ t[1] = s[1] /\ \A i \in 1..Len(Tail(s)) : t[1 + i] = Tail(s)[i]
  BY <1>1, <1>2, ConcatProperties
<1>4. \A i \in 1..Len(s) : t[i] = s[i]
  <2> SUFFICES ASSUME NEW i \in 1..Len(s), i # 1 PROVE t[i] = s[i]
    BY <1>3
  <2>1. i - 1 \in 1..Len(Tail(s)) /\ i = 1 + (i - 1) /\ i = (i - 1) + 1
    BY <1>1
  <2> HIDE DEF t
  <2>2. t[1 + (i - 1)] = Tail(s)[i - 1] /\ Tail(s)[i - 1] = s[(i - 1) + 1]
    BY <2>1, <1>1, <1>3
  <2> QED BY <2>1, <2>2
<1>5. s = t
  <2> HIDE DEF t
  <2> QED BY <1>3, <1>4, SeqEqual
<1> QED BY <1>1, <1>2, <1>5

LEMMA InitVideo == Init => VideoCountExact
<1> SUFFICES ASSUME Init PROVE VideoCountExact
  OBVIOUS
<1>1. packet_list = NoPtr /\ video_packet_num = 0
  BY Zenon DEF Init
<1> QED BY <1>1 DEF VideoCountExact

LEMMA PushVideoCount ==
  ASSUME ControlInv, VideoCountExact, PushVideo \/ PushAudio
  PROVE  VideoCountExact'
<1>1. PICK kind \in {"key", "delta", "audio"} : push_packet(kind)
  BY DEF PushVideo, PushAudio
<1> DEFINE lost == IF Overflow THEN Dropped(packet_list) ELSE <<>>
           kept == IF Overflow THEN DropTo(packet_list) ELSE packet_list
           p == [n |-> pushed + 1, kind |-> kind, job |-> jobs]
<1>2. /\ packet_list \in Seq(Item) /\ p \in Item
      /\ packet_list' = Append(kept, p)
  BY <1>1, PushAppends DEF Item
<1>3. video_packet_num' = video_packet_num - VideoCount(lost) + Counted(p)
  BY <1>1 DEF push_packet
<1>4. /\ lost \in Seq(Item) /\ kept \in Seq(Item) /\ packet_list = lost \o kept
  <2>1. CASE Overflow
    BY <2>1, <1>2, DropSplits
  <2>2. CASE ~Overflow
    BY <2>2, <1>2, ConcatEmptySeq
  <2> QED BY <2>1, <2>2
<1>5. packet_list # NoPtr
  BY <1>2, ListsTyped
<1> HIDE DEF lost, kept, p
<1>6. /\ VideoCount(lost) \in Nat /\ VideoCount(kept) \in Nat
      /\ VideoCount(packet_list) = VideoCount(lost) + VideoCount(kept)
  BY <1>4, VideoConcat
<1>7. VideoCount(packet_list') = VideoCount(kept) + Counted(p)
  BY <1>2, <1>4, VideoAppend
<1>8. packet_list' # NoPtr /\ Counted(p) \in Nat
  BY <1>2, <1>4, AppendProperties, ListsTyped DEF Counted
<1> QED BY <1>3, <1>5, <1>6, <1>7, <1>8 DEF VideoCountExact

LEMMA PopVideo ==
  ASSUME ControlInv, VideoCountExact, NEW w \in Writers, Pop(w)
  PROVE  VideoCountExact'
<1> DEFINE p == Head(packet_list)
<1>1. /\ packet_list \in Seq(Item) /\ packet_list # <<>> /\ packet_list # NoPtr
      /\ packet_list' = Tail(packet_list)
      /\ video_packet_num' = video_packet_num - Counted(p)
  BY DEF Pop, ControlInv, MuxerType
<1>2. /\ p \in Item /\ Tail(packet_list) \in Seq(Item) /\ <<p>> \in Seq(Item)
      /\ packet_list = <<p>> \o Tail(packet_list)
  BY <1>1, HeadFirst
<1> HIDE DEF p
<1>3. /\ VideoCount(<<p>>) \in Nat /\ VideoCount(Tail(packet_list)) \in Nat
      /\ VideoCount(packet_list) = VideoCount(<<p>>) + VideoCount(Tail(packet_list))
  BY <1>2, VideoConcat
<1>4. VideoCount(<<p>>) = Counted(p)
  BY <1>2, VideoOfOne
<1>5. packet_list' # NoPtr
  BY <1>1, <1>2, ListsTyped
<1> QED BY <1>1, <1>3, <1>4, <1>5 DEF VideoCountExact

\* Every step but a push and a pop leaves the list, empties it or adds the
\* empty packet.
LEMMA NextVideo == ControlInv /\ VideoCountExact /\ [Next]_vars => VideoCountExact'
<1> SUFFICES ASSUME ControlInv, VideoCountExact, [Next]_vars PROVE VideoCountExact'
  OBVIOUS
<1>1. CASE UNCHANGED <<packet_list, video_packet_num>>
  BY <1>1 DEF VideoCountExact
<1>2. CASE packet_list' = NoPtr /\ video_packet_num' = 0
  BY <1>2 DEF VideoCountExact
<1>3. CASE InitUri
  <2>1. /\ video_packet_num' = video_packet_num
        /\ packet_list' = IF packet_list = NoPtr THEN <<>> ELSE packet_list
    BY <1>3 DEF InitUri
  <2>2. <<>> # NoPtr
    <3>1. <<>> \in Seq(Item)
      OBVIOUS
    <3> QED BY <3>1, ListsTyped
  <2> QED BY <2>1, <2>2, VideoOfOne DEF VideoCountExact
<1>4. CASE StopWake
  <2>1. /\ video_packet_num' = video_packet_num /\ packet_list # NoPtr
        /\ packet_list \in Seq(Item) /\ packet_list' = Append(packet_list, empty_packet)
    BY <1>4 DEF StopWake, WithEmptyPacket, ControlInv, MuxerType
  <2>2. empty_packet \in Item /\ Counted(empty_packet) = 0
    BY DEF Item, empty_packet, Counted, IsVideo
  <2>3. VideoCount(packet_list') = VideoCount(packet_list)
    BY <2>1, <2>2, VideoAppend
  <2>4. packet_list' # NoPtr
    BY <2>1, <2>2, AppendProperties, ListsTyped
  <2> QED BY <2>1, <2>3, <2>4 DEF VideoCountExact
<1>5. CASE Control
  <2>1. CASE StartPublish \/ StopCheck \/ StopPost \/ StopWakeNull \/ StopReturn
             \/ DeleteBegin \/ SyncJoin
    BY <2>1, <1>1 DEF StartPublish, StopCheck, StopPost, StopWakeNull, StopReturn,
       DeleteBegin, SyncJoin, muxerVars
  <2>2. ASSUME NEW w \in Writers, StartCreate(w) \/ SyncPick(w)
        PROVE  VideoCountExact'
    BY <2>2, <1>1 DEF StartCreate, SyncPick, muxerVars
  <2>3. CASE Destroy
    BY <2>3, <1>2 DEF Destroy
  <2> QED BY <1>3, <1>4, <1>5, <2>1, <2>2, <2>3 DEF Control
<1>6. ASSUME NEW g, StopRequest(g) PROVE VideoCountExact'
  BY <1>6, <1>1 DEF StopRequest
<1>7. CASE PushVideo \/ PushAudio
  BY <1>7, PushVideoCount
<1>8. ASSUME NEW w \in Writers, Writer(w) PROVE VideoCountExact'
  <2>1. CASE Pop(w)
    BY <2>1, PopVideo
  <2>2. CASE TakeList(w)
    BY <2>2, <1>2 DEF TakeList
  <2>3. CASE ~Pop(w) /\ ~TakeList(w)
    BY <2>3, <1>8, <1>1 DEF Writer, Check, GetMessage, MuxerInit, MuxerInitFails, Notify, Block,
       Write, Drain, Drained, Tailer, NotifyFlushed, End, Detach, muxerVars
  <2> QED BY <2>1, <2>2, <2>3
<1>9. CASE UNCHANGED vars
  BY <1>9, <1>1 DEF vars, muxerVars
<1> QED BY <1>5, <1>6, <1>7, <1>8, <1>9 DEF Next, Done

\* The count of video packets that decides about an overflow is the number of
\* those in the list, through every overflow, stop and restart (push_packet,
\* wait_pop_packet and set_packet_list each keep it), for any number of writers,
\* jobs and packets.
THEOREM CountCorrect == Spec => []VideoCountExact
<1>1. Init => ControlInv
  BY InitDelete, InitCharge DEF ControlInv
<1> QED BY <1>1, InitVideo, NextControl, NextVideo, PTL DEF Spec

-----------------------------------------------------------------------------
(* The references the muxer holds.                                         *)

\* The packets of a list, by number, and that it holds none of them twice.
Nums(s) == {n \in 1..MaxPackets : \E i \in DOMAIN s : s[i].n = n}
Once(s) == \A i, j \in DOMAIN s : s[i].n = s[j].n /\ s[i].n \in 1..MaxPackets => i = j

SharedNums == IF packet_list = NoPtr THEN {} ELSE Nums(packet_list)
OwnNums(w) == IF pc[w] = "write" THEN {hand[w].n} ELSE Nums(private[w])

\* Who has a private list, and what a writer that writes has in its hand.
PrivateHeld == \A w \in Writers :
  private[w] # <<>> => pc[w] = "drain" \/ (pc[w] = "notify" /\ msg[w].id = "NORMAL")
HandFull == \A w \in Writers : pc[w] = "write" => hand[w] # empty_packet
\* A packet is in one place, and the muxer has a reference on it exactly then.
OnceEach == /\ packet_list # NoPtr => Once(packet_list)
            /\ \A w \in Writers : Once(private[w])
HeldPushed == /\ \A n \in SharedNums : n <= pushed
              /\ \A w \in Writers : \A n \in OwnNums(w) : n <= pushed
Apart == /\ \A w \in Writers : OwnNums(w) \cap SharedNums = {}
         /\ \A v, w \in Writers : v # w => OwnNums(v) \cap OwnNums(w) = {}
IsHeld(n) == n \in SharedNums \/ \E w \in Writers : n \in OwnNums(w)
RefsMatch == /\ refs \in [1..MaxPackets -> Int]
             /\ \A n \in 1..MaxPackets : refs[n] = IF IsHeld(n) THEN 1 ELSE 0
PlacesInv == PrivateHeld /\ HandFull /\ OnceEach
HeldInv == HeldPushed /\ Apart /\ RefsMatch
RefsInv == PlacesInv /\ HeldInv

LEMMA NumsOfOne ==
  /\ Nums(<<>>) = {} /\ Once(<<>>)
  /\ \A p \in Item : /\ Once(<<p>>)
                     /\ p = empty_packet => Nums(<<p>>) = {}
                     /\ p # empty_packet => Nums(<<p>>) = {p.n} /\ p.n \in 1..MaxPackets
<1>1. Nums(<<>>) = {} /\ Once(<<>>)
  BY DEF Nums, Once
<1>2. ASSUME NEW p \in Item
      PROVE  /\ Once(<<p>>)
             /\ p = empty_packet => Nums(<<p>>) = {}
             /\ p # empty_packet => Nums(<<p>>) = {p.n} /\ p.n \in 1..MaxPackets
  <2>1. DOMAIN <<p>> = {1} /\ <<p>>[1] = p
    OBVIOUS
  <2>2. Nums(<<p>>) = {n \in 1..MaxPackets : p.n = n}
    BY <2>1 DEF Nums
  <2>3. p # empty_packet => p.n \in 1..MaxPackets
    BY DEF Item, Packet
  <2>4. p = empty_packet => p.n = 0
    BY DEF empty_packet
  <2>5. Once(<<p>>)
    BY <2>1 DEF Once
  <2> QED BY <2>2, <2>3, <2>4, <2>5
<1> QED BY <1>1, <1>2

LEMMA NumsConcat ==
  ASSUME NEW s \in Seq(Item), NEW t \in Seq(Item)
  PROVE  /\ Nums(s \o t) = Nums(s) \cup Nums(t)
         /\ Once(s \o t) <=> Once(s) /\ Once(t) /\ Nums(s) \cap Nums(t) = {}
<1> DEFINE u == s \o t
           k == Len(s)
           m == Len(t)
<1>1. k \in Nat /\ DOMAIN s = 1..k /\ m \in Nat /\ DOMAIN t = 1..m
  BY LenProperties
<1>2. /\ DOMAIN u = 1..(k + m)
      /\ \A i \in 1..k : u[i] = s[i]
      /\ \A i \in 1..m : u[k + i] = t[i]
  BY <1>1, ConcatProperties, LenProperties
<1> HIDE DEF u, k, m
<1>3. ASSUME NEW i \in 1..(k + m)
      PROVE  i \in 1..k \/ \E j \in 1..m : i = k + j
  <2>1. i \in 1..k \/ (i - k \in 1..m /\ i = k + (i - k))
    BY <1>1
  <2> QED BY <2>1
<1>4. \A i \in 1..k : i \in 1..(k + m)
  BY <1>1
<1>5. \A i \in 1..m : k + i \in 1..(k + m) /\ k + i \notin 1..k
  BY <1>1
<1>6. \A n : (\E i \in 1..(k + m) : u[i].n = n)
             <=> (\E i \in 1..k : s[i].n = n) \/ (\E i \in 1..m : t[i].n = n)
  <2> SUFFICES ASSUME NEW n
               PROVE  (\E i \in 1..(k + m) : u[i].n = n)
                      <=> (\E i \in 1..k : s[i].n = n) \/ (\E i \in 1..m : t[i].n = n)
    OBVIOUS
  <2>1. ASSUME NEW i \in 1..(k + m), u[i].n = n
        PROVE  (\E j \in 1..k : s[j].n = n) \/ (\E j \in 1..m : t[j].n = n)
    BY <1>2, <1>3, <2>1
  <2>2. ASSUME NEW i \in 1..k, s[i].n = n PROVE \E j \in 1..(k + m) : u[j].n = n
    BY <1>2, <1>4, <2>2
  <2>3. ASSUME NEW i \in 1..m, t[i].n = n PROVE \E j \in 1..(k + m) : u[j].n = n
    BY <1>2, <1>5, <2>3
  <2> QED BY <2>1, <2>2, <2>3
<1>7. Nums(u) = Nums(s) \cup Nums(t)
  BY <1>1, <1>2, <1>6 DEF Nums
<1>8. ASSUME Once(u)
      PROVE  Once(s) /\ Once(t) /\ Nums(s) \cap Nums(t) = {}
  <2>0. \A i, j \in 1..(k + m) : u[i].n = u[j].n /\ u[i].n \in 1..MaxPackets => i = j
    BY <1>2, <1>8 DEF Once
  <2>1. Once(s)
    BY <1>1, <1>2, <1>4, <2>0 DEF Once
  <2>2. ASSUME NEW i \in 1..m, NEW j \in 1..m, t[i].n = t[j].n, t[i].n \in 1..MaxPackets
        PROVE  i = j
    <3>1. k + i = k + j
      BY <1>2, <1>5, <2>0, <2>2
    <3> QED BY <3>1, <1>1
  <2>3. ASSUME NEW n \in 1..MaxPackets, n \in Nums(s), n \in Nums(t)
        PROVE  FALSE
    <3>1. PICK i \in 1..k, j \in 1..m : s[i].n = n /\ t[j].n = n
      BY <2>3, <1>1 DEF Nums
    <3>2. i = k + j
      BY <3>1, <1>2, <1>4, <1>5, <2>0
    <3> QED BY <3>2, <1>5
  <2>4. Nums(s) \subseteq 1..MaxPackets
    BY DEF Nums
  <2>5. Once(t)
    BY <1>1, <2>2 DEF Once
  <2> QED BY <2>1, <2>3, <2>4, <2>5
<1>9. ASSUME Once(s), Once(t), Nums(s) \cap Nums(t) = {}
      PROVE  Once(u)
  <2> SUFFICES ASSUME NEW i \in 1..(k + m), NEW j \in 1..(k + m),
                      u[i].n = u[j].n, u[i].n \in 1..MaxPackets
               PROVE  i = j
    BY <1>2 DEF Once
  <2>1. CASE i \in 1..k /\ j \in 1..k
    BY <2>1, <1>1, <1>2, <1>9 DEF Once
  <2>2. ASSUME NEW a \in 1..m, NEW b \in 1..m, i = k + a, j = k + b
        PROVE  i = j
    <3>1. t[a].n = t[b].n /\ t[a].n \in 1..MaxPackets
      BY <2>2, <1>2
    <3>2. a = b
      BY <3>1, <1>1, <1>9 DEF Once
    <3> QED BY <3>2, <2>2
  <2>3. ASSUME NEW a \in 1..k, NEW b \in 1..m, u[a].n = u[k + b].n, u[a].n \in 1..MaxPackets
        PROVE  FALSE
    <3>1. u[a].n \in Nums(s) /\ u[a].n \in Nums(t)
      BY <2>3, <1>1, <1>2 DEF Nums
    <3> QED BY <3>1, <1>9
  <2> QED BY <1>3, <2>1, <2>2, <2>3
<1> QED BY <1>7, <1>8, <1>9 DEF u

\* Giving back the packets of a list takes one reference from each of them.
LEMMA UnrefIs ==
  ASSUME NEW r \in [1..MaxPackets -> Int], NEW s \in Seq(Item), Once(s)
  PROVE  /\ Unref(r, s) \in [1..MaxPackets -> Int]
         /\ \A n \in 1..MaxPackets :
              Unref(r, s)[n] = IF n \in Nums(s) THEN r[n] - 1 ELSE r[n]
<1>1. ASSUME NEW n \in 1..MaxPackets
      PROVE  Cardinality({i \in DOMAIN s : s[i].n = n}) = IF n \in Nums(s) THEN 1 ELSE 0
  <2> DEFINE P == {i \in DOMAIN s : s[i].n = n}
  <2>1. CASE n \in Nums(s)
    <3>1. PICK i \in DOMAIN s : s[i].n = n
      BY <2>1 DEF Nums
    <3>2. P = {i}
      BY <3>1 DEF Once
    <3> HIDE DEF P
    <3>3. Cardinality(P) = 1
      BY <3>2, FS_Singleton
    <3> QED BY <2>1, <3>3 DEF P
  <2>2. CASE n \notin Nums(s)
    <3>1. P = {}
      BY <2>2 DEF Nums
    <3> HIDE DEF P
    <3>2. Cardinality(P) = 0
      BY <3>1, FS_EmptySet
    <3> QED BY <2>2, <3>2 DEF P
  <2> QED BY <2>1, <2>2
<1>2. Unref(r, s) = [n \in 1..MaxPackets |-> IF n \in Nums(s) THEN r[n] - 1 ELSE r[n]]
  BY <1>1 DEF Unref
<1> QED BY <1>2

\* Packets that move between two places stay referenced once.
LEMMA MoveHeld ==
  ASSUME HeldInv, NEW w \in Writers, UNCHANGED <<refs, pushed>>,
         \A v \in Writers \ {w} : OwnNums(v)' = OwnNums(v),
         SharedNums' \cup OwnNums(w)' = SharedNums \cup OwnNums(w),
         SharedNums' \cap OwnNums(w)' = {}
  PROVE  HeldInv'
<1> USE DEF HeldInv
<1>1. HeldPushed'
  BY DEF HeldPushed
<1>2. Apart'
  <2>1. ASSUME NEW v \in Writers PROVE OwnNums(v)' \cap SharedNums' = {}
    BY DEF Apart
  <2>2. ASSUME NEW u \in Writers, NEW v \in Writers, u # v
        PROVE  OwnNums(u)' \cap OwnNums(v)' = {}
    BY <2>2 DEF Apart
  <2> QED BY <2>1, <2>2 DEF Apart
<1>3. \A n : IsHeld(n)' <=> IsHeld(n)
  BY DEF IsHeld
<1>4. RefsMatch'
  BY <1>3 DEF RefsMatch
<1> QED BY <1>1, <1>2, <1>4

\* Packets that leave their place, and whose reference is given back.
LEMMA ReleaseHeld ==
  ASSUME HeldInv, NEW N, \A n \in N : IsHeld(n), pushed' = pushed,
         \A v \in Writers : OwnNums(v)' = OwnNums(v) \ N,
         SharedNums' = SharedNums \ N,
         refs' \in [1..MaxPackets -> Int],
         \A n \in 1..MaxPackets : refs'[n] = IF n \in N THEN refs[n] - 1 ELSE refs[n]
  PROVE  HeldInv'
<1> USE DEF HeldInv
<1>1. HeldPushed'
  BY DEF HeldPushed
<1>2. Apart'
  BY DEF Apart
<1>3. \A n : IsHeld(n)' <=> IsHeld(n) /\ n \notin N
  BY DEF IsHeld
<1>4. RefsMatch'
  BY <1>3 DEF RefsMatch
<1> QED BY <1>1, <1>2, <1>4

\* The lists stay, and the writers keep what they hold: nothing moves.
LEMMA StayRefs ==
  ASSUME RefsInv, UNCHANGED <<packet_list, private, hand, refs, pushed>>,
         \A w \in Writers : pc'[w] = "write" <=> pc[w] = "write",
         PrivateHeld'
  PROVE  RefsInv'
<1>1. SharedNums' = SharedNums /\ \A w \in Writers : OwnNums(w)' = OwnNums(w)
  BY DEF SharedNums, OwnNums
<1>2. HeldInv'
  <2>1. HeldPushed' /\ Apart'
    BY <1>1 DEF RefsInv, HeldInv, HeldPushed, Apart
  <2>2. \A n : IsHeld(n)' <=> IsHeld(n)
    BY <1>1 DEF IsHeld
  <2> QED BY <2>1, <2>2 DEF RefsInv, HeldInv, RefsMatch
<1>3. HandFull' /\ OnceEach'
  BY DEF RefsInv, PlacesInv, HandFull, OnceEach
<1> QED BY <1>2, <1>3 DEF RefsInv, PlacesInv

\* Waking a writer neither gives it a packet nor takes one.
LEMMA WakeStays ==
  ASSUME ControlInv, PrivateHeld, pc' = WakeWriter, UNCHANGED <<private, msg>>
  PROVE  PrivateHeld' /\ \A w \in Writers : pc'[w] = "write" <=> pc[w] = "write"
<1>1. \A w \in Writers : pc'[w] = pc[w] \/ (pc[w] = "blocked" /\ pc'[w] = "woken")
  BY DEF WakeWriter
<1> QED BY <1>1 DEF PrivateHeld

LEMMA PopRefs ==
  ASSUME ControlInv, RefsInv, NEW w \in Writers, Pop(w)
  PROVE  RefsInv'
<1> DEFINE p == Head(packet_list)
           t == Tail(packet_list)
<1>1. /\ packet_list \in Seq(Item) /\ packet_list # <<>> /\ packet_list # NoPtr
      /\ packet_list' = t /\ pc[w] \in {"pop", "woken"} /\ pc[w] # "write"
      /\ hand' = [hand EXCEPT ![w] = p] /\ pc' = [pc EXCEPT ![w] = AfterPop(p)]
      /\ UNCHANGED <<refs, pushed, private, msg>>
  BY DEF Pop, ControlInv, MuxerType, Goto, dataVars
<1>2. /\ p \in Item /\ t \in Seq(Item) /\ <<p>> \in Seq(Item) /\ packet_list = <<p>> \o t
  BY <1>1, HeadFirst
<1>3. packet_list' # NoPtr
  BY <1>1, <1>2, ListsTyped
<1>4. /\ pc'[w] = AfterPop(p) /\ hand'[w] = p
      /\ \A v \in Writers \ {w} : pc'[v] = pc[v] /\ hand'[v] = hand[v]
  BY <1>1 DEF ControlInv, MuxerType
<1> HIDE DEF p, t
<1>5. /\ Nums(packet_list) = Nums(<<p>>) \cup Nums(t)
      /\ Once(t) /\ Nums(<<p>>) \cap Nums(t) = {}
  <2>1. Once(packet_list)
    BY <1>1 DEF RefsInv, PlacesInv, OnceEach
  <2> QED BY <2>1, <1>2, NumsConcat
<1>6. private[w] = <<>> /\ OwnNums(w) = {}
  BY <1>1, NumsOfOne DEF RefsInv, PlacesInv, PrivateHeld, OwnNums
<1>7. OwnNums(w)' = Nums(<<p>>)
  <2>1. CASE p = empty_packet
    <3>1. pc'[w] = "check" /\ private'[w] = <<>>
      BY <2>1, <1>1, <1>4, <1>6 DEF AfterPop
    <3>2. Nums(<<p>>) = {} /\ Nums(<<>>) = {}
      BY <2>1, <1>2, NumsOfOne
    <3> QED BY <3>1, <3>2 DEF OwnNums
  <2>2. CASE p # empty_packet
    BY <2>2, <1>2, <1>4, NumsOfOne DEF OwnNums, AfterPop
  <2> QED BY <2>1, <2>2
<1>8. SharedNums = Nums(packet_list) /\ SharedNums' = Nums(t)
  BY <1>1, <1>3 DEF SharedNums
<1>9. \A v \in Writers \ {w} : OwnNums(v)' = OwnNums(v)
  BY <1>1, <1>4 DEF OwnNums
<1>10. HeldInv'
  <2>1. SharedNums' \cup OwnNums(w)' = SharedNums \cup OwnNums(w)
    BY <1>5, <1>6, <1>7, <1>8
  <2>2. SharedNums' \cap OwnNums(w)' = {}
    BY <1>5, <1>7, <1>8
  <2> QED BY <1>1, <1>9, <2>1, <2>2, MoveHeld DEF RefsInv
<1>11. PrivateHeld'
  BY <1>1, <1>4, <1>6 DEF RefsInv, PlacesInv, PrivateHeld
<1>12. HandFull'
  BY <1>4 DEF RefsInv, PlacesInv, HandFull, AfterPop
<1>13. OnceEach'
  BY <1>1, <1>5 DEF RefsInv, PlacesInv, OnceEach
<1> QED BY <1>10, <1>11, <1>12, <1>13 DEF RefsInv, PlacesInv

LEMMA TakeRefs ==
  ASSUME ControlInv, RefsInv, NEW w \in Writers, TakeList(w)
  PROVE  RefsInv'
<1>1. /\ pc[w] = "take" /\ packet_list' = NoPtr
      /\ private' = [private EXCEPT ![w] = packet_list]
      /\ pc' = [pc EXCEPT ![w] = AfterTake(msg[w].id)]
      /\ UNCHANGED <<refs, pushed, hand, msg>>
  BY DEF TakeList, Goto, dataVars
<1>2. packet_list # NoPtr
  BY <1>1 DEF ControlInv, ChargeInv, ListThere, Reading
<1>3. /\ private'[w] = packet_list /\ pc'[w] = AfterTake(msg[w].id)
      /\ \A v \in Writers \ {w} : pc'[v] = pc[v] /\ private'[v] = private[v]
  BY <1>1 DEF ControlInv, MuxerType
<1>4. OwnNums(w) = {} /\ OwnNums(w)' = SharedNums /\ SharedNums' = {}
  <2>1. private[w] = <<>>
    BY <1>1 DEF RefsInv, PlacesInv, PrivateHeld
  <2>2. pc'[w] # "write"
    BY <1>3 DEF AfterTake
  <2> QED BY <1>1, <1>2, <1>3, <2>1, <2>2, NumsOfOne DEF OwnNums, SharedNums
<1>5. \A v \in Writers \ {w} : OwnNums(v)' = OwnNums(v)
  BY <1>1, <1>3 DEF OwnNums
<1>6. HeldInv'
  BY <1>1, <1>4, <1>5, MoveHeld DEF RefsInv
<1>7. PrivateHeld' /\ HandFull'
  BY <1>1, <1>3 DEF RefsInv, PlacesInv, PrivateHeld, HandFull, AfterTake
<1>8. OnceEach'
  BY <1>1, <1>2, <1>3 DEF RefsInv, PlacesInv, OnceEach
<1> QED BY <1>6, <1>7, <1>8 DEF RefsInv, PlacesInv

\* Writing a packet gives its reference back.
LEMMA WriteReleases ==
  ASSUME HeldInv, NEW w \in Writers, NEW p \in Item, p # empty_packet,
         WriteFree(w, p), p.n \in OwnNums(w), UNCHANGED packet_list,
         OwnNums(w)' = OwnNums(w) \ {p.n},
         \A v \in Writers \ {w} : OwnNums(v)' = OwnNums(v)
  PROVE  HeldInv'
<1>1. <<p>> \in Seq(Item) /\ Once(<<p>>) /\ Nums(<<p>>) = {p.n}
  BY NumsOfOne
<1>2. refs' = Unref(refs, <<p>>) /\ pushed' = pushed
  BY DEF WriteFree
<1>3. /\ refs' \in [1..MaxPackets -> Int]
      /\ \A n \in 1..MaxPackets : refs'[n] = IF n \in {p.n} THEN refs[n] - 1 ELSE refs[n]
  <2>1. refs \in [1..MaxPackets -> Int]
    BY DEF HeldInv, RefsMatch
  <2> QED BY <2>1, <1>1, <1>2, UnrefIs
<1>4. SharedNums' = SharedNums
  BY DEF SharedNums
<1>5. SharedNums \ {p.n} = SharedNums
  BY DEF HeldInv, Apart
<1>6. \A v \in Writers : OwnNums(v)' = OwnNums(v) \ {p.n}
  BY DEF HeldInv, Apart
<1>7. \A n \in {p.n} : IsHeld(n)
  BY DEF IsHeld
<1> QED BY <1>2, <1>3, <1>4, <1>5, <1>6, <1>7, ReleaseHeld

LEMMA WriteRefs ==
  ASSUME ControlInv, RefsInv, NEW w \in Writers, Write(w)
  PROVE  RefsInv'
<1> DEFINE p == hand[w]
<1>1. /\ pc[w] = "write" /\ WriteFree(w, p) /\ pc' = [pc EXCEPT ![w] = "check"]
      /\ hand' = [hand EXCEPT ![w] = empty_packet]
      /\ UNCHANGED <<packet_list, private, msg>>
  BY DEF Write, Goto, muxerVars
<1>2. p \in Item /\ p # empty_packet
  BY <1>1 DEF RefsInv, PlacesInv, HandFull, ControlInv, MuxerType
<1>3. /\ pc'[w] = "check"
      /\ \A v \in Writers \ {w} : pc'[v] = pc[v] /\ hand'[v] = hand[v]
  BY <1>1 DEF ControlInv, MuxerType
<1>4. private[w] = <<>>
  BY <1>1 DEF RefsInv, PlacesInv, PrivateHeld
<1>5. OwnNums(w) = {p.n} /\ OwnNums(w)' = {}
  BY <1>1, <1>3, <1>4, NumsOfOne DEF OwnNums
<1>6. \A v \in Writers \ {w} : OwnNums(v)' = OwnNums(v)
  BY <1>1, <1>3 DEF OwnNums
<1> HIDE DEF p
<1>7. HeldInv'
  BY <1>1, <1>2, <1>5, <1>6, WriteReleases DEF RefsInv
<1>8. PrivateHeld' /\ HandFull'
  BY <1>1, <1>3, <1>4 DEF RefsInv, PlacesInv, PrivateHeld, HandFull
<1>9. OnceEach'
  BY <1>1 DEF RefsInv, PlacesInv, OnceEach
<1> QED BY <1>7, <1>8, <1>9 DEF RefsInv, PlacesInv

LEMMA DrainRefs ==
  ASSUME ControlInv, RefsInv, NEW w \in Writers, Drain(w)
  PROVE  RefsInv'
<1> DEFINE p == Head(private[w])
           t == Tail(private[w])
<1>1. /\ pc[w] = "drain" /\ private[w] \in Seq(Item) /\ private[w] # <<>>
      /\ private' = [private EXCEPT ![w] = t]
      /\ UNCHANGED <<packet_list, pc, hand, msg>>
      /\ p = empty_packet => UNCHANGED <<refs, pushed>>
      /\ p # empty_packet => WriteFree(w, p)
  BY DEF Drain, ControlInv, MuxerType, muxerVars, dataVars
<1>2. p \in Item /\ t \in Seq(Item) /\ <<p>> \in Seq(Item) /\ private[w] = <<p>> \o t
  BY <1>1, HeadFirst
<1>3. private'[w] = t /\ \A v \in Writers \ {w} : private'[v] = private[v]
  BY <1>1 DEF ControlInv, MuxerType
<1> HIDE DEF p, t
<1>4. /\ Nums(private[w]) = Nums(<<p>>) \cup Nums(t)
      /\ Once(t) /\ Nums(<<p>>) \cap Nums(t) = {}
  <2>1. Once(<<p>> \o t)
    BY <1>2 DEF RefsInv, PlacesInv, OnceEach
  <2>2. /\ Nums(<<p>> \o t) = Nums(<<p>>) \cup Nums(t)
        /\ Once(t) /\ Nums(<<p>>) \cap Nums(t) = {}
    BY <2>1, <1>2, NumsConcat
  <2> QED BY <2>2, <1>2
<1>5. OwnNums(w) = Nums(private[w]) /\ OwnNums(w)' = Nums(t)
  BY <1>1, <1>3 DEF OwnNums
<1>6. \A v \in Writers \ {w} : OwnNums(v)' = OwnNums(v)
  BY <1>1, <1>3 DEF OwnNums
<1>7. HeldInv'
  <2>1. CASE p = empty_packet
    <3>1. OwnNums(w)' = OwnNums(w)
      BY <2>1, <1>2, <1>4, <1>5, NumsOfOne
    <3>2. SharedNums' = SharedNums
      BY <1>1 DEF SharedNums
    <3>3. SharedNums \cap OwnNums(w) = {}
      BY DEF RefsInv, HeldInv, Apart
    <3> QED BY <2>1, <1>1, <1>6, <3>1, <3>2, <3>3, MoveHeld DEF RefsInv
  <2>2. CASE p # empty_packet
    <3>1. Nums(<<p>>) = {p.n}
      BY <2>2, <1>2, NumsOfOne
    <3>2. p.n \in OwnNums(w) /\ OwnNums(w)' = OwnNums(w) \ {p.n}
      BY <3>1, <1>4, <1>5
    <3> QED BY <2>2, <1>1, <1>2, <1>6, <3>2, WriteReleases DEF RefsInv
  <2> QED BY <2>1, <2>2
<1>8. PrivateHeld' /\ HandFull'
  BY <1>1, <1>3 DEF RefsInv, PlacesInv, PrivateHeld, HandFull
<1>9. OnceEach'
  BY <1>1, <1>3, <1>4 DEF RefsInv, PlacesInv, OnceEach
<1> QED BY <1>7, <1>8, <1>9 DEF RefsInv, PlacesInv

LEMMA DestroyRefs ==
  ASSUME ControlInv, RefsInv, Destroy
  PROVE  RefsInv'
<1>1. /\ packet_list' = NoPtr /\ UNCHANGED <<pushed, private, hand, pc, msg>>
      /\ refs' = IF packet_list = NoPtr THEN refs ELSE Unref(refs, packet_list)
  BY DEF Destroy, writerVars
<1>2. /\ refs' \in [1..MaxPackets -> Int]
      /\ \A n \in 1..MaxPackets : refs'[n] = IF n \in SharedNums THEN refs[n] - 1 ELSE refs[n]
  <2>1. refs \in [1..MaxPackets -> Int]
    BY DEF RefsInv, HeldInv, RefsMatch
  <2>2. CASE packet_list = NoPtr
    BY <2>1, <2>2, <1>1 DEF SharedNums
  <2>3. CASE packet_list # NoPtr
    <3>1. packet_list \in Seq(Item) /\ Once(packet_list)
      BY <2>3 DEF RefsInv, PlacesInv, OnceEach, ControlInv, MuxerType
    <3>2. SharedNums = Nums(packet_list)
      BY <2>3 DEF SharedNums
    <3> QED BY <2>1, <2>3, <1>1, <3>1, <3>2, UnrefIs
  <2> QED BY <2>2, <2>3
<1>3. SharedNums' = {} /\ \A v \in Writers : OwnNums(v)' = OwnNums(v)
  BY <1>1 DEF SharedNums, OwnNums
<1>4. \A v \in Writers : OwnNums(v)' = OwnNums(v) \ SharedNums
  BY <1>3 DEF RefsInv, HeldInv, Apart
<1>5. HeldInv'
  <2>1. \A n \in SharedNums : IsHeld(n)
    BY DEF IsHeld
  <2> QED BY <1>1, <1>2, <1>3, <1>4, <2>1, ReleaseHeld DEF RefsInv
<1>6. PlacesInv'
  BY <1>1 DEF RefsInv, PlacesInv, PrivateHeld, HandFull, OnceEach
<1> QED BY <1>5, <1>6 DEF RefsInv

LEMMA AppendNums ==
  ASSUME NEW s \in Seq(Item), NEW p \in Item
  PROVE  /\ Append(s, p) # NoPtr
         /\ Nums(Append(s, p)) = Nums(s) \cup Nums(<<p>>)
         /\ Once(Append(s, p)) <=> Once(s) /\ Nums(s) \cap Nums(<<p>>) = {}
<1>1. Append(s, p) \in Seq(Item)
  BY AppendProperties
<1>2. Append(s, p) # NoPtr
  BY <1>1, ListsTyped
<1>3. Append(s, p) = s \o <<p>>
  BY AppendIsConcat
<1>4. <<p>> \in Seq(Item)
  OBVIOUS
<1>5. Once(<<p>>)
  BY NumsOfOne
<1>6. /\ Nums(s \o <<p>>) = Nums(s) \cup Nums(<<p>>)
      /\ Once(s \o <<p>>) <=> Once(s) /\ Once(<<p>>) /\ Nums(s) \cap Nums(<<p>>) = {}
  BY <1>4, NumsConcat
<1> QED BY <1>2, <1>3, <1>5, <1>6

LEMMA PushRefs ==
  ASSUME ControlInv, RefsInv, PushVideo \/ PushAudio
  PROVE  RefsInv'
<1>1. PICK kind \in {"key", "delta", "audio"} : push_packet(kind)
  BY DEF PushVideo, PushAudio
<1> DEFINE lost == IF Overflow THEN Dropped(packet_list) ELSE <<>>
           kept == IF Overflow THEN DropTo(packet_list) ELSE packet_list
           p == [n |-> pushed + 1, kind |-> kind, job |-> jobs]
<1>2. /\ packet_list \in Seq(Item) /\ p \in Packet /\ p \in Item
      /\ packet_list' = Append(kept, p)
  BY <1>1, PushAppends DEF Item
<1>3. /\ refs' = [Unref(refs, lost) EXCEPT ![pushed + 1] = 1]
      /\ pushed' = pushed + 1 /\ pushed \in 0..MaxPackets /\ pushed < MaxPackets
      /\ pc' = WakeWriter /\ UNCHANGED <<private, hand, msg>>
  BY <1>1 DEF push_packet, ControlInv, MuxerType
<1>4. /\ lost \in Seq(Item) /\ kept \in Seq(Item) /\ packet_list = lost \o kept
  <2>1. CASE Overflow
    BY <2>1, <1>2, DropSplits
  <2>2. CASE ~Overflow
    BY <2>2, <1>2, ConcatEmptySeq
  <2> QED BY <2>1, <2>2
<1>5. p.n = pushed + 1 /\ p # empty_packet
  BY <1>2 DEF Packet, empty_packet
<1>6. packet_list # NoPtr
  BY <1>2, ListsTyped
<1> HIDE DEF lost, kept, p
<1>7. /\ packet_list' # NoPtr
      /\ Nums(packet_list') = Nums(kept) \cup Nums(<<p>>)
      /\ Once(packet_list') <=> Once(kept) /\ Nums(kept) \cap Nums(<<p>>) = {}
  BY <1>2, <1>4, AppendNums
<1>8. Nums(<<p>>) = {pushed + 1}
  BY <1>2, <1>5, NumsOfOne
<1>9. /\ SharedNums = Nums(lost) \cup Nums(kept)
      /\ Once(lost) /\ Once(kept) /\ Nums(lost) \cap Nums(kept) = {}
  <2>1. Once(lost \o kept)
    BY <1>4, <1>6 DEF RefsInv, PlacesInv, OnceEach
  <2>2. SharedNums = Nums(lost \o kept)
    BY <1>4, <1>6 DEF SharedNums
  <2> QED BY <1>4, <2>1, <2>2, NumsConcat
<1>10. SharedNums' = Nums(kept) \cup {pushed + 1}
  <2>1. Nums(packet_list)' = Nums(packet_list')
    BY DEF Nums
  <2> QED BY <2>1, <1>7, <1>8 DEF SharedNums
<1>11. \A n : IsHeld(n) => n \in Int /\ n <= pushed
  BY <1>3 DEF RefsInv, HeldInv, HeldPushed, IsHeld, SharedNums, OwnNums, Nums, PlacesInv,
     HandFull, ControlInv, MuxerType, Item, Packet
<1>12. PrivateHeld' /\ \A w \in Writers : pc'[w] = "write" <=> pc[w] = "write"
  BY <1>3, WakeStays DEF RefsInv, PlacesInv
<1>13. \A w \in Writers : OwnNums(w)' = OwnNums(w)
  BY <1>3, <1>12 DEF OwnNums
<1>14. pushed + 1 \notin Nums(kept) /\ \A w \in Writers : pushed + 1 \notin OwnNums(w)
  BY <1>3, <1>9, <1>11 DEF IsHeld
<1>15. HeldPushed'
  BY <1>3, <1>9, <1>10, <1>11, <1>13 DEF HeldPushed, IsHeld
<1>16. Apart'
  BY <1>9, <1>10, <1>13, <1>14 DEF RefsInv, HeldInv, Apart
<1>17. RefsMatch'
  <2>1. refs \in [1..MaxPackets -> Int]
    BY DEF RefsInv, HeldInv, RefsMatch
  <2>2. /\ Unref(refs, lost) \in [1..MaxPackets -> Int]
        /\ \A n \in 1..MaxPackets :
             Unref(refs, lost)[n] = IF n \in Nums(lost) THEN refs[n] - 1 ELSE refs[n]
    BY <2>1, <1>4, <1>9, UnrefIs
  <2>3. pushed + 1 \in 1..MaxPackets
    BY <1>3, ConstantsAssumption
  <2>4. /\ refs' \in [1..MaxPackets -> Int] /\ refs'[pushed + 1] = 1
        /\ \A n \in 1..MaxPackets : n # pushed + 1 =>
             refs'[n] = IF n \in Nums(lost) THEN refs[n] - 1 ELSE refs[n]
    BY <1>3, <2>2, <2>3
  <2>5. ASSUME NEW n \in 1..MaxPackets
        PROVE  refs'[n] = IF IsHeld(n)' THEN 1 ELSE 0
    <3>1. CASE n = pushed + 1
      BY <3>1, <2>4, <1>10 DEF IsHeld
    <3>2. CASE n # pushed + 1 /\ n \in Nums(lost)
      <4>1. IsHeld(n) /\ ~IsHeld(n)'
        BY <3>2, <1>9, <1>10, <1>13 DEF IsHeld, RefsInv, HeldInv, Apart
      <4> QED BY <3>2, <4>1, <2>4 DEF RefsInv, HeldInv, RefsMatch
    <3>3. CASE n # pushed + 1 /\ n \notin Nums(lost)
      <4>1. IsHeld(n)' <=> IsHeld(n)
        BY <3>3, <1>9, <1>10, <1>13 DEF IsHeld
      <4> QED BY <3>3, <4>1, <2>4 DEF RefsInv, HeldInv, RefsMatch
    <3> QED BY <3>1, <3>2, <3>3
  <2> QED BY <2>4, <2>5 DEF RefsMatch
<1>18. HandFull'
  BY <1>3, <1>12 DEF RefsInv, PlacesInv, HandFull
<1>19. OnceEach'
  <2>1. Nums(kept) \cap Nums(<<p>>) = {}
    BY <1>8, <1>14
  <2>2. Once(packet_list')
    BY <2>1, <1>7, <1>9
  <2> QED BY <2>2, <1>3 DEF OnceEach, RefsInv, PlacesInv, Once
<1> QED BY <1>12, <1>15, <1>16, <1>17, <1>18, <1>19 DEF RefsInv, PlacesInv, HeldInv

\* The empty packet is not counted, and a new list is empty.
LEMMA ListRefs ==
  ASSUME ControlInv, RefsInv, InitUri \/ StopWake
  PROVE  RefsInv'
<1>1. UNCHANGED <<private, hand, refs, pushed, msg>>
  BY DEF InitUri, StopWake, writerVars, dataVars
<1>2. PrivateHeld' /\ \A w \in Writers : pc'[w] = "write" <=> pc[w] = "write"
  <2>1. CASE InitUri
    BY <2>1 DEF InitUri, writerVars, RefsInv, PlacesInv, PrivateHeld
  <2>2. CASE StopWake
    BY <2>2, <1>1, WakeStays DEF StopWake, RefsInv, PlacesInv
  <2> QED BY <2>1, <2>2
<1>3. /\ SharedNums' = SharedNums
      /\ packet_list' # NoPtr => Once(packet_list')
  <2>1. CASE InitUri
    BY <2>1, NumsOfOne DEF InitUri, SharedNums, RefsInv, PlacesInv, OnceEach
  <2>2. CASE StopWake
    <3>1. /\ packet_list # NoPtr /\ packet_list \in Seq(Item) /\ empty_packet \in Item
          /\ packet_list' = Append(packet_list, empty_packet)
      BY <2>2 DEF StopWake, WithEmptyPacket, Item, ControlInv, MuxerType
    <3>2. Once(packet_list) /\ Nums(<<empty_packet>>) = {}
      BY <3>1, NumsOfOne DEF RefsInv, PlacesInv, OnceEach
    <3>3. /\ packet_list' # NoPtr /\ Nums(packet_list') = Nums(packet_list)
          /\ Once(packet_list')
      <4> DEFINE u == Append(packet_list, empty_packet)
      <4>1. /\ u # NoPtr /\ Nums(u) = Nums(packet_list) \cup Nums(<<empty_packet>>)
            /\ Once(u) <=> Once(packet_list) /\ Nums(packet_list) \cap Nums(<<empty_packet>>) = {}
        BY <3>1, AppendNums
      <4>2. packet_list' = u
        BY <3>1
      <4> HIDE DEF u
      <4> QED BY <4>1, <4>2, <3>2
    <3>4. Nums(packet_list)' = Nums(packet_list')
      BY DEF Nums
    <3> QED BY <3>1, <3>3, <3>4 DEF SharedNums
  <2> QED BY <2>1, <2>2
<1>4. \A w \in Writers : OwnNums(w)' = OwnNums(w)
  BY <1>1, <1>2 DEF OwnNums
<1>5. HeldInv'
  <2>1. HeldPushed' /\ Apart'
    BY <1>1, <1>3, <1>4 DEF RefsInv, HeldInv, HeldPushed, Apart
  <2>2. \A n : IsHeld(n)' <=> IsHeld(n)
    BY <1>3, <1>4 DEF IsHeld
  <2> QED BY <1>1, <2>1, <2>2 DEF RefsInv, HeldInv, RefsMatch
<1>6. HandFull' /\ OnceEach'
  <2>1. Once(packet_list)' <=> Once(packet_list')
    BY DEF Once
  <2> QED BY <1>1, <1>2, <1>3, <2>1 DEF RefsInv, PlacesInv, HandFull, OnceEach
<1> QED BY <1>2, <1>5, <1>6 DEF RefsInv, PlacesInv

LEMMA WriterRefs ==
  ASSUME ControlInv, RefsInv, NEW w \in Writers, Writer(w)
  PROVE  RefsInv'
<1>1. CASE Pop(w)
  BY <1>1, PopRefs
<1>2. CASE TakeList(w)
  BY <1>2, TakeRefs
<1>3. CASE Write(w)
  BY <1>3, WriteRefs
<1>4. CASE Drain(w)
  BY <1>4, DrainRefs
<1>5. CASE Check(w) \/ GetMessage(w) \/ MuxerInit(w) \/ MuxerInitFails(w) \/ Notify(w)
           \/ Block(w) \/ Drained(w) \/ Tailer(w) \/ NotifyFlushed(w) \/ End(w) \/ Detach(w)
  <2>1. UNCHANGED <<packet_list, private, hand, refs, pushed>>
    BY <1>5 DEF Check, GetMessage, MuxerInit, MuxerInitFails, Notify, Block, Drained, Tailer,
       NotifyFlushed, End, Detach, muxerVars, dataVars
  <2>2. /\ pc[w] # "write" /\ pc'[w] # "write"
        /\ \A v \in Writers \ {w} : pc'[v] = pc[v] /\ msg'[v] = msg[v]
        /\ private[w] # <<>> => pc'[w] = "drain"
    <3>1. pc \in [Writers -> WriterStates] /\ msg \in [Writers -> Message]
      BY DEF ControlInv, MuxerType
    <3>2. private[w] # <<>> => pc[w] = "drain" \/ (pc[w] = "notify" /\ msg[w].id = "NORMAL")
      BY DEF RefsInv, PlacesInv, PrivateHeld
    <3> QED BY <1>5, <3>1, <3>2 DEF Check, GetMessage, MuxerInit, MuxerInitFails, Notify, Block,
               Drained, Tailer, NotifyFlushed, End, Detach, Goto
  <2>3. PrivateHeld'
    BY <2>1, <2>2 DEF RefsInv, PlacesInv, PrivateHeld
  <2> QED BY <2>1, <2>2, <2>3, StayRefs
<1> QED BY <1>1, <1>2, <1>3, <1>4, <1>5 DEF Writer

LEMMA ControlRefs ==
  ASSUME ControlInv, RefsInv, Control \/ \E g \in {"restart", "delete"} : StopRequest(g)
  PROVE  RefsInv'
<1>1. CASE InitUri \/ StopWake
  BY <1>1, ListRefs
<1>2. CASE Destroy
  BY <1>2, DestroyRefs
<1>3. CASE UNCHANGED <<packet_list, private, hand, refs, pushed, pc, msg>>
  BY <1>3, StayRefs DEF RefsInv, PlacesInv, PrivateHeld
<1>4. CASE StartPublish \/ StopCheck \/ StopPost \/ StopWakeNull \/ StopReturn
           \/ DeleteBegin \/ SyncJoin \/ \E g \in {"restart", "delete"} : StopRequest(g)
  BY <1>4, <1>3 DEF StartPublish, StopCheck, StopPost, StopWakeNull, StopReturn,
     DeleteBegin, SyncJoin, StopRequest, muxerVars, writerVars, dataVars
<1>5. ASSUME NEW w \in Writers, SyncPick(w) PROVE RefsInv'
  BY <1>5, <1>3 DEF SyncPick, muxerVars, writerVars, dataVars
<1>6. ASSUME NEW w \in Writers, StartCreate(w) PROVE RefsInv'
  <2>1. /\ UNCHANGED <<packet_list, private, hand, refs, pushed>>
        /\ pc[w] = "free" /\ pc' = [pc EXCEPT ![w] = "check"]
        /\ msg' = [msg EXCEPT ![w] = NoMessage]
    BY <1>6 DEF StartCreate, muxerVars, dataVars
  <2>2. pc'[w] = "check" /\ \A v \in Writers \ {w} : pc'[v] = pc[v] /\ msg'[v] = msg[v]
    BY <2>1 DEF ControlInv, MuxerType
  <2>3. private[w] = <<>>
    BY <2>1 DEF RefsInv, PlacesInv, PrivateHeld
  <2>4. PrivateHeld'
    BY <2>1, <2>2, <2>3 DEF RefsInv, PlacesInv, PrivateHeld
  <2> QED BY <2>1, <2>2, <2>4, StayRefs
<1> QED BY <1>1, <1>2, <1>4, <1>5, <1>6 DEF Control

LEMMA NextRefs == ControlInv /\ RefsInv /\ [Next]_vars => RefsInv'
<1> SUFFICES ASSUME ControlInv, RefsInv, [Next]_vars PROVE RefsInv'
  OBVIOUS
<1>1. CASE Control \/ \E g \in {"restart", "delete"} : StopRequest(g)
  BY <1>1, ControlRefs
<1>2. CASE PushVideo \/ PushAudio
  BY <1>2, PushRefs
<1>3. ASSUME NEW w \in Writers, Writer(w) PROVE RefsInv'
  BY <1>3, WriterRefs
<1>4. CASE UNCHANGED vars
  <2>1. UNCHANGED <<packet_list, private, hand, refs, pushed, pc, msg>>
    BY <1>4 DEF vars, muxerVars, writerVars, dataVars
  <2> QED BY <2>1, StayRefs DEF RefsInv, PlacesInv, PrivateHeld
<1> QED BY <1>1, <1>2, <1>3, <1>4 DEF Next, Done

LEMMA InitRefs == Init => RefsInv
<1> SUFFICES ASSUME Init PROVE RefsInv
  OBVIOUS
<1>1. /\ packet_list = NoPtr /\ private = [w \in Writers |-> <<>>]
      /\ pc = [w \in Writers |-> "free"] /\ refs = [n \in 1..MaxPackets |-> 0]
  BY Zenon DEF Init
<1>2. SharedNums = {} /\ \A w \in Writers : OwnNums(w) = {} /\ pc[w] = "free" /\ private[w] = <<>>
  BY <1>1, NumsOfOne DEF SharedNums, OwnNums
<1>3. PlacesInv
  BY <1>1, <1>2, NumsOfOne DEF PlacesInv, PrivateHeld, HandFull, OnceEach
<1>4. HeldPushed /\ Apart
  BY <1>2 DEF HeldPushed, Apart
<1>5. RefsMatch
  BY <1>1, <1>2 DEF RefsMatch, IsHeld
<1> QED BY <1>3, <1>4, <1>5 DEF RefsInv, HeldInv

\* A packet that is in one place at most is counted there.
LEMMA RefsCounted == ControlInv /\ RefsInv => RefsExact
<1> SUFFICES ASSUME ControlInv, RefsInv, NEW n \in 1..MaxPackets
             PROVE  refs[n] = Holders(n)
  BY DEF RefsExact
<1> USE DEF RefsInv, PlacesInv, HeldInv
<1> DEFINE L == IF packet_list = NoPtr THEN 0 ELSE Places(packet_list, n)
           H == {w \in Writers : pc[w] = "write" /\ hand[w].n = n}
           X == {x \in UNION {{w} \X DOMAIN private[w] : w \in Writers} :
                   private[x[1]][x[2]].n = n}
           InHand(w) == pc[w] = "write" /\ hand[w].n = n
           InList(w) == pc[w] # "write" /\ n \in Nums(private[w])
<1>1. L = IF n \in SharedNums THEN 1 ELSE 0
  <2>1. CASE packet_list = NoPtr
    BY <2>1 DEF SharedNums
  <2>2. CASE packet_list # NoPtr
    <3> DEFINE P == {i \in DOMAIN packet_list : packet_list[i].n = n}
    <3>1. SharedNums = Nums(packet_list) /\ Once(packet_list) /\ L = Cardinality(P)
      BY <2>2 DEF SharedNums, OnceEach, Places
    <3>2. CASE n \in SharedNums
      <4>1. PICK i \in DOMAIN packet_list : packet_list[i].n = n
        BY <3>1, <3>2 DEF Nums
      <4>2. P = {i}
        BY <3>1, <4>1 DEF Once
      <4> HIDE DEF P, L
      <4> QED BY <3>1, <3>2, <4>2, FS_Singleton
    <3>3. CASE n \notin SharedNums
      <4>1. P = {}
        BY <3>1, <3>3 DEF Nums
      <4> HIDE DEF P, L
      <4> QED BY <3>1, <3>3, <4>1, FS_EmptySet
    <3> QED BY <3>2, <3>3
  <2> QED BY <2>1, <2>2
<1>2. \A w \in Writers : n \in OwnNums(w) <=> InHand(w) \/ InList(w)
  BY DEF OwnNums
<1>3. \A w \in Writers : pc[w] = "write" => private[w] = <<>>
  BY DEF PrivateHeld
<1>4. Cardinality(H) = IF \E w \in Writers : InHand(w) THEN 1 ELSE 0
  <2>1. ASSUME NEW w \in Writers, InHand(w)
        PROVE  H = {w}
    BY <2>1, <1>2 DEF Apart
  <2>2. CASE \E w \in Writers : InHand(w)
    <3> HIDE DEF H, InHand
    <3> QED BY <2>1, <2>2, FS_Singleton
  <2>3. CASE ~\E w \in Writers : InHand(w)
    <3>1. H = {}
      BY <2>3
    <3> HIDE DEF H
    <3> QED BY <2>3, <3>1, FS_EmptySet
  <2> QED BY <2>2, <2>3
<1>5. Cardinality(X) = IF \E w \in Writers : InList(w) THEN 1 ELSE 0
  <2>1. ASSUME NEW w \in Writers, NEW i \in DOMAIN private[w], private[w][i].n = n
        PROVE  InList(w)
    BY <2>1, <1>3 DEF Nums
  <2>2. ASSUME NEW w \in Writers, InList(w)
        PROVE  \E x : X = {x}
    <3>1. PICK i \in DOMAIN private[w] : private[w][i].n = n
      BY <2>2 DEF Nums
    <3>2. ASSUME NEW v \in Writers, NEW j \in DOMAIN private[v], private[v][j].n = n
          PROVE  v = w /\ j = i
      <4>1. n \in OwnNums(v) /\ n \in OwnNums(w)
        BY <2>1, <2>2, <3>2, <1>2
      <4>2. v = w
        BY <4>1 DEF Apart
      <4>3. Once(private[w])
        BY DEF OnceEach
      <4> QED BY <3>1, <3>2, <4>2, <4>3 DEF Once
    <3>3. X = {<<w, i>>}
      BY <3>1, <3>2
    <3> QED BY <3>3
  <2>3. CASE \E w \in Writers : InList(w)
    <3> HIDE DEF X, InList
    <3> QED BY <2>2, <2>3, FS_Singleton
  <2>4. CASE ~\E w \in Writers : InList(w)
    <3>1. X = {}
      BY <2>1, <2>4
    <3> HIDE DEF X
    <3> QED BY <2>4, <3>1, FS_EmptySet
  <2> QED BY <2>3, <2>4
<1>6. ~(n \in SharedNums /\ \E w \in Writers : n \in OwnNums(w))
  BY DEF Apart
<1>7. ~((\E w \in Writers : InHand(w)) /\ \E w \in Writers : InList(w))
  BY <1>2 DEF Apart
<1>8. refs[n] = IF n \in SharedNums \/ \E w \in Writers : InHand(w) \/ InList(w) THEN 1 ELSE 0
  BY <1>2 DEF RefsMatch, IsHeld
<1>9. Holders(n) = L + Cardinality(H) + Cardinality(X)
  BY DEF Holders
<1> HIDE DEF L, H, X, InHand, InList
<1> QED BY <1>1, <1>2, <1>4, <1>5, <1>6, <1>7, <1>8, <1>9

\* The muxer's references on a packet are the places it is kept in, through
\* every overflow, exit and deletion (push_packet, muxer_write_free_packet,
\* free_packet_list): none is leaked and none given back twice, for any number of
\* writers, jobs and packets, starts that fail included.
THEOREM RefsCorrect == Spec => []RefsExact
<1>1. Init => ControlInv
  BY InitDelete, InitCharge DEF ControlInv
<1> QED BY <1>1, InitRefs, NextControl, NextRefs, RefsCounted, PTL DEF Spec
=============================================================================
