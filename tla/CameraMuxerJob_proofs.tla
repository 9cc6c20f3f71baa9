------------------------ MODULE CameraMuxerJob_proofs ------------------------
(***************************************************************************)
(* CameraMuxer implements RecordingJob, for any number of writers, jobs and *)
(* packets: its threads, messages and lists do nothing to a file, or to    *)
(* what is queued for one, that a recording job forbids.  The invariant    *)
(* JobInv, which holds until a writer fails, says where the packets of     *)
(* each job are; it builds on ControlInv and StartInv of                   *)
(* CameraMuxer_proofs.                                                     *)
(*   From the refinement two properties of the files follow.  FilesInv: a  *)
(* closed file has what was pushed during its job and not dropped.         *)
(* FramesInv: where key frames come often enough, each delta frame has the *)
(* frame before it.                                                        *)
(*   Last, the part of the liveness of a stop and of a deletion that needs *)
(* no fairness: whom they wait for can go on, and comes nearer to the end. *)
(***************************************************************************)
EXTENDS CameraMuxer_proofs

-----------------------------------------------------------------------------
(* The packets of each job, as long as no writer has failed.               *)

Over == ctl \in {"none", "stopped", "syncing", "joining"} \/ notified

\* The only START under way is that of the last job.
LastStarts == \A j \in 0..MaxJobs : Starting(j) => j = jobs /\ ~Over
\* The writer in charge of the last job has its file, or has not read START.
OpensFirst == \A w \in Writers : Current(w) /\ out[w] # jobs =>
  out[w] = 0 /\ pc[w] \in {"check", "getmsg", "init"}
\* Nobody but a writer that reads has the file of a job that goes on; until the
\* stop is answered there is one.
BusyReads == Busy => \A w \in Writers : out[w] = jobs => Reading(w)
Unanswered == \/ ctl \in {"creating", "running", "stopping", "posting", "waking"}
              \/ ctl = "waiting" /\ ~notified
StillCurrent == Unanswered => \E w \in Writers : Current(w)
\* A job begins with nothing, whatever the writers of the last one still do.
FreshList == ctl \in {"inited", "creating"} =>
  /\ packet_list = <<>> /\ file[jobs] = <<>>
  /\ \A w \in Writers : Current(w) => pc[w] \notin {"woken", "write"}
Unused(j) == closedBy[j] = "open" /\ file[j] = <<>>
Future == \A j \in 1..MaxJobs : j > jobs \/ Starting(j) => Unused(j)
\* What is left in the shared list.
ListTaken == \A w \in Writers :
  jobs # 0 /\ out[w] = jobs /\ ~Reading(w) /\ msg[w].id # "IMMEDIATE" => packet_list = NoPtr
ListCut == exit_id = "IMMEDIATE" /\ \E w \in Writers :
  out[w] = jobs /\ ~Reading(w) /\ msg[w].id = "IMMEDIATE"
ListLeft == /\ Over => packet_list = NoPtr \/ ListCut
            /\ ctl = "none" => packet_list = NoPtr
RestartExit == goal = "restart" => exit_id # "IMMEDIATE"
\* A file is closed by the message its writer obeyed, once.
ExitRead == \A w \in Writers :
  /\ pc[w] \in {"drain", "tailer"} => msg[w].id \in Exits
  /\ pc[w] = "take" => msg[w].id # "IMMEDIATE"
ClosedAs == \A w \in Writers : out[w] # 0 =>
  IF pc[w] \in {"flushed", "end", "detach", "free"}
  THEN msg[w].id \in Exits /\ closedBy[out[w]] = msg[w].id
  ELSE closedBy[out[w]] = "open"
\* The empty packet is the last of its list.
EmptyLast(s) == \A i \in 1..Len(s) : s[i] = empty_packet => i = Len(s)
SharedEmpty == packet_list # NoPtr =>
  /\ EmptyLast(packet_list)
  /\ ctl \notin {"waiting", "stopped", "syncing", "joining"} =>
       \A i \in 1..Len(packet_list) : packet_list[i] # empty_packet
PrivateEmpty == \A w \in Writers : EmptyLast(private[w])

JobInv ==
  /\ LastStarts /\ OpensFirst /\ BusyReads /\ StillCurrent /\ FreshList /\ Future
  /\ PrivateHeld /\ ListTaken /\ ListLeft /\ RestartExit /\ ExitRead /\ ClosedAs
  /\ SharedEmpty /\ PrivateEmpty

\* The way of a writer that does not fail.
WriterMove(w) ==
  /\ goal' = goal
  /\ pc[w] \notin {"getmsg", "init"} => msg'[w] = msg[w]
  /\ \/ pc[w] = "check" /\ pc'[w] = "getmsg"
     \/ pc[w] = "getmsg" /\ pc'[w] = "pop" /\ msg_queue' = <<>>
     \/ pc[w] = "getmsg" /\ pc'[w] = "init"
     \/ pc[w] = "getmsg" /\ pc'[w] = "take" /\ msg'[w].id # "IMMEDIATE"
     \/ pc[w] = "getmsg" /\ pc'[w] = "notify" /\ msg'[w].id = "IMMEDIATE"
     \/ pc[w] = "init" /\ pc'[w] = "pop" /\ out'[w] = msg[w].job
     \/ pc[w] = "take" /\ pc'[w] = (IF msg[w].id = "NORMAL" THEN "notify" ELSE "drain")
     \/ /\ pc[w] = "notify" /\ ctl = "waiting" /\ notified'
        /\ pc'[w] = (IF msg[w].id = "NORMAL" THEN "drain" ELSE "tailer")
     \/ pc[w] = "pop" /\ pc'[w] \in {"blocked", "check", "write"}
     \/ pc[w] = "woken" /\ pc'[w] \in {"check", "write"}
     \/ pc[w] = "write" /\ pc'[w] = "check"
     \/ pc[w] = "drain" /\ pc'[w] \in {"drain", "tailer"}
     \/ pc[w] = "tailer" /\ pc'[w] = (IF msg[w].id = "FLUSH" THEN "flushed" ELSE "end")
     \/ pc[w] = "flushed" /\ pc'[w] = "end" /\ ctl = "waiting" /\ notified'
     \/ pc[w] = "end" /\ pc'[w] = "detach"
     \/ pc[w] = "detach" /\ pc'[w] = "free"

\* What its step does to the lists and to the files.
WriterLists(w) ==
  /\ \A v \in Writers \ {w} : private'[v] = private[v] /\ hand'[v] = hand[v]
  /\ \/ /\ packet_list' = packet_list /\ private'[w] = private[w]
        /\ pc[w] \notin {"take", "woken"} /\ pc'[w] # "write"
        /\ pc[w] = "drain" => pc'[w] = "tailer" /\ private[w] = <<>>
     \/ /\ pc[w] = "take" /\ packet_list \in Seq(Item)
        /\ packet_list' = NoPtr /\ private'[w] = packet_list
     \/ /\ pc[w] \in {"pop", "woken"} /\ packet_list \in Seq(Item) /\ packet_list # <<>>
        /\ packet_list' = Tail(packet_list) /\ private'[w] = private[w]
        /\ hand'[w] = Head(packet_list) /\ pc'[w] = AfterPop(Head(packet_list))
     \/ /\ pc[w] = "drain" /\ pc'[w] = "drain" /\ private[w] # <<>>
        /\ packet_list' = packet_list /\ private'[w] = Tail(private[w])
  /\ pc[w] = "write" => WriteFree(w, hand[w])
  /\ pc[w] = "drain" /\ pc'[w] = "drain" /\ Head(private[w]) # empty_packet =>
       WriteFree(w, Head(private[w]))
  /\ file' = file \/ pc[w] = "write"
       \/ (pc[w] = "drain" /\ pc'[w] = "drain" /\ Head(private[w]) # empty_packet)
  /\ pc[w] # "tailer" => closedBy' = closedBy
  /\ pc[w] = "tailer" => closedBy' = IF out[w] = 0 THEN closedBy
                                     ELSE [closedBy EXCEPT ![out[w]] = msg[w].id]

LEMMA WriterMoveStep ==
  ASSUME ControlInv, NEW w \in Writers, Writer(w), ~failed'
  PROVE  WriterMove(w) /\ WriterLists(w)
<1> USE DEF WriterMove, WriterLists, Goto
<1>0. MuxerType
  BY DEF ControlInv
<1>t. /\ pc \in [Writers -> WriterStates] /\ msg \in [Writers -> Message]
      /\ hand \in [Writers -> Item] /\ private \in [Writers -> Seq(Item)]
      /\ out \in [Writers -> 0..MaxJobs] /\ msg_queue \in Seq(Message)
  BY <1>0 DEF MuxerType
<1> HIDE DEF MuxerType
<1>1. CASE Check(w)
  BY <1>t, <1>1 DEF Check, muxerVars, ctlVars, dataVars
<1>2. CASE GetMessage(w)
  <2>0. /\ pc[w] = "getmsg"
        /\ UNCHANGED <<goal, packet_list, private, hand, file, closedBy>>
    BY <1>2 DEF GetMessage, ctlVars, fileVars
  <2>1. CASE msg_queue = <<>>
    BY <1>t, <1>2, <2>0, <2>1 DEF GetMessage
  <2>2. CASE msg_queue # <<>>
    <3>1. msg'[w] = Head(msg_queue)
      BY <1>t, <1>2, <2>2 DEF GetMessage
    <3>2. pc'[w] = CASE Head(msg_queue).id = "START"     -> "init"
                     [] Head(msg_queue).id = "IMMEDIATE" -> "notify"
                     [] OTHER                            -> "take"
      BY <1>t, <1>2, <2>2 DEF GetMessage
    <3>3. \/ pc'[w] = "init"
          \/ pc'[w] = "take" /\ msg'[w].id # "IMMEDIATE"
          \/ pc'[w] = "notify" /\ msg'[w].id = "IMMEDIATE"
      BY <3>1, <3>2
    <3> QED BY <2>0, <3>3
  <2> QED BY <2>1, <2>2
<1>3. CASE MuxerInit(w)
  BY <1>t, <1>3 DEF MuxerInit, muxerVars, ctlVars, fileVars
<1>4. CASE MuxerInitFails(w)
  BY <1>4 DEF MuxerInitFails
<1>5. CASE TakeList(w)
  <2>1. packet_list \in Seq(Item)
    BY <1>0, <1>5 DEF TakeList, ControlInv, ChargeInv, ListThere, Reading, MuxerType
  <2>2. /\ pc[w] = "take" /\ pc' = [pc EXCEPT ![w] = AfterTake(msg[w].id)]
        /\ private' = [private EXCEPT ![w] = packet_list] /\ packet_list' = NoPtr
        /\ UNCHANGED <<goal, msg, hand, file, closedBy>>
    BY <1>5 DEF TakeList, ctlVars, fileVars
  <2> QED BY <1>t, <2>1, <2>2 DEF AfterTake
<1>6. CASE Notify(w)
  BY <1>t, <1>6 DEF Notify, muxerVars, dataVars, fileVars
<1>7. CASE Block(w)
  BY <1>t, <1>7 DEF Block, muxerVars, ctlVars, dataVars, fileVars
<1>8. CASE Pop(w)
  <2>1. packet_list \in Seq(Item) /\ packet_list # <<>>
    BY <1>0, <1>8 DEF Pop, MuxerType
  <2>2. /\ pc[w] \in {"pop", "woken"} /\ pc' = [pc EXCEPT ![w] = AfterPop(Head(packet_list))]
        /\ packet_list' = Tail(packet_list) /\ hand' = [hand EXCEPT ![w] = Head(packet_list)]
        /\ UNCHANGED <<goal, msg, private, file, closedBy>>
    BY <1>8 DEF Pop, ctlVars, fileVars
  <2>3. pc'[w] = AfterPop(Head(packet_list)) /\ pc'[w] \in {"check", "write"}
    BY <1>t, <2>2 DEF AfterPop
  <2> QED BY <1>t, <2>1, <2>2, <2>3
<1>9. CASE Write(w)
  <2>1. WriteFree(w, hand[w]) /\ closedBy' = closedBy
    BY <1>9 DEF Write, WriteFree
  <2> QED BY <1>t, <1>9, <2>1 DEF Write, muxerVars, ctlVars
<1>10. CASE Drain(w)
  <2>1. /\ closedBy' = closedBy
        /\ Head(private[w]) # empty_packet => WriteFree(w, Head(private[w]))
        /\ Head(private[w]) = empty_packet => file' = file
    BY <1>10 DEF Drain, WriteFree, fileVars
  <2>2. /\ pc[w] = "drain" /\ pc' = pc /\ private[w] # <<>>
        /\ private' = [private EXCEPT ![w] = Tail(@)]
        /\ UNCHANGED <<goal, packet_list, msg, hand>>
    BY <1>10 DEF Drain, muxerVars, ctlVars
  <2> QED BY <1>t, <2>1, <2>2
<1>11. CASE Drained(w)
  BY <1>t, <1>11 DEF Drained, muxerVars, ctlVars, dataVars, fileVars
<1>12. CASE Tailer(w)
  BY <1>t, <1>12 DEF Tailer, muxerVars, ctlVars, dataVars
<1>13. CASE NotifyFlushed(w)
  BY <1>t, <1>13 DEF NotifyFlushed, muxerVars, dataVars, fileVars
<1>14. CASE End(w)
  BY <1>t, <1>14 DEF End, ctlVars, dataVars, fileVars
<1>15. CASE Detach(w)
  BY <1>t, <1>15 DEF Detach, muxerVars, ctlVars, dataVars, fileVars
<1> QED BY <1>1, <1>2, <1>3, <1>4, <1>5, <1>6, <1>7, <1>8, <1>9, <1>10, <1>11,
           <1>12, <1>13, <1>14, <1>15 DEF Writer

\* The rest of a list whose last packet only may be the empty one.
LEMMA TailEmptyLast ==
  ASSUME NEW s \in Seq(Item), s # <<>>, EmptyLast(s)
  PROVE  /\ Tail(s) \in Seq(Item) /\ EmptyLast(Tail(s))
         /\ \A i \in 1..Len(Tail(s)) : Tail(s)[i] = s[i + 1] /\ i + 1 \in 1..Len(s)
<1>1. /\ Tail(s) \in Seq(Item) /\ Len(Tail(s)) = Len(s) - 1
      /\ \A i \in 1..(Len(s) - 1) : Tail(s)[i] = s[i + 1]
  BY HeadTailProperties
<1>2. \A i \in 1..Len(Tail(s)) : Tail(s)[i] = s[i + 1] /\ i + 1 \in 1..Len(s)
  BY <1>1
<1>3. EmptyLast(Tail(s))
  <2> SUFFICES ASSUME NEW i \in 1..Len(Tail(s)), Tail(s)[i] = empty_packet
               PROVE  i = Len(Tail(s))
    BY DEF EmptyLast
  <2>1. s[i + 1] = empty_packet /\ i + 1 \in 1..Len(s)
    BY <1>2
  <2>2. i + 1 = Len(s)
    BY <2>1 DEF EmptyLast
  <2> QED BY <2>2, <1>1
<1> QED BY <1>1, <1>2, <1>3

\* A stop that is being obeyed leaves no START, and its writer has the last job.
LEMMA AnswersLast ==
  ASSUME ControlInv, StartInv, NEW w \in Writers, Answering(w)
  PROVE  /\ Ended /\ jobs \in 1..MaxJobs /\ out[w] = jobs /\ msg[w].id = exit_id
         /\ \A j \in 0..MaxJobs : ~Starting(j)
<1>1. Ended /\ msg_queue = <<>> /\ msg[w].id = exit_id
  BY DEF ControlInv, ChargeInv, AnswerEnded
<1>2. jobs \in 1..MaxJobs
  BY <1>1 DEF ControlInv, ChargeInv, Begun, Ended, MuxerType
<1>3. \A v \in Writers : pc[v] # "init"
  <2> SUFFICES ASSUME NEW v \in Writers, pc[v] = "init" PROVE FALSE
    OBVIOUS
  <2>1. v = w
    BY DEF ControlInv, ChargeInv, OneCurrent, Current, Reading
  <2> QED BY <2>1 DEF Answering, Flushing
<1>4. \A j \in 0..MaxJobs : ~Starting(j)
  BY <1>1, <1>3 DEF Starting
<1> QED BY <1>1, <1>2, <1>4 DEF StartInv, JobStarts, Current

LEMMA WriterKeepsJob ==
  ASSUME ControlInv, ControlInv', StartInv, StartInv', JobInv, ~failed',
         NEW w \in Writers, Writer(w)
  PROVE  JobInv'
<1> USE DEF JobInv
<1>1. WriterFiles(w) /\ WriterCharge(w)
  BY WriterFilesStep, WriterChargeStep DEF ControlInv
<1>2. WriterMove(w) /\ WriterLists(w)
  BY WriterMoveStep
<1>3. /\ UNCHANGED <<ctl, jobs, exit_id, goal>>
      /\ \A v \in Writers \ {w} : /\ pc'[v] = pc[v] /\ msg'[v] = msg[v] /\ out'[v] = out[v]
                                  /\ private'[v] = private[v]
  BY <1>1, <1>2 DEF WriterCharge, WriterFiles, WriterMove, WriterLists
<1>4. \A j \in 0..MaxJobs : Starting(j)' => Starting(j)
  BY <1>1, WriterStarting DEF StartInv
<1>5. \A v \in Writers \ {w} : /\ Current(v)' <=> Current(v)
                               /\ Reading(v)' <=> Reading(v)
  BY <1>3 DEF Current, Reading, Answering, Flushing
<1>6. jobs \in 0..MaxJobs /\ \A v \in Writers : out[v] \in 0..MaxJobs
  BY DEF ControlInv, MuxerType
<1>7. notified' # notified => Answering(w) /\ notified' /\ ctl = "waiting"
  BY <1>1 DEF WriterCharge
\* a writer that begins to read has the last job
<1>8. pc[w] = "init" => out'[w] = jobs /\ pc'[w] = "pop"
  <2> SUFFICES ASSUME pc[w] = "init" PROVE out'[w] = jobs /\ pc'[w] = "pop"
    OBVIOUS
  <2>1. out'[w] = msg[w].job /\ pc'[w] = "pop"
    BY <1>2 DEF WriterMove
  <2>2. msg[w].id = "START" /\ msg[w] \in Message
    BY DEF ControlInv, ChargeInv, StateMsg, MuxerType
  <2>3. PICK j \in 0..MaxJobs : j = msg[w].job
    BY <2>2 DEF Message
  <2>4. msg[w] = StartOf(j)
    BY <2>2, <2>3 DEF Message, StartOf
  <2>5. Starting(j)
    BY <2>4 DEF Starting
  <2> QED BY <2>1, <2>3, <2>5 DEF LastStarts
<1>9. pc[w] # "init" => out'[w] = out[w]
  BY <1>1 DEF WriterFiles
<1>10. LastStarts'
  <2> SUFFICES ASSUME NEW j \in 0..MaxJobs, Starting(j)' PROVE j = jobs /\ ~Over'
    BY <1>3 DEF LastStarts
  <2>1. Starting(j) /\ j = jobs /\ ~Over
    BY <1>4 DEF LastStarts
  <2>2. ~Answering(w)
    BY <2>1, AnswersLast
  <2>3. Over' <=> Over
    BY <2>2, <1>3, <1>7 DEF Over
  <2> QED BY <2>1, <2>3
<1>11. OpensFirst'
  <2> SUFFICES ASSUME NEW v \in Writers, Current(v)', out'[v] # jobs
               PROVE  out'[v] = 0 /\ pc'[v] \in {"check", "getmsg", "init"}
    BY <1>3 DEF OpensFirst
  <2>1. CASE v # w
    BY <2>1, <1>3, <1>5 DEF OpensFirst
  <2>2. CASE v = w
    <3>1. pc[w] # "init" /\ out'[w] = out[w]
      BY <2>2, <1>8, <1>9
    <3>2. Current(w)
      BY <2>2, <1>1 DEF WriterCharge
    <3>3. out[w] = 0 /\ pc[w] \in {"check", "getmsg"}
      BY <2>2, <3>1, <3>2 DEF OpensFirst
    <3>4. PICK j \in 0..MaxJobs : j = jobs
      BY <1>6
    <3>5. Starting(j)'
      BY <2>2, <3>4, <1>3 DEF StartInv, JobStarts
    <3>6. ~Answering(w)'
      <4> SUFFICES ASSUME Answering(w)' PROVE FALSE
        OBVIOUS
      <4>1. msg_queue' = <<>>
        BY DEF ControlInv, ChargeInv, AnswerEnded
      <4>2. \A u \in Writers : pc'[u] # "init"
        <5> SUFFICES ASSUME NEW u \in Writers, pc'[u] = "init" PROVE FALSE
          OBVIOUS
        <5>1. Current(u)' /\ Current(w)'
          BY DEF Current, Reading
        <5>2. u = w
          BY <5>1 DEF ControlInv, ChargeInv, OneCurrent
        <5> QED BY <5>2 DEF Answering, Flushing
      <4> QED BY <4>1, <4>2, <3>5 DEF Starting
    <3>7. ~(pc'[w] = "pop" /\ msg_queue' = <<>>)
      <4> SUFFICES ASSUME pc'[w] = "pop", msg_queue' = <<>> PROVE FALSE
        OBVIOUS
      <4>1. PICK u \in Writers : pc'[u] = "init"
        BY <3>5 DEF Starting
      <4>2. Current(u)' /\ Current(w)'
        BY <4>1 DEF Current, Reading
      <4>3. u = w
        BY <4>2 DEF ControlInv, ChargeInv, OneCurrent
      <4> QED BY <4>1, <4>3
    <3>8. pc'[w] \in {"getmsg", "init"}
      BY <3>3, <3>6, <3>7, <1>2 DEF WriterMove, Answering
    <3> QED BY <2>2, <3>1, <3>3, <3>8
  <2> QED BY <2>1, <2>2
\* a writer that leaves the shared list obeys a message, and has the list or leaves it
<1>12. Reading(w) /\ ~Reading(w)' =>
         /\ Answering(w) \/ Answering(w)'
         /\ packet_list' = NoPtr \/ msg'[w].id = "IMMEDIATE"
  <2> SUFFICES ASSUME Reading(w), ~Reading(w)'
               PROVE  /\ Answering(w) \/ Answering(w)'
                      /\ packet_list' = NoPtr \/ msg'[w].id = "IMMEDIATE"
    OBVIOUS
  <2>1. \/ pc[w] = "take"
        \/ pc[w] = "getmsg" /\ pc'[w] = "notify" /\ msg'[w].id = "IMMEDIATE"
    BY <1>2 DEF WriterMove, Reading
  <2> QED BY <2>1, <1>2 DEF WriterLists, Answering
<1>13. BusyReads'
  <2> SUFFICES ASSUME Busy, NEW v \in Writers, out'[v] = jobs PROVE Reading(v)'
    BY <1>3 DEF BusyReads, Busy
  <2>1. CASE v # w
    BY <2>1, <1>3, <1>5 DEF BusyReads
  <2>2. CASE v = w
    <3>1. Ended' <=> Ended
      BY <1>3 DEF Ended
    <3>2. ~Answering(w) /\ ~Answering(w)'
      BY <3>1 DEF ControlInv, ChargeInv, AnswerEnded, Ended, Busy
    <3>3. Reading(w)
      BY <2>2, <1>9 DEF BusyReads, Reading
    <3> QED BY <2>2, <3>2, <3>3, <1>12
  <2> QED BY <2>1, <2>2
<1>14. StillCurrent'
  <2> SUFFICES ASSUME Unanswered' PROVE \E v \in Writers : Current(v)'
    BY DEF StillCurrent
  <2>1. Unanswered
    BY <1>3, <1>7 DEF Unanswered
  <2>2. PICK v \in Writers : Current(v)
    BY <2>1 DEF StillCurrent
  <2>3. CASE v # w
    BY <2>2, <2>3, <1>5
  <2>4. CASE v = w
    <3>1. ~(ctl = "waiting" /\ notified')
      BY <1>3 DEF Unanswered
    <3>2. pc[w] = "take" => msg[w].id \in {"NORMAL", "FLUSH"}
      <4> SUFFICES ASSUME pc[w] = "take" PROVE msg[w].id \in {"NORMAL", "FLUSH"}
        OBVIOUS
      <4>1. Answering(w)
        BY DEF Answering
      <4>2. msg[w].id = exit_id /\ exit_id \in Exits
        BY <4>1, AnswersLast DEF ControlInv, MuxerType
      <4> QED BY <4>2 DEF ExitRead, Exits
    <3> QED BY <2>2, <2>4, <3>1, <3>2, <1>2
            DEF WriterMove, Current, Reading, Answering, Flushing
  <2> QED BY <2>3, <2>4
<1>15. FreshList'
  <2> SUFFICES ASSUME ctl \in {"inited", "creating"}
               PROVE  /\ packet_list' = <<>> /\ file'[jobs] = <<>>
                      /\ \A v \in Writers : Current(v)' => pc'[v] \notin {"woken", "write"}
    BY <1>3 DEF FreshList
  <2>1. /\ packet_list = <<>> /\ file[jobs] = <<>>
        /\ \A v \in Writers : Current(v) => pc[v] \notin {"woken", "write"}
    BY DEF FreshList
  <2>2. pc[w] \notin {"take", "woken", "write"}
    BY <2>1 DEF Current, Reading, Ended, ControlInv, ChargeInv, AnswerEnded, Answering
  <2>3. packet_list' = <<>> /\ pc'[w] # "write"
    BY <1>2, <2>1, <2>2 DEF WriterLists, WriterMove
  <2>4. file'[jobs] = <<>>
    <3>1. CASE file' = file
      BY <2>1, <3>1
    <3>2. CASE pc[w] = "drain" /\ WriteFree(w, Head(private[w]))
      <4>1. jobs \in 1..MaxJobs
        BY <1>6 DEF ControlInv, ChargeInv, Begun
      <4>2. out[w] # jobs
        BY <3>2 DEF BusyReads, Busy, Reading
      <4> QED BY <2>1, <3>2, <4>1, <4>2 DEF WriteFree, ControlInv, MuxerType
    <3> QED BY <3>1, <3>2, <2>2, <1>2 DEF WriterLists
  <2>5. ASSUME NEW v \in Writers, Current(v)' PROVE pc'[v] \notin {"woken", "write"}
    <3>1. CASE v = w
      BY <3>1, <2>3, <1>1 DEF WriterCharge
    <3>2. CASE v # w
      BY <3>2, <2>1, <2>5, <1>3, <1>5
    <3> QED BY <3>1, <3>2
  <2> QED BY <2>3, <2>4, <2>5
\* the only file that changes is the one the writer has open
<1>16. \A j \in 1..MaxJobs : j # out[w] => file'[j] = file[j] /\ closedBy'[j] = closedBy[j]
  <2> SUFFICES ASSUME NEW j \in 1..MaxJobs, j # out[w]
               PROVE  file'[j] = file[j] /\ closedBy'[j] = closedBy[j]
    OBVIOUS
  <2>1. file' = file \/ \E p : WriteFree(w, p)
    BY <1>2 DEF WriterLists
  <2>2. file'[j] = file[j]
    BY <2>1 DEF WriteFree, ControlInv, MuxerType
  <2> QED BY <2>2, <1>1 DEF WriterFiles
<1>17. Future'
  <2> SUFFICES ASSUME NEW j \in 1..MaxJobs, j > jobs \/ Starting(j)'
               PROVE  Unused(j)'
    BY <1>3 DEF Future
  <2>1. j > jobs \/ Starting(j)
    BY <1>4
  <2>2. j # out[w]
    BY <2>1, <1>6 DEF StartInv, OutBegun, OutOnce
  <2> QED BY <2>1, <2>2, <1>16 DEF Future, Unused
<1>18. PrivateHeld'
  <2> SUFFICES ASSUME NEW v \in Writers, private'[v] # <<>>
               PROVE  pc'[v] = "drain" \/ (pc'[v] = "notify" /\ msg'[v].id = "NORMAL")
    BY DEF PrivateHeld
  <2>1. CASE v # w
    BY <2>1, <1>3 DEF PrivateHeld
  <2>2. CASE v = w
    BY <2>2, <1>2 DEF WriterMove, WriterLists, PrivateHeld
  <2> QED BY <2>1, <2>2
<1>19. packet_list = NoPtr => packet_list' = NoPtr
  <2>1. packet_list \in Seq(Item) => packet_list # NoPtr
    BY ListsTyped
  <2> QED BY <2>1, <1>2 DEF WriterLists
<1>20. ~Reading(w) => ~Reading(w)' /\ msg'[w] = msg[w] /\ out'[w] = out[w]
  BY <1>1, <1>2, <1>9 DEF WriterCharge, WriterMove, Reading
<1>21. ListTaken'
  <2> SUFFICES ASSUME NEW v \in Writers, jobs # 0, out'[v] = jobs, ~Reading(v)',
                      msg'[v].id # "IMMEDIATE"
               PROVE  packet_list' = NoPtr
    BY <1>3 DEF ListTaken
  <2>1. CASE v # w
    BY <2>1, <1>3, <1>5, <1>19 DEF ListTaken
  <2>2. CASE v = w /\ ~Reading(w)
    BY <2>2, <1>19, <1>20 DEF ListTaken
  <2>3. CASE v = w /\ Reading(w)
    BY <2>3, <1>12
  <2> QED BY <2>1, <2>2, <2>3
<1>22. ListLeft'
  <2>1. ASSUME Over' PROVE packet_list' = NoPtr \/ ListCut'
    <3>1. CASE Over
      <4>1. CASE packet_list = NoPtr
        BY <4>1, <1>19
      <4>2. CASE ListCut
        <5>1. PICK v \in Writers : out[v] = jobs /\ ~Reading(v) /\ msg[v].id = "IMMEDIATE"
          BY <4>2 DEF ListCut
        <5>2. out'[v] = jobs /\ ~Reading(v)' /\ msg'[v].id = "IMMEDIATE"
          BY <5>1, <1>3, <1>5, <1>20
        <5> QED BY <4>2, <5>2, <1>3 DEF ListCut
      <4> QED BY <3>1, <4>1, <4>2 DEF ListLeft
    <3>2. CASE ~Over
      <4>1. Answering(w) /\ notified' # notified
        BY <2>1, <3>2, <1>3, <1>7 DEF Over
      <4>2. out[w] = jobs /\ msg[w].id = exit_id /\ jobs # 0
        BY <4>1, AnswersLast
      <4>3. ~Reading(w)
        BY <4>1, <1>1 DEF WriterFiles, Reading
      <4>4. CASE exit_id = "IMMEDIATE"
        BY <4>2, <4>3, <4>4, <1>3, <1>20 DEF ListCut
      <4>5. CASE exit_id # "IMMEDIATE"
        BY <4>2, <4>3, <4>5, <1>19 DEF ListTaken
      <4> QED BY <4>4, <4>5
    <3> QED BY <3>1, <3>2
  <2>2. ctl = "none" => packet_list' = NoPtr
    BY <1>19 DEF ListLeft
  <2> QED BY <2>1, <2>2, <1>3 DEF ListLeft
<1>23. RestartExit'
  BY <1>3 DEF RestartExit
<1>24. ExitRead'
  <2> SUFFICES ASSUME NEW v \in Writers
               PROVE  /\ pc'[v] \in {"drain", "tailer"} => msg'[v].id \in Exits
                      /\ pc'[v] = "take" => msg'[v].id # "IMMEDIATE"
    BY DEF ExitRead
  <2>1. CASE v # w
    BY <2>1, <1>3 DEF ExitRead
  <2>2. CASE v = w
    <3>1. pc[w] \in {"take", "notify"} => msg[w].id \in Exits
      BY AnswersLast DEF Answering, ControlInv, MuxerType
    <3> QED BY <2>2, <3>1, <1>2 DEF WriterMove, ExitRead
  <2> QED BY <2>1, <2>2
<1>25. ClosedAs'
  <2> SUFFICES ASSUME NEW v \in Writers, out'[v] # 0
               PROVE  IF pc'[v] \in {"flushed", "end", "detach", "free"}
                      THEN msg'[v].id \in Exits /\ closedBy'[out'[v]] = msg'[v].id
                      ELSE closedBy'[out'[v]] = "open"
    BY DEF ClosedAs
  <2>1. CASE v # w
    <3>1. out[v] # out[w] /\ out[v] \in 1..MaxJobs
      BY <2>1, <1>3, <1>6 DEF StartInv, OneOut
    <3> QED BY <2>1, <3>1, <1>3, <1>16 DEF ClosedAs
  <2>2. CASE v = w /\ pc[w] = "init"
    <3>1. jobs \in 1..MaxJobs /\ out'[w] = jobs /\ pc'[w] = "pop"
      BY <2>2, <1>6, <1>8
    <3>2. closedBy' = closedBy
      BY <2>2, <1>2 DEF WriterLists
    <3>3. PICK j \in 0..MaxJobs : j = msg[w].job
      BY DEF ControlInv, MuxerType, Message
    <3>4. msg[w] = StartOf(j)
      BY <2>2, <3>3 DEF ControlInv, ChargeInv, StateMsg, MuxerType, Message, StartOf
    <3>5. Starting(j) /\ j = jobs
      BY <2>2, <3>4 DEF Starting, LastStarts
    <3>6. closedBy[j] = "open"
      BY <3>1, <3>5 DEF Future, Unused
    <3> QED BY <2>2, <3>1, <3>2, <3>5, <3>6
  <2>3. CASE v = w /\ pc[w] = "tailer"
    <3>1. out'[w] = out[w] /\ out[w] \in 1..MaxJobs /\ closedBy'[out[w]] = msg[w].id
      BY <2>2, <2>3, <1>2, <1>6, <1>9 DEF WriterLists, ControlInv, MuxerType
    <3>2. msg'[w] = msg[w] /\ pc'[w] \in {"flushed", "end"} /\ msg[w].id \in Exits
      BY <2>3, <1>2 DEF WriterMove, ExitRead
    <3> QED BY <2>3, <3>1, <3>2
  <2>4. CASE v = w /\ pc[w] \notin {"init", "tailer"}
    <3>1. out'[w] = out[w] /\ closedBy' = closedBy
      BY <2>4, <1>2, <1>9 DEF WriterLists
    <3> QED BY <2>4, <3>1, <1>2 DEF WriterMove, ClosedAs
  <2> QED BY <2>1, <2>2, <2>3, <2>4
<1>26. SharedEmpty' /\ PrivateEmpty'
  <2>1. packet_list = NoPtr \/ packet_list \in Seq(Item)
    BY DEF ControlInv, MuxerType
  <2>2. private[w] \in Seq(Item)
    BY DEF ControlInv, MuxerType
  <2>3. EmptyLast(<<>>)
    BY DEF EmptyLast
  <2>4. SharedEmpty'
    <3>1. CASE packet_list' = packet_list \/ packet_list' = NoPtr
      BY <3>1, <1>3 DEF SharedEmpty, EmptyLast
    <3>2. CASE packet_list \in Seq(Item) /\ packet_list # <<>> /\ packet_list' = Tail(packet_list)
      <4>1. packet_list # NoPtr
        BY <3>2, ListsTyped
      <4>2. EmptyLast(packet_list)
        BY <4>1 DEF SharedEmpty
      <4>3. /\ EmptyLast(packet_list')
            /\ \A i \in 1..Len(packet_list') : /\ packet_list'[i] = packet_list[i + 1]
                                              /\ i + 1 \in 1..Len(packet_list)
        BY <3>2, <4>2, TailEmptyLast
      <4> QED BY <4>1, <4>3, <1>3 DEF SharedEmpty, EmptyLast
    <3> QED BY <3>1, <3>2, <1>2 DEF WriterLists
  <2>5. PrivateEmpty'
    <3> SUFFICES ASSUME NEW v \in Writers PROVE EmptyLast(private'[v])
      BY DEF PrivateEmpty, EmptyLast
    <3>1. CASE private'[v] = private[v]
      BY <3>1 DEF PrivateEmpty, EmptyLast
    <3>2. CASE private'[v] = packet_list /\ packet_list \in Seq(Item)
      <4>1. packet_list # NoPtr
        BY <3>2, ListsTyped
      <4> QED BY <3>2, <4>1 DEF SharedEmpty
    <3>3. CASE v = w /\ private[w] # <<>> /\ private'[w] = Tail(private[w])
      <4>1. EmptyLast(private[w])
        BY DEF PrivateEmpty
      <4> QED BY <3>3, <4>1, <2>2, TailEmptyLast
    <3> QED BY <3>1, <3>2, <3>3, <1>2, <1>3 DEF WriterLists
  <2> QED BY <2>4, <2>5
<1> QED BY <1>10, <1>11, <1>13, <1>14, <1>15, <1>17, <1>18, <1>21, <1>22, <1>23, <1>24, <1>25,
           <1>26

\* The parts of JobInv that the steps of the controlling thread and the pushes
\* leave alone.
LEMMA StayJob ==
  ASSUME ControlInv, JobInv, WritersStay,
         UNCHANGED <<out, closedBy, jobs, private, file>>,
         \A j \in 0..MaxJobs : Starting(j)' => Starting(j),
         Over' => Over, Busy' => Busy, Unanswered' => Unanswered
  PROVE  /\ LastStarts' /\ OpensFirst' /\ BusyReads' /\ StillCurrent' /\ Future'
         /\ PrivateHeld' /\ ExitRead' /\ ClosedAs' /\ PrivateEmpty'
<1> USE DEF JobInv
<1>1. \A w \in Writers : /\ msg'[w] = msg[w]
                         /\ pc'[w] = pc[w] \/ (pc[w] = "blocked" /\ pc'[w] = "woken")
                         /\ Current(w)' <=> Current(w)
                         /\ Reading(w)' <=> Reading(w)
  BY StayCharge DEF WritersStay, WakeWriter, ControlInv
<1>2. LastStarts' /\ StillCurrent' /\ BusyReads'
  BY <1>1 DEF LastStarts, StillCurrent, BusyReads
<1>3. OpensFirst'
  BY <1>1 DEF OpensFirst
<1>4. Future'
  BY DEF Future, Unused
<1>5. PrivateHeld' /\ ExitRead' /\ ClosedAs'
  BY <1>1 DEF PrivateHeld, ExitRead, ClosedAs
<1>6. PrivateEmpty'
  BY DEF PrivateEmpty, EmptyLast
<1> QED BY <1>2, <1>3, <1>4, <1>5, <1>6

AfterWake == ctl \in {"waiting", "stopped", "syncing", "joining"}

\* The controlling thread goes on and touches no list.
LEMMA GoOnJob ==
  ASSUME ControlInv, JobInv,
         UNCHANGED <<packet_list, pc, msg, out, closedBy, jobs, private, file>>,
         \A j \in 0..MaxJobs : Starting(j)' => Starting(j),
         Over' => Over /\ exit_id' = exit_id, Busy' => Busy, Unanswered' => Unanswered,
         ctl' \in {"inited", "creating", "none"} => ctl' = ctl,
         AfterWake => AfterWake', RestartExit'
  PROVE  JobInv'
<1> USE DEF JobInv
<1>1. WritersStay
  BY DEF WritersStay
<1>2. /\ LastStarts' /\ OpensFirst' /\ BusyReads' /\ StillCurrent' /\ Future'
      /\ PrivateHeld' /\ ExitRead' /\ ClosedAs' /\ PrivateEmpty'
  BY <1>1, StayJob
<1>3. \A w \in Writers : (Current(w)' <=> Current(w)) /\ (Reading(w)' <=> Reading(w))
  BY <1>1, StayCharge DEF ControlInv
<1>4. FreshList'
  BY <1>3 DEF FreshList
<1>5. ListTaken' /\ ListLeft'
  BY <1>3 DEF ListTaken, ListLeft, ListCut
<1>6. SharedEmpty'
  BY DEF SharedEmpty, EmptyLast, AfterWake
<1> QED BY <1>2, <1>4, <1>5, <1>6

\* A packet is put behind a list that has no empty packet.
LEMMA AppendJob ==
  ASSUME ControlInv, JobInv, WritersStay,
         UNCHANGED <<out, closedBy, jobs, private, file, msg_queue, exit_id, goal, notified>>,
         NEW s \in Seq(Item), NEW p \in Item, packet_list' = Append(s, p),
         \A i \in 1..Len(s) : s[i] # empty_packet,
         \/ ctl = "waking" /\ ctl' = "waiting" /\ packet_list # NoPtr
         \/ ctl = "running" /\ ctl' = "running" /\ p # empty_packet
  PROVE  JobInv'
<1> USE DEF JobInv
<1>1. ~notified
  BY DEF ControlInv, ChargeInv, NotifiedWaits
<1>2. (Over' => Over) /\ (Busy' => Busy) /\ (Unanswered' => Unanswered) /\ ~Over'
  BY <1>1 DEF Over, Busy, Unanswered
<1>3. \A j \in 0..MaxJobs : Starting(j)' => Starting(j)
  BY StayStarting DEF ControlInv
<1>4. /\ LastStarts' /\ OpensFirst' /\ BusyReads' /\ StillCurrent' /\ Future'
      /\ PrivateHeld' /\ ExitRead' /\ ClosedAs' /\ PrivateEmpty'
  BY <1>2, <1>3, StayJob
<1>5. FreshList'
  BY DEF FreshList
<1>6. ListTaken'
  <2> SUFFICES ASSUME NEW w \in Writers, jobs # 0, out[w] = jobs, ~Reading(w)', msg'[w].id # "IMMEDIATE"
               PROVE  FALSE
    BY DEF ListTaken
  <2>1. ~Reading(w) /\ msg'[w] = msg[w]
    BY StayCharge DEF ControlInv, WritersStay
  <2>2. packet_list = NoPtr
    BY <2>1 DEF ListTaken
  <2>3. ctl = "running"
    BY <2>2
  <2> QED BY <2>1, <2>3 DEF BusyReads, Busy
<1>7. ListLeft' /\ RestartExit'
  BY <1>2 DEF ListLeft, RestartExit
<1>8. SharedEmpty'
  <2>1. /\ Len(packet_list') = Len(s) + 1 /\ Len(s) \in Nat
        /\ \A i \in 1..Len(s) : packet_list'[i] = s[i]
        /\ packet_list'[Len(s) + 1] = p
    BY AppendProperties
  <2>2. \A i \in 1..Len(packet_list') : i \in 1..Len(s) \/ i = Len(packet_list')
    BY <2>1
  <2>3. EmptyLast(packet_list')
    BY <2>1, <2>2 DEF EmptyLast
  <2>4. p # empty_packet => \A i \in 1..Len(packet_list') : packet_list'[i] # empty_packet
    BY <2>1, <2>2
  <2> QED BY <2>3, <2>4 DEF SharedEmpty, EmptyLast
<1> QED BY <1>4, <1>5, <1>6, <1>7, <1>8

\* What an overflow leaves is the end of the list, from a key frame on, or nothing.
LEMMA DropParts ==
  ASSUME NEW T, NEW s \in Seq(T)
  PROVE  \/ DropTo(s) = <<>>
         \/ \E i \in 1..Len(s) : s[i].kind = "key" /\ DropTo(s) = SubSeq(s, i, Len(s))
<1>1. CASE \E i \in DOMAIN s : IsSecondKey(s, i)
  <2> DEFINE i == CHOOSE i \in DOMAIN s : IsSecondKey(s, i)
  <2>1. i \in DOMAIN s /\ IsSecondKey(s, i)
    BY <1>1
  <2>2. i \in 1..Len(s)
    BY <2>1
  <2>3. DropTo(s) = SubSeq(s, i, Len(s))
    BY <1>1 DEF DropTo
  <2>4. s[i].kind = "key"
    BY <2>1 DEF IsSecondKey, KeyPositions
  <2> HIDE DEF i
  <2> QED BY <2>2, <2>3, <2>4
<1>2. CASE ~\E i \in DOMAIN s : IsSecondKey(s, i)
  BY <1>2 DEF DropTo
<1> QED BY <1>1, <1>2

LEMMA PushJob ==
  ASSUME ControlInv, JobInv, PushVideo \/ PushAudio
  PROVE  JobInv'
<1>1. PICK kind \in {"key", "delta", "audio"} : push_packet(kind)
  BY DEF PushVideo, PushAudio
<1>2. PICK s \in Seq(Item), p \in Packet :
        /\ packet_list \in Seq(Item)
        /\ s = (IF Overflow THEN DropTo(packet_list) ELSE packet_list)
        /\ packet_list' = Append(s, p)
  BY <1>1, PushAppends
<1>3. /\ ctl = "running" /\ ctl' = ctl /\ pc' = WakeWriter /\ msg' = msg
      /\ UNCHANGED <<out, closedBy, jobs, private, file, msg_queue, exit_id, goal, notified>>
  BY <1>1 DEF push_packet, fileVars, ControlInv, ChargeInv, AttachedRuns
<1>4. \A i \in 1..Len(packet_list) : packet_list[i] # empty_packet
  <2>1. packet_list # NoPtr
    BY <1>2, ListsTyped
  <2> QED BY <2>1, <1>3 DEF JobInv, SharedEmpty
<1>5. \A i \in 1..Len(s) : s[i] # empty_packet
  <2>1. CASE s = packet_list \/ s = <<>>
    BY <2>1, <1>4
  <2>2. ASSUME NEW k \in 1..Len(packet_list), s = SubSeq(packet_list, k, Len(packet_list))
        PROVE  \A i \in 1..Len(s) : s[i] # empty_packet
    <3>0. k \in Int /\ Len(packet_list) \in Int /\ \A i \in k..Len(packet_list) : packet_list[i] \in Item
      BY <1>2
    <3>1. /\ Len(s) = Len(packet_list) - k + 1
          /\ \A i \in 1..(Len(packet_list) - k + 1) : s[i] = packet_list[k + i - 1]
      BY <3>0, <2>2, SubSeqProperties
    <3>2. \A i \in 1..Len(s) : k + i - 1 \in 1..Len(packet_list)
      BY <3>1, <1>2
    <3> QED BY <3>1, <3>2, <1>4
  <2> QED BY <2>1, <2>2, <1>2, DropParts
<1>6. p \in Item /\ p # empty_packet
  BY DEF Item, Packet, empty_packet
<1>7. WritersStay
  BY <1>3 DEF WritersStay
<1> QED BY <1>2, <1>3, <1>5, <1>6, <1>7, AppendJob

LEMMA InitUriJob ==
  ASSUME ControlInv, StartInv, JobInv, InitUri
  PROVE  JobInv'
<1> USE DEF JobInv
<1>1. /\ ctl \in {"none", "stopped"} /\ ctl' = "inited" /\ goal' = "run"
      /\ ctl = "stopped" => goal = "restart"
      /\ jobs \in Nat /\ jobs' = jobs + 1 /\ jobs + 1 \in 1..MaxJobs
      /\ packet_list' = (IF packet_list = NoPtr THEN <<>> ELSE packet_list)
      /\ UNCHANGED <<notified, pc, msg, out, private, file, closedBy>>
  BY ConstantsAssumption DEF InitUri, ControlInv, MuxerType, writerVars, fileVars
<1>2. ~notified /\ Over /\ \A w \in Writers : ~Current(w)
  BY <1>1 DEF ControlInv, ChargeInv, NoneCurrent, NotifiedWaits, Quiet, Over
<1>3. \A w \in Writers : ~Current(w)' /\ (Reading(w)' <=> Reading(w))
  BY <1>1, <1>2 DEF Current, Reading, Answering, Flushing
<1>4. \A j \in 0..MaxJobs : Starting(j)' => j = jobs + 1
  BY <1>2, InitUriStarting DEF LastStarts
<1>5. \A w \in Writers : out[w] # jobs + 1
  BY <1>1 DEF StartInv, OutBegun, ControlInv, MuxerType
<1>6. LastStarts' /\ OpensFirst' /\ BusyReads' /\ StillCurrent'
  <2>1. LastStarts'
    BY <1>1, <1>2, <1>4 DEF LastStarts, Over
  <2>2. OpensFirst' /\ BusyReads' /\ StillCurrent'
    BY <1>1, <1>3, <1>5 DEF OpensFirst, BusyReads, StillCurrent, Unanswered
  <2> QED BY <2>1, <2>2
<1>7. packet_list = NoPtr
  <2>1. CASE ctl = "none"
    BY <2>1 DEF ListLeft
  <2>2. CASE ctl = "stopped"
    BY <2>2, <1>1, <1>2 DEF ListLeft, ListCut, RestartExit
  <2> QED BY <2>1, <2>2, <1>1
<1>8. FreshList'
  <2>1. file[jobs + 1] = <<>>
    BY <1>1 DEF Future, Unused
  <2> QED BY <2>1, <1>1, <1>3, <1>7 DEF FreshList
<1>9. Future'
  BY <1>1, <1>4 DEF Future, Unused
<1>10. PrivateHeld' /\ ExitRead' /\ ClosedAs' /\ RestartExit'
  BY <1>1 DEF PrivateHeld, ExitRead, ClosedAs, RestartExit
<1>11. ListTaken' /\ ListLeft'
  BY <1>1, <1>2, <1>5 DEF ListTaken, ListLeft, Over
<1>12. SharedEmpty' /\ PrivateEmpty'
  BY <1>1, <1>7 DEF SharedEmpty, PrivateEmpty, EmptyLast
<1> QED BY <1>6, <1>8, <1>9, <1>10, <1>11, <1>12

LEMMA StartCreateJob ==
  ASSUME ControlInv, StartInv, JobInv, NEW w \in Writers, StartCreate(w)
  PROVE  JobInv'
<1> USE DEF JobInv
<1>1. /\ ctl = "inited" /\ ctl' = "creating" /\ pc[w] = "free"
      /\ UNCHANGED <<goal, exit_id, jobs, notified, packet_list, private, file, closedBy>>
      /\ \A v \in Writers \ {w} : pc'[v] = pc[v] /\ msg'[v] = msg[v] /\ out'[v] = out[v]
      /\ pc'[w] = "check" /\ out'[w] = 0 /\ msg'[w] = NoMessage
  BY DEF StartCreate, muxerVars, fileVars, ControlInv, MuxerType
<1>2. ~notified /\ \A v \in Writers : ~Current(v)
  BY <1>1 DEF ControlInv, ChargeInv, NoneCurrent, NotifiedWaits, Quiet
<1>3. /\ \A v \in Writers \ {w} : ~Current(v)' /\ (Reading(v)' <=> Reading(v))
      /\ Current(w)' /\ Reading(w)'
  BY <1>1, <1>2 DEF Current, Reading, Answering, Flushing
<1>4. \A j \in 0..MaxJobs : Starting(j)' <=> Starting(j)
  BY StartCreateStarting
<1>5. LastStarts' /\ OpensFirst'
  BY <1>1, <1>2, <1>3, <1>4 DEF LastStarts, OpensFirst, Over
<1>6. BusyReads' /\ StillCurrent'
  BY <1>1, <1>3 DEF BusyReads, StillCurrent, Busy
<1>7. FreshList'
  BY <1>1, <1>3 DEF FreshList
<1>8. Future'
  BY <1>1, <1>4 DEF Future, Unused
<1>9. PrivateHeld'
  BY <1>1 DEF PrivateHeld
<1>10. ListTaken' /\ ListLeft' /\ RestartExit'
  BY <1>1, <1>2, <1>3 DEF ListTaken, ListLeft, RestartExit, Over
<1>11. ExitRead'
  BY <1>1 DEF ExitRead
<1>12. ClosedAs'
  BY <1>1 DEF ClosedAs
<1>13. SharedEmpty' /\ PrivateEmpty'
  BY <1>1 DEF SharedEmpty, PrivateEmpty, EmptyLast
<1> QED BY <1>5, <1>6, <1>7, <1>8, <1>9, <1>10, <1>11, <1>12, <1>13

LEMMA DestroyJob ==
  ASSUME ControlInv, JobInv, Destroy
  PROVE  JobInv'
<1> USE DEF JobInv
<1>1. /\ ctl = "syncing" /\ ctl' = "none" /\ msg_queue' = <<>> /\ packet_list' = NoPtr
      /\ goal' = "run"
      /\ UNCHANGED <<exit_id, jobs, pc, msg, out, private, closedBy, file, notified>>
  BY DEF Destroy, writerVars, fileVars
<1>2. WritersStay
  BY <1>1 DEF WritersStay
<1>3. \A j \in 0..MaxJobs : Starting(j)' => Starting(j)
  BY <1>1 DEF Starting
<1>4. Over /\ ~Busy' /\ ~Unanswered'
  BY <1>1 DEF Over, Busy, Unanswered
<1>5. /\ LastStarts' /\ OpensFirst' /\ BusyReads' /\ StillCurrent' /\ Future'
      /\ PrivateHeld' /\ ExitRead' /\ ClosedAs' /\ PrivateEmpty'
  BY <1>1, <1>2, <1>3, <1>4, StayJob
<1>6. FreshList' /\ ListTaken' /\ ListLeft' /\ RestartExit' /\ SharedEmpty'
  BY <1>1 DEF FreshList, ListTaken, ListLeft, RestartExit, SharedEmpty
<1> QED BY <1>5, <1>6

\* As long as no writer has failed there is one to stop.
LEMMA StopGoesOn ==
  ASSUME ControlInv, JobInv, StopCheck
  PROVE  ctl' = "posting"
<1>1. ctl = "stopping" /\ ctl' = IF NothingToStop THEN "stopped" ELSE "posting"
  BY DEF StopCheck
<1>2. PICK w \in Writers : Current(w)
  BY <1>1 DEF JobInv, StillCurrent, Unanswered
<1>3. Live(w)
  BY <1>2 DEF Current, Reading, Answering, Flushing, Live
<1>4. w \in w_tid_list
  BY <1>1, <1>3 DEF ControlInv, DeleteInv, LiveListed, Listed
<1>5. write_tid # NoThread
  BY <1>1 DEF ControlInv, ChargeInv, TidSet
<1> QED BY <1>1, <1>4, <1>5 DEF NothingToStop

LEMMA ControlJob ==
  ASSUME ControlInv, StartInv, JobInv, Control \/ \E g \in {"restart", "delete"} : StopRequest(g)
  PROVE  JobInv'
<1>1. CASE InitUri
  BY <1>1, InitUriJob
<1>2. ASSUME NEW w \in Writers, StartCreate(w) PROVE JobInv'
  BY <1>2, StartCreateJob
<1>a. notified => ctl = "waiting"
  BY DEF ControlInv, ChargeInv, NotifiedWaits
<1>r. RestartExit
  BY DEF JobInv
<1>3. CASE \/ StartPublish \/ StopWakeNull \/ StopReturn \/ DeleteBegin \/ SyncJoin
           \/ \E w \in Writers : SyncPick(w)
  <2>1. UNCHANGED <<packet_list, pc, msg, msg_queue, out, closedBy, jobs, private, file, exit_id, goal>>
    BY <1>3 DEF StartPublish, StopWakeNull, StopReturn, DeleteBegin, SyncJoin,
                SyncPick, muxerVars, writerVars, fileVars
  <2>2. \/ ctl = "creating" /\ ctl' = "running" /\ notified' = notified
        \/ ctl = "waking" /\ ctl' = "crashed" /\ notified' = notified
        \/ ctl = "waiting" /\ notified /\ ctl' = "stopped" /\ ~notified'
        \/ ctl = "stopped" /\ ctl' = "syncing" /\ notified' = notified
        \/ ctl = "joining" /\ ctl' = "syncing" /\ notified' = notified
        \/ ctl = "syncing" /\ ctl' = "joining" /\ notified' = notified
    BY <1>3 DEF StartPublish, StopWakeNull, StopReturn, DeleteBegin, SyncJoin, SyncPick
  <2>3. /\ Over' => Over
        /\ Busy' => Busy
        /\ Unanswered' => Unanswered
        /\ ctl' \notin {"inited", "creating", "none"} /\ (AfterWake => AfterWake')
    BY <2>2, <1>a DEF Over, Busy, Unanswered, AfterWake
  <2>4. WritersStay
    BY <2>1 DEF WritersStay
  <2>5. \A j \in 0..MaxJobs : Starting(j)' => Starting(j)
    BY <2>1, <2>4, StayStarting DEF ControlInv
  <2>6. RestartExit'
    BY <2>1, <1>r DEF RestartExit
  <2> QED BY <2>1, <2>3, <2>5, <2>6, GoOnJob
<1>4. CASE StopCheck
  <2>1. /\ UNCHANGED <<packet_list, pc, msg, msg_queue, out, closedBy, jobs, private, file, exit_id,
                       goal, notified>>
        /\ ctl = "stopping" /\ ctl' = "posting"
    BY <1>4, StopGoesOn DEF StopCheck, muxerVars, writerVars, fileVars
  <2>2. /\ (Over' => Over) /\ (Busy' => Busy) /\ (Unanswered' => Unanswered)
        /\ ~AfterWake /\ ctl' \notin {"inited", "creating", "none"}
    BY <2>1, <1>a DEF Over, Busy, Unanswered, AfterWake
  <2>3. WritersStay
    BY <2>1 DEF WritersStay
  <2>4. \A j \in 0..MaxJobs : Starting(j)' => Starting(j)
    BY <2>1, <2>3, StayStarting DEF ControlInv
  <2>5. RestartExit'
    BY <2>1, <1>r DEF RestartExit
  <2> QED BY <2>1, <2>2, <2>4, <2>5, GoOnJob
<1>5. ASSUME NEW g \in {"restart", "delete"}, StopRequest(g) PROVE JobInv'
  <2>1. /\ UNCHANGED <<packet_list, pc, msg, msg_queue, out, closedBy, jobs, private, file, notified>>
        /\ ctl = "running" /\ ctl' = "stopping" /\ goal' = g
        /\ g = "restart" => exit_id # "IMMEDIATE" /\ exit_id' = exit_id
    BY <1>5 DEF StopRequest, writerVars, fileVars
  <2>2. /\ ~Over' /\ (Busy' => Busy) /\ (Unanswered' => Unanswered)
        /\ ~AfterWake /\ ctl' \notin {"inited", "creating", "none"}
    BY <2>1, <1>a DEF Over, Busy, Unanswered, AfterWake
  <2>3. WritersStay
    BY <2>1 DEF WritersStay
  <2>4. \A j \in 0..MaxJobs : Starting(j)' => Starting(j)
    BY <2>1, <2>3, StayStarting DEF ControlInv
  <2>5. RestartExit'
    BY <2>1 DEF RestartExit
  <2> QED BY <2>1, <2>2, <2>4, <2>5, GoOnJob
<1>6. CASE StopPost
  <2>1. /\ UNCHANGED <<packet_list, pc, msg, out, closedBy, jobs, private, file, exit_id, goal>>
        /\ ctl = "posting" /\ ctl' = "waking" /\ notified' = FALSE
    BY <1>6 DEF StopPost, writerVars, fileVars
  <2>2. /\ ~Over' /\ (Busy' => Busy) /\ (Unanswered' => Unanswered)
        /\ ~AfterWake /\ ctl' \notin {"inited", "creating", "none"}
    BY <2>1 DEF Over, Busy, Unanswered, AfterWake
  <2>3. \A j \in 0..MaxJobs : Starting(j)' => Starting(j)
    BY <1>6, StopPostStarting
  <2>4. RestartExit'
    BY <2>1, <1>r DEF RestartExit
  <2> QED BY <2>1, <2>2, <2>3, <2>4, GoOnJob
<1>7. CASE StopWake
  <2>1. packet_list \in Seq(Item) /\ packet_list # NoPtr
    BY <1>7 DEF StopWake, ControlInv, MuxerType
  <2>2. /\ packet_list' = Append(packet_list, empty_packet) /\ ctl = "waking" /\ ctl' = "waiting"
        /\ UNCHANGED <<out, closedBy, jobs, private, file, msg_queue, exit_id, goal, notified>>
        /\ WritersStay
    BY <1>7 DEF StopWake, WithEmptyPacket, fileVars, WritersStay
  <2>3. \A i \in 1..Len(packet_list) : packet_list[i] # empty_packet
    BY <2>1, <2>2 DEF JobInv, SharedEmpty
  <2>4. empty_packet \in Item
    BY DEF Item
  <2> QED BY <2>1, <2>2, <2>3, <2>4, AppendJob
<1>8. CASE Destroy
  BY <1>8, DestroyJob
<1> QED BY <1>1, <1>2, <1>3, <1>4, <1>5, <1>6, <1>7, <1>8 DEF Control

\* A failure is never forgotten; before one, JobInv holds.
JobSafe == failed \/ JobInv
MuxerInv == ControlInv /\ StartInv /\ JobSafe

LEMMA InitMuxer == Init => MuxerInv
<1> SUFFICES ASSUME Init PROVE JobInv
  BY InitDelete, InitCharge, InitStart DEF MuxerInv, JobSafe, ControlInv
<1>1. /\ ctl = "none" /\ jobs = 0 /\ packet_list = NoPtr /\ goal = "run" /\ notified = FALSE
      /\ \A w \in Writers : pc[w] = "free" /\ out[w] = 0 /\ private[w] = <<>>
      /\ \A j \in 1..MaxJobs : file[j] = <<>> /\ closedBy[j] = "open"
  BY DEF Init
<1>2. \A w \in Writers : ~Current(w)
  BY <1>1 DEF Current, Reading, Answering, Flushing
<1>3. \A j \in 0..MaxJobs : ~Starting(j)
  <2>1. msg_queue = <<>>
    BY DEF Init
  <2> QED BY <1>1, <2>1 DEF Starting
<1>4. LastStarts /\ OpensFirst /\ BusyReads /\ StillCurrent /\ FreshList /\ Future
  BY <1>1, <1>2, <1>3 DEF LastStarts, OpensFirst, BusyReads, StillCurrent, FreshList, Future,
     Unused, Busy, Unanswered
<1>5. /\ PrivateHeld /\ ListTaken /\ ListLeft /\ RestartExit /\ ExitRead /\ ClosedAs
      /\ SharedEmpty /\ PrivateEmpty
  BY <1>1 DEF PrivateHeld, ListTaken, ListLeft, RestartExit, ExitRead, ClosedAs, SharedEmpty,
     PrivateEmpty, EmptyLast
<1> QED BY <1>4, <1>5 DEF JobInv

LEMMA FailedStays == [Next]_vars /\ failed => failed'
<1> SUFFICES ASSUME [Next]_vars, failed PROVE failed'
  OBVIOUS
<1>1. CASE Control
  BY <1>1 DEF Control, InitUri, StartCreate, StartPublish, StopCheck, StopPost, StopWake,
     StopWakeNull, StopReturn, DeleteBegin, SyncPick, SyncJoin, Destroy, fileVars
<1>2. CASE \E g \in {"restart", "delete"} : StopRequest(g)
  BY <1>2 DEF StopRequest, fileVars
<1>3. CASE PushVideo \/ PushAudio
  BY <1>3 DEF PushVideo, PushAudio, push_packet, fileVars
<1>4. ASSUME NEW w \in Writers, Writer(w) PROVE failed'
  <2>1. failed' \in BOOLEAN /\ (failed' = failed \/ failed' = TRUE \/ failed' = (failed \/ ~write_enable))
    BY <1>4 DEF Writer, Check, GetMessage, MuxerInit, MuxerInitFails, TakeList, Notify, Block, Pop,
       Write, WriteFree, Drain, Drained, Tailer, NotifyFlushed, End, Detach, fileVars
  <2> QED BY <2>1
<1>5. CASE UNCHANGED vars
  BY <1>5 DEF vars, fileVars
<1> QED BY <1>1, <1>2, <1>3, <1>4, <1>5 DEF Next, Done

LEMMA NextMuxer == MuxerInv /\ [Next]_vars => MuxerInv'
<1> SUFFICES ASSUME MuxerInv, [Next]_vars PROVE MuxerInv'
  OBVIOUS
<1>1. ControlInv /\ ControlInv' /\ StartInv /\ StartInv'
  BY NextControl, NextStart DEF MuxerInv
<1>2. ASSUME ~failed' PROVE JobInv'
  <2>1. JobInv
    BY <1>2, FailedStays DEF MuxerInv, JobSafe
  <2>2. CASE Control \/ \E g \in {"restart", "delete"} : StopRequest(g)
    BY <1>1, <2>1, <2>2, ControlJob
  <2>3. CASE PushVideo \/ PushAudio
    BY <1>1, <2>1, <2>3, PushJob
  <2>4. ASSUME NEW w \in Writers, Writer(w) PROVE JobInv'
    BY <1>1, <1>2, <2>1, <2>4, WriterKeepsJob
  <2>5. CASE UNCHANGED vars
    <3>1. /\ UNCHANGED <<packet_list, pc, msg, msg_queue, out, closedBy, jobs, private, file, exit_id,
                         goal, notified, ctl>>
      BY <2>5 DEF vars, muxerVars, ctlVars, writerVars, fileVars
    <3>2. /\ Over' <=> Over
          /\ Busy' <=> Busy
          /\ Unanswered' <=> Unanswered
          /\ AfterWake' <=> AfterWake
      BY <3>1 DEF Over, Busy, Unanswered, AfterWake
    <3>3. WritersStay
      BY <3>1 DEF WritersStay
    <3>4. \A j \in 0..MaxJobs : Starting(j)' => Starting(j)
      BY <1>1, <3>1, <3>3, StayStarting DEF ControlInv
    <3>5. RestartExit'
      BY <2>1, <3>1 DEF JobInv, RestartExit
    <3> QED BY <1>1, <2>1, <3>1, <3>2, <3>4, <3>5, GoOnJob
  <2> QED BY <2>2, <2>3, <2>4, <2>5 DEF Next, Done
<1> QED BY <1>1, <1>2 DEF MuxerInv, JobSafe

-----------------------------------------------------------------------------
(* The refinement.                                                         *)

\* A list without its empty packet.
LEMMA ProperParts ==
  ASSUME NEW s \in Seq(Item)
  PROVE  /\ Proper(s) \in Seq(Item)
         /\ (\A i \in 1..Len(s) : s[i] # empty_packet) => Proper(s) = s
         /\ Proper(Append(s, empty_packet)) = s
<1>1. Proper(s) \in Seq(Item)
  <2>1. CASE s # <<>> /\ s[Len(s)] = empty_packet
    <3>1. 1 \in Int /\ Len(s) - 1 \in Int /\ \A i \in 1..(Len(s) - 1) : s[i] \in Item
      OBVIOUS
    <3>2. SubSeq(s, 1, Len(s) - 1) \in Seq(Item)
      BY <3>1, SubSeqProperties
    <3> QED BY <2>1, <3>2 DEF Proper
  <2> QED BY <2>1 DEF Proper
<1>2. ASSUME \A i \in 1..Len(s) : s[i] # empty_packet PROVE Proper(s) = s
  <2>1. s # <<>> => Len(s) \in 1..Len(s)
    BY EmptySeq
  <2> QED BY <1>2, <2>1 DEF Proper
<1>3. Proper(Append(s, empty_packet)) = s
  <2> DEFINE t == Append(s, empty_packet)
  <2>1. empty_packet \in Item
    BY DEF Item
  <2>2. /\ t \in Seq(Item) /\ t # <<>> /\ Len(t) = Len(s) + 1 /\ t[Len(s) + 1] = empty_packet
        /\ \A i \in 1..Len(s) : t[i] = s[i]
    BY <2>1, AppendProperties
  <2> HIDE DEF t
  <2>3. Proper(t) = SubSeq(t, 1, Len(s))
    BY <2>2 DEF Proper
  <2>4. 1 \in Int /\ Len(s) \in Nat /\ \A i \in 1..Len(s) : t[i] \in Item
    BY <2>2
  <2>5. /\ SubSeq(t, 1, Len(s)) \in Seq(Item)
        /\ Len(SubSeq(t, 1, Len(s))) = Len(s)
        /\ \A i \in 1..Len(s) : SubSeq(t, 1, Len(s))[i] = s[i]
    BY <2>2, <2>4, SubSeqProperties
  <2>6. SubSeq(t, 1, Len(s)) = s
    BY <2>5, SeqEqual
  <2> QED BY <2>3, <2>6 DEF t
<1> QED BY <1>1, <1>2, <1>3

\* Its front leaves it.
LEMMA ProperTail ==
  ASSUME NEW s \in Seq(Item), s # <<>>, EmptyLast(s)
  PROVE  /\ Head(s) # empty_packet => Proper(s) = <<Head(s)>> \o Proper(Tail(s))
         /\ Head(s) = empty_packet => Proper(s) = <<>> /\ Proper(Tail(s)) = <<>>
<1> DEFINE t == Tail(s)
<1>1. /\ t \in Seq(Item) /\ Len(t) = Len(s) - 1 /\ \A i \in 1..Len(t) : t[i] = s[i + 1]
      /\ Len(s) \in Nat \ {0} /\ Head(s) = s[1] /\ Head(s) \in Item
  BY EmptySeq, HeadTailProperties
<1>2. s = <<Head(s)>> \o t
  <2>1. s = SubSeq(s, 1, Len(s)) /\ 1 \in 1..Len(s) /\ Len(s) \in 1..Len(s)
    BY <1>1, SubSeqFull
  <2>2. SubSeq(s, 1, Len(s)) = <<s[1]>> \o SubSeq(s, 1 + 1, Len(s))
    BY <2>1, SubSeqRecursiveFirst
  <2>3. SubSeq(s, 1 + 1, Len(s)) = t
    BY TailIsSubSeq
  <2> QED BY <1>1, <2>1, <2>2, <2>3
<1> HIDE DEF t
<1>3. CASE Head(s) = empty_packet
  <2>1. Len(s) = 1
    BY <1>1, <1>3 DEF EmptyLast
  <2>2. Len(t) = 0
    BY <2>1, <1>1
  <2>3. t = <<>>
    BY <2>2, <1>1, EmptySeq
  <2>4. s[Len(s)] = empty_packet
    BY <2>1, <1>1, <1>3
  <2>5. Proper(s) = SubSeq(s, 1, 0)
    BY <2>1, <2>4 DEF Proper
  <2>6. SubSeq(s, 1, 0) = <<>>
    BY SubSeqEmpty
  <2>7. Proper(t) = <<>>
    BY <2>3 DEF Proper
  <2> QED BY <1>3, <2>5, <2>6, <2>7 DEF t
<1>4. CASE Head(s) # empty_packet /\ s[Len(s)] # empty_packet
  <2>1. Proper(s) = s
    BY <1>4 DEF Proper
  <2>2. Proper(t) = t
    <3>1. CASE t = <<>>
      BY <3>1 DEF Proper
    <3>2. CASE t # <<>>
      <4>1. Len(t) \in 1..Len(t) /\ t[Len(t)] = s[Len(s)]
        BY <3>2, <1>1, EmptySeq
      <4> QED BY <1>4, <4>1 DEF Proper
    <3> QED BY <3>1, <3>2
  <2> QED BY <1>2, <1>4, <2>1, <2>2 DEF t
<1>5. CASE Head(s) # empty_packet /\ s[Len(s)] = empty_packet
  <2>1. Len(s) > 1
    BY <1>1, <1>5
  <2>2. Len(t) \in 1..Len(t) /\ t[Len(t)] = empty_packet /\ t # <<>>
    BY <1>1, <1>5, <2>1
  <2>3. Proper(s) = SubSeq(s, 1, Len(s) - 1) /\ Proper(t) = SubSeq(t, 1, Len(t) - 1)
    BY <1>5, <2>2 DEF Proper
  <2>4. SubSeq(s, 1, Len(s) - 1) = <<s[1]>> \o SubSeq(s, 1 + 1, Len(s) - 1)
    <3>1. 1 \in 1..Len(s) /\ Len(s) - 1 \in 1..Len(s)
      BY <1>1, <2>1
    <3> QED BY <3>1, SubSeqRecursiveFirst
  <2>5. SubSeq(s, 2, Len(s) - 1) = SubSeq(t, 1, Len(t) - 1)
    <3>1. /\ 2 \in Int /\ Len(s) - 1 \in Int /\ \A i \in 2..(Len(s) - 1) : s[i] \in Item
          /\ 1 \in Int /\ Len(t) - 1 \in Int /\ \A i \in 1..(Len(t) - 1) : t[i] \in Item
      BY <1>1
    <3>2. /\ SubSeq(s, 2, Len(s) - 1) \in Seq(Item) /\ SubSeq(t, 1, Len(t) - 1) \in Seq(Item)
          /\ Len(SubSeq(s, 2, Len(s) - 1)) = Len(s) - 2
          /\ \A i \in 1..(Len(s) - 2) : SubSeq(s, 2, Len(s) - 1)[i] = s[2 + i - 1]
      BY <1>1, <2>1, <3>1, SubSeqProperties
    <3>3. /\ Len(SubSeq(t, 1, Len(t) - 1)) = Len(s) - 2
          /\ \A i \in 1..(Len(s) - 2) : SubSeq(t, 1, Len(t) - 1)[i] = t[1 + i - 1]
      BY <1>1, <2>1, <3>1, SubSeqProperties
    <3>4. \A i \in 1..(Len(s) - 2) : s[2 + i - 1] = t[1 + i - 1]
      BY <1>1
    <3>5. \A i \in 1..(Len(s) - 2) : SubSeq(s, 2, Len(s) - 1)[i] = SubSeq(t, 1, Len(t) - 1)[i]
      BY <3>2, <3>3, <3>4
    <3> QED BY <3>2, <3>3, <3>5, SeqEqual
  <2>6. SubSeq(s, 1, Len(s) - 1) = <<s[1]>> \o SubSeq(s, 2, Len(s) - 1)
    BY <2>4
  <2>7. Proper(s) = <<Head(s)>> \o Proper(t)
    BY <1>1, <2>3, <2>5, <2>6
  <2> QED BY <1>5, <2>7 DEF t
<1> QED BY <1>3, <1>4, <1>5

\* What is held of a job: what its writer has, then what is shared.
HeldParts == \A j \in 1..MaxJobs :
  /\ \A w \in Writers : out[w] = j => Held(j) = Own(w) \o Shared(j)
  /\ (\A w \in Writers : out[w] # j) => Held(j) = <<>> \o Shared(j)

LEMMA HeldIs == OneOut => HeldParts
<1> SUFFICES ASSUME OneOut, NEW j \in 1..MaxJobs
             PROVE  /\ \A w \in Writers : out[w] = j => Held(j) = Own(w) \o Shared(j)
                    /\ (\A w \in Writers : out[w] # j) => Held(j) = <<>> \o Shared(j)
  BY DEF HeldParts
<1>1. ASSUME NEW w \in Writers, out[w] = j PROVE Held(j) = Own(w) \o Shared(j)
  <2>1. WritersOf(j) = {w}
    BY <1>1 DEF WritersOf, OneOut
  <2>2. (CHOOSE x \in WritersOf(j) : TRUE) = w
    BY <2>1
  <2> QED BY <2>1, <2>2 DEF Held
<1>2. ASSUME \A w \in Writers : out[w] # j PROVE Held(j) = <<>> \o Shared(j)
  <2>1. WritersOf(j) = {}
    BY <1>2 DEF WritersOf
  <2> QED BY <2>1 DEF Held
<1> QED BY <1>1, <1>2

LEMMA HeldIsNext == OneOut' => HeldParts'
BY HeldIs, PTL

LEMMA OwnTyped ==
  ASSUME MuxerType, NEW w \in Writers
  PROVE  Own(w) \in Seq(Item)
<1>1. private[w] \in Seq(Item) /\ hand[w] \in Item
  BY DEF MuxerType
<1>2. Proper(private[w]) \in Seq(Item)
  BY <1>1, ProperParts
<1>3. <<hand[w]>> \in Seq(Item) /\ <<>> \in Seq(Item)
  BY <1>1
<1> QED BY <1>2, <1>3, ConcatProperties DEF Own

LEMMA SharedTyped ==
  ASSUME MuxerType, NEW j
  PROVE  Shared(j) \in Seq(Item)
<1>1. packet_list # NoPtr => Proper(packet_list) \in Seq(Item)
  BY ProperParts DEF MuxerType
<1> QED BY <1>1 DEF Shared

\* Nothing moves between the places of a job: the writers keep their files and
\* what they have, and the shared list is as it was.
LEMMA HeldSame ==
  ASSUME MuxerType, OneOut, OneOut', UNCHANGED out,
         \A w \in Writers : out[w] # 0 => Own(w)' = Own(w),
         NEW j \in 1..MaxJobs, Shared(j)' = Shared(j)
  PROVE  Held(j)' = Held(j)
<1>1. CASE \E w \in Writers : out[w] = j
  <2>1. PICK w \in Writers : out[w] = j
    BY <1>1
  <2>2. Held(j) = Own(w) \o Shared(j) /\ Held(j)' = Own(w)' \o Shared(j)'
    BY <2>1, HeldIs, HeldIsNext DEF HeldParts
  <2>3. j # 0
    BY ConstantsAssumption
  <2>4. Own(w)' = Own(w)
    BY <2>1, <2>3
  <2> QED BY <2>2, <2>4
<1>2. CASE \A w \in Writers : out[w] # j
  <2>1. Held(j) = <<>> \o Shared(j) /\ Held(j)' = <<>> \o Shared(j)'
    BY <1>2, HeldIs, HeldIsNext DEF HeldParts
  <2> QED BY <2>1
<1> QED BY <1>1, <1>2

\* A step of the muxer that is none of a recording job.
LEMMA Stutters ==
  ASSUME UNCHANGED <<attached, jobs, closedBy, file, failed>>,
         \A j \in 1..MaxJobs : closedBy[j] = "IMMEDIATE" \/ Held(j)' = Held(j)
  PROVE  UNCHANGED Job!vars
<1>1. \A j \in 1..MaxJobs : JobState(j)' = JobState(j)
  BY DEF JobState
<1>2. \A j \in 1..MaxJobs : JobPending(j)' = JobPending(j)
  BY DEF JobPending
<1> QED BY <1>1, <1>2 DEF Job!vars

LEMMA OwnStays ==
  ASSUME NEW w \in Writers, pc'[w] = "write" <=> pc[w] = "write",
         hand'[w] = hand[w], private'[w] = private[w]
  PROVE  Own(w)' = Own(w)
BY DEF Own, Proper

LEMMA SharedStays ==
  ASSUME UNCHANGED <<packet_list, jobs>>, NEW j
  PROVE  Shared(j)' = Shared(j)
BY DEF Shared, Proper

LEMMA ReadsNoList ==
  ASSUME JobInv, NEW w \in Writers, ~(pc[w] = "drain" \/ (pc[w] = "notify" /\ msg[w].id = "NORMAL"))
  PROVE  /\ private[w] = <<>>
         /\ pc[w] # "write" => Own(w) = <<>>
<1>1. private[w] = <<>>
  BY DEF JobInv, PrivateHeld
<1>2. <<>> \in Seq(Item) /\ Proper(<<>>) = <<>>
  BY DEF Proper
<1>3. <<>> \o <<>> = <<>>
  BY <1>2, ConcatEmptySeq
<1> QED BY <1>1, <1>2, <1>3 DEF Own

\* A job that goes on is open.
LEMMA JobOpen ==
  ASSUME ControlInv, StartInv, JobInv, ctl \in {"creating", "running"}
  PROVE  jobs \in 1..MaxJobs /\ closedBy[jobs] = "open" /\ JobState(jobs) = "open"
<1>1. jobs \in 1..MaxJobs
  BY DEF ControlInv, ChargeInv, Begun, MuxerType
<1>2. PICK w \in Writers : Current(w)
  BY DEF JobInv, StillCurrent, Unanswered
<1>3. PICK j \in 1..MaxJobs : j = jobs
  BY <1>1
<1>4. j \in 0..MaxJobs /\ j # 0
  BY <1>3, ConstantsAssumption
<1>5. ASSUME Starting(j) PROVE closedBy[j] = "open"
  BY <1>3, <1>5 DEF JobInv, Future, Unused
<1>6. ASSUME out[w] = j PROVE closedBy[j] = "open"
  <2>1. Reading(w)
    BY <1>3, <1>6 DEF JobInv, BusyReads, Busy
  <2> QED BY <2>1, <1>3, <1>4, <1>6 DEF JobInv, ClosedAs, Reading
<1>7. closedBy[jobs] = "open"
  BY <1>2, <1>3, <1>4, <1>5, <1>6 DEF StartInv, JobStarts
<1>8. ~(jobs > jobs)
  BY <1>1
<1> QED BY <1>1, <1>7, <1>8 DEF JobState

\* The steps of a recording job, but for the acceptance of a packet.
JobMoves ==
  \/ \E j \in 1..MaxJobs : \/ Job!Open(j) \/ Job!Accepting(j) \/ Job!Write(j)
                           \/ Job!Complete(j) \/ Job!Cut(j)
  \/ Job!StopAccepting

LEMMA RefineStay ==
  ASSUME MuxerType, OneOut, OneOut', WritersStay,
         UNCHANGED <<attached, jobs, closedBy, file, failed, out, hand, private>>,
         \A j \in 1..MaxJobs : closedBy[j] = "IMMEDIATE" \/ Shared(j)' = Shared(j)
  PROVE  UNCHANGED Job!vars
<1>1. \A w \in Writers : Own(w)' = Own(w)
  <2> SUFFICES ASSUME NEW w \in Writers PROVE Own(w)' = Own(w)
    OBVIOUS
  <2>1. pc'[w] = "write" <=> pc[w] = "write"
    BY DEF WritersStay, WakeWriter
  <2> QED BY <2>1, OwnStays
<1>2. \A j \in 1..MaxJobs : closedBy[j] = "IMMEDIATE" \/ Held(j)' = Held(j)
  BY <1>1, HeldSame
<1> QED BY <1>2, Stutters

\* The controlling thread: a stutter, except for the steps after these.
LEMMA RefineControl ==
  ASSUME ControlInv, StartInv, StartInv', JobInv,
         \/ StopCheck \/ StopPost \/ StopWake \/ StopWakeNull \/ StopReturn \/ DeleteBegin
         \/ SyncJoin \/ Destroy \/ \E w \in Writers : SyncPick(w)
  PROVE  UNCHANGED Job!vars
<1>0. MuxerType /\ OneOut /\ OneOut'
  BY DEF ControlInv, StartInv
<1>1. CASE \/ StopCheck \/ StopPost \/ StopWakeNull \/ StopReturn \/ DeleteBegin \/ SyncJoin
           \/ \E w \in Writers : SyncPick(w)
  <2>1. UNCHANGED <<attached, jobs, closedBy, file, failed, out, hand, private, packet_list, pc, msg>>
    BY <1>1 DEF StopCheck, StopPost, StopWakeNull, StopReturn, DeleteBegin, SyncJoin, SyncPick,
       muxerVars, writerVars, fileVars
  <2>2. WritersStay
    BY <2>1 DEF WritersStay
  <2> QED BY <1>0, <2>1, <2>2, SharedStays, RefineStay
<1>2. CASE StopWake
  <2>1. /\ UNCHANGED <<attached, jobs, closedBy, file, failed, out, hand, private, msg>>
        /\ WritersStay /\ packet_list' = Append(packet_list, empty_packet) /\ ctl = "waking"
        /\ packet_list \in Seq(Item) /\ packet_list # NoPtr
    BY <1>0, <1>2 DEF StopWake, WithEmptyPacket, fileVars, WritersStay, MuxerType
  <2>2. \A i \in 1..Len(packet_list) : packet_list[i] # empty_packet
    BY <2>1 DEF JobInv, SharedEmpty
  <2>3. Proper(packet_list) = packet_list /\ Proper(packet_list)' = packet_list
    <3>1. Proper(packet_list)' = Proper(Append(packet_list, empty_packet))
      BY <2>1 DEF Proper
    <3> QED BY <3>1, <2>1, <2>2, ProperParts
  <2>4. packet_list' # NoPtr
    <3>1. empty_packet \in Item
      BY DEF Item
    <3>2. packet_list' \in Seq(Item)
      BY <2>1, <3>1, AppendProperties
    <3> QED BY <3>2, ListsTyped
  <2>5. \A j \in 1..MaxJobs : Shared(j)' = Shared(j)
    BY <2>1, <2>3, <2>4 DEF Shared
  <2> QED BY <1>0, <2>1, <2>5, RefineStay
<1>3. CASE Destroy
  <2>1. /\ UNCHANGED <<attached, jobs, closedBy, file, failed, out, hand, private, pc, msg>>
        /\ packet_list' = NoPtr /\ ctl = "syncing" /\ w_tid_list = {}
    BY <1>3 DEF Destroy, AllJoined, writerVars, fileVars
  <2>2. WritersStay
    BY <2>1 DEF WritersStay
  <2>3. ASSUME NEW j \in 1..MaxJobs, closedBy[j] # "IMMEDIATE"
        PROVE  Shared(j)' = Shared(j)
    <3>1. CASE j # jobs \/ packet_list = NoPtr
      BY <3>1, <2>1 DEF Shared
    <3>2. CASE j = jobs /\ packet_list # NoPtr
      <4>1. PICK w \in Writers : out[w] = jobs /\ ~Reading(w) /\ msg[w].id = "IMMEDIATE"
        BY <3>2, <2>1 DEF JobInv, ListLeft, ListCut, Over
      <4>2. pc[w] \in {"free", "detach"}
        BY <2>1 DEF ControlInv, DeleteInv, LiveListed, Listed, Live
      <4>3. j # 0
        BY ConstantsAssumption
      <4>4. closedBy[j] = "IMMEDIATE"
        BY <3>2, <4>1, <4>2, <4>3 DEF JobInv, ClosedAs
      <4> QED BY <2>3, <4>4
    <3> QED BY <3>1, <3>2
  <2> QED BY <1>0, <2>1, <2>2, <2>3, RefineStay
<1> QED BY <1>1, <1>2, <1>3

\* A writer that begins or ends has nothing: what is held stays.
LEMMA HeldOthers ==
  ASSUME OneOut, OneOut', NEW w \in Writers,
         \A v \in Writers \ {w} : out'[v] = out[v] /\ Own(v)' = Own(v),
         NEW j \in 1..MaxJobs, Shared(j)' = Shared(j),
         out[w] = j => Own(w) = <<>>, out'[w] = j => Own(w)' = <<>>
  PROVE  Held(j)' = Held(j)
<1>1. CASE \E v \in Writers \ {w} : out[v] = j
  <2>1. PICK v \in Writers \ {w} : out[v] = j
    BY <1>1
  <2>2. Held(j) = Own(v) \o Shared(j) /\ Held(j)' = Own(v)' \o Shared(j)'
    BY <2>1, HeldIs, HeldIsNext DEF HeldParts
  <2>3. Own(v)' = Own(v)
    BY <2>1
  <2> QED BY <2>2, <2>3
<1>2. CASE \A v \in Writers \ {w} : out[v] # j
  <2>1. Held(j) = <<>> \o Shared(j)
    BY <1>2, HeldIs DEF HeldParts
  <2>2. Held(j)' = <<>> \o Shared(j)'
    <3>1. \A v \in Writers \ {w} : out'[v] # j
      BY <1>2
    <3>2. CASE out'[w] = j
      <4>1. Held(j)' = Own(w)' \o Shared(j)'
        BY <3>2, HeldIsNext DEF HeldParts
      <4> QED BY <3>2, <4>1
    <3>3. CASE out'[w] # j
      <4>1. \A v \in Writers : out'[v] # j
        BY <3>1, <3>3
      <4> QED BY <4>1, HeldIsNext DEF HeldParts
    <3> QED BY <3>2, <3>3
  <2> QED BY <2>1, <2>2
<1> QED BY <1>1, <1>2

LEMMA RefineCreate ==
  ASSUME ControlInv, StartInv, StartInv', JobInv, NEW w \in Writers, StartCreate(w)
  PROVE  UNCHANGED Job!vars
<1>1. /\ UNCHANGED <<attached, jobs, closedBy, file, failed, hand, private, packet_list>>
      /\ pc[w] = "free" /\ out'[w] = 0
      /\ \A v \in Writers \ {w} : pc'[v] = pc[v] /\ out'[v] = out[v]
  BY DEF StartCreate, muxerVars, fileVars, ControlInv, MuxerType
<1>2. \A v \in Writers \ {w} : Own(v)' = Own(v)
  BY <1>1, OwnStays
<1>3. Own(w) = <<>>
  BY <1>1, ReadsNoList
<1>4. ASSUME NEW j \in 1..MaxJobs PROVE Held(j)' = Held(j)
  <2>1. Shared(j)' = Shared(j) /\ j # 0
    BY <1>1, SharedStays, ConstantsAssumption
  <2> QED BY <1>1, <1>2, <1>3, <2>1, HeldOthers DEF StartInv
<1> QED BY <1>1, <1>4, Stutters

LEMMA RefineInit ==
  ASSUME ControlInv, StartInv, StartInv', JobInv, InitUri
  PROVE  JobMoves
<1>1. /\ ctl \in {"none", "stopped"} /\ ctl' = "inited"
      /\ ctl = "stopped" => goal = "restart"
      /\ jobs \in Nat /\ jobs + 1 \in 1..MaxJobs /\ jobs' = jobs + 1
      /\ packet_list' = (IF packet_list = NoPtr THEN <<>> ELSE packet_list)
      /\ UNCHANGED <<attached, closedBy, file, failed, out, hand, private, pc, msg, notified>>
  BY ConstantsAssumption DEF InitUri, ControlInv, MuxerType, writerVars, fileVars
<1>2. PICK k \in 1..MaxJobs : k = jobs + 1
  BY <1>1
<1>3. attached = FALSE /\ attached' = FALSE
  BY <1>1 DEF ControlInv, ChargeInv, AttachedRuns, MuxerType
<1>4. packet_list = NoPtr
  <2>1. Over
    BY <1>1 DEF Over
  <2> QED BY <1>1, <2>1 DEF JobInv, ListLeft, ListCut, RestartExit
<1>5. \A j \in 1..MaxJobs : Shared(j) = <<>> /\ Shared(j)' = <<>>
  BY <1>1, <1>4 DEF Shared, Proper
<1>6. \A j \in 1..MaxJobs : JobPending(j)' = JobPending(j)
  <2>1. \A w \in Writers : Own(w)' = Own(w)
    BY <1>1, OwnStays
  <2>2. \A j \in 1..MaxJobs : Held(j)' = Held(j)
    BY <1>1, <1>5, <2>1, HeldSame DEF ControlInv, StartInv
  <2> QED BY <1>1, <2>2 DEF JobPending
<1>7. closedBy[k] = "open"
  BY <1>1, <1>2 DEF JobInv, Future, Unused
<1>8. \A j \in 1..MaxJobs : JobState(j)' = IF j = k THEN "open" ELSE JobState(j)
  BY <1>1, <1>2, <1>7 DEF JobState
<1>9. JobState(k) = "new"
  BY <1>1, <1>2, <1>7 DEF JobState
<1>10. Job!Open(k)
  BY <1>1, <1>3, <1>6, <1>8, <1>9 DEF Job!Open
<1> QED BY <1>10 DEF JobMoves

LEMMA RefinePublish ==
  ASSUME ControlInv, StartInv, StartInv', JobInv, StartPublish
  PROVE  JobMoves
<1>1. /\ ctl = "creating" /\ attached' = TRUE
      /\ UNCHANGED <<jobs, closedBy, file, failed, out, hand, private, pc, msg, packet_list>>
  BY DEF StartPublish, writerVars, fileVars
<1>2. PICK k \in 1..MaxJobs : k = jobs /\ k # 0 /\ JobState(k) = "open" /\ closedBy[k] = "open"
  BY <1>1, JobOpen, ConstantsAssumption
<1>3. attached = FALSE
  BY <1>1 DEF ControlInv, ChargeInv, AttachedRuns, MuxerType
<1>4. packet_list = <<>> /\ file[k] = <<>>
  BY <1>1, <1>2 DEF JobInv, FreshList
<1>5. Shared(k) = <<>>
  BY <1>4 DEF Shared, Proper
<1>6. Held(k) = <<>>
  <2>0. <<>> \in Seq(Item) /\ <<>> \o <<>> = <<>>
    BY ConcatEmptySeq
  <2>1. CASE \E w \in Writers : out[w] = k
    <3>1. PICK w \in Writers : out[w] = k
      BY <2>1
    <3>2. Reading(w)
      BY <1>1, <1>2, <3>1 DEF JobInv, BusyReads, Busy
    <3>3. pc[w] # "write"
      BY <1>1, <3>2 DEF JobInv, FreshList, Current
    <3>4. Own(w) = <<>>
      BY <3>2, <3>3, ReadsNoList DEF Reading
    <3> QED BY <1>5, <2>0, <3>1, <3>4, HeldIs DEF HeldParts, StartInv
  <2>2. CASE \A w \in Writers : out[w] # k
    BY <1>5, <2>0, <2>2, HeldIs DEF HeldParts, StartInv
  <2> QED BY <2>1, <2>2
<1>7. \A j \in 1..MaxJobs : JobState(j)' = JobState(j) /\ JobPending(j)' = JobPending(j)
  <2>1. \A w \in Writers : Own(w)' = Own(w)
    BY <1>1, OwnStays
  <2>2. \A j \in 1..MaxJobs : Held(j)' = Held(j)
    BY <1>1, <2>1, HeldSame, SharedStays DEF ControlInv, StartInv
  <2> QED BY <1>1, <2>2 DEF JobPending, JobState
<1>8. JobPending(k) = <<>>
  BY <1>2, <1>6 DEF JobPending
<1>9. Job!Accepting(k)
  BY <1>1, <1>2, <1>3, <1>4, <1>7, <1>8 DEF Job!Accepting
<1> QED BY <1>9 DEF JobMoves

LEMMA RefineStop ==
  ASSUME ControlInv, StartInv, StartInv', NEW g \in {"restart", "delete"}, StopRequest(g)
  PROVE  JobMoves
<1>1. /\ ctl = "running" /\ attached' = FALSE
      /\ UNCHANGED <<jobs, closedBy, file, failed, out, hand, private, pc, msg, packet_list>>
  BY DEF StopRequest, writerVars, fileVars
<1>2. attached = TRUE /\ jobs # 0
  BY <1>1 DEF ControlInv, ChargeInv, AttachedRuns, Begun, MuxerType
<1>3. \A j \in 1..MaxJobs : JobState(j)' = JobState(j) /\ JobPending(j)' = JobPending(j)
  <2>1. \A w \in Writers : Own(w)' = Own(w)
    BY <1>1, OwnStays
  <2>2. \A j \in 1..MaxJobs : Held(j)' = Held(j)
    BY <1>1, <2>1, HeldSame, SharedStays DEF ControlInv, StartInv
  <2> QED BY <1>1, <2>2 DEF JobPending, JobState
<1>4. Job!StopAccepting
  BY <1>1, <1>2, <1>3 DEF Job!StopAccepting
<1> QED BY <1>4 DEF JobMoves

\* What RecordingJob!Accept says of the packets of a job, old and new.
AcceptKept(old, new, p) ==
  /\ new \in Seq(Item) /\ new # <<>> /\ new[Len(new)] = p
  /\ \E kept \in 0..(Len(new) - 1) :
       LET next == Len(old) - (Len(new) - 1 - kept) + 1
       IN /\ next \in (kept + 1)..(Len(old) + 1)
          /\ next \in {kept + 1, Len(old) + 1} \/ old[next].kind = "key"
          /\ SubSeq(new, 1, Len(new) - 1) =
               SubSeq(old, 1, kept) \o SubSeq(old, next, Len(old))

\* A packet is accepted behind what is kept: the writer's own packets, and the end
\* of the shared list from a key frame on.
LEMMA AcceptKeeps ==
  ASSUME NEW own \in Seq(Item), NEW l \in Seq(Item), NEW s \in Seq(Item), NEW p \in Item,
         \/ s = l \/ s = <<>>
         \/ \E i \in 1..Len(l) : l[i].kind = "key" /\ s = SubSeq(l, i, Len(l)),
         NEW old, old = own \o l, NEW new, new = own \o Append(s, p)
  PROVE  AcceptKept(old, new, p)
<1>1. /\ Append(s, p) \in Seq(Item) /\ Len(Append(s, p)) = Len(s) + 1
      /\ \A i \in 1..Len(s) : Append(s, p)[i] = s[i]
      /\ Append(s, p)[Len(s) + 1] = p
  BY AppendProperties
<1>2. /\ old \in Seq(Item) /\ Len(old) = Len(own) + Len(l)
      /\ \A i \in 1..Len(old) : old[i] = IF i <= Len(own) THEN own[i] ELSE l[i - Len(own)]
  BY ConcatProperties
<1>3. /\ new \in Seq(Item) /\ Len(new) = Len(own) + Len(s) + 1
      /\ \A i \in 1..Len(new) :
           new[i] = IF i <= Len(own) THEN own[i] ELSE Append(s, p)[i - Len(own)]
  <2>1. /\ own \o Append(s, p) \in Seq(Item)
        /\ Len(own \o Append(s, p)) = Len(own) + Len(Append(s, p))
        /\ \A i \in 1..(Len(own) + Len(Append(s, p))) :
             (own \o Append(s, p))[i] = IF i <= Len(own) THEN own[i] ELSE Append(s, p)[i - Len(own)]
    BY <1>1, ConcatProperties
  <2>2. Len(own) + Len(Append(s, p)) = Len(own) + Len(s) + 1
    BY <1>1
  <2> QED BY <2>1, <2>2
<1>4. Len(own) \in Nat /\ Len(l) \in Nat /\ Len(s) \in Nat
  OBVIOUS
<1>5. new[Len(new)] = p /\ new # <<>>
  <2>1. Len(new) \in 1..Len(new) /\ Len(new) - Len(own) = Len(s) + 1 /\ ~(Len(new) <= Len(own))
    BY <1>3, <1>4
  <2>2. new[Len(new)] = Append(s, p)[Len(s) + 1]
    BY <2>1, <1>3
  <2> QED BY <2>1, <2>2, <1>1, <1>3
<1>6. PICK next \in (Len(own) + 1)..(Len(old) + 1) :
        /\ Len(s) = Len(old) - next + 1
        /\ \A i \in 1..Len(s) : s[i] = old[next + i - 1]
        /\ next \in {Len(own) + 1, Len(old) + 1} \/ old[next].kind = "key"
  <2>1. CASE s = l
    <3>1. \A i \in 1..Len(s) : s[i] = old[Len(own) + 1 + i - 1]
      BY <1>2, <1>4, <2>1
    <3>2. Len(own) + 1 \in (Len(own) + 1)..(Len(old) + 1) /\ Len(s) = Len(old) - (Len(own) + 1) + 1
      BY <1>2, <1>4, <2>1
    <3> QED BY <3>1, <3>2
  <2>2. CASE s = <<>>
    <3>1. Len(old) + 1 \in (Len(own) + 1)..(Len(old) + 1) /\ Len(s) = Len(old) - (Len(old) + 1) + 1
      BY <1>2, <1>4, <2>2
    <3> QED BY <3>1, <2>2
  <2>3. ASSUME NEW i \in 1..Len(l), l[i].kind = "key", s = SubSeq(l, i, Len(l))
        PROVE  \E next \in (Len(own) + 1)..(Len(old) + 1) :
                 /\ Len(s) = Len(old) - next + 1
                 /\ \A k \in 1..Len(s) : s[k] = old[next + k - 1]
                 /\ next \in {Len(own) + 1, Len(old) + 1} \/ old[next].kind = "key"
    <3>1. i \in Int /\ Len(l) \in Int /\ \A k \in i..Len(l) : l[k] \in Item
      OBVIOUS
    <3>2. /\ Len(s) = Len(l) - i + 1
          /\ \A k \in 1..(Len(l) - i + 1) : s[k] = l[i + k - 1]
      BY <2>3, <3>1, SubSeqProperties
    <3>3. /\ Len(own) + i \in (Len(own) + 1)..(Len(old) + 1)
          /\ Len(s) = Len(old) - (Len(own) + i) + 1
      BY <1>2, <1>4, <3>2
    <3>4. old[Len(own) + i] = l[i]
      BY <1>2, <1>4
    <3>5. \A k \in 1..Len(s) : s[k] = old[Len(own) + i + k - 1]
      <4> SUFFICES ASSUME NEW k \in 1..Len(s) PROVE s[k] = old[Len(own) + i + k - 1]
        OBVIOUS
      <4>1. /\ Len(own) + i + k - 1 \in 1..Len(old) /\ ~(Len(own) + i + k - 1 <= Len(own))
            /\ (Len(own) + i + k - 1) - Len(own) = i + k - 1
        BY <1>2, <1>4, <3>2
      <4>2. old[Len(own) + i + k - 1] = l[i + k - 1]
        BY <4>1, <1>2
      <4> QED BY <3>2, <4>2
    <3> QED BY <2>3, <3>3, <3>4, <3>5
  <2> QED BY <2>1, <2>2, <2>3
<1>7. SubSeq(new, 1, Len(new) - 1) = SubSeq(old, 1, Len(own)) \o SubSeq(old, next, Len(old))
  <2> DEFINE a == SubSeq(new, 1, Len(new) - 1)
             b == SubSeq(old, 1, Len(own))
             c == SubSeq(old, next, Len(old))
  <2>0. next \in Int /\ next >= 1 /\ Len(old) \in Int /\ Len(own) <= Len(old)
    BY <1>2, <1>4, <1>6
  <2>1. /\ \A i \in 1..(Len(new) - 1) : new[i] \in Item
        /\ \A i \in 1..Len(own) : old[i] \in Item
        /\ \A i \in next..Len(old) : old[i] \in Item
    BY <1>2, <1>3, <1>4, <2>0
  <2>2. /\ a \in Seq(Item) /\ Len(a) = Len(new) - 1
        /\ \A i \in 1..(Len(new) - 1) : a[i] = new[i]
    BY <2>1, <1>3, <1>4, SubSeqProperties
  <2>3. b = own
    <3>1. /\ b \in Seq(Item) /\ Len(b) = Len(own) /\ \A i \in 1..Len(own) : b[i] = old[i]
      BY <2>1, <1>4, SubSeqProperties
    <3>2. \A i \in 1..Len(own) : b[i] = own[i]
      BY <3>1, <1>2, <1>4
    <3> HIDE DEF b
    <3> QED BY <3>1, <3>2, SeqEqual
  <2>4. c = s
    <3>1. /\ c \in Seq(Item) /\ Len(c) = (IF next <= Len(old) THEN Len(old) - next + 1 ELSE 0)
          /\ \A i \in 1..(Len(old) - next + 1) : c[i] = old[next + i - 1]
      BY <2>0, <2>1, SubSeqProperties
    <3> HIDE DEF c
    <3>2. Len(c) = Len(s)
      BY <3>1, <2>0, <1>2, <1>4, <1>6
    <3>3. \A i \in 1..Len(c) : c[i] = s[i]
      BY <3>1, <3>2, <2>0, <1>4, <1>6
    <3> QED BY <3>1, <3>2, <3>3, SeqEqual
  <2>5. /\ own \o s \in Seq(Item) /\ Len(own \o s) = Len(own) + Len(s)
        /\ \A i \in 1..(Len(own) + Len(s)) :
             (own \o s)[i] = IF i <= Len(own) THEN own[i] ELSE s[i - Len(own)]
    BY ConcatProperties
  <2> HIDE DEF a, b, c
  <2>6. \A i \in 1..Len(a) : a[i] = (own \o s)[i]
    <3> SUFFICES ASSUME NEW i \in 1..Len(a) PROVE a[i] = (own \o s)[i]
      OBVIOUS
    <3>1. i \in 1..Len(new) /\ i \in 1..(Len(new) - 1) /\ i \in 1..(Len(own) + Len(s))
      BY <2>2, <1>3, <1>4
    <3>2. a[i] = IF i <= Len(own) THEN own[i] ELSE Append(s, p)[i - Len(own)]
      BY <3>1, <2>2, <1>3
    <3>3. ~(i <= Len(own)) => i - Len(own) \in 1..Len(s)
      BY <3>1, <1>4
    <3> QED BY <3>1, <3>2, <3>3, <2>5, <1>1
  <2>7. a = own \o s
    <3>1. Len(a) = Len(own \o s)
      BY <2>2, <2>5, <1>3, <1>4
    <3> QED BY <2>2, <2>5, <2>6, <3>1, SeqEqual
  <2> QED BY <2>3, <2>4, <2>7 DEF a, b, c
<1>8. Len(own) \in 0..(Len(new) - 1) /\ next = Len(old) - (Len(new) - 1 - Len(own)) + 1
  BY <1>2, <1>3, <1>4, <1>6
<1> QED BY <1>3, <1>5, <1>6, <1>7, <1>8 DEF AcceptKept

\* What the writer of a job has stays before what is shared of it.
LEMMA HeldOwn ==
  ASSUME MuxerType, OneOut, OneOut', UNCHANGED out,
         \A w \in Writers : out[w] # 0 => Own(w)' = Own(w),
         NEW j \in 1..MaxJobs
  PROVE  \E own \in Seq(Item) : Held(j) = own \o Shared(j) /\ Held(j)' = own \o Shared(j)'
<1>1. CASE \E w \in Writers : out[w] = j
  <2>1. PICK w \in Writers : out[w] = j
    BY <1>1
  <2>2. Held(j) = Own(w) \o Shared(j) /\ Held(j)' = Own(w)' \o Shared(j)'
    BY <2>1, HeldIs, HeldIsNext DEF HeldParts
  <2>3. j # 0
    BY ConstantsAssumption
  <2>4. Own(w)' = Own(w) /\ Own(w) \in Seq(Item)
    BY <2>1, <2>3, OwnTyped
  <2> QED BY <2>2, <2>4
<1>2. CASE \A w \in Writers : out[w] # j
  <2>1. Held(j) = <<>> \o Shared(j) /\ Held(j)' = <<>> \o Shared(j)'
    BY <1>2, HeldIs, HeldIsNext DEF HeldParts
  <2>2. <<>> \in Seq(Item)
    BY ConcatEmptySeq
  <2> QED BY <2>1, <2>2
<1> QED BY <1>1, <1>2

\* What a push does to what is held of the jobs: of the last one the front of the
\* shared list may be lost, and the packet comes last.
PushHolds(kind, own, lost, s, p) ==
  /\ packet_list \in Seq(Item) /\ packet_list = lost \o s
  /\ lost = (IF Overflow THEN Dropped(packet_list) ELSE <<>>)
  /\ s = (IF Overflow THEN DropTo(packet_list) ELSE packet_list)
  /\ p = [n |-> pushed + 1, kind |-> kind, job |-> jobs]
  /\ packet_list' = Append(s, p)
  /\ \A j \in 1..MaxJobs :
       IF j = jobs THEN JobPending(j) = own \o packet_list /\ JobPending(j)' = own \o Append(s, p)
       ELSE JobPending(j)' = JobPending(j)

LEMMA PushHeld ==
  ASSUME ControlInv, StartInv, StartInv', JobInv, JobInv',
         NEW kind \in {"key", "delta", "audio"}, push_packet(kind)
  PROVE  \E own \in Seq(Item), lost \in Seq(Item), s \in Seq(Item), p \in Packet :
           PushHolds(kind, own, lost, s, p)
<1>0. MuxerType /\ OneOut /\ OneOut'
  BY DEF ControlInv, StartInv
<1>2. PICK s \in Seq(Item), p \in Packet :
        /\ packet_list \in Seq(Item)
        /\ s = (IF Overflow THEN DropTo(packet_list) ELSE packet_list)
        /\ p = [n |-> pushed + 1, kind |-> kind, job |-> jobs]
        /\ packet_list' = Append(s, p)
  BY PushAppends
<1>3. /\ attached = TRUE /\ ctl = "running" /\ ctl' = ctl /\ pc' = WakeWriter
      /\ UNCHANGED <<out, closedBy, jobs, private, hand>>
  BY <1>0 DEF push_packet, fileVars, ControlInv, ChargeInv, AttachedRuns, MuxerType
<1>4. PICK k \in 1..MaxJobs : k = jobs /\ k # 0 /\ closedBy[k] = "open"
  BY <1>3, JobOpen, ConstantsAssumption
<1>5. packet_list # NoPtr /\ packet_list' # NoPtr /\ p \in Item /\ packet_list' \in Seq(Item)
  <2>1. p \in Item
    BY DEF Item
  <2>2. packet_list' \in Seq(Item)
    BY <1>2, <2>1, AppendProperties
  <2> QED BY <1>2, <2>1, <2>2, ListsTyped
<1>6. Shared(k) = packet_list /\ Shared(k)' = Append(s, p)
  <2>1. /\ \A i \in 1..Len(packet_list) : packet_list[i] # empty_packet
        /\ \A i \in 1..Len(packet_list') : packet_list'[i] # empty_packet
    BY <1>3, <1>5 DEF JobInv, SharedEmpty
  <2>2. Proper(packet_list) = packet_list /\ Proper(packet_list') = packet_list'
    BY <1>2, <1>5, <2>1, ProperParts
  <2> QED BY <1>2, <1>3, <1>4, <1>5, <2>2 DEF Shared, Proper
<1>7. \A w \in Writers : Own(w)' = Own(w)
  <2> SUFFICES ASSUME NEW w \in Writers PROVE Own(w)' = Own(w)
    OBVIOUS
  <2>1. pc'[w] = "write" <=> pc[w] = "write"
    BY <1>0, <1>3 DEF WakeWriter, MuxerType
  <2> QED BY <1>3, <2>1, OwnStays
<1>8. ASSUME NEW j \in 1..MaxJobs, j # k PROVE JobPending(j)' = JobPending(j)
  <2>1. Shared(j)' = Shared(j)
    BY <1>3, <1>4, <1>8 DEF Shared
  <2>2. Held(j)' = Held(j)
    BY <1>0, <1>3, <1>7, <2>1, HeldSame
  <2> QED BY <1>3, <2>2 DEF JobPending
<1>9. PICK own \in Seq(Item) : JobPending(k) = own \o packet_list
                            /\ JobPending(k)' = own \o Append(s, p)
  <2>1. PICK own \in Seq(Item) : Held(k) = own \o Shared(k) /\ Held(k)' = own \o Shared(k)'
    BY <1>0, <1>3, <1>7, HeldOwn
  <2> QED BY <1>3, <1>4, <1>6, <2>1 DEF JobPending
<1>10. PICK lost \in Seq(Item) : /\ packet_list = lost \o s
                                 /\ lost = IF Overflow THEN Dropped(packet_list) ELSE <<>>
  <2>1. CASE Overflow
    BY <1>2, <2>1, DropSplits
  <2>2. CASE ~Overflow
    <3>1. s = packet_list /\ <<>> \o s = s /\ <<>> \in Seq(Item)
      BY <1>2, <2>2, ConcatEmptySeq
    <3> QED BY <2>2, <3>1
  <2> QED BY <2>1, <2>2
<1>11. PushHolds(kind, own, lost, s, p)
  BY <1>2, <1>4, <1>8, <1>9, <1>10 DEF PushHolds
<1> QED BY <1>11

LEMMA RefinePush ==
  ASSUME ControlInv, StartInv, StartInv', JobInv, JobInv', PushVideo \/ PushAudio
  PROVE  Job!Next
<1>1. PICK kind \in {"key", "delta", "audio"} : push_packet(kind)
  BY DEF PushVideo, PushAudio
<1>2. PICK own \in Seq(Item), lost \in Seq(Item), s \in Seq(Item), p \in Packet :
        PushHolds(kind, own, lost, s, p)
  BY <1>1, PushHeld
<1>3. /\ attached = TRUE /\ ctl = "running"
      /\ UNCHANGED <<attached, closedBy, jobs, file, failed>>
  BY <1>1 DEF push_packet, fileVars, ControlInv, ChargeInv, AttachedRuns, MuxerType
<1>4. PICK k \in 1..MaxJobs : k = jobs /\ k # 0
  BY <1>3, JobOpen, ConstantsAssumption
<1>5. p \in Item
  BY DEF Item
<1>10. PICK old, new : /\ old = JobPending(k) /\ old = own \o packet_list
                       /\ new = JobPending(k)' /\ new = own \o Append(s, p)
  BY <1>2, <1>4 DEF PushHolds
<1>11. \/ s = packet_list \/ s = <<>>
       \/ \E i \in 1..Len(packet_list) : /\ packet_list[i].kind = "key"
                                         /\ s = SubSeq(packet_list, i, Len(packet_list))
  BY <1>2, DropParts DEF PushHolds
<1>12. AcceptKept(old, new, p)
  <2>1. \A l \in Seq(Item) :
          \/ s = l \/ s = <<>>
          \/ \E i \in 1..Len(l) : l[i].kind = "key" /\ s = SubSeq(l, i, Len(l))
        =>
          (old = own \o l => AcceptKept(old, new, p))
    BY <1>5, <1>10, AcceptKeeps
  <2>2. packet_list \in Seq(Item)
    BY <1>2 DEF PushHolds
  <2> QED BY <1>10, <1>11, <2>1, <2>2
<1>13. \A j \in 1..MaxJobs : JobState(j)' = JobState(j)
  BY <1>3 DEF JobState
<1>14. [j \in 1..MaxJobs |-> JobPending(j)']
         = [[j \in 1..MaxJobs |-> JobPending(j)] EXCEPT ![k] = new]
  BY <1>2, <1>4, <1>10 DEF PushHolds
<1>15. /\ (IF attached THEN jobs ELSE 0) = k /\ (IF attached' THEN jobs' ELSE 0) = k
       /\ [j \in 1..MaxJobs |-> JobPending(j)][k] = old
       /\ [j \in 1..MaxJobs |-> JobPending(j)'][k] = new
       /\ [j \in 1..MaxJobs |-> JobState(j)'] = [j \in 1..MaxJobs |-> JobState(j)]
  BY <1>3, <1>4, <1>10, <1>13
<1>16. Job!Accept
  BY <1>3, <1>4, <1>12, <1>14, <1>15 DEF Job!Accept, IsKeyPacket, AcceptKept
<1> QED BY <1>16 DEF Job!Next

\* The front of a sequence that begins with a packet.
LEMMA FrontWritten ==
  ASSUME NEW p \in Item, NEW a \in Seq(Item), NEW b \in Seq(Item)
  PROVE  /\ (<<p>> \o a) \o b # <<>>
         /\ Head((<<p>> \o a) \o b) = p /\ Tail((<<p>> \o a) \o b) = a \o b
<1> DEFINE r == a \o b
           x == <<p>> \o r
<1>1. <<p>> \in Seq(Item) /\ Len(<<p>>) = 1 /\ <<p>>[1] = p /\ r \in Seq(Item)
  BY ConcatProperties
<1>2. x = (<<p>> \o a) \o b
  BY <1>1, ConcatAssociative
<1> HIDE DEF r
<1>3. /\ x \in Seq(Item) /\ Len(x) = 1 + Len(r)
      /\ \A i \in 1..(1 + Len(r)) : x[i] = IF i <= 1 THEN <<p>>[i] ELSE r[i - 1]
  BY <1>1, ConcatProperties
<1> HIDE DEF x
<1>4. Len(r) \in Nat /\ x # <<>> /\ 1 \in 1..(1 + Len(r))
  BY <1>1, <1>3
<1>5. /\ Head(x) = x[1] /\ Tail(x) \in Seq(Item) /\ Len(Tail(x)) = Len(x) - 1
      /\ \A i \in 1..Len(Tail(x)) : Tail(x)[i] = x[i + 1]
  BY <1>3, <1>4, HeadTailProperties
<1>6. Head(x) = p
  BY <1>1, <1>3, <1>4, <1>5
<1>7. Tail(x) = r
  <2>1. Len(Tail(x)) = Len(r)
    BY <1>3, <1>4, <1>5
  <2>2. \A i \in 1..Len(r) : Tail(x)[i] = r[i]
    <3> SUFFICES ASSUME NEW i \in 1..Len(r) PROVE Tail(x)[i] = r[i]
      OBVIOUS
    <3>1. i + 1 \in 1..(1 + Len(r)) /\ ~(i + 1 <= 1) /\ (i + 1) - 1 = i
      BY <1>4
    <3>2. Tail(x)[i] = x[i + 1]
      BY <2>1, <1>5
    <3> QED BY <3>1, <3>2, <1>3
  <2> QED BY <2>1, <2>2, <1>1, <1>5, SeqEqual
<1> QED BY <1>2, <1>3, <1>4, <1>6, <1>7 DEF r

\* What a step of a writer does to what it has of its job.
Keeps(w) == packet_list' = packet_list /\ Own(w)' = Own(w) /\ file' = file
Takes(w) == /\ pc[w] \in {"take", "pop", "woken"} /\ file' = file
            /\ out[w] = jobs /\ jobs \in 1..MaxJobs
            /\ \A j \in 1..MaxJobs : Own(w)' \o Shared(j)' = Own(w) \o Shared(j)
                                     \/ (j # jobs /\ Shared(j)' = Shared(j))
Writes(w, p) == /\ pc[w] \in {"write", "drain"} /\ packet_list' = packet_list
                /\ WriteFree(w, p) /\ p \in Item /\ Own(w)' \in Seq(Item)
                /\ Own(w) = <<p>> \o Own(w)'

LEMMA OwnMoves ==
  ASSUME ControlInv, ControlInv', StartInv, JobInv, NEW w \in Writers,
         WriterCharge(w), WriterMove(w), WriterLists(w)
  PROVE  Keeps(w) \/ Takes(w) \/ \E p \in Item : Writes(w, p)
<1>0. /\ MuxerType /\ private[w] \in Seq(Item) /\ hand[w] \in Item /\ jobs' = jobs
      /\ <<>> \in Seq(Item) /\ Proper(<<>>) = <<>>
  BY DEF ControlInv, MuxerType, WriterCharge, Proper
<1>a. \A s \in Seq(Item) : <<>> \o s = s /\ s \o <<>> = s
  BY ConcatEmptySeq
<1>p. Proper(private[w]) \in Seq(Item)
  BY <1>0, ProperParts
<1>1. CASE /\ packet_list' = packet_list /\ private'[w] = private[w]
           /\ pc'[w] # "write" /\ pc[w] # "write" /\ ~(pc[w] = "drain" /\ pc'[w] = "drain")
  <2>1. Own(w)' = Own(w)
    BY <1>1 DEF Own, Proper
  <2>2. file' = file
    BY <1>1 DEF WriterLists
  <2> QED BY <1>1, <2>1, <2>2 DEF Keeps
<1>2. CASE /\ packet_list' = packet_list /\ private'[w] = private[w] /\ pc[w] = "write"
           /\ pc'[w] # "write"
  <2>1. Own(w) = <<hand[w]>> \o Proper(private[w]) /\ Own(w)' = <<>> \o Proper(private[w])
    BY <1>2 DEF Own, Proper
  <2>2. WriteFree(w, hand[w])
    BY <1>2 DEF WriterLists
  <2>3. Own(w)' = Proper(private[w])
    BY <2>1, <1>a, <1>p
  <2> QED BY <1>0, <1>2, <1>p, <2>1, <2>2, <2>3 DEF Writes
<1>3. CASE /\ pc[w] = "take" /\ packet_list \in Seq(Item)
           /\ packet_list' = NoPtr /\ private'[w] = packet_list
  <2>1. out[w] = jobs /\ jobs \in 1..MaxJobs
    BY <1>3, AnswersLast DEF Answering
  <2>2. private[w] = <<>> /\ Own(w) = <<>>
    BY <1>3, ReadsNoList
  <2>3. pc'[w] # "write"
    BY <1>3 DEF WriterMove
  <2>4. Own(w)' = <<>> \o Proper(packet_list)
    BY <1>3, <2>3 DEF Own, Proper
  <2>5. Proper(packet_list) \in Seq(Item) /\ packet_list # NoPtr
    BY <1>3, ProperParts, ListsTyped
  <2>6. Own(w)' = Proper(packet_list)
    BY <2>4, <2>5, <1>a
  <2>7. \A j \in 1..MaxJobs : Shared(j)' = <<>>
    BY <1>3 DEF Shared
  <2>8. \A j \in 1..MaxJobs : Shared(j) = IF j = jobs THEN Proper(packet_list) ELSE <<>>
    BY <2>5 DEF Shared
  <2>9. \A j \in 1..MaxJobs : j = jobs => Own(w)' \o Shared(j)' = Own(w) \o Shared(j)
    BY <2>2, <2>5, <2>6, <2>7, <2>8, <1>a
  <2>10. file' = file
    BY <1>3 DEF WriterLists
  <2> QED BY <1>3, <2>1, <2>7, <2>8, <2>9, <2>10 DEF Takes
<1>4. CASE /\ pc[w] \in {"pop", "woken"} /\ packet_list \in Seq(Item) /\ packet_list # <<>>
           /\ packet_list' = Tail(packet_list) /\ private'[w] = private[w]
           /\ hand'[w] = Head(packet_list) /\ pc'[w] = AfterPop(Head(packet_list))
  <2>1. out[w] = jobs /\ jobs \in 1..MaxJobs
    <3>1. Current(w) /\ out[w] = jobs
      BY <1>4 DEF JobInv, OpensFirst, Current, Reading
    <3>2. ctl # "none"
      BY <3>1 DEF ControlInv, ChargeInv, NoneCurrent, Quiet
    <3> QED BY <3>1, <3>2 DEF ControlInv, ChargeInv, Begun, MuxerType
  <2>2. private[w] = <<>> /\ Own(w) = <<>>
    BY <1>4, ReadsNoList
  <2>3. packet_list # NoPtr /\ EmptyLast(packet_list)
    BY <1>4, ListsTyped DEF JobInv, SharedEmpty
  <2>4. /\ Tail(packet_list) \in Seq(Item) /\ Tail(packet_list) # NoPtr
        /\ Proper(Tail(packet_list)) \in Seq(Item) /\ Head(packet_list) \in Item
    BY <1>4, HeadTailProperties, ProperParts, ListsTyped
  <2>5. \A j \in 1..MaxJobs :
          /\ Shared(j) = IF j = jobs THEN Proper(packet_list) ELSE <<>>
          /\ Shared(j)' = IF j = jobs THEN Proper(Tail(packet_list)) ELSE <<>>
    BY <1>0, <1>4, <2>3, <2>4 DEF Shared, Proper
  <2>6. Own(w)' \o Proper(Tail(packet_list)) = Own(w) \o Proper(packet_list)
    <3>1. CASE Head(packet_list) = empty_packet
      <4>1. pc'[w] = "check"
        BY <1>4, <3>1 DEF AfterPop
      <4>2. Own(w)' = <<>>
        BY <1>0, <1>4, <1>a, <2>2, <4>1 DEF Own, Proper
      <4>3. Proper(packet_list) = <<>> /\ Proper(Tail(packet_list)) = <<>>
        BY <1>4, <2>3, <3>1, ProperTail
      <4> QED BY <2>2, <4>2, <4>3
    <3>2. CASE Head(packet_list) # empty_packet
      <4>1. pc'[w] = "write"
        BY <1>4, <3>2 DEF AfterPop
      <4>2. Own(w)' = <<Head(packet_list)>> \o Proper(<<>>)
        BY <1>4, <2>2, <4>1 DEF Own, Proper
      <4>3. <<Head(packet_list)>> \in Seq(Item)
        BY <2>4
      <4>4. Own(w)' = <<Head(packet_list)>>
        BY <1>0, <1>a, <4>2, <4>3
      <4>5. Proper(packet_list) = <<Head(packet_list)>> \o Proper(Tail(packet_list))
        BY <1>4, <2>3, <3>2, ProperTail
      <4>6. Proper(packet_list) \in Seq(Item)
        BY <1>4, ProperParts
      <4> QED BY <1>a, <2>2, <4>4, <4>5, <4>6
    <3> QED BY <3>1, <3>2
  <2>7. \A j \in 1..MaxJobs : j = jobs => Own(w)' \o Shared(j)' = Own(w) \o Shared(j)
    BY <2>5, <2>6
  <2>8. file' = file
    BY <1>4 DEF WriterLists
  <2> QED BY <1>4, <2>1, <2>5, <2>7, <2>8 DEF Takes
<1>5. CASE /\ pc[w] = "drain" /\ pc'[w] = "drain" /\ private[w] # <<>>
           /\ packet_list' = packet_list /\ private'[w] = Tail(private[w])
  <2>1. EmptyLast(private[w]) /\ Head(private[w]) \in Item /\ Tail(private[w]) \in Seq(Item)
    BY <1>0, <1>5, HeadTailProperties DEF JobInv, PrivateEmpty
  <2>2. Proper(Tail(private[w])) \in Seq(Item)
    BY <2>1, ProperParts
  <2>3. Own(w) = <<>> \o Proper(private[w]) /\ Own(w)' = <<>> \o Proper(Tail(private[w]))
    BY <1>5 DEF Own, Proper
  <2>4. Own(w) = Proper(private[w]) /\ Own(w)' = Proper(Tail(private[w]))
    BY <1>a, <1>p, <2>2, <2>3
  <2>5. CASE Head(private[w]) = empty_packet
    <3>1. Proper(private[w]) = <<>> /\ Proper(Tail(private[w])) = <<>>
      BY <1>0, <1>5, <2>1, <2>5, ProperTail
    <3>2. file' = file
      BY <1>5, <2>5 DEF WriterLists
    <3> QED BY <1>5, <2>4, <3>1, <3>2 DEF Keeps
  <2>6. CASE Head(private[w]) # empty_packet
    <3>1. Proper(private[w]) = <<Head(private[w])>> \o Proper(Tail(private[w]))
      BY <1>0, <1>5, <2>1, <2>6, ProperTail
    <3>2. WriteFree(w, Head(private[w]))
      BY <1>5, <2>6 DEF WriterLists
    <3> QED BY <1>5, <2>1, <2>2, <2>4, <3>1, <3>2 DEF Writes
  <2> QED BY <2>5, <2>6
<1>6. pc[w] = "write" => pc'[w] # "write"
  BY DEF WriterMove
<1> QED BY <1>1, <1>2, <1>3, <1>4, <1>5, <1>6 DEF WriterLists

LEMMA RefineWriter ==
  ASSUME ControlInv, ControlInv', StartInv, StartInv', JobInv, ~failed, ~failed',
         NEW w \in Writers, Writer(w)
  PROVE  JobMoves \/ UNCHANGED Job!vars
<1>1. WriterFiles(w) /\ WriterCharge(w) /\ WriterMove(w) /\ WriterLists(w)
  BY WriterFilesStep, WriterChargeStep, WriterMoveStep DEF ControlInv
<1>2. /\ attached' = attached /\ jobs' = jobs /\ failed' = failed
      /\ OneOut /\ OneOut' /\ MuxerType
      /\ \A v \in Writers : out[v] \in 0..MaxJobs
  <2>1. failed \in BOOLEAN /\ failed' \in BOOLEAN
    BY DEF ControlInv, MuxerType
  <2> QED BY <1>1, <2>1 DEF WriterCharge, StartInv, ControlInv, MuxerType
<1>3. \A v \in Writers \ {w} : out'[v] = out[v] /\ Own(v)' = Own(v)
  BY <1>1, OwnStays DEF WriterFiles, WriterLists
<1>4. pc[w] # "init" => out' = out
  BY <1>1 DEF WriterFiles, ControlInv, MuxerType
<1>5. Keeps(w) \/ Takes(w) \/ \E p \in Item : Writes(w, p)
  BY <1>1, OwnMoves
\* what is held of the other jobs
<1>6. ASSUME packet_list' = packet_list, NEW j \in 1..MaxJobs, out[w] # j, out'[w] # j
      PROVE  Held(j)' = Held(j)
  <2>1. Shared(j)' = Shared(j)
    BY <1>2, <1>6, SharedStays
  <2> QED BY <1>2, <1>3, <1>6, <2>1, HeldOthers
<1>7. CASE pc[w] = "init"
  <2>1. /\ packet_list' = packet_list /\ file' = file /\ closedBy' = closedBy
        /\ pc'[w] = "pop" /\ private'[w] = private[w]
    BY <1>1, <1>7 DEF WriterLists, WriterMove
  <2>2. private[w] = <<>> /\ Own(w) = <<>>
    BY <1>7, ReadsNoList
  <2>3. Own(w)' = <<>>
    <3>1. Own(w)' = <<>> \o Proper(<<>>) /\ Proper(<<>>) = <<>>
      BY <2>1, <2>2 DEF Own, Proper
    <3> QED BY <3>1, ConcatEmptySeq
  <2>4. \A j \in 1..MaxJobs : Held(j)' = Held(j)
    BY <1>2, <1>3, <2>1, <2>2, <2>3, SharedStays, HeldOthers
  <2> QED BY <1>2, <2>1, <2>4, Stutters
<1>8. CASE pc[w] # "init" /\ Takes(w)
  <2>0. closedBy' = closedBy /\ file' = file
    BY <1>1, <1>8 DEF Takes, WriterLists
  <2>1. PICK k \in 1..MaxJobs : k = jobs /\ out[w] = k /\ out'[w] = k
    BY <1>4, <1>8 DEF Takes
  <2>2. Held(k)' = Held(k)
    <3>1. Held(k) = Own(w) \o Shared(k) /\ Held(k)' = Own(w)' \o Shared(k)'
      BY <1>2, <2>1, HeldIs, HeldIsNext DEF HeldParts
    <3> QED BY <1>8, <2>1, <3>1 DEF Takes
  <2>3. ASSUME NEW j \in 1..MaxJobs, j # k PROVE Held(j)' = Held(j)
    <3>1. Shared(j)' = Shared(j)
      BY <1>2, <2>1, <2>3 DEF Shared
    <3> QED BY <1>2, <1>3, <2>1, <2>3, <3>1, HeldOthers
  <2> QED BY <1>2, <2>0, <2>2, <2>3, Stutters
<1>9. CASE pc[w] # "init" /\ \E p \in Item : Writes(w, p)
  <2>1. PICK p \in Item : Writes(w, p)
    BY <1>9
  <2>2. /\ packet_list' = packet_list /\ closedBy' = closedBy /\ out' = out
        /\ pc[w] \in {"write", "drain"} /\ WriteFree(w, p)
        /\ Own(w)' \in Seq(Item) /\ Own(w) = <<p>> \o Own(w)'
    BY <1>1, <1>4, <1>9, <2>1 DEF Writes, WriterLists
  <2>3. CASE out[w] = 0
    <3>1. file' = file
      BY <2>2, <2>3 DEF WriteFree
    <3>2. \A j \in 1..MaxJobs : Held(j)' = Held(j)
      BY <1>6, <2>2, <2>3, ConstantsAssumption
    <3> QED BY <1>2, <2>2, <3>1, <3>2, Stutters
  <2>4. CASE out[w] # 0
    <3>1. PICK k \in 1..MaxJobs : k = out[w]
      BY <1>2, <2>4
    <3>2. closedBy[k] = "open"
      BY <2>2, <2>4, <3>1 DEF JobInv, ClosedAs
    <3>3. file' = [file EXCEPT ![k] = Append(@, p)] /\ failed' = failed
      BY <2>2, <2>4, <3>1 DEF WriteFree
    <3>4. Held(k) = Own(w) \o Shared(k) /\ Held(k)' = Own(w)' \o Shared(k)
      <4>1. Held(k) = Own(w) \o Shared(k) /\ Held(k)' = Own(w)' \o Shared(k)'
        BY <1>2, <2>2, <3>1, HeldIs, HeldIsNext DEF HeldParts
      <4> QED BY <1>2, <2>2, <4>1, SharedStays
    <3>5. PICK a, b : a = Own(w)' /\ b = Shared(k)
      OBVIOUS
    <3>6. a \in Seq(Item) /\ b \in Seq(Item)
      BY <1>2, <2>2, <3>5, SharedTyped
    <3>7. Held(k) = (<<p>> \o a) \o b /\ Held(k)' = a \o b
      BY <2>2, <3>4, <3>5
    <3>8. /\ Held(k) # <<>> /\ Head(Held(k)) = p
          /\ Held(k)' = Tail(Held(k))
      <4> DEFINE x == (<<p>> \o a) \o b
      <4>1. x # <<>> /\ Head(x) = p /\ Tail(x) = a \o b
        BY <3>6, FrontWritten
      <4> HIDE DEF x
      <4>2. Held(k) = x
        BY <3>7 DEF x
      <4> QED BY <3>7, <4>1, <4>2
    <3>9. ASSUME NEW j \in 1..MaxJobs, j # k PROVE Held(j)' = Held(j)
      BY <1>6, <2>2, <3>1, <3>9
    <3>10. /\ JobPending(k) # <<>> /\ Head(JobPending(k)) = p
           /\ JobPending(k)' = Tail(JobPending(k))
           /\ \A j \in 1..MaxJobs : j # k => JobPending(j)' = JobPending(j)
      BY <2>2, <3>2, <3>8, <3>9 DEF JobPending
    <3>11. \A j \in 1..MaxJobs : JobState(j)' = JobState(j)
      BY <1>2, <2>2 DEF JobState
    <3>12. Job!Write(k)
      BY <1>2, <3>3, <3>10, <3>11 DEF Job!Write
    <3> QED BY <3>12 DEF JobMoves
  <2> QED BY <2>3, <2>4
<1>10. CASE pc[w] # "init" /\ Keeps(w)
  <2>1. packet_list' = packet_list /\ Own(w)' = Own(w) /\ file' = file /\ out' = out
    BY <1>4, <1>10 DEF Keeps
  <2>2. \A j \in 1..MaxJobs : Held(j)' = Held(j)
    <3>1. \A v \in Writers : Own(v)' = Own(v)
      BY <1>3, <2>1
    <3>2. \A j \in 1..MaxJobs : Shared(j)' = Shared(j)
      BY <1>2, <2>1, SharedStays
    <3> QED BY <1>2, <2>1, <3>1, <3>2, HeldSame
  <2>3. CASE closedBy' = closedBy
    BY <1>2, <2>1, <2>2, <2>3, Stutters
  <2>4. \A j \in 1..MaxJobs : j <= jobs =>
          /\ closedBy'[j] = "IMMEDIATE" => JobState(j)' = "cut" /\ JobPending(j)' = <<>>
          /\ closedBy'[j] \in {"NORMAL", "FLUSH"} =>
               JobState(j)' = "complete" /\ JobPending(j)' = Held(j)'
    BY <1>2 DEF JobState, JobPending, ControlInv, MuxerType
  <2>5. CASE closedBy' # closedBy
    <3>1. /\ pc[w] = "tailer" /\ out[w] # 0
          /\ closedBy' = [closedBy EXCEPT ![out[w]] = msg[w].id]
      BY <1>1, <2>5 DEF WriterLists
    <3>2. PICK k \in 1..MaxJobs : k = out[w]
      BY <1>2, <3>1
    <3>3. /\ closedBy \in [1..MaxJobs -> Exits \cup {"open", "START", "none"}] /\ closedBy[k] = "open"
          /\ msg[w].id \in Exits /\ ~Reading(w)
      BY <1>2, <3>1, <3>2 DEF JobInv, ClosedAs, ExitRead, Reading, MuxerType
    <3>4. k <= jobs /\ jobs \in Nat
      BY <3>2 DEF StartInv, OutBegun, ControlInv, MuxerType
    <3>5. ~(attached /\ jobs = k)
      BY <3>2, <3>3 DEF JobInv, BusyReads, Busy, ControlInv, ChargeInv, AttachedRuns
    <3>6. closedBy'[k] = msg[w].id /\ \A j \in 1..MaxJobs : j # k => closedBy'[j] = closedBy[j]
      BY <3>1, <3>2, <3>3
    <3>7. JobState(k) = "open" /\ JobPending(k) = Held(k)
      BY <3>3, <3>4 DEF JobState, JobPending
    <3>8. \A j \in 1..MaxJobs : j # k =>
            JobState(j)' = JobState(j) /\ JobPending(j)' = JobPending(j)
      BY <1>2, <2>2, <3>6 DEF JobState, JobPending
    <3>9. (IF attached THEN jobs ELSE 0) # k
      BY <3>2, <3>1, <3>5
    <3>10. CASE msg[w].id = "IMMEDIATE"
      <4>0. closedBy'[k] = "IMMEDIATE" /\ "IMMEDIATE" \notin {"NORMAL", "FLUSH"}
        BY <3>6, <3>10
      <4>1. JobState(k)' = "cut" /\ JobPending(k)' = <<>>
        BY <2>4, <3>4, <4>0
      <4>2. Job!Cut(k)
        BY <1>2, <2>1, <3>7, <3>8, <3>9, <4>1 DEF Job!Cut
      <4> QED BY <4>2 DEF JobMoves
    <3>11. CASE msg[w].id # "IMMEDIATE"
      <4>0. closedBy'[k] \in {"NORMAL", "FLUSH"} /\ closedBy'[k] # "IMMEDIATE"
        BY <3>3, <3>6, <3>11 DEF Exits
      <4>1. JobState(k)' = "complete" /\ JobPending(k)' = Held(k)
        BY <2>2, <2>4, <3>4, <4>0
      <4>2. Own(w) = <<>>
        BY <3>1, ReadsNoList
      <4>3. Shared(k) = <<>>
        <5>1. k = jobs => packet_list = NoPtr
          BY <3>1, <3>2, <3>3, <3>11 DEF JobInv, ListTaken
        <5> QED BY <5>1 DEF Shared
      <4>4. Held(k) = <<>>
        <5>1. Held(k) = Own(w) \o Shared(k)
          BY <1>2, <3>2, HeldIs DEF HeldParts
        <5> QED BY <4>2, <4>3, <5>1, ConcatEmptySeq
      <4>5. Job!Complete(k)
        BY <1>2, <2>1, <3>7, <3>8, <3>9, <4>1, <4>4 DEF Job!Complete
      <4> QED BY <4>5 DEF JobMoves
    <3> QED BY <3>10, <3>11
  <2> QED BY <2>3, <2>5
<1> QED BY <1>5, <1>7, <1>8, <1>9, <1>10

LEMMA InitRefines == Init => Job!Init
<1> SUFFICES ASSUME Init PROVE Job!Init
  OBVIOUS
<1>1. /\ jobs = 0 /\ packet_list = NoPtr /\ attached = FALSE /\ failed = FALSE
      /\ \A w \in Writers : pc[w] = "free" /\ out[w] = 0 /\ private[w] = <<>>
      /\ file = [j \in 1..MaxJobs |-> <<>>]
      /\ \A j \in 1..MaxJobs : closedBy[j] = "open"
  BY DEF Init
<1>2. \A j \in 1..MaxJobs : j # 0 /\ j > jobs
  BY <1>1, ConstantsAssumption
<1>3. \A j \in 1..MaxJobs : JobState(j) = "new"
  BY <1>1, <1>2 DEF JobState
<1>4. ASSUME NEW j \in 1..MaxJobs PROVE JobPending(j) = <<>>
  <2>1. Shared(j) = <<>>
    BY <1>1 DEF Shared
  <2>2. WritersOf(j) = {}
    BY <1>1, <1>2 DEF WritersOf
  <2>3. Held(j) = <<>> \o <<>>
    BY <2>1, <2>2 DEF Held
  <2> QED BY <1>1, <2>3, ConcatEmptySeq DEF JobPending
<1> QED BY <1>1, <1>3, <1>4 DEF Job!Init

\* Every step but a push.
LEMMA RefineMoves ==
  ASSUME MuxerInv, MuxerInv', [Next]_vars, ~failed', ~(PushVideo \/ PushAudio)
  PROVE  JobMoves \/ UNCHANGED Job!vars
<1>1. ControlInv /\ ControlInv' /\ StartInv /\ StartInv' /\ JobInv /\ JobInv' /\ ~failed
  BY FailedStays DEF MuxerInv, JobSafe
<1>2. CASE InitUri
  BY <1>1, <1>2, RefineInit
<1>3. CASE StartPublish
  BY <1>1, <1>3, RefinePublish
<1>4. ASSUME NEW w \in Writers, StartCreate(w) PROVE JobMoves \/ UNCHANGED Job!vars
  BY <1>1, <1>4, RefineCreate
<1>5. CASE Control
  <2>1. \/ StopCheck \/ StopPost \/ StopWake \/ StopWakeNull \/ StopReturn \/ DeleteBegin
        \/ SyncJoin \/ Destroy \/ (\E w \in Writers : SyncPick(w))
        \/ InitUri \/ StartPublish \/ \E w \in Writers : StartCreate(w)
    BY <1>5 DEF Control
  <2> QED BY <1>1, <1>2, <1>3, <1>4, <2>1, RefineControl
<1>6. ASSUME NEW g \in {"restart", "delete"}, StopRequest(g) PROVE JobMoves
  BY <1>1, <1>6, RefineStop
<1>7. ASSUME NEW w \in Writers, Writer(w) PROVE JobMoves \/ UNCHANGED Job!vars
  BY <1>1, <1>7, RefineWriter
<1>8. CASE UNCHANGED vars
  <2>1. UNCHANGED <<attached, jobs, closedBy, file, failed, out, hand, private, packet_list, pc, msg>>
    BY <1>8 DEF vars, muxerVars, ctlVars, writerVars, fileVars
  <2>2. WritersStay
    BY <2>1 DEF WritersStay
  <2> QED BY <1>1, <2>1, <2>2, SharedStays, RefineStay DEF ControlInv, StartInv
<1> QED BY <1>5, <1>6, <1>7, <1>8 DEF Next, Done

LEMMA RefineNext == MuxerInv /\ MuxerInv' /\ [Next]_vars => [Job!Next]_(Job!vars)
<1> SUFFICES ASSUME MuxerInv, MuxerInv', [Next]_vars
             PROVE  Job!Next \/ UNCHANGED Job!vars
  OBVIOUS
<1>1. CASE failed'
  BY <1>1 DEF Job!Next
<1>2. CASE ~failed' /\ (PushVideo \/ PushAudio)
  BY <1>2, FailedStays, RefinePush DEF MuxerInv, JobSafe
<1>3. CASE ~failed' /\ ~(PushVideo \/ PushAudio)
  BY <1>3, RefineMoves DEF JobMoves, Job!Next
<1> QED BY <1>1, <1>2, <1>3

\* CameraMuxer implements RecordingJob: as long as no writer fails, the packets
\* pushed during a job reach the file of that job and no other, in order and
\* once, except for runs up to a key frame that an overflow dropped and for what
\* an IMMEDIATE exit leaves out; a file closed by NORMAL or FLUSH has them all.
THEOREM JobRefinement == Spec => ImplementsJob
<1>1. Spec => []MuxerInv
  BY InitMuxer, NextMuxer, PTL DEF Spec
<1>2. Spec => Job!Init /\ [][Job!Next]_(Job!vars)
  BY <1>1, InitRefines, RefineNext, PTL DEF Spec
<1> QED BY <1>2 DEF ImplementsJob, Job!Spec

-----------------------------------------------------------------------------
(* What the files hold, as long as no writer has failed.                   *)

\* The packets of a job that are written or still held.
Whole(j) == file[j] \o JobPending(j)
\* s has packets of P in their order, and none that is left out comes before
\* one of them.
FrontOf(s, P) ==
  /\ InPushOrder(s) /\ PacketsOf(s) \subseteq P
  /\ \A p \in P \ PacketsOf(s) : \A q \in PacketsOf(s) : q.n < p.n

Numbered ==
  /\ accepted \in [1..MaxJobs -> Seq(Item)]
  /\ \A j \in 1..MaxJobs : \A p \in PacketsOf(accepted[j]) :
       p \in Packet /\ p.job = j /\ p.n <= pushed
  /\ \A p \in dropped : p \in Packet /\ p.n <= pushed
AllThere == \A j \in 1..MaxJobs :
  /\ FrontOf(Whole(j), Kept(j))
  /\ closedBy[j] # "IMMEDIATE" => PacketsOf(Whole(j)) = Kept(j)
ClosedEmpty == \A j \in 1..MaxJobs :
  closedBy[j] # "open" => closedBy[j] \in Exits /\ JobPending(j) = <<>>
FilesInv == Numbered /\ AllThere /\ ClosedEmpty

LEMMA ItemNumber == \A p \in Item : p.n \in Nat
BY ConstantsAssumption DEF Item, Packet, empty_packet

LEMMA PacketsConcat ==
  ASSUME NEW s \in Seq(Item), NEW t \in Seq(Item)
  PROVE  /\ PacketsOf(s) \subseteq Item
         /\ PacketsOf(s \o t) = PacketsOf(s) \cup PacketsOf(t)
<1>1. /\ Len(s) \in Nat /\ DOMAIN s = 1..Len(s) /\ Len(t) \in Nat /\ DOMAIN t = 1..Len(t)
  BY LenProperties
<1>2. /\ DOMAIN (s \o t) = 1..(Len(s) + Len(t))
      /\ \A i \in 1..Len(s) : (s \o t)[i] = s[i]
      /\ \A i \in 1..Len(t) : (s \o t)[Len(s) + i] = t[i]
  BY <1>1, ConcatProperties, LenProperties
<1>3. \A i \in 1..(Len(s) + Len(t)) :
        i \in 1..Len(s) \/ \E k \in 1..Len(t) : i = Len(s) + k
  <2> SUFFICES ASSUME NEW i \in 1..(Len(s) + Len(t)), i \notin 1..Len(s)
               PROVE  \E k \in 1..Len(t) : i = Len(s) + k
    OBVIOUS
  <2>1. i - Len(s) \in 1..Len(t) /\ i = Len(s) + (i - Len(s))
    BY <1>1
  <2> QED BY <2>1
<1>4. /\ \A i \in 1..Len(s) : i \in 1..(Len(s) + Len(t))
      /\ \A i \in 1..Len(t) : Len(s) + i \in 1..(Len(s) + Len(t))
  BY <1>1
<1>5. PacketsOf(s \o t) = PacketsOf(s) \cup PacketsOf(t)
  <2> DEFINE x == s \o t
  <2>1. DOMAIN x = 1..(Len(s) + Len(t))
    BY <1>2
  <2> HIDE DEF x
  <2>2. \A i \in 1..Len(s) : x[i] = s[i]
    BY <1>2 DEF x
  <2>3. \A i \in 1..Len(t) : x[Len(s) + i] = t[i]
    BY <1>2 DEF x
  <2>4. ASSUME NEW q \in PacketsOf(x) PROVE q \in PacketsOf(s) \cup PacketsOf(t)
    <3>1. PICK i \in 1..(Len(s) + Len(t)) : q = x[i]
      BY <2>1 DEF PacketsOf
    <3>2. CASE i \in 1..Len(s)
      BY <1>1, <2>2, <3>1, <3>2 DEF PacketsOf
    <3>3. CASE \E k \in 1..Len(t) : i = Len(s) + k
      BY <1>1, <2>3, <3>1, <3>3 DEF PacketsOf
    <3> QED BY <1>3, <3>2, <3>3
  <2>5. ASSUME NEW q \in PacketsOf(s) PROVE q \in PacketsOf(x)
    BY <1>1, <1>4, <2>1, <2>2 DEF PacketsOf
  <2>6. ASSUME NEW q \in PacketsOf(t) PROVE q \in PacketsOf(x)
    BY <1>1, <1>4, <2>1, <2>3 DEF PacketsOf
  <2>7. PacketsOf(x) = PacketsOf(s) \cup PacketsOf(t)
    BY <2>4, <2>5, <2>6
  <2> QED BY <2>7 DEF x
<1>6. PacketsOf(s) \subseteq Item
  BY <1>1 DEF PacketsOf
<1> QED BY <1>5, <1>6

LEMMA PacketsOfOne ==
  /\ PacketsOf(<<>>) = {} /\ InPushOrder(<<>>)
  /\ \A p \in Item : PacketsOf(<<p>>) = {p} /\ InPushOrder(<<p>>)
<1>1. PacketsOf(<<>>) = {} /\ InPushOrder(<<>>)
  BY DEF PacketsOf, InPushOrder
<1>2. ASSUME NEW p \in Item PROVE PacketsOf(<<p>>) = {p} /\ InPushOrder(<<p>>)
  <2>1. DOMAIN <<p>> = {1} /\ <<p>>[1] = p
    OBVIOUS
  <2> QED BY <2>1 DEF PacketsOf, InPushOrder
<1> QED BY <1>1, <1>2

\* Two lists one after the other.
LEMMA OrderConcat ==
  ASSUME NEW s \in Seq(Item), NEW t \in Seq(Item)
  PROVE  InPushOrder(s \o t) <=>
           /\ InPushOrder(s) /\ InPushOrder(t)
           /\ \A p \in PacketsOf(s), q \in PacketsOf(t) : p.n < q.n
<1> DEFINE x == s \o t
           m == Len(s)
           l == Len(t)
<1>1. m \in Nat /\ DOMAIN s = 1..m /\ l \in Nat /\ DOMAIN t = 1..l
  BY LenProperties
<1>2. DOMAIN x = 1..(m + l)
  BY <1>1, ConcatProperties, LenProperties
<1>3. \A i \in 1..m : x[i] = s[i]
  BY <1>1, ConcatProperties
<1>4. \A i \in 1..l : x[m + i] = t[i]
  BY <1>1, ConcatProperties
<1> HIDE DEF x, m, l
<1>5. \A i \in 1..(m + l) : i \in 1..m \/ (i - m \in 1..l /\ i = m + (i - m) /\ i > m)
  BY <1>1
<1>6. ASSUME InPushOrder(x)
      PROVE  /\ InPushOrder(s) /\ InPushOrder(t)
             /\ \A p \in PacketsOf(s), q \in PacketsOf(t) : p.n < q.n
  <2>1. ASSUME NEW i \in 1..m, NEW k \in 1..m, i < k PROVE s[i].n < s[k].n
    <3>1. i \in DOMAIN x /\ k \in DOMAIN x
      BY <1>1, <1>2
    <3> QED BY <1>3, <1>6, <2>1, <3>1 DEF InPushOrder
  <2>2. ASSUME NEW i \in 1..l, NEW k \in 1..l, i < k PROVE t[i].n < t[k].n
    <3>1. m + i \in DOMAIN x /\ m + k \in DOMAIN x /\ m + i < m + k
      BY <1>1, <1>2, <2>2
    <3>2. x[m + i].n < x[m + k].n
      BY <1>6, <3>1 DEF InPushOrder
    <3> QED BY <1>4, <3>2
  <2>3. ASSUME NEW i \in 1..m, NEW k \in 1..l PROVE s[i].n < t[k].n
    <3>1. i \in DOMAIN x /\ m + k \in DOMAIN x /\ i < m + k
      BY <1>1, <1>2
    <3>2. x[i].n < x[m + k].n
      BY <1>6, <3>1 DEF InPushOrder
    <3> QED BY <1>3, <1>4, <3>2
  <2> QED BY <1>1, <2>1, <2>2, <2>3 DEF InPushOrder, PacketsOf
<1>7. ASSUME InPushOrder(s), InPushOrder(t),
             \A p \in PacketsOf(s), q \in PacketsOf(t) : p.n < q.n
      PROVE  InPushOrder(x)
  <2> SUFFICES ASSUME NEW i \in 1..(m + l), NEW k \in 1..(m + l), i < k PROVE x[i].n < x[k].n
    BY <1>2 DEF InPushOrder
  <2>1. CASE i \in 1..m /\ k \in 1..m
    BY <1>1, <1>3, <1>7, <2>1 DEF InPushOrder
  <2>2. CASE i \in 1..m /\ k \notin 1..m
    <3>1. k - m \in 1..l /\ x[k] = t[k - m]
      BY <1>4, <1>5, <2>2
    <3>2. x[i] \in PacketsOf(s) /\ x[k] \in PacketsOf(t)
      BY <1>1, <1>3, <2>2, <3>1 DEF PacketsOf
    <3> QED BY <1>7, <3>2
  <2>3. CASE i \notin 1..m
    <3>1. k - m \in 1..l /\ x[k] = t[k - m] /\ i - m \in 1..l /\ x[i] = t[i - m]
      BY <1>1, <1>4, <1>5, <2>3
    <3>2. i - m < k - m
      BY <1>1
    <3> QED BY <1>1, <1>7, <3>1, <3>2 DEF InPushOrder
  <2> QED BY <2>1, <2>2, <2>3
<1> QED BY <1>6, <1>7 DEF x

\* A piece is cut out of a list and a packet is put behind the rest.
CutOut(x, y, b, p) ==
  /\ y \in Seq(Item) /\ InPushOrder(y) /\ PacketsOf(b) \subseteq PacketsOf(x)
  /\ PacketsOf(y) = (PacketsOf(x) \ PacketsOf(b)) \cup {p}

LEMMA CutsOut ==
  ASSUME NEW a \in Seq(Item), NEW b \in Seq(Item), NEW c \in Seq(Item), NEW p \in Item,
         InPushOrder(a \o (b \o c)), \A q \in PacketsOf(a \o (b \o c)) : q.n < p.n
  PROVE  /\ CutOut(a \o (b \o c), a \o Append(c, p), b, p)
         /\ PacketsOf(a \o (b \o c)) = PacketsOf(a) \cup PacketsOf(b) \cup PacketsOf(c)
         /\ \A q \in PacketsOf(a), r \in PacketsOf(b) : q.n < r.n
         /\ \A q \in PacketsOf(b), r \in PacketsOf(c) : q.n < r.n
<1>1. /\ b \o c \in Seq(Item) /\ Append(c, p) = c \o <<p>> /\ <<p>> \in Seq(Item)
      /\ Append(c, p) \in Seq(Item) /\ a \o Append(c, p) \in Seq(Item)
  BY AppendProperties, AppendIsConcat, ConcatProperties
<1>2. PacketsOf(<<p>>) = {p} /\ InPushOrder(<<p>>)
  BY PacketsOfOne
<1>3. /\ PacketsOf(a) \subseteq Item /\ PacketsOf(b) \subseteq Item /\ PacketsOf(c) \subseteq Item
      /\ PacketsOf(b \o c) = PacketsOf(b) \cup PacketsOf(c)
      /\ PacketsOf(a \o (b \o c)) = PacketsOf(a) \cup PacketsOf(b \o c)
      /\ PacketsOf(Append(c, p)) = PacketsOf(c) \cup {p}
      /\ PacketsOf(a \o Append(c, p)) = PacketsOf(a) \cup PacketsOf(Append(c, p))
  BY <1>1, <1>2, PacketsConcat
<1>4. /\ InPushOrder(a) /\ InPushOrder(b \o c)
      /\ \A q \in PacketsOf(a), r \in PacketsOf(b \o c) : q.n < r.n
  BY <1>1, OrderConcat
<1>5. /\ InPushOrder(b) /\ InPushOrder(c)
      /\ \A q \in PacketsOf(b), r \in PacketsOf(c) : q.n < r.n
  BY <1>4, OrderConcat
<1>6. InPushOrder(Append(c, p))
  BY <1>1, <1>2, <1>3, <1>5, OrderConcat
<1>7. InPushOrder(a \o Append(c, p))
  BY <1>1, <1>3, <1>4, <1>6, OrderConcat
<1>8. \A q \in PacketsOf(b) : q \notin PacketsOf(a) /\ q \notin PacketsOf(c)
  <2> SUFFICES ASSUME NEW q \in PacketsOf(b)
               PROVE  q \notin PacketsOf(a) /\ q \notin PacketsOf(c)
    OBVIOUS
  <2>1. q \in PacketsOf(b \o c) /\ q \in Item
    BY <1>3
  <2>2. q.n \in Nat
    BY <2>1, ItemNumber
  <2>3. ~(q.n < q.n)
    BY <2>2
  <2> QED BY <1>4, <1>5, <2>1, <2>3
<1> QED BY <1>1, <1>3, <1>4, <1>5, <1>7, <1>8 DEF CutOut

LEMMA HeldTyped ==
  ASSUME MuxerType, OneOut
  PROVE  \A j \in 1..MaxJobs : /\ JobPending(j) \in Seq(Item) /\ file[j] \in Seq(Item)
                               /\ Whole(j) \in Seq(Item)
<1> SUFFICES ASSUME NEW j \in 1..MaxJobs
             PROVE  JobPending(j) \in Seq(Item) /\ file[j] \in Seq(Item) /\ Whole(j) \in Seq(Item)
  OBVIOUS
<1>1. <<>> \in Seq(Item) /\ Shared(j) \in Seq(Item) /\ file[j] \in Seq(Item)
  <2>1. file[j] \in Seq(Item)
    BY DEF MuxerType
  <2> QED BY <2>1, SharedTyped
<1>2. Held(j) \in Seq(Item)
  <2>1. CASE \E w \in Writers : out[w] = j
    <3>1. PICK w \in Writers : out[w] = j
      BY <2>1
    <3>2. Held(j) = Own(w) \o Shared(j) /\ Own(w) \in Seq(Item)
      BY <3>1, HeldIs, OwnTyped DEF HeldParts
    <3> QED BY <1>1, <3>2, ConcatProperties
  <2>2. CASE \A w \in Writers : out[w] # j
    <3>1. Held(j) = <<>> \o Shared(j)
      BY <2>2, HeldIs DEF HeldParts
    <3> QED BY <1>1, <3>1, ConcatProperties
  <2> QED BY <2>1, <2>2
<1>3. JobPending(j) \in Seq(Item)
  BY <1>1, <1>2 DEF JobPending
<1> QED BY <1>1, <1>3, ConcatProperties DEF Whole

\* What any step but a push does to a job.
Moved(j) ==
  \/ /\ JobState(j)' = "cut" /\ JobState(j) # "cut"
     /\ JobPending(j)' = <<>> /\ file'[j] = file[j]
  \/ /\ JobState(j)' = "cut" <=> JobState(j) = "cut"
     /\ JobState(j)' = "complete" => JobState(j) = "complete" \/ JobPending(j) = <<>>
     /\ JobPending(j) = <<>> => JobPending(j)' = <<>>
     /\ Whole(j)' = Whole(j)

\* A packet that is written goes from the front of one list to the end of the other.
LEMMA WriteKeeps ==
  ASSUME NEW f \in Seq(Item), NEW s \in Seq(Item), s # <<>>
  PROVE  Append(f, Head(s)) \o Tail(s) = f \o s
<1>1. /\ Head(s) \in Item /\ Tail(s) \in Seq(Item) /\ <<Head(s)>> \in Seq(Item)
      /\ s = <<Head(s)>> \o Tail(s)
  BY HeadFirst
<1>2. PICK h \in Item, r \in Seq(Item) : h = Head(s) /\ r = Tail(s)
  BY <1>1
<1>3. Append(f, h) = f \o <<h>> /\ <<h>> \in Seq(Item)
  BY AppendIsConcat
<1>4. (f \o <<h>>) \o r = f \o (<<h>> \o r)
  BY <1>3, ConcatAssociative
<1> QED BY <1>1, <1>2, <1>3, <1>4

LEMMA MovesJobs ==
  ASSUME MuxerType, OneOut, JobMoves \/ UNCHANGED Job!vars, NEW j \in 1..MaxJobs
  PROVE  Moved(j)
<1>0. JobPending(j) \in Seq(Item) /\ file \in [1..MaxJobs -> Seq(Item)] /\ file[j] \in Seq(Item)
  BY HeldTyped DEF MuxerType
<1>1. CASE JobState(j)' = JobState(j) /\ JobPending(j)' = JobPending(j) /\ file' = file
  BY <1>1 DEF Moved, Whole
<1>2. CASE UNCHANGED Job!vars
  <2>1. /\ [i \in 1..MaxJobs |-> JobState(i)]' = [i \in 1..MaxJobs |-> JobState(i)]
        /\ [i \in 1..MaxJobs |-> JobPending(i)]' = [i \in 1..MaxJobs |-> JobPending(i)]
        /\ file' = file
    BY <1>2 DEF Job!vars
  <2>2. JobState(j)' = JobState(j) /\ JobPending(j)' = JobPending(j)
    BY <2>1
  <2> QED BY <1>1, <2>1, <2>2
<1>3. CASE Job!StopAccepting \/ \E i \in 1..MaxJobs : Job!Accepting(i)
  <2>1. /\ [i \in 1..MaxJobs |-> JobState(i)]' = [i \in 1..MaxJobs |-> JobState(i)]
        /\ [i \in 1..MaxJobs |-> JobPending(i)]' = [i \in 1..MaxJobs |-> JobPending(i)]
        /\ file' = file
    BY <1>3 DEF Job!StopAccepting, Job!Accepting
  <2>2. JobState(j)' = JobState(j) /\ JobPending(j)' = JobPending(j)
    BY <2>1
  <2> QED BY <1>1, <2>1, <2>2
<1>4. ASSUME NEW i \in 1..MaxJobs, Job!Open(i) PROVE Moved(j)
  <2>1. /\ [x \in 1..MaxJobs |-> JobState(x)]'
             = [[x \in 1..MaxJobs |-> JobState(x)] EXCEPT ![i] = "open"]
        /\ [x \in 1..MaxJobs |-> JobPending(x)]' = [x \in 1..MaxJobs |-> JobPending(x)]
        /\ file' = file /\ [x \in 1..MaxJobs |-> JobState(x)][i] = "new"
    BY <1>4 DEF Job!Open
  <2>2. /\ JobState(j)' = (IF i = j THEN "open" ELSE JobState(j))
        /\ JobPending(j)' = JobPending(j)
        /\ i = j => JobState(j) = "new"
    BY <2>1
  <2> QED BY <2>1, <2>2 DEF Moved, Whole
<1>5. ASSUME NEW i \in 1..MaxJobs, Job!Write(i) PROVE Moved(j)
  <2>1. /\ [x \in 1..MaxJobs |-> JobState(x)]' = [x \in 1..MaxJobs |-> JobState(x)]
        /\ [x \in 1..MaxJobs |-> JobPending(x)]'
             = [[x \in 1..MaxJobs |-> JobPending(x)] EXCEPT ![i] = Tail(@)]
        /\ [x \in 1..MaxJobs |-> JobPending(x)][i] # <<>>
        /\ file' = [file EXCEPT ![i] = Append(@, Head([x \in 1..MaxJobs |-> JobPending(x)][i]))]
    BY <1>5 DEF Job!Write
  <2>2. JobState(j)' = JobState(j)
    BY <2>1
  <2>3. /\ JobPending(j)' = (IF i = j THEN Tail(JobPending(j)) ELSE JobPending(j))
        /\ file'[j] = (IF i = j THEN Append(file[j], Head(JobPending(j))) ELSE file[j])
        /\ i = j => JobPending(j) # <<>>
    BY <1>0, <2>1
  <2>4. Whole(j)' = Whole(j)
    <3>1. CASE i = j
      BY <1>0, <2>3, <3>1, WriteKeeps DEF Whole
    <3>2. CASE i # j
      BY <2>3, <3>2 DEF Whole
    <3> QED BY <3>1, <3>2
  <2> QED BY <2>2, <2>3, <2>4 DEF Moved
<1>6. ASSUME NEW i \in 1..MaxJobs, Job!Complete(i) PROVE Moved(j)
  <2>1. /\ [x \in 1..MaxJobs |-> JobState(x)]'
             = [[x \in 1..MaxJobs |-> JobState(x)] EXCEPT ![i] = "complete"]
        /\ [x \in 1..MaxJobs |-> JobPending(x)]' = [x \in 1..MaxJobs |-> JobPending(x)]
        /\ file' = file /\ [x \in 1..MaxJobs |-> JobState(x)][i] = "open"
        /\ [x \in 1..MaxJobs |-> JobPending(x)][i] = <<>>
    BY <1>6 DEF Job!Complete
  <2>2. /\ JobState(j)' = (IF i = j THEN "complete" ELSE JobState(j))
        /\ JobPending(j)' = JobPending(j)
        /\ i = j => JobState(j) = "open" /\ JobPending(j) = <<>>
    BY <2>1
  <2> QED BY <2>1, <2>2 DEF Moved, Whole
<1>7. ASSUME NEW i \in 1..MaxJobs, Job!Cut(i) PROVE Moved(j)
  <2>1. /\ [x \in 1..MaxJobs |-> JobState(x)]'
             = [[x \in 1..MaxJobs |-> JobState(x)] EXCEPT ![i] = "cut"]
        /\ [x \in 1..MaxJobs |-> JobPending(x)]'
             = [[x \in 1..MaxJobs |-> JobPending(x)] EXCEPT ![i] = <<>>]
        /\ file' = file /\ [x \in 1..MaxJobs |-> JobState(x)][i] = "open"
    BY <1>7 DEF Job!Cut
  <2>2. /\ JobState(j)' = (IF i = j THEN "cut" ELSE JobState(j))
        /\ JobPending(j)' = (IF i = j THEN <<>> ELSE JobPending(j))
        /\ i = j => JobState(j) = "open"
    BY <2>1
  <2> QED BY <2>1, <2>2 DEF Moved, Whole
<1> QED BY <1>2, <1>3, <1>4, <1>5, <1>6, <1>7 DEF JobMoves

\* A part of a list in order is one from its front.
LEMMA FrontCut ==
  ASSUME NEW f \in Seq(Item), NEW s \in Seq(Item), NEW P, FrontOf(f \o s, P)
  PROVE  FrontOf(f, P)
<1>1. /\ InPushOrder(f) /\ \A q \in PacketsOf(f), p \in PacketsOf(s) : q.n < p.n
      /\ PacketsOf(f \o s) = PacketsOf(f) \cup PacketsOf(s)
  BY OrderConcat, PacketsConcat DEF FrontOf
<1>2. ASSUME NEW p \in P \ PacketsOf(f), NEW q \in PacketsOf(f) PROVE q.n < p.n
  <2>1. CASE p \in PacketsOf(s)
    BY <1>1, <1>2, <2>1
  <2>2. CASE p \notin PacketsOf(s)
    BY <1>1, <1>2, <2>2 DEF FrontOf
  <2> QED BY <2>1, <2>2
<1> QED BY <1>1, <1>2 DEF FrontOf

\* What the states of a job stand for.
JobStates == \A j \in 1..MaxJobs :
  /\ JobState(j) = "cut" <=> closedBy[j] = "IMMEDIATE"
  /\ JobState(j) = "complete" <=> closedBy[j] \in {"NORMAL", "FLUSH"}
LEMMA JobStatesAre == JobStates
<1> SUFFICES ASSUME NEW j \in 1..MaxJobs
             PROVE  /\ JobState(j) = "cut" <=> closedBy[j] = "IMMEDIATE"
                    /\ JobState(j) = "complete" <=> closedBy[j] \in {"NORMAL", "FLUSH"}
  BY DEF JobStates
<1> DEFINE x == closedBy[j]
<1>1. CASE x \in {"NORMAL", "FLUSH"}
  <2>1. JobState(j) = "complete"
    BY <1>1 DEF JobState
  <2>2. x # "IMMEDIATE"
    BY <1>1
  <2> QED BY <1>1, <2>1, <2>2
<1>2. CASE x = "IMMEDIATE"
  <2>1. x \notin {"NORMAL", "FLUSH"}
    BY <1>2
  <2>2. JobState(j) = "cut"
    BY <1>2, <2>1 DEF JobState
  <2> QED BY <1>2, <2>1, <2>2
<1>3. CASE x \notin {"NORMAL", "FLUSH"} /\ x # "IMMEDIATE"
  <2>1. JobState(j) \in {"new", "open"}
    BY <1>3 DEF JobState
  <2> QED BY <1>3, <2>1
<1> QED BY <1>1, <1>2, <1>3

LEMMA JobStatesAreNext == JobStates'
BY JobStatesAre, PTL

LEMMA CloserExits ==
  ASSUME MuxerInv, [Next]_vars, ~failed', ~(PushVideo \/ PushAudio)
  PROVE  \/ closedBy' = closedBy
         \/ \E k \in 1..MaxJobs, x \in Exits : closedBy' = [closedBy EXCEPT ![k] = x]
<1>0. ControlInv /\ JobInv /\ ~failed /\ MuxerType
  BY FailedStays DEF MuxerInv, JobSafe, ControlInv
<1>1. ASSUME NEW w \in Writers, Writer(w)
      PROVE  \/ closedBy' = closedBy
             \/ \E k \in 1..MaxJobs, x \in Exits : closedBy' = [closedBy EXCEPT ![k] = x]
  <2>1. WriterLists(w)
    BY <1>0, <1>1, WriterMoveStep
  <2>2. CASE pc[w] = "tailer" /\ out[w] # 0
    <3>1. msg[w].id \in Exits /\ out[w] \in 1..MaxJobs
      BY <1>0, <2>2, ConstantsAssumption DEF JobInv, ExitRead, MuxerType
    <3>2. closedBy' = [closedBy EXCEPT ![out[w]] = msg[w].id]
      BY <2>1, <2>2 DEF WriterLists
    <3> QED BY <3>1, <3>2
  <2>3. CASE ~(pc[w] = "tailer" /\ out[w] # 0)
    BY <2>1, <2>3 DEF WriterLists
  <2> QED BY <2>2, <2>3
<1>2. CASE ~\E w \in Writers : Writer(w)
  BY <1>2 DEF Next, Control, InitUri, StartCreate, StartPublish, StopRequest, StopCheck, StopPost,
     StopWake, StopWakeNull, StopReturn, DeleteBegin, SyncPick, SyncJoin, Destroy, Done, vars,
     fileVars
<1> QED BY <1>1, <1>2

LEMMA StayData ==
  ASSUME [Next]_vars, ~(PushVideo \/ PushAudio)
  PROVE  accepted' = accepted /\ dropped' = dropped /\ pushed' = pushed
BY DEF Next, Control, InitUri, StartCreate, StartPublish, StopRequest, StopCheck, StopPost,
   StopWake, StopWakeNull, StopReturn, DeleteBegin, SyncPick, SyncJoin, Destroy, Writer, Check,
   GetMessage, MuxerInit, MuxerInitFails, TakeList, Notify, Block, Pop, Write, Drain, WriteFree,
   Drained, Tailer, NotifyFlushed, End, Detach, Done, vars, dataVars

LEMMA StayFiles ==
  ASSUME MuxerInv, MuxerInv', [Next]_vars, ~failed', ~(PushVideo \/ PushAudio), FilesInv
  PROVE  FilesInv'
<1>0. /\ ControlInv /\ StartInv /\ MuxerType /\ OneOut
  BY DEF MuxerInv, ControlInv, StartInv
<1>1. accepted' = accepted /\ dropped' = dropped /\ pushed' = pushed
  BY StayData
<1>2. \A j \in 1..MaxJobs : Moved(j)
  BY <1>0, RefineMoves, MovesJobs
<1>3. Numbered'
  BY <1>1 DEF FilesInv, Numbered, PacketsOf
<1>4. \A j \in 1..MaxJobs : Kept(j)' = Kept(j)
  BY <1>1 DEF Kept, PacketsOf
<1>5. JobStates /\ JobStates'
  BY JobStatesAre, JobStatesAreNext
<1>6. \A j \in 1..MaxJobs : closedBy'[j] = closedBy[j] \/ closedBy'[j] \in Exits
  <2>1. closedBy \in [1..MaxJobs -> Exits \cup {"open", "START", "none"}]
    BY <1>0 DEF MuxerType
  <2> QED BY <2>1, CloserExits
<1>7. ClosedEmpty'
  <2> SUFFICES ASSUME NEW j \in 1..MaxJobs, closedBy'[j] # "open"
               PROVE  closedBy'[j] \in Exits /\ JobPending(j)' = <<>>
    BY DEF ClosedEmpty
  <2>1. closedBy'[j] \in Exits
    BY <1>6 DEF FilesInv, ClosedEmpty
  <2>2. JobState(j)' \in {"cut", "complete"}
    BY <1>5, <2>1 DEF JobStates, Exits
  <2>3. JobState(j) \in {"cut", "complete"} => JobPending(j) = <<>>
    BY <1>5 DEF JobStates, FilesInv, ClosedEmpty
  <2>4. JobPending(j)' = <<>>
    BY <1>2, <2>2, <2>3 DEF Moved
  <2> QED BY <2>1, <2>4
<1>8. AllThere'
  <2> SUFFICES ASSUME NEW j \in 1..MaxJobs
               PROVE  /\ FrontOf(Whole(j)', Kept(j)')
                      /\ closedBy'[j] # "IMMEDIATE" => PacketsOf(Whole(j)') = Kept(j)'
    BY DEF AllThere, FrontOf, InPushOrder, PacketsOf
  <2>1. FrontOf(Whole(j), Kept(j)) /\ (closedBy[j] # "IMMEDIATE" => PacketsOf(Whole(j)) = Kept(j))
    BY DEF FilesInv, AllThere
  <2>2. CASE Whole(j)' = Whole(j) /\ (JobState(j)' = "cut" <=> JobState(j) = "cut")
    BY <1>4, <1>5, <2>1, <2>2 DEF JobStates
  <2>3. CASE JobState(j)' = "cut" /\ JobPending(j)' = <<>> /\ file'[j] = file[j]
    <3>1. JobPending(j) \in Seq(Item) /\ file[j] \in Seq(Item)
      BY <1>0, HeldTyped
    <3>2. Whole(j)' = file[j]
      <4>1. Whole(j)' = file[j] \o <<>>
        BY <2>3 DEF Whole
      <4> QED BY <3>1, <4>1, ConcatEmptySeq
    <3>3. FrontOf(file[j], Kept(j))
      BY <2>1, <3>1, FrontCut DEF Whole
    <3>4. closedBy'[j] = "IMMEDIATE"
      BY <1>5, <2>3 DEF JobStates
    <3> QED BY <1>4, <3>2, <3>3, <3>4
  <2> QED BY <1>2, <2>2, <2>3 DEF Moved
<1> QED BY <1>3, <1>7, <1>8 DEF FilesInv

\* A push: the front of the shared list may be lost and the packet comes last.
PushWhole(kind, k, a, lost, s, p) ==
  /\ k = jobs /\ UNCHANGED <<jobs, closedBy>> /\ closedBy[k] = "open"
  /\ packet_list \in Seq(Item) /\ packet_list = lost \o s /\ packet_list' = Append(s, p)
  /\ lost = (IF Overflow THEN Dropped(packet_list) ELSE <<>>)
  /\ s = (IF Overflow THEN DropTo(packet_list) ELSE packet_list)
  /\ p = [n |-> pushed + 1, kind |-> kind, job |-> k] /\ pushed' = pushed + 1
  /\ accepted' = [accepted EXCEPT ![k] = Append(@, p)]
  /\ dropped' = dropped \cup PacketsOf(lost)
  /\ Whole(k) = a \o (lost \o s) /\ Whole(k)' = a \o Append(s, p)
  /\ \A j \in 1..MaxJobs \ {k} : JobPending(j)' = JobPending(j) /\ Whole(j)' = Whole(j)

LEMMA PushesWhole ==
  ASSUME MuxerInv, MuxerInv', ~failed',
         NEW kind \in {"key", "delta", "audio"}, push_packet(kind)
  PROVE  \E k \in 1..MaxJobs, a \in Seq(Item), lost \in Seq(Item), s \in Seq(Item), p \in Packet :
           PushWhole(kind, k, a, lost, s, p)
<1>1. /\ ControlInv /\ StartInv /\ StartInv' /\ JobInv /\ JobInv' /\ MuxerType /\ OneOut
  BY DEF MuxerInv, JobSafe, push_packet, fileVars, ControlInv, StartInv
<1>2. PICK own \in Seq(Item), lost \in Seq(Item), s \in Seq(Item), p \in Packet :
        PushHolds(kind, own, lost, s, p)
  BY <1>1, PushHeld
<1>3. /\ attached = TRUE /\ ctl = "running" /\ UNCHANGED <<jobs, closedBy, file>>
  BY <1>1 DEF push_packet, fileVars, ControlInv, ChargeInv, AttachedRuns, MuxerType
<1>4. PICK k \in 1..MaxJobs : k = jobs /\ closedBy[k] = "open"
  BY <1>1, <1>3, JobOpen
<1>5. /\ pushed' = pushed + 1 /\ accepted' = [accepted EXCEPT ![k] = Append(@, p)]
      /\ dropped' = dropped \cup PacketsOf(lost)
  BY <1>2, <1>4 DEF push_packet, PushHolds, PacketsOf
<1>6. PICK f \in Seq(Item) : f = file[k] /\ f = file'[k]
  BY <1>1, <1>3, HeldTyped
<1>7. /\ JobPending(k) = own \o (lost \o s) /\ JobPending(k)' = own \o Append(s, p)
      /\ \A j \in 1..MaxJobs \ {k} : JobPending(j)' = JobPending(j)
  BY <1>2, <1>4 DEF PushHolds
<1>8. /\ lost \o s \in Seq(Item) /\ Append(s, p) \in Seq(Item)
  <2>1. p \in Item
    BY DEF Item
  <2> QED BY <2>1, AppendProperties, ConcatProperties
<1>9. PICK a \in Seq(Item) : a = f \o own
  BY ConcatProperties
<1>10. /\ f \o (own \o (lost \o s)) = a \o (lost \o s)
       /\ f \o (own \o Append(s, p)) = a \o Append(s, p)
  <2>1. ASSUME NEW x \in Seq(Item) PROVE f \o (own \o x) = a \o x
    <3>1. f \o (own \o x) = (f \o own) \o x
      BY ConcatAssociative
    <3> QED BY <1>9, <3>1
  <2> QED BY <1>8, <2>1
<1>11. Whole(k) = a \o (lost \o s) /\ Whole(k)' = a \o Append(s, p)
  BY <1>6, <1>7, <1>10 DEF Whole
<1>12. \A j \in 1..MaxJobs \ {k} : Whole(j)' = Whole(j)
  BY <1>3, <1>7 DEF Whole
<1>13. PushWhole(kind, k, a, lost, s, p)
  BY <1>2, <1>3, <1>4, <1>5, <1>7, <1>11, <1>12 DEF PushWhole, PushHolds
<1> QED BY <1>13

\* What is to be written after a push.
PushKept(k, a, lost, s, p) ==
  /\ CutOut(Whole(k), Whole(k)', lost, p)
  /\ PacketsOf(Whole(k)) = PacketsOf(a) \cup PacketsOf(lost) \cup PacketsOf(s)
  /\ \A q \in PacketsOf(a), r \in PacketsOf(lost) : q.n < r.n
  /\ \A q \in PacketsOf(lost), r \in PacketsOf(s) : q.n < r.n
  /\ PacketsOf(Whole(k)) = Kept(k)
  /\ \A q \in PacketsOf(accepted[k]) : q.n < p.n
  /\ PacketsOf(accepted[k])' = PacketsOf(accepted[k]) \cup {p}
  /\ Kept(k)' = (Kept(k) \ PacketsOf(lost)) \cup {p}
  /\ \A j \in 1..MaxJobs \ {k} : accepted'[j] = accepted[j] /\ Kept(j)' = Kept(j)

LEMMA PushesKept ==
  ASSUME MuxerInv, FilesInv, NEW kind \in {"key", "delta", "audio"},
         NEW k \in 1..MaxJobs, NEW a \in Seq(Item), NEW lost \in Seq(Item), NEW s \in Seq(Item),
         NEW p \in Packet, PushWhole(kind, k, a, lost, s, p)
  PROVE  PushKept(k, a, lost, s, p)
<1>1. /\ MuxerType /\ pushed \in Nat /\ p \in Item /\ p.n = pushed + 1 /\ p.job = k
  BY DEF MuxerInv, ControlInv, MuxerType, PushWhole, Item
<1>2. /\ FrontOf(Whole(k), Kept(k)) /\ PacketsOf(Whole(k)) = Kept(k)
  BY DEF FilesInv, AllThere, PushWhole
<1>3. \A q \in PacketsOf(accepted[k]) : q \in Packet /\ q.n < p.n
  <2>1. \A q \in Packet : q.n \in Nat
    BY ItemNumber DEF Item
  <2> QED BY <1>1, <2>1 DEF FilesInv, Numbered
<1>4. /\ InPushOrder(a \o (lost \o s)) /\ \A q \in PacketsOf(a \o (lost \o s)) : q.n < p.n
  BY <1>2, <1>3 DEF FrontOf, Kept, PushWhole
<1>5. /\ CutOut(a \o (lost \o s), a \o Append(s, p), lost, p)
      /\ PacketsOf(a \o (lost \o s)) = PacketsOf(a) \cup PacketsOf(lost) \cup PacketsOf(s)
      /\ \A q \in PacketsOf(a), r \in PacketsOf(lost) : q.n < r.n
      /\ \A q \in PacketsOf(lost), r \in PacketsOf(s) : q.n < r.n
  BY <1>1, <1>4, CutsOut
<1>6. CutOut(Whole(k), Whole(k)', lost, p)
  BY <1>5 DEF PushWhole
<1>7. \A j \in 1..MaxJobs \ {k} : accepted'[j] = accepted[j]
  BY DEF PushWhole, FilesInv, Numbered
<1>8. PacketsOf(accepted[k])' = PacketsOf(accepted[k]) \cup {p}
  <2>0. accepted \in [1..MaxJobs -> Seq(Item)] /\ accepted' = [accepted EXCEPT ![k] = Append(@, p)]
    BY DEF PushWhole, FilesInv, Numbered
  <2>1. accepted[k] \in Seq(Item) /\ <<p>> \in Seq(Item)
    <3>1. accepted[k] \in Seq(Item)
      BY <2>0
    <3>2. <<p>> \in Seq(Item)
      BY <1>1
    <3> QED BY <3>1, <3>2
  <2>7. accepted'[k] = Append(accepted[k], p)
    BY <2>0
  <2>2. accepted'[k] = accepted[k] \o <<p>>
    BY <1>1, <2>1, <2>7, AppendIsConcat
  <2>3. PacketsOf(accepted[k] \o <<p>>) = PacketsOf(accepted[k]) \cup PacketsOf(<<p>>)
    BY <2>1, PacketsConcat
  <2>4. PacketsOf(<<p>>) = {p}
    BY <1>1, PacketsOfOne
  <2>5. PacketsOf(accepted[k])' = PacketsOf(accepted[k] \o <<p>>)
    BY <2>2 DEF PacketsOf
  <2> QED BY <2>3, <2>4, <2>5
<1>9. p \notin dropped /\ p \notin PacketsOf(lost)
  <2>1. ~(p.n <= pushed) /\ ~(p.n < p.n)
    BY <1>1
  <2>2. PacketsOf(lost) \subseteq PacketsOf(a \o (lost \o s))
    BY <1>5
  <2> QED BY <1>4, <2>1, <2>2 DEF FilesInv, Numbered
<1>10. Kept(k)' = (Kept(k) \ PacketsOf(lost)) \cup {p}
  <2>1. Kept(k)' = PacketsOf(accepted[k])' \ (dropped \cup PacketsOf(lost))
    BY DEF Kept, PushWhole
  <2> QED BY <1>8, <1>9, <2>1 DEF Kept
<1>11. ASSUME NEW j \in 1..MaxJobs \ {k} PROVE Kept(j)' = Kept(j)
  <2>1. PacketsOf(accepted[j])' = PacketsOf(accepted[j])
    BY <1>7 DEF PacketsOf
  <2>2. \A q \in PacketsOf(accepted[j]) : q.job = j
    BY DEF FilesInv, Numbered
  <2>3. \A q \in PacketsOf(lost) : q.job = k
    BY <1>2, <1>5 DEF FilesInv, Numbered, Kept, PushWhole
  <2>4. \A q \in PacketsOf(accepted[j]) : q \notin PacketsOf(lost)
    BY <2>2, <2>3
  <2>5. Kept(j)' = PacketsOf(accepted[j])' \ (dropped \cup PacketsOf(lost))
    BY DEF Kept, PushWhole
  <2> QED BY <2>1, <2>4, <2>5 DEF Kept
<1>12. PacketsOf(Whole(k)) = PacketsOf(a) \cup PacketsOf(lost) \cup PacketsOf(s)
  BY <1>5 DEF PushWhole
<1> QED BY <1>2, <1>3, <1>5, <1>6, <1>7, <1>8, <1>10, <1>11, <1>12 DEF PushKept

LEMMA PushFiles ==
  ASSUME MuxerInv, MuxerInv', ~failed', PushVideo \/ PushAudio, FilesInv
  PROVE  FilesInv'
<1>1. PICK kind \in {"key", "delta", "audio"} : push_packet(kind)
  BY DEF PushVideo, PushAudio
<1>2. PICK k \in 1..MaxJobs, a \in Seq(Item), lost \in Seq(Item), s \in Seq(Item), p \in Packet :
        PushWhole(kind, k, a, lost, s, p)
  BY <1>1, PushesWhole
<1>3. PushKept(k, a, lost, s, p)
  BY <1>2, PushesKept
<1>4. /\ pushed \in Nat /\ pushed' = pushed + 1 /\ p.n = pushed + 1 /\ p.job = k /\ p \in Item
      /\ dropped' = dropped \cup PacketsOf(lost)
      /\ accepted' = [accepted EXCEPT ![k] = Append(@, p)]
  <2>1. pushed \in Nat
    BY DEF MuxerInv, ControlInv, MuxerType
  <2>2. /\ p = [n |-> pushed + 1, kind |-> kind, job |-> k] /\ pushed' = pushed + 1
        /\ dropped' = dropped \cup PacketsOf(lost)
        /\ accepted' = [accepted EXCEPT ![k] = Append(@, p)]
    BY <1>2 DEF PushWhole
  <2>3. p.n = pushed + 1 /\ p.job = k /\ p \in Item
    BY <2>2 DEF Item
  <2> QED BY <2>1, <2>2, <2>3
<1>5. \A q \in Item : q.n \in Nat
  BY ItemNumber
<1>6. Numbered'
  <2>1. accepted' \in [1..MaxJobs -> Seq(Item)]
    BY <1>4, AppendProperties DEF FilesInv, Numbered
  <2>2. ASSUME NEW j \in 1..MaxJobs, NEW q \in PacketsOf(accepted[j])'
        PROVE  q \in Packet /\ q.job = j /\ q.n <= pushed'
    <3>1. CASE j = k
      <4>1. q = p \/ q \in PacketsOf(accepted[j])
        BY <1>3, <2>2, <3>1 DEF PushKept
      <4>2. q \in Packet /\ q.job = j /\ (q.n <= pushed \/ q.n = pushed + 1)
        BY <1>4, <3>1, <4>1 DEF FilesInv, Numbered
      <4> QED BY <1>4, <1>5, <4>2 DEF Item
    <3>2. CASE j # k
      <4>1. q \in PacketsOf(accepted[j])
        BY <1>3, <2>2, <3>2 DEF PushKept, PacketsOf
      <4>2. q \in Packet /\ q.job = j /\ q.n <= pushed
        BY <4>1 DEF FilesInv, Numbered
      <4> QED BY <1>4, <1>5, <4>2 DEF Item
    <3> QED BY <3>1, <3>2
  <2>3. ASSUME NEW q \in dropped' PROVE q \in Packet /\ q.n <= pushed'
    <3>1. CASE q \in PacketsOf(lost)
      <4>1. q \in PacketsOf(accepted[k])
        BY <1>3, <3>1 DEF PushKept, Kept
      <4>2. q \in Packet /\ q.n <= pushed
        BY <4>1 DEF FilesInv, Numbered
      <4> QED BY <1>4, <1>5, <4>2 DEF Item
    <3>2. CASE q \in dropped
      <4>1. q \in Packet /\ q.n <= pushed
        BY <3>2 DEF FilesInv, Numbered
      <4> QED BY <1>4, <1>5, <4>1 DEF Item
    <3> QED BY <1>4, <3>1, <3>2
  <2> QED BY <2>1, <2>2, <2>3 DEF Numbered
<1>7. ClosedEmpty'
  BY <1>2 DEF PushWhole, FilesInv, ClosedEmpty
<1>8. AllThere'
  <2> SUFFICES ASSUME NEW j \in 1..MaxJobs
               PROVE  /\ FrontOf(Whole(j)', Kept(j)')
                      /\ closedBy'[j] # "IMMEDIATE" => PacketsOf(Whole(j)') = Kept(j)'
    BY DEF AllThere, FrontOf, InPushOrder, PacketsOf
  <2>1. CASE j = k
    <3>1. InPushOrder(Whole(k)') /\ PacketsOf(Whole(k)') = Kept(k)'
      BY <1>3 DEF PushKept, CutOut
    <3> QED BY <2>1, <3>1 DEF FrontOf
  <2>2. CASE j # k
    <3>1. Whole(j)' = Whole(j) /\ closedBy' = closedBy /\ Kept(j)' = Kept(j)
      BY <1>2, <1>3, <2>2 DEF PushWhole, PushKept
    <3> QED BY <3>1 DEF FilesInv, AllThere
  <2> QED BY <2>1, <2>2
<1> QED BY <1>6, <1>7, <1>8 DEF FilesInv

LEMMA InitFiles == Init => FilesInv
<1> SUFFICES ASSUME Init PROVE FilesInv
  OBVIOUS
<1>1. MuxerType /\ OneOut
  BY InitMuxer DEF MuxerInv, ControlInv, StartInv
<1>2. /\ accepted = [j \in 1..MaxJobs |-> <<>>] /\ dropped = {} /\ packet_list = NoPtr
      /\ \A j \in 1..MaxJobs : accepted[j] = <<>> /\ file[j] = <<>> /\ closedBy[j] = "open"
      /\ \A w \in Writers : out[w] = 0
  BY DEF Init
<1>3. \A j \in 1..MaxJobs : Whole(j) = <<>> /\ JobPending(j) = <<>>
  <2> SUFFICES ASSUME NEW j \in 1..MaxJobs PROVE JobPending(j) = <<>> /\ Whole(j) = <<>>
    OBVIOUS
  <2>1. WritersOf(j) = {}
    BY <1>2 DEF WritersOf
  <2>2. Held(j) = <<>> \o <<>>
    BY <1>2, <2>1 DEF Held, Shared
  <2>3. <<>> \o <<>> = <<>>
    BY ConcatEmptySeq
  <2>4. JobPending(j) = <<>>
    BY <1>2, <2>2, <2>3 DEF JobPending
  <2> QED BY <1>2, <2>3, <2>4 DEF Whole
<1>4. PacketsOf(<<>>) = {} /\ InPushOrder(<<>>)
  BY PacketsOfOne
<1>5. \A j \in 1..MaxJobs : Kept(j) = {}
  BY <1>2, <1>4 DEF Kept
<1>6. Numbered
  BY <1>2, <1>4 DEF Numbered
<1>7. AllThere
  BY <1>3, <1>4, <1>5 DEF AllThere, FrontOf
<1>8. ClosedEmpty
  BY <1>2 DEF ClosedEmpty
<1> QED BY <1>6, <1>7, <1>8 DEF FilesInv

FilesSafe == failed \/ FilesInv

LEMMA NextFiles == MuxerInv /\ MuxerInv' /\ FilesSafe /\ [Next]_vars => FilesSafe'
<1> SUFFICES ASSUME MuxerInv, MuxerInv', FilesSafe, [Next]_vars, ~failed' PROVE FilesInv'
  BY DEF FilesSafe
<1>1. FilesInv
  BY FailedStays DEF FilesSafe
<1> QED BY <1>1, PushFiles, StayFiles

LEMMA FilesAreSafe == Spec => [](MuxerInv /\ FilesSafe)
<1>1. Spec => []MuxerInv
  BY InitMuxer, NextMuxer, PTL DEF Spec
<1>2. Init => FilesSafe
  BY InitFiles DEF FilesSafe
<1> QED BY <1>1, <1>2, NextFiles, PTL DEF Spec

\* A closed file holds exactly what was pushed during its job and not dropped,
\* in order; an IMMEDIATE exit may only leave out the end of it.
THEOREM ClosedCorrect == Spec => []ClosedComplete
<1>1. MuxerInv /\ FilesSafe => ClosedComplete
  <2> SUFFICES ASSUME MuxerInv, FilesInv, NEW j \in 1..MaxJobs, closedBy[j] # "open"
               PROVE  /\ InPushOrder(file[j]) /\ PacketsOf(file[j]) \subseteq Kept(j)
                      /\ \A p \in Kept(j) \ PacketsOf(file[j]) :
                           closedBy[j] = "IMMEDIATE" /\ \A q \in PacketsOf(file[j]) : q.n < p.n
    BY DEF FilesSafe, ClosedComplete
  <2>1. file[j] \in Seq(Item) /\ JobPending(j) = <<>>
    BY HeldTyped DEF MuxerInv, ControlInv, StartInv, FilesInv, ClosedEmpty
  <2>2. Whole(j) = file[j]
    BY <2>1, ConcatEmptySeq DEF Whole
  <2> QED BY <2>2 DEF FilesInv, AllThere, FrontOf
<1> QED BY <1>1, FilesAreSafe, PTL

-----------------------------------------------------------------------------
(* Groups of pictures.                                                     *)

\* The end of a list from position i on, and its video packets.
Rest(s, i) == SubSeq(s, i, Len(s))
Videos(s, i) == VideoCount(Rest(s, i))
\* From a packet that is not a key frame one frame less fits before the next key.
Slack(p) == IF p.kind = "key" THEN 0 ELSE 1
\* After position i a key frame comes in time, or would still do so: the encoder
\* has made c frames since its last one.
Near(s, i, c) ==
  \/ Videos(s, i) = 0
  \/ Videos(s, i) + Slack(s[i]) <= c
  \/ \E k \in (i + 1)..Len(s) :
       s[k].kind = "key" /\ Videos(s, i) + Slack(s[i]) <= Videos(s, k) + Gop
Spaced(s, c) == \A i \in 1..Len(s) : Near(s, i, c)

\* The hypothesis of Decodable.
KeysOften == 2 * Gop <= MaxVideo + 2

LEMMA RestParts ==
  ASSUME NEW s \in Seq(Item)
  PROVE  /\ Rest(s, 1) = s
         /\ \A m \in 1..Len(s) :
              /\ Rest(s, m) \in Seq(Item) /\ Len(Rest(s, m)) = Len(s) - m + 1
              /\ \A i \in 1..(Len(s) - m + 1) :
                   /\ Rest(s, m)[i] = s[m + i - 1]
                   /\ Rest(Rest(s, m), i) = Rest(s, m + i - 1)
<1>1. Len(s) \in Nat /\ \A i \in 1..Len(s) : s[i] \in Item
  BY LenProperties, ElementOfSeq
<1>2. Rest(s, 1) = s
  BY SubSeqFull DEF Rest
<1>3. ASSUME NEW m \in 1..Len(s)
      PROVE  /\ Rest(s, m) \in Seq(Item) /\ Len(Rest(s, m)) = Len(s) - m + 1
             /\ \A i \in 1..(Len(s) - m + 1) :
                  /\ Rest(s, m)[i] = s[m + i - 1]
                  /\ Rest(Rest(s, m), i) = Rest(s, m + i - 1)
  <2>1. /\ Rest(s, m) \in Seq(Item) /\ Len(Rest(s, m)) = Len(s) - m + 1
        /\ \A i \in 1..(Len(s) - m + 1) : Rest(s, m)[i] = s[m + i - 1]
    <3>1. m \in Int /\ Len(s) \in Int /\ m <= Len(s) /\ \A i \in m..Len(s) : s[i] \in Item
      BY <1>1
    <3> QED BY <3>1, SubSeqProperties DEF Rest
  <2>2. ASSUME NEW i \in 1..(Len(s) - m + 1)
        PROVE  Rest(Rest(s, m), i) = Rest(s, m + i - 1)
    <3>1. /\ Len(s) \in 1..Len(s) /\ Len(s) - m + 1 \in 1..(Len(s) - m + 1)
          /\ m + (Len(s) - m + 1) - 1 = Len(s)
      BY <1>1
    <3>2. SubSeq(SubSeq(s, m, Len(s)), i, Len(s) - m + 1)
            = SubSeq(s, m + i - 1, m + (Len(s) - m + 1) - 1)
      BY <3>1, SubSeqOfSubSeq
    <3> QED BY <2>1, <3>1, <3>2 DEF Rest
  <2> QED BY <2>1, <2>2
<1> QED BY <1>2, <1>3

LEMMA RestAppend ==
  ASSUME NEW s \in Seq(Item), NEW p \in Item
  PROVE  /\ \A i \in 1..Len(s) : Rest(Append(s, p), i) = Append(Rest(s, i), p)
         /\ Rest(Append(s, p), Len(s) + 1) = <<p>>
<1> DEFINE x == Append(s, p)
<1>1. Len(s) \in Nat /\ <<p>> \in Seq(Item)
  BY LenProperties
<1>2. /\ x \in Seq(Item) /\ Len(x) = Len(s) + 1 /\ x[Len(s) + 1] = p /\ x = s \o <<p>>
  BY AppendProperties, AppendIsConcat
<1> HIDE DEF x
<1>3. ASSUME NEW i \in 1..Len(s) PROVE Rest(x, i) = Append(Rest(s, i), p)
  <2>1. /\ i \in 1..Len(x) /\ Len(x) \in i..Len(x) /\ Len(x) - 1 = Len(s) /\ Len(s) \in 1..Len(s)
    BY <1>1, <1>2
  <2>2. SubSeq(x, i, Len(x)) = SubSeq(x, i, Len(s)) \o <<p>>
    BY <1>2, <2>1, SubSeqRecursiveSecond
  <2>3. SubSeq(x, i, Len(s)) = Rest(s, i)
    BY <1>1, <1>2, <2>1, SubSeqOfConcat1 DEF Rest
  <2>4. Rest(s, i) \in Seq(Item)
    BY RestParts
  <2>5. Append(Rest(s, i), p) = Rest(s, i) \o <<p>>
    BY <2>4, AppendIsConcat
  <2> QED BY <2>2, <2>3, <2>5 DEF Rest
<1>4. Rest(x, Len(s) + 1) = <<p>>
  <2>1. /\ Len(s) + 1 \in 1..Len(x) /\ Len(x) - (Len(s) + 1) + 1 = 1 /\ 1 \in 1..1
        /\ Len(s) + 1 + 1 - 1 = Len(s) + 1
    BY <1>1, <1>2
  <2>5. PICK m \in 1..Len(x) : m = Len(s) + 1
    BY <2>1
  <2>6. /\ Rest(x, m) \in Seq(Item) /\ Len(Rest(x, m)) = Len(x) - m + 1
        /\ \A i \in 1..(Len(x) - m + 1) : Rest(x, m)[i] = x[m + i - 1]
    BY <1>2, RestParts
  <2>7. Len(x) - m + 1 = 1 /\ m + 1 - 1 = m
    BY <2>1, <2>5
  <2>2. /\ Rest(x, Len(s) + 1) \in Seq(Item) /\ Len(Rest(x, Len(s) + 1)) = 1
        /\ Rest(x, Len(s) + 1)[1] = p
    BY <1>2, <2>1, <2>5, <2>6, <2>7
  <2>3. Len(<<p>>) = 1 /\ <<p>>[1] = p
    OBVIOUS
  <2>4. \A i \in 1..1 : i = 1
    OBVIOUS
  <2> QED BY <1>1, <2>2, <2>3, <2>4, SeqEqual
<1> QED BY <1>3, <1>4 DEF x

LEMMA VideosTyped ==
  ASSUME NEW s \in Seq(Item), NEW i \in 1..Len(s)
  PROVE  Videos(s, i) \in Nat
BY RestParts, VideoConcat DEF Videos

LEMMA VideosAppend ==
  ASSUME NEW s \in Seq(Item), NEW p \in Item
  PROVE  /\ \A i \in 1..Len(s) : Videos(Append(s, p), i) = Videos(s, i) + Counted(p)
         /\ Videos(Append(s, p), Len(s) + 1) = Counted(p)
<1>1. ASSUME NEW i \in 1..Len(s) PROVE Videos(Append(s, p), i) = Videos(s, i) + Counted(p)
  <2>1. Rest(s, i) \in Seq(Item) /\ Rest(Append(s, p), i) = Append(Rest(s, i), p)
    BY RestParts, RestAppend
  <2> QED BY <2>1, VideoAppend DEF Videos
<1>2. Videos(Append(s, p), Len(s) + 1) = Counted(p)
  BY RestAppend, VideoOfOne DEF Videos
<1> QED BY <1>1, <1>2

\* The end of a spaced list is spaced.
LEMMA SpacedRest ==
  ASSUME NEW s \in Seq(Item), NEW c, Spaced(s, c)
  PROVE  /\ Spaced(<<>>, c) /\ \A m \in 1..Len(s) : Spaced(Rest(s, m), c)
         /\ s # <<>> => Spaced(Tail(s), c)
<1>1. Len(s) \in Nat
  BY LenProperties
<1>2. Spaced(<<>>, c)
  BY DEF Spaced
<1>3. ASSUME NEW m \in 1..Len(s) PROVE Spaced(Rest(s, m), c)
  <2> DEFINE r == Rest(s, m)
  <2>1. /\ r \in Seq(Item) /\ Len(r) = Len(s) - m + 1
        /\ \A i \in 1..Len(r) : r[i] = s[m + i - 1] /\ Videos(r, i) = Videos(s, m + i - 1)
    BY RestParts DEF Videos
  <2> HIDE DEF r
  <2> SUFFICES ASSUME NEW i \in 1..Len(r) PROVE Near(r, i, c)
    BY DEF Spaced, r
  <2>2. m + i - 1 \in 1..Len(s) /\ Len(r) \in Nat
    BY <1>1, <2>1
  <2>3. r[i] = s[m + i - 1] /\ Videos(r, i) = Videos(s, m + i - 1)
    BY <2>1
  <2>4. CASE Videos(s, m + i - 1) = 0
    BY <2>3, <2>4 DEF Near
  <2>5. CASE Videos(s, m + i - 1) + Slack(s[m + i - 1]) <= c
    BY <2>3, <2>5 DEF Near
  <2>6. ASSUME NEW k \in (m + i)..Len(s), s[k].kind = "key",
               Videos(s, m + i - 1) + Slack(s[m + i - 1]) <= Videos(s, k) + Gop
        PROVE  Near(r, i, c)
    <3>1. k - m + 1 \in (i + 1)..Len(r) /\ k - m + 1 \in 1..Len(r) /\ m + (k - m + 1) - 1 = k
      BY <1>1, <2>1, <2>2
    <3>2. r[k - m + 1] = s[k] /\ Videos(r, k - m + 1) = Videos(s, k)
      BY <2>1, <3>1
    <3> QED BY <2>3, <2>6, <3>1, <3>2 DEF Near
  <2>7. (m + i - 1) + 1 = m + i
    BY <1>1, <2>1
  <2>8. Near(s, m + i - 1, c)
    BY <2>2 DEF Spaced
  <2> QED BY <2>4, <2>5, <2>6, <2>7, <2>8 DEF Near
<1>4. ASSUME s # <<>> PROVE Spaced(Tail(s), c)
  <2>1. Tail(s) = SubSeq(s, 2, Len(s))
    BY <1>4, TailIsSubSeq
  <2>4. Len(s) # 0
    BY <1>4, EmptySeq
  <2>2. CASE Len(s) = 1
    <3>1. Tail(s) = <<>>
      BY <2>1, <2>2, SubSeqEmpty
    <3> QED BY <1>2, <3>1
  <2>3. CASE Len(s) # 1
    <3>3. \A l \in Nat : l # 0 /\ l # 1 => 2 \in 1..l
      OBVIOUS
    <3>1. 2 \in 1..Len(s)
      BY <1>1, <2>3, <2>4, <3>3
    <3>2. Tail(s) = Rest(s, 2)
      BY <2>1 DEF Rest
    <3> QED BY <1>3, <3>1, <3>2
  <2> QED BY <2>2, <2>3
<1> QED BY <1>2, <1>3, <1>4

\* What follows c when the encoder emits p.
LEMMA SpacedAppend ==
  ASSUME NEW s \in Seq(Item), NEW p \in Item, NEW c \in 0..Gop, NEW d \in Nat, Spaced(s, c),
         \/ p.kind = "key" /\ d = 1
         \/ p.kind = "delta" /\ c # 0 /\ d = c + 1
         \/ p.kind = "audio" /\ d = c
  PROVE  Spaced(Append(s, p), d)
<1> DEFINE x == Append(s, p)
           l == Len(s)
<1>1. l \in Nat /\ Gop \in Nat /\ Gop # 0
  BY LenProperties, ConstantsAssumption
<1>2. /\ Len(x) = l + 1 /\ x[l + 1] = p /\ \A i \in 1..l : x[i] = s[i]
  BY AppendProperties
<1>3. /\ \A i \in 1..l : Videos(x, i) = Videos(s, i) + Counted(p)
      /\ Videos(x, l + 1) = Counted(p)
  BY VideosAppend
<1>4. \A i \in 1..l : Videos(s, i) \in Nat
  BY VideosTyped
<1> HIDE DEF x, l
<1>5. \A q : Slack(q) \in {0, 1} /\ (q.kind = "key" => Slack(q) = 0)
  BY DEF Slack
<1>6. /\ p.kind \in {"key", "delta"} => Counted(p) = 1
      /\ p.kind = "audio" => Counted(p) = 0
  BY DEF Counted, IsVideo
<1> SUFFICES ASSUME NEW i \in 1..(l + 1) PROVE Near(x, i, d)
  BY <1>2 DEF Spaced, x
<1>7. CASE i = l + 1
  <2>1. x[i] = p /\ Videos(x, i) = Counted(p)
    BY <1>2, <1>3, <1>7
  <2>2. CASE p.kind = "key" /\ d = 1
    <3>1. Videos(x, i) + Slack(x[i]) <= d
      BY <1>5, <1>6, <2>1, <2>2
    <3> QED BY <3>1 DEF Near
  <2>3. CASE p.kind = "delta" /\ c # 0 /\ d = c + 1
    <3>1. Videos(x, i) + Slack(x[i]) <= d
      BY <1>5, <1>6, <2>1, <2>3
    <3> QED BY <3>1 DEF Near
  <2>4. CASE p.kind = "audio"
    BY <1>6, <2>1, <2>4 DEF Near
  <2> QED BY <2>2, <2>3, <2>4
<1>8. CASE i # l + 1
  <2>1. i \in 1..l /\ x[i] = s[i] /\ Videos(x, i) = Videos(s, i) + Counted(p) /\ Videos(s, i) \in Nat
    BY <1>1, <1>2, <1>3, <1>4, <1>8
  <2>2. Near(s, i, c)
    BY <2>1 DEF Spaced, l
  <2>3. ASSUME NEW k \in (i + 1)..l, s[k].kind = "key",
               Videos(s, i) + Slack(s[i]) <= Videos(s, k) + Gop
        PROVE  Near(x, i, d)
    <3>1. k \in 1..l /\ k \in (i + 1)..(l + 1)
      BY <1>1, <2>1
    <3>2. /\ x[k].kind = "key" /\ Videos(x, k) = Videos(s, k) + Counted(p)
          /\ Videos(s, k) \in Nat
      BY <1>2, <1>3, <1>4, <2>3, <3>1
    <3>3. Counted(p) \in {0, 1}
      BY DEF Counted
    <3>5. Slack(x[i]) = Slack(s[i]) /\ Slack(s[i]) \in {0, 1}
      BY <1>5, <2>1
    <3>6. \A v, w, a, b, g \in Nat : v + a <= w + g => (v + b) + a <= (w + b) + g
      OBVIOUS
    <3>7. Counted(p) \in Nat /\ Slack(s[i]) \in Nat
      BY <3>3, <3>5
    <3>4. Videos(x, i) + Slack(x[i]) <= Videos(x, k) + Gop
      BY <1>1, <2>1, <2>3, <3>2, <3>5, <3>6, <3>7
    <3> QED BY <1>2, <3>1, <3>2, <3>4 DEF Near
  <2>4. CASE p.kind = "key" /\ d = 1 /\ (Videos(s, i) = 0 \/ Videos(s, i) + Slack(s[i]) <= c)
    <3>1. Videos(x, i) + Slack(x[i]) <= Videos(x, l + 1) + Gop
      BY <1>1, <1>3, <1>5, <1>6, <2>1, <2>4
    <3>2. l + 1 \in (i + 1)..(l + 1)
      BY <1>1, <2>1
    <3> QED BY <1>2, <2>4, <3>1, <3>2 DEF Near
  <2>5. CASE p.kind = "delta" /\ c # 0 /\ d = c + 1
               /\ (Videos(s, i) = 0 \/ Videos(s, i) + Slack(s[i]) <= c)
    <3>1. Videos(x, i) + Slack(x[i]) <= d
      BY <1>1, <1>5, <1>6, <2>1, <2>5
    <3> QED BY <3>1 DEF Near
  <2>6. CASE p.kind = "audio" /\ d = c /\ (Videos(s, i) = 0 \/ Videos(s, i) + Slack(s[i]) <= c)
    BY <1>6, <2>1, <2>6 DEF Near
  <2> QED BY <2>2, <2>3, <2>4, <2>5, <2>6 DEF Near, l
<1> QED BY <1>7, <1>8

\* A set of natural numbers has a smallest one.
LEMMA SmallestOf ==
  ASSUME NEW n \in Nat, NEW K \in SUBSET (1..n), K # {}
  PROVE  \E m \in K : \A k \in K : m <= k
<1> DEFINE Below(i) == {k \in K : k < i}
           T == {Below(i) : i \in K}
           R == StrictSubsetOrdering(1..n)
<1>1. /\ IsFiniteSet(1..n) /\ \A i \in K : IsFiniteSet(Below(i)) /\ Below(i) \in SUBSET (1..n)
  <2>1. IsFiniteSet(1..n)
    BY FS_Interval
  <2>2. \A i \in K : Below(i) \subseteq 1..n
    OBVIOUS
  <2> QED BY <2>1, <2>2, FS_Subset
<1>2. T \subseteq FiniteSubsetsOf(1..n) /\ T # {}
  BY <1>1 DEF FiniteSubsetsOf
<1>3. IsWellFoundedOn(R, FiniteSubsetsOf(1..n))
  BY FS_StrictSubsetOrderingWellFounded
<1>4. PICK x \in T : \A y \in T : ~(<<y, x>> \in R)
  <2> HIDE DEF T, R
  <2> QED BY <1>2, <1>3, WFMin
<1>5. PICK m \in K : x = Below(m)
  BY <1>4
<1>6. ASSUME NEW k \in K, ~(m <= k) PROVE FALSE
  <2>1. k \in Nat /\ m \in Nat /\ k < m /\ \A i \in K : i \in Nat
    BY <1>6
  <2>4. ASSUME NEW e \in Below(k) PROVE e \in Below(m)
    <3>1. e \in K /\ e < k /\ e \in Nat
      BY <2>1
    <3>2. e < m
      BY <2>1, <3>1
    <3> QED BY <3>1, <3>2
  <2>5. k \in Below(m)
    BY <2>1
  <2>6. k \notin Below(k)
    BY <2>1
  <2>2. Below(k) \subseteq Below(m) /\ k \in Below(m) /\ k \notin Below(k)
    BY <2>4, <2>5, <2>6
  <2>3. <<Below(k), Below(m)>> \in R
    BY <1>1, <2>2 DEF StrictSubsetOrdering
  <2> QED BY <1>4, <1>5, <2>3
<1> QED BY <1>6

\* Of two key frames one is the second.
LEMMA SecondOf ==
  ASSUME NEW s \in Seq(Item), NEW a \in 1..Len(s), NEW b \in 1..Len(s), a # b,
         s[a].kind = "key", s[b].kind = "key"
  PROVE  \E i \in DOMAIN s : IsSecondKey(s, i)
<1> DEFINE K == KeyPositions(s)
<1>1. DOMAIN s = 1..Len(s) /\ Len(s) \in Nat
  BY LenProperties
<1>2. K \in SUBSET (1..Len(s)) /\ a \in K /\ b \in K
  BY <1>1 DEF KeyPositions
<1> HIDE DEF K
<1>3. PICK m \in K : \A k \in K : m <= k
  BY <1>1, <1>2, SmallestOf
<1>4. K \ {m} \in SUBSET (1..Len(s)) /\ K \ {m} # {}
  BY <1>2
<1>5. PICK i \in K \ {m} : \A k \in K \ {m} : i <= k
  BY <1>1, <1>4, SmallestOf
<1>6. {k \in K : k < i} = {m}
  BY <1>1, <1>2, <1>3, <1>5
<1>7. Cardinality({k \in K : k < i}) = 1
  BY <1>6, FS_Singleton
<1>8. IsSecondKey(s, i)
  BY <1>5, <1>7 DEF IsSecondKey, K
<1> QED BY <1>1, <1>2, <1>5, <1>8

\* When a delta frame may come next, an overflow finds a second key frame.
LEMMA SecondKey ==
  ASSUME NEW s \in Seq(Item), NEW c \in 1..(Gop - 1), Spaced(s, c), KeysOften,
         VideoCount(s) > MaxVideo
  PROVE  \E i \in DOMAIN s : IsSecondKey(s, i)
<1>1. /\ Len(s) \in Nat /\ MaxVideo \in Nat /\ Gop \in Nat /\ VideoCount(s) \in Nat
  BY LenProperties, ConstantsAssumption, VideoConcat
<1>2. VideoCount(s) >= 2 * Gop - 1 /\ VideoCount(s) # 0
  BY <1>1 DEF KeysOften
<1>3. s # <<>> /\ 1 \in 1..Len(s)
  <2>1. s # <<>>
    BY <1>2, VideoOfOne
  <2> QED BY <1>1, <2>1, EmptySeq
<1>4. Videos(s, 1) = VideoCount(s)
  BY RestParts DEF Videos
<1>5. \A i \in 1..Len(s) : Near(s, i, c) /\ Videos(s, i) \in Nat
  BY VideosTyped DEF Spaced
<1>6. \A q : Slack(q) \in {0, 1} /\ (q.kind # "key" => Slack(q) = 1)
  BY DEF Slack
<1>7. PICK k \in 2..Len(s) : s[k].kind = "key" /\ Videos(s, 1) + Slack(s[1]) <= Videos(s, k) + Gop
  <2>1. ~(Videos(s, 1) + Slack(s[1]) <= c) /\ Videos(s, 1) # 0
    BY <1>1, <1>2, <1>4, <1>6
  <2>2. 1 + 1 = 2
    OBVIOUS
  <2> QED BY <1>3, <1>5, <2>1, <2>2 DEF Near
<1>8. k \in 1..Len(s) /\ k # 1
  BY <1>1
<1>9. CASE s[1].kind = "key"
  BY <1>3, <1>7, <1>8, <1>9, SecondOf
<1>10. CASE s[1].kind # "key"
  <2>1. Videos(s, k) \in Nat /\ Videos(s, k) >= Gop
    BY <1>1, <1>2, <1>4, <1>5, <1>6, <1>7, <1>8, <1>10
  <2>2. Videos(s, k) # 0 /\ ~(Videos(s, k) + Slack(s[k]) <= c)
    BY <1>1, <1>6, <2>1
  <2>3. PICK l \in (k + 1)..Len(s) : s[l].kind = "key"
    BY <1>5, <1>8, <2>2 DEF Near
  <2>4. l \in 1..Len(s) /\ l # k
    BY <1>1, <1>8
  <2> QED BY <1>7, <1>8, <2>3, <2>4, SecondOf
<1> QED BY <1>9, <1>10

\* v is the frame before d, the last frame so far.
FrameBefore(j, v, d) ==
  IsVideo(v) /\ v.n < d.n /\ \A q \in Frames(j) : ~(v.n < q.n /\ q.n < d.n)
LastFrame(j, v) == IsVideo(v) /\ \A q \in Frames(j) : q.n <= v.n

\* Written or not, a delta frame that is kept has the frame before it.
Linked == \A j \in 1..MaxJobs : \A d \in PacketsOf(Whole(j)) :
  d.kind = "delta" => \E v \in PacketsOf(Whole(j)) : FrameBefore(j, v, d)
\* While packets are pushed, and the encoder may emit a delta frame.
GroupGoes == attached =>
  /\ packet_list # NoPtr /\ sinceKey \in 0..Gop /\ Spaced(packet_list, sinceKey)
  /\ sinceKey \in 1..(Gop - 1) => \E v \in PacketsOf(Whole(jobs)) : LastFrame(jobs, v)
FramesInv == Linked /\ GroupGoes

\* What an overflow leaves begins with a key frame.
LEMMA DropHead ==
  ASSUME NEW l \in Seq(Item), NEW s \in Seq(Item), s = DropTo(l), InPushOrder(s)
  PROVE  /\ \A q \in PacketsOf(s) :
              \E y \in PacketsOf(s) : y.kind = "key" /\ (q = y \/ y.n < q.n)
         /\ (\E i \in DOMAIN l : IsSecondKey(l, i)) =>
              \E y \in PacketsOf(s) : y.kind = "key"
<1>1. DOMAIN s = 1..Len(s) /\ Len(s) \in Nat /\ DOMAIN l = 1..Len(l) /\ Len(l) \in Nat
  BY LenProperties
<1>2. ASSUME NEW i \in 1..Len(l), l[i].kind = "key", s = Rest(l, i)
      PROVE  1 \in DOMAIN s /\ s[1].kind = "key"
  <2>1. /\ Len(s) = Len(l) - i + 1 /\ 1 \in 1..(Len(l) - i + 1) /\ i + 1 - 1 = i
    BY <1>1, <1>2, RestParts
  <2>2. s[1] = l[i]
    BY <1>2, <2>1, RestParts
  <2> QED BY <1>1, <1>2, <2>1, <2>2
<1>3. ASSUME NEW q \in PacketsOf(s)
      PROVE  \E y \in PacketsOf(s) : y.kind = "key" /\ (q = y \/ y.n < q.n)
  <2>1. PICK k \in DOMAIN s : q = s[k]
    BY <1>3 DEF PacketsOf
  <2>2. s # <<>>
    BY <2>1
  <2>3. 1 \in DOMAIN s /\ s[1].kind = "key"
    BY <1>2, <2>2, DropParts DEF Rest
  <2>4. k = 1 \/ 1 < k
    BY <1>1, <2>1
  <2> QED BY <2>1, <2>3, <2>4 DEF PacketsOf, InPushOrder
<1>4. ASSUME NEW i \in DOMAIN l, IsSecondKey(l, i)
      PROVE  \E y \in PacketsOf(s) : y.kind = "key"
  <2> DEFINE k == CHOOSE x \in DOMAIN l : IsSecondKey(l, x)
  <2>1. k \in 1..Len(l) /\ IsSecondKey(l, k)
    BY <1>1, <1>4
  <2>2. s = Rest(l, k)
    BY <1>4 DEF DropTo, Rest
  <2>3. l[k].kind = "key"
    BY <2>1 DEF IsSecondKey, KeyPositions
  <2> HIDE DEF k
  <2>4. 1 \in DOMAIN s /\ s[1].kind = "key"
    BY <1>2, <2>1, <2>2, <2>3
  <2> QED BY <2>4 DEF PacketsOf
<1> QED BY <1>3, <1>4

OpenJob == ControlInv /\ StartInv /\ JobInv /\ attached =>
  jobs \in 1..MaxJobs /\ closedBy[jobs] = "open"
LEMMA OpenJobIs == OpenJob
<1> SUFFICES ASSUME ControlInv, StartInv, JobInv, attached
             PROVE  jobs \in 1..MaxJobs /\ closedBy[jobs] = "open"
  BY DEF OpenJob
<1>1. ctl = "running"
  BY DEF ControlInv, ChargeInv, AttachedRuns
<1> QED BY <1>1, JobOpen
LEMMA OpenJobNext == OpenJob'
BY OpenJobIs, PTL

\* A job goes on: at most the front of the shared list is taken.
LEMMA AttachedStays ==
  ASSUME ControlInv, ControlInv', [Next]_vars, ~failed', ~(PushVideo \/ PushAudio),
         ~StartPublish, attached'
  PROVE  /\ attached /\ UNCHANGED <<jobs, sinceKey>>
         /\ packet_list # NoPtr /\ packet_list' # NoPtr
         /\ packet_list' = packet_list \/ (packet_list # <<>> /\ packet_list' = Tail(packet_list))
<1>0. /\ attached <=> ctl = "running"
      /\ ctl' = "running"
      /\ packet_list' # NoPtr
  BY DEF ControlInv, ChargeInv, AttachedRuns, ListThere, Busy
<1>1. ~Control
  BY <1>0 DEF Control, InitUri, StartCreate, StopCheck, StopPost, StopWake, StopWakeNull,
     StopReturn, DeleteBegin, SyncPick, SyncJoin, Destroy, muxerVars
<1>2. ~\E g \in {"restart", "delete"} : StopRequest(g)
  BY DEF StopRequest
<1>3. ASSUME NEW w \in Writers, Writer(w)
      PROVE  /\ attached' = attached /\ UNCHANGED <<jobs, sinceKey>>
             /\ \/ packet_list' = packet_list
                \/ packet_list' = NoPtr
                \/ packet_list # <<>> /\ packet_list' = Tail(packet_list)
  <2>1. attached' = attached /\ UNCHANGED <<jobs, sinceKey>>
    BY <1>3 DEF Writer, Check, GetMessage, MuxerInit, MuxerInitFails, TakeList, Notify, Block, Pop,
       Write, WriteFree, Drain, Drained, Tailer, NotifyFlushed, End, Detach, ctlVars
  <2>2. WriterLists(w)
    BY <1>3, WriterMoveStep
  <2> QED BY <2>1, <2>2 DEF WriterLists
<1>4. CASE UNCHANGED vars
  BY <1>0, <1>4 DEF vars, muxerVars, ctlVars
<1>5. ASSUME NEW w \in Writers, Writer(w) PROVE attached /\ packet_list # NoPtr
  <2>1. attached
    BY <1>3, <1>5
  <2> QED BY <1>0, <2>1 DEF ControlInv, ChargeInv, ListThere, Busy
<1> QED BY <1>0, <1>1, <1>2, <1>3, <1>4, <1>5 DEF Next, Done

LEMMA StayFrames ==
  ASSUME MuxerInv, MuxerInv', [Next]_vars, ~failed', ~(PushVideo \/ PushAudio), FilesInv, FramesInv
  PROVE  FramesInv'
<1>0. /\ ControlInv /\ ControlInv' /\ StartInv /\ StartInv' /\ JobInv /\ JobInv'
      /\ MuxerType /\ MuxerType' /\ OneOut
  BY FailedStays DEF MuxerInv, JobSafe, ControlInv, StartInv
<1>1. \A j \in 1..MaxJobs : Frames(j)' = Frames(j)
  BY StayData DEF Frames, PacketsOf
<1>2. \A j \in 1..MaxJobs : Moved(j)
  BY <1>0, RefineMoves, MovesJobs
<1>3. ASSUME NEW j \in 1..MaxJobs, NEW d \in PacketsOf(Whole(j))', d.kind = "delta"
      PROVE  (\E v \in PacketsOf(Whole(j)) : FrameBefore(j, v, d))'
  <2>1. CASE Whole(j)' = Whole(j)
    <3>1. d \in PacketsOf(Whole(j)) /\ PacketsOf(Whole(j))' = PacketsOf(Whole(j))
      BY <1>3, <2>1 DEF PacketsOf
    <3> QED BY <1>1, <1>3, <3>1 DEF FramesInv, Linked, FrameBefore
  <2>2. CASE JobPending(j)' = <<>> /\ file'[j] = file[j]
    <3>1. PICK f \in Seq(Item), s \in Seq(Item) : f = file[j] /\ s = JobPending(j)
      BY <1>0, HeldTyped
    <3>2. PacketsOf(Whole(j))' = PacketsOf(f)
      <4>1. Whole(j)' = f \o <<>>
        BY <2>2, <3>1 DEF Whole
      <4>2. Whole(j)' = f
        BY <4>1, ConcatEmptySeq
      <4> QED BY <4>2 DEF PacketsOf
    <3>3. Whole(j) = f \o s /\ InPushOrder(f \o s)
      BY <3>1 DEF Whole, FilesInv, AllThere, FrontOf
    <3>4. /\ PacketsOf(Whole(j)) = PacketsOf(f) \cup PacketsOf(s)
          /\ \A q \in PacketsOf(f), r \in PacketsOf(s) : q.n < r.n
          /\ PacketsOf(f) \subseteq Item /\ PacketsOf(s) \subseteq Item
      BY <3>3, PacketsConcat, OrderConcat
    <3>5. d \in PacketsOf(f) /\ d \in PacketsOf(Whole(j))
      BY <1>3, <3>2, <3>4
    <3>6. PICK v \in PacketsOf(Whole(j)) : FrameBefore(j, v, d)
      BY <1>3, <3>5 DEF FramesInv, Linked
    <3>7. v \in PacketsOf(f)
      <4>1. v.n \in Nat /\ d.n \in Nat /\ v.n < d.n
        BY <3>4, <3>5, <3>6, ItemNumber DEF FrameBefore
      <4>2. v \notin PacketsOf(s)
        <5>1. ~(d.n < v.n)
          BY <4>1
        <5> QED BY <3>4, <3>5, <5>1
      <4> QED BY <3>4, <4>2
    <3> QED BY <1>1, <3>2, <3>6, <3>7 DEF FrameBefore
  <2> QED BY <1>2, <2>1, <2>2 DEF Moved
<1>4. ASSUME attached' PROVE GroupGoes'
  <2>1. CASE StartPublish
    <3>1. /\ sinceKey' = 0 /\ packet_list' = packet_list /\ ctl = "creating"
      BY <2>1 DEF StartPublish
    <3>2. packet_list' = <<>>
      BY <1>0, <3>1 DEF JobInv, FreshList
    <3>3. Spaced(<<>>, 0)
      BY DEF Spaced
    <3>5. packet_list' # NoPtr
      BY <1>0, <2>1 DEF StartPublish, ControlInv, ChargeInv, ListThere, Busy
    <3>4. 0 \in 0..Gop /\ 0 \notin 1..(Gop - 1)
      BY ConstantsAssumption
    <3> QED BY <3>1, <3>2, <3>3, <3>4, <3>5 DEF GroupGoes
  <2>2. CASE ~StartPublish
    <3>1. /\ attached /\ UNCHANGED <<jobs, sinceKey>>
          /\ packet_list # NoPtr /\ packet_list' # NoPtr
          /\ packet_list' = packet_list \/ (packet_list # <<>> /\ packet_list' = Tail(packet_list))
      BY <1>0, <1>4, <2>2, AttachedStays
    <3>2. packet_list \in Seq(Item)
      BY <1>0, <3>1 DEF MuxerType
    <3>3. Spaced(packet_list', sinceKey)
      BY <3>1, <3>2, SpacedRest DEF FramesInv, GroupGoes
    <3>4. PICK k \in 1..MaxJobs : k = jobs /\ closedBy'[k] = "open"
      BY <1>0, <1>4, <3>1, OpenJobNext DEF OpenJob
    <3>5. JobState(k)' # "cut"
      BY <3>4, JobStatesAreNext DEF JobStates
    <3>6. Whole(k)' = Whole(k)
      BY <1>2, <3>5 DEF Moved
    <3>7. PacketsOf(Whole(k))' = PacketsOf(Whole(k))
      BY <3>6 DEF PacketsOf
    <3>8. \A v : LastFrame(k, v)' <=> LastFrame(k, v)
      BY <1>1 DEF LastFrame
    <3>9. (\E v \in PacketsOf(Whole(jobs)) : LastFrame(jobs, v))' <=>
             \E v \in PacketsOf(Whole(k)) : LastFrame(k, v)
      BY <3>1, <3>4, <3>7, <3>8
    <3> QED BY <3>1, <3>3, <3>4, <3>9 DEF FramesInv, GroupGoes
  <2> QED BY <2>1, <2>2
<1> QED BY <1>3, <1>4 DEF FramesInv, Linked, GroupGoes

\* A push of a packet that may follow: no overflow takes the frame before a delta.
MayFollow(kind, c, d) ==
  \/ kind = "key" /\ d = 1
  \/ kind = "delta" /\ c \in 1..(Gop - 1) /\ d = c + 1
  \/ kind = "audio" /\ d = c

LEMMA PushKeepsFrame ==
  ASSUME MuxerInv, VideoCountExact, FilesInv, FramesInv, KeysOften, attached,
         NEW kind \in {"key", "delta", "audio"},
         NEW k \in 1..MaxJobs, NEW a \in Seq(Item), NEW lost \in Seq(Item), NEW s \in Seq(Item),
         NEW p \in Packet, PushWhole(kind, k, a, lost, s, p), PushKept(k, a, lost, s, p)
  PROVE  /\ Spaced(s, sinceKey)
         /\ \A d \in PacketsOf(s), v \in PacketsOf(lost) :
              d.kind = "delta" => ~FrameBefore(k, v, d)
         /\ sinceKey \in 1..(Gop - 1) => \A v \in PacketsOf(lost) : ~LastFrame(k, v)
<1>1. /\ packet_list \in Seq(Item) /\ packet_list # NoPtr /\ Spaced(packet_list, sinceKey)
      /\ lost = (IF Overflow THEN Dropped(packet_list) ELSE <<>>)
      /\ s = (IF Overflow THEN DropTo(packet_list) ELSE packet_list)
  BY DEF PushWhole, FramesInv, GroupGoes
<1>2. InPushOrder(s)
  <2>1. InPushOrder(a \o (lost \o s)) /\ lost \o s \in Seq(Item)
    BY ConcatProperties DEF FilesInv, AllThere, FrontOf, PushWhole
  <2>2. InPushOrder(lost \o s)
    BY <2>1, OrderConcat
  <2> QED BY <2>2, OrderConcat
<1>3. /\ \A q \in PacketsOf(s) : q \in Frames(k) <=> IsVideo(q)
      /\ \A v \in PacketsOf(lost), q \in PacketsOf(s) : v.n < q.n
      /\ \A q \in PacketsOf(s) \cup PacketsOf(lost) : q.n \in Nat
  <2>1. \A q \in PacketsOf(s) : q \in PacketsOf(accepted[k])
    BY DEF PushKept, Kept
  <2>2. PacketsOf(s) \subseteq Item /\ PacketsOf(lost) \subseteq Item
    BY PacketsConcat
  <2> QED BY <2>1, <2>2, ItemNumber DEF PushKept, Frames
<1>4. \A q : q.kind = "key" => IsVideo(q) /\ q.kind # "delta"
  BY DEF IsVideo
<1>5. CASE Overflow
  <2>1. s = DropTo(packet_list)
    BY <1>1, <1>5
  <2>2. \A d \in PacketsOf(s), v \in PacketsOf(lost) :
          d.kind = "delta" => ~FrameBefore(k, v, d)
    <3> SUFFICES ASSUME NEW d \in PacketsOf(s), NEW v \in PacketsOf(lost),
                        d.kind = "delta", FrameBefore(k, v, d)
                 PROVE  FALSE
      OBVIOUS
    <3>1. PICK y \in PacketsOf(s) : y.kind = "key" /\ (d = y \/ y.n < d.n)
      BY <1>1, <1>2, <2>1, DropHead
    <3>2. y.n < d.n /\ v.n < y.n /\ y \in Frames(k)
      BY <1>3, <1>4, <3>1
    <3> QED BY <3>2 DEF FrameBefore
  <2>3. ASSUME sinceKey \in 1..(Gop - 1), NEW v \in PacketsOf(lost), LastFrame(k, v)
        PROVE  FALSE
    <3>1. VideoCount(packet_list) > MaxVideo
      BY <1>1, <1>5 DEF VideoCountExact, Overflow
    <3>2. \E i \in DOMAIN packet_list : IsSecondKey(packet_list, i)
      BY <1>1, <2>3, <3>1, SecondKey
    <3>3. PICK y \in PacketsOf(s) : y.kind = "key"
      BY <1>1, <1>2, <2>1, <3>2, DropHead
    <3>4. v.n < y.n /\ y \in Frames(k) /\ v.n \in Nat /\ y.n \in Nat
      BY <1>3, <1>4, <2>3, <3>3
    <3>5. ~(y.n <= v.n)
      BY <3>4
    <3> QED BY <2>3, <3>4, <3>5 DEF LastFrame
  <2>4. Spaced(s, sinceKey)
    <3>1. \/ s = <<>>
          \/ \E i \in 1..Len(packet_list) : s = Rest(packet_list, i)
      BY <1>1, <2>1, DropParts DEF Rest
    <3> QED BY <1>1, <3>1, SpacedRest
  <2> QED BY <2>2, <2>3, <2>4
<1>6. CASE ~Overflow
  <2>1. lost = <<>> /\ s = packet_list /\ PacketsOf(lost) = {}
    BY <1>1, <1>6, PacketsOfOne
  <2> QED BY <1>1, <2>1
<1> QED BY <1>5, <1>6

LEMMA PushFrames ==
  ASSUME MuxerInv, MuxerInv', ~failed', VideoCountExact, KeysOften,
         PushVideo \/ PushAudio, FilesInv, FramesInv
  PROVE  FramesInv'
<1>1. PICK kind \in {"key", "delta", "audio"} :
        push_packet(kind) /\ MayFollow(kind, sinceKey, sinceKey')
  BY DEF PushVideo, PushAudio, MayFollow
<1>2. PICK k \in 1..MaxJobs, a \in Seq(Item), lost \in Seq(Item), s \in Seq(Item), p \in Packet :
        PushWhole(kind, k, a, lost, s, p)
  BY <1>1, PushesWhole
<1>3. PushKept(k, a, lost, s, p)
  BY <1>2, PushesKept
<1>4. attached /\ attached' = attached /\ k = jobs /\ jobs' = jobs /\ p.kind = kind /\ p \in Item
  BY <1>1, <1>2 DEF push_packet, PushWhole, Item
<1>5. /\ Spaced(s, sinceKey)
      /\ \A d \in PacketsOf(s), v \in PacketsOf(lost) :
           d.kind = "delta" => ~FrameBefore(k, v, d)
      /\ sinceKey \in 1..(Gop - 1) => \A v \in PacketsOf(lost) : ~LastFrame(k, v)
  BY <1>2, <1>3, <1>4, PushKeepsFrame
<1>6. Frames(k)' = Frames(k) \cup (IF IsVideo(p) THEN {p} ELSE {})
  BY <1>3 DEF PushKept, Frames
<1>7. /\ PacketsOf(Whole(k))' = (PacketsOf(Whole(k)) \ PacketsOf(lost)) \cup {p}
      /\ PacketsOf(Whole(k)) = PacketsOf(a) \cup PacketsOf(lost) \cup PacketsOf(s)
      /\ \A q \in PacketsOf(Whole(k)) : q.n < p.n
      /\ \A q \in Frames(k) : q.n < p.n
      /\ \A q \in PacketsOf(Whole(k)) \cup Frames(k) \cup {p} : q.n \in Nat
  <2>1. PacketsOf(Whole(k)') = PacketsOf(Whole(k))'
    BY DEF PacketsOf
  <2>2. PacketsOf(Whole(k)) \subseteq PacketsOf(accepted[k])
    BY <1>3 DEF PushKept, Kept
  <2>3. \A q \in PacketsOf(accepted[k]) : q \in Item
    BY DEF FilesInv, Numbered, Item
  <2>4. Frames(k) \subseteq PacketsOf(accepted[k])
    BY DEF Frames
  <2> QED BY <1>3, <1>4, <2>1, <2>2, <2>3, <2>4, ItemNumber DEF PushKept, CutOut
<1>8. ASSUME NEW v \in PacketsOf(Whole(k)), LastFrame(k, v), sinceKey \in 1..(Gop - 1)
      PROVE  v \in PacketsOf(Whole(k))'
  BY <1>5, <1>7, <1>8
<1>9. ASSUME NEW d \in PacketsOf(Whole(k))', d.kind = "delta"
      PROVE  (\E v \in PacketsOf(Whole(k)) : FrameBefore(k, v, d))'
  <2>1. CASE d = p
    <3>1. sinceKey \in 1..(Gop - 1)
      BY <1>1, <1>4, <1>9, <2>1 DEF MayFollow
    <3>2. PICK v \in PacketsOf(Whole(k)) : LastFrame(k, v)
      BY <1>4, <3>1 DEF FramesInv, GroupGoes
    <3>3. v \in PacketsOf(Whole(k))'
      BY <1>8, <3>1, <3>2
    <3>4. \A q \in Frames(k) \cup {p} : ~(v.n < q.n /\ q.n < p.n)
      BY <1>7, <3>2 DEF LastFrame
    <3>5. FrameBefore(k, v, d)'
      BY <1>6, <1>7, <2>1, <3>2, <3>4 DEF FrameBefore, LastFrame
    <3> QED BY <3>3, <3>5
  <2>2. CASE d # p
    <3>1. d \in PacketsOf(Whole(k)) /\ d \notin PacketsOf(lost)
      BY <1>7, <1>9, <2>2
    <3>2. PICK v \in PacketsOf(Whole(k)) : FrameBefore(k, v, d)
      BY <1>9, <3>1 DEF FramesInv, Linked
    <3>3. v \notin PacketsOf(lost)
      <4>1. CASE d \in PacketsOf(s)
        BY <1>5, <1>9, <3>2, <4>1
      <4>2. CASE d \in PacketsOf(a)
        <5>1. v.n < d.n /\ ~(d.n < v.n)
          BY <1>7, <3>1, <3>2 DEF FrameBefore
        <5> QED BY <1>3, <4>2, <5>1 DEF PushKept
      <4> QED BY <1>7, <3>1, <4>1, <4>2
    <3>4. ~(p.n < d.n)
      BY <1>7, <3>1
    <3>5. FrameBefore(k, v, d)'
      BY <1>6, <3>2, <3>4 DEF FrameBefore
    <3> QED BY <1>7, <3>2, <3>3, <3>5
  <2> QED BY <2>1, <2>2
<1>10. ASSUME NEW j \in 1..MaxJobs, j # k, NEW d \in PacketsOf(Whole(j))', d.kind = "delta"
       PROVE  (\E v \in PacketsOf(Whole(j)) : FrameBefore(j, v, d))'
  <2>1. PacketsOf(Whole(j))' = PacketsOf(Whole(j)) /\ Frames(j)' = Frames(j)
    BY <1>2, <1>3, <1>10 DEF PushWhole, PushKept, PacketsOf, Frames
  <2> QED BY <1>10, <2>1 DEF FramesInv, Linked, FrameBefore
<1>11. GroupGoes'
  <2>1. packet_list' # NoPtr /\ packet_list' = Append(s, p)
    BY <1>2, <1>4 DEF PushWhole, MuxerInv, ControlInv, ChargeInv, ListThere, AttachedRuns, Busy
  <2>2. sinceKey \in 0..Gop
    BY <1>4 DEF FramesInv, GroupGoes
  <2>3. sinceKey' \in 0..Gop
    BY <1>1, <2>2, ConstantsAssumption DEF MayFollow
  <2>4. Spaced(Append(s, p), sinceKey')
    <3>1. \A d \in Nat :
            (\/ p.kind = "key" /\ d = 1
             \/ p.kind = "delta" /\ sinceKey # 0 /\ d = sinceKey + 1
             \/ p.kind = "audio" /\ d = sinceKey)
            => Spaced(Append(s, p), d)
      BY <1>4, <1>5, <2>2, SpacedAppend
    <3>2. sinceKey' \in Nat /\ (sinceKey \in 1..(Gop - 1) => sinceKey # 0)
      BY <2>3
    <3> QED BY <1>1, <1>4, <3>1, <3>2 DEF MayFollow
  <2>5. ASSUME sinceKey' \in 1..(Gop - 1)
        PROVE  (\E v \in PacketsOf(Whole(k)) : LastFrame(k, v))'
    <3>1. CASE IsVideo(p)
      <4>1. LastFrame(k, p)'
        BY <1>6, <1>7, <3>1 DEF LastFrame
      <4> QED BY <1>7, <4>1
    <3>2. CASE ~IsVideo(p)
      <4>1. kind = "audio" /\ sinceKey' = sinceKey
        BY <1>1, <1>4, <3>2 DEF IsVideo, MayFollow
      <4>2. PICK v \in PacketsOf(Whole(k)) : LastFrame(k, v)
        BY <1>4, <2>5, <4>1 DEF FramesInv, GroupGoes
      <4>3. v \in PacketsOf(Whole(k))'
        BY <1>8, <2>5, <4>1, <4>2
      <4>4. LastFrame(k, v)'
        BY <1>6, <3>2, <4>2 DEF LastFrame
      <4> QED BY <4>3, <4>4
    <3> QED BY <3>1, <3>2
  <2>6. (\E v \in PacketsOf(Whole(k)) : LastFrame(k, v))'
          => (\E v \in PacketsOf(Whole(jobs)) : LastFrame(jobs, v))'
    BY <1>4
  <2> QED BY <2>1, <2>3, <2>4, <2>5, <2>6 DEF GroupGoes
<1> QED BY <1>9, <1>10, <1>11 DEF FramesInv, Linked

FramesSafe == failed \/ FramesInv

LEMMA InitFrames == Init => FramesInv
<1> SUFFICES ASSUME Init PROVE FramesInv
  OBVIOUS
<1>1. ~attached
  BY DEF Init
<1>2. \A j \in 1..MaxJobs : PacketsOf(Whole(j)) = {}
  <2>1. \A j \in 1..MaxJobs : PacketsOf(Whole(j)) \subseteq Kept(j)
    BY InitFiles DEF FilesInv, AllThere, FrontOf
  <2>2. \A j \in 1..MaxJobs : PacketsOf(accepted[j]) = {}
    BY PacketsOfOne DEF Init
  <2> QED BY <2>1, <2>2 DEF Kept
<1> QED BY <1>1, <1>2 DEF FramesInv, Linked, GroupGoes

LEMMA NextFrames ==
  ASSUME KeysOften
  PROVE  MuxerInv /\ MuxerInv' /\ VideoCountExact /\ FilesSafe /\ FramesSafe /\ [Next]_vars
           => FramesSafe'
<1> SUFFICES ASSUME MuxerInv, MuxerInv', VideoCountExact, FilesSafe, FramesSafe,
                    [Next]_vars, ~failed'
             PROVE  FramesInv'
  BY DEF FramesSafe
<1>1. FilesInv /\ FramesInv
  BY FailedStays DEF FilesSafe, FramesSafe
<1> QED BY <1>1, PushFrames, StayFrames

\* A delta frame of a file has the frame before it just before it.
LEMMA FileDecodes ==
  ASSUME MuxerInv, FilesInv, FramesInv, NEW j \in 1..MaxJobs,
         NEW i \in DOMAIN file[j], file[j][i].kind = "delta"
  PROVE  \E k \in 1..(i - 1) :
           /\ file[j][k] \in Frames(j)
           /\ \A m \in (k + 1)..(i - 1) : ~IsVideo(file[j][m])
           /\ \A p \in Frames(j) : ~(file[j][k].n < p.n /\ p.n < file[j][i].n)
<1>1. PICK f \in Seq(Item), s \in Seq(Item) : f = file[j] /\ s = JobPending(j)
  BY HeldTyped DEF MuxerInv, ControlInv, StartInv
<1>2. DOMAIN f = 1..Len(f) /\ Len(f) \in Nat /\ i \in 1..Len(f)
  BY <1>1, LenProperties
<1>3. Whole(j) = f \o s /\ InPushOrder(f \o s) /\ PacketsOf(f \o s) \subseteq PacketsOf(accepted[j])
  BY <1>1 DEF Whole, FilesInv, AllThere, FrontOf, Kept
<1>4. /\ PacketsOf(f \o s) = PacketsOf(f) \cup PacketsOf(s) /\ InPushOrder(f)
      /\ \A q \in PacketsOf(f), r \in PacketsOf(s) : q.n < r.n
      /\ PacketsOf(f) \subseteq Item /\ PacketsOf(s) \subseteq Item
  BY <1>3, PacketsConcat, OrderConcat
<1>5. \A m \in 1..Len(f) : f[m] \in PacketsOf(f) /\ f[m].n \in Nat
  BY <1>2, <1>4, ItemNumber DEF PacketsOf
<1>6. PICK v \in PacketsOf(f) \cup PacketsOf(s) : FrameBefore(j, v, f[i])
  BY <1>1, <1>2, <1>3, <1>4, <1>5 DEF FramesInv, Linked
<1>7. v.n \in Nat /\ v.n < f[i].n
  BY <1>4, <1>6, ItemNumber DEF FrameBefore
<1>8. v \in PacketsOf(f)
  <2>1. ~(f[i].n < v.n)
    BY <1>2, <1>5, <1>7
  <2> QED BY <1>2, <1>4, <1>5, <1>6, <2>1
<1>9. PICK k \in 1..Len(f) : v = f[k]
  BY <1>2, <1>8 DEF PacketsOf
<1>10. \A x, y \in 1..Len(f) : x < y => f[x].n < f[y].n
  BY <1>2, <1>4 DEF InPushOrder
<1>11. k \in 1..(i - 1)
  <2>1. ~(i < k) /\ i # k
    <3>1. ~(f[i].n < f[k].n) /\ ~(f[k].n < f[k].n)
      BY <1>2, <1>5, <1>7, <1>9
    <3> QED BY <1>2, <1>7, <1>9, <1>10, <3>1
  <2> QED BY <1>2, <2>1
<1>12. f[k] \in Frames(j)
  BY <1>3, <1>4, <1>6, <1>8, <1>9 DEF Frames, FrameBefore
<1>13. ASSUME NEW m \in (k + 1)..(i - 1) PROVE ~IsVideo(f[m])
  <2>1. m \in 1..Len(f) /\ k < m /\ m < i
    BY <1>2, <1>11
  <2>2. f[k].n < f[m].n /\ f[m].n < f[i].n
    BY <1>2, <1>10, <2>1
  <2>3. f[m] \in PacketsOf(accepted[j])
    BY <1>3, <1>4, <1>5, <2>1
  <2> QED BY <1>6, <1>9, <2>2, <2>3 DEF FrameBefore, Frames
<1>14. \A q \in Frames(j) : ~(f[k].n < q.n /\ q.n < f[i].n)
  BY <1>6, <1>9 DEF FrameBefore
<1> QED BY <1>1, <1>11, <1>12, <1>13, <1>14

\* When key frames come often enough for the list an overflow never breaks a
\* group of pictures: a delta frame is written only just after the frame before it.
THEOREM DecodableCorrect == KeysOften => (Spec => []Decodable)
<1>1. Spec => []VideoCountExact
  BY CountCorrect
<1>2. Init => FramesSafe
  BY InitFrames DEF FramesSafe
<1>3. KeysOften => (Spec => []FramesSafe)
  <2> SUFFICES ASSUME KeysOften PROVE Spec => []FramesSafe
    OBVIOUS
  <2>1. MuxerInv /\ MuxerInv' /\ VideoCountExact /\ FilesSafe /\ FramesSafe /\ [Next]_vars
          => FramesSafe'
    BY NextFrames
  <2> QED BY <1>1, <1>2, <2>1, FilesAreSafe, PTL DEF Spec
<1>4. MuxerInv /\ FilesSafe /\ FramesSafe => Decodable
  BY FileDecodes DEF Decodable, FilesSafe, FramesSafe
<1> QED BY <1>3, <1>4, FilesAreSafe, PTL

-----------------------------------------------------------------------------
(* A stop is heard.  stop_current_job waits for one notification and the    *)
(* writer for another; both wait without a predicate.  The exit message and *)
(* the empty packet, each the last of its queue, keep the writer in charge  *)
(* from waiting until it has obeyed.                                        *)

ToRead(w) == Reading(w) /\ pc[w] # "take"
ExitQueued == msg_queue # <<>> /\ msg_queue[Len(msg_queue)] = ExitMessage
EmptyQueued == packet_list \notin {NoPtr, <<>>} /\ packet_list[Len(packet_list)] = empty_packet
\* A writer that pops before it looks for messages, or may have to, has the
\* empty packet before it.
MayPop(w) == pc[w] \in {"init", "pop", "woken"} \/ \E j \in 0..MaxJobs : Starting(j)
WakeInv == ctl \in {"waking", "waiting"} /\ ~notified =>
  \A w \in Writers : ToRead(w) =>
    /\ ExitQueued
    /\ ctl = "waiting" => pc[w] # "blocked" /\ (MayPop(w) => EmptyQueued)
WakeSafe == failed \/ WakeInv

\* Writer w can go on: it does not sleep, and finds what its next step takes.
GoesOn(w) == /\ pc[w] # "blocked"
             /\ pc[w] = "getmsg" => msg_queue # <<>>
             /\ pc[w] \in {"pop", "woken"} => packet_list \notin {NoPtr, <<>>}
\* stop_current_job waits for somebody who can go on.
StopHeard == ctl = "waiting" /\ ~notified /\ ~failed =>
  \E w \in Writers : Current(w) /\ GoesOn(w)

\* How many steps a writer takes at most before it answers.
Turn(w) == CASE pc[w] = "init" -> 5
             [] pc[w] \in {"pop", "blocked", "woken"} -> 4
             [] pc[w] = "write" -> 3
             [] pc[w] = "check" -> 2
             [] OTHER -> 1
Length(s) == IF s = NoPtr THEN 0 ELSE Len(s)
Left(w) == CASE ToRead(w) -> 6 * Len(msg_queue) + Turn(w) + Length(packet_list) + 5
             [] pc[w] = "take" -> Length(packet_list) + 4
             [] pc[w] = "drain" -> Len(private[w]) + 3
             [] pc[w] = "tailer" -> 2
             [] OTHER -> 1
\* Each step of the writer that stop_current_job waits for is one of those.
StopAdvances ==
  [][ctl = "waiting" /\ ~notified /\ ~failed' => \A w \in Writers : Current(w) =>
       IF pc'[w] = pc[w] /\ private'[w] = private[w] THEN Left(w)' = Left(w)
       ELSE notified' \/ Left(w)' < Left(w)]_vars

\* A writer leaves the messages only for a START, or when there is none.
LEMMA ReadsAll ==
  ASSUME ControlInv, NEW w \in Writers, WriterFiles(w), WriterCharge(w), WriterMove(w),
         ToRead(w)', ExitQueued
  PROVE  /\ ToRead(w) /\ ExitQueued'
         /\ pc[w] = "getmsg" => pc'[w] = "init"
         /\ pc[w] # "getmsg" => msg_queue' = msg_queue
<1>1. msg_queue \in Seq(Message) /\ exit_id \in Exits /\ exit_id' = exit_id
  BY DEF ControlInv, MuxerType, WriterCharge
<1>2. ToRead(w)
  BY DEF WriterMove, ToRead, Reading
<1>3. pc[w] # "getmsg" => msg_queue' = msg_queue
  BY DEF WriterFiles
<1>4. CASE pc[w] # "getmsg"
  BY <1>1, <1>2, <1>3, <1>4 DEF ExitQueued, ExitMessage
<1>5. CASE pc[w] = "getmsg"
  <2>1. msg_queue' = Tail(msg_queue) /\ msg'[w] = Head(msg_queue)
    <3> SUFFICES ASSUME msg_queue' = msg_queue, pc'[w] # "init" PROVE FALSE
      BY DEF WriterFiles
    <3>1. msg_queue' = <<>>
      BY <1>5 DEF WriterMove, ToRead, Reading
    <3> QED BY <3>1 DEF ExitQueued
  <2>2. Head(msg_queue) = msg_queue[1] /\ 1 \in 1..Len(msg_queue)
    BY <1>1 DEF ExitQueued
  <2>3. Head(msg_queue).id = "START" \/ Head(msg_queue).id \in Exits
    BY <1>1, <2>2 DEF ControlInv, ChargeInv, ExitLast, ExitMessage
  <2>4. pc'[w] = "init"
    <3> SUFFICES ASSUME pc'[w] # "init" PROVE FALSE
      OBVIOUS
    <3>1. pc'[w] = "pop"
      BY <1>5 DEF WriterMove, ToRead, Reading
    <3>2. msg'[w].id = "none"
      BY <3>1 DEF WriterCharge, NoMessage
    <3> QED BY <2>1, <2>3, <3>2 DEF Exits
  <2>5. msg_queue[1].id = "START"
    BY <2>1, <2>2, <2>4 DEF WriterCharge
  <2>6. Len(msg_queue) # 1
    BY <1>1, <2>5 DEF ExitQueued, ExitMessage, Exits
  <2>7. /\ Tail(msg_queue) # <<>>
        /\ Tail(msg_queue)[Len(Tail(msg_queue))] = msg_queue[Len(msg_queue)]
    <3>1. /\ Tail(msg_queue) \in Seq(Message) /\ Len(Tail(msg_queue)) = Len(msg_queue) - 1
          /\ \A i \in 1..(Len(msg_queue) - 1) : Tail(msg_queue)[i] = msg_queue[i + 1]
      BY <1>1, HeadTailProperties DEF ExitQueued
    <3>a. Len(msg_queue) \in Nat /\ Len(msg_queue) # 0
      BY <1>1, EmptySeq DEF ExitQueued
    <3>b. \A n \in Nat : n # 0 /\ n # 1 =>
            n - 1 \in 1..(n - 1) /\ (n - 1) + 1 = n /\ n - 1 # 0
      OBVIOUS
    <3>2. /\ Len(msg_queue) - 1 \in 1..(Len(msg_queue) - 1)
          /\ (Len(msg_queue) - 1) + 1 = Len(msg_queue) /\ Len(msg_queue) - 1 # 0
      BY <3>a, <3>b, <2>6
    <3>3. Tail(msg_queue)[Len(msg_queue) - 1] = msg_queue[(Len(msg_queue) - 1) + 1]
      BY <3>1, <3>2
    <3>4. Tail(msg_queue) # <<>>
      BY <3>1, <3>2
    <3> QED BY <3>1, <3>2, <3>3, <3>4
  <2>8. ExitQueued'
    BY <1>1, <2>1, <2>7 DEF ExitQueued, ExitMessage
  <2> QED BY <1>2, <1>5, <2>4, <2>8
<1> QED BY <1>4, <1>5

LEMMA BlocksOnEmpty ==
  ASSUME NEW w \in Writers, ControlInv, Writer(w), pc'[w] = "blocked"
  PROVE  packet_list = <<>>
<1>1. pc \in [Writers -> WriterStates]
  BY DEF ControlInv, MuxerType
<1> QED BY <1>1 DEF Writer, Check, GetMessage, MuxerInit, MuxerInitFails, TakeList, Notify, Block, Pop,
     Write, Drain, Drained, Tailer, NotifyFlushed, End, Detach, Goto, AfterPop, AfterTake

\* A writer past START has no START before it.
LEMMA PastStart ==
  ASSUME MuxerInv, ~failed, NEW w \in Writers, pc[w] \in {"pop", "blocked", "woken", "write"},
         ctl # "none", NEW j \in 0..MaxJobs
  PROVE  ~Starting(j)
<1>1. Current(w)
  BY DEF Current, Reading
<1>2. out[w] = jobs
  BY <1>1 DEF MuxerInv, JobSafe, JobInv, OpensFirst
<1>3. jobs \in 1..MaxJobs
  BY DEF MuxerInv, ControlInv, ChargeInv, Begun, MuxerType
<1> QED BY <1>2, <1>3 DEF MuxerInv, JobSafe, JobInv, LastStarts, StartInv, OutOnce

LEMMA WriterWake ==
  ASSUME MuxerInv, WakeInv, ~failed, ~failed', NEW w \in Writers, Writer(w)
  PROVE  WakeInv'
<1>1. ControlInv /\ StartInv /\ JobInv
  BY DEF MuxerInv, JobSafe
<1>2. WriterFiles(w) /\ WriterCharge(w) /\ WriterMove(w) /\ WriterLists(w)
  BY <1>1, WriterFilesStep, WriterChargeStep, WriterMoveStep DEF ControlInv
<1>3. ctl' = ctl /\ exit_id' = exit_id /\ (notified => notified')
  BY <1>2 DEF WriterCharge, WriterFiles
<1>4. \A j \in 0..MaxJobs : Starting(j)' => Starting(j)
  BY <1>1, <1>2, WriterStarting DEF StartInv
<1> SUFFICES ASSUME ctl \in {"waking", "waiting"}, ~notified, NEW v \in Writers, ToRead(v)'
             PROVE  /\ ExitQueued'
                    /\ ctl = "waiting" => pc'[v] # "blocked" /\ (MayPop(v)' => EmptyQueued')
  BY <1>3 DEF WakeInv
<1>5. ASSUME ToRead(v)
      PROVE  /\ ExitQueued
             /\ ctl = "waiting" => pc[v] # "blocked" /\ (MayPop(v) => EmptyQueued)
  BY <1>5 DEF WakeInv
<1>6. CASE v # w
  <2>1. pc'[v] = pc[v] /\ ToRead(v) /\ Current(v)
    BY <1>2, <1>6 DEF WriterCharge, ToRead, Reading, Current
  <2>2. ~Current(w)
    BY <1>1, <1>6, <2>1 DEF ControlInv, ChargeInv, OneCurrent
  <2>3. msg_queue' = msg_queue /\ packet_list' = packet_list
    BY <1>2, <2>2 DEF WriterCharge, Current
  <2>4. MayPop(v)' => MayPop(v)
    BY <1>4, <2>1 DEF MayPop
  <2> QED BY <1>3, <1>5, <2>1, <2>3, <2>4 DEF ExitQueued, EmptyQueued, ExitMessage
<1>7. CASE v = w
  <2>1. ToRead(w)
    BY <1>2, <1>7 DEF WriterMove, ToRead, Reading
  <2>2. /\ ExitQueued'
        /\ pc[w] = "getmsg" => pc'[w] = "init"
        /\ pc[w] # "getmsg" => msg_queue' = msg_queue
    BY <1>1, <1>2, <1>5, <1>7, <2>1, ReadsAll
  <2>3. pc'[w] # "blocked" \/ ctl # "waiting"
    <3> SUFFICES ASSUME pc'[w] = "blocked", ctl = "waiting" PROVE FALSE
      OBVIOUS
    <3>1. packet_list = <<>>
      BY <1>1, BlocksOnEmpty
    <3>2. pc[w] = "pop"
      BY <1>2 DEF WriterMove
    <3> QED BY <1>5, <1>7, <2>1, <3>1, <3>2 DEF MayPop, EmptyQueued
  <2>4. ASSUME ctl = "waiting", MayPop(w)' PROVE EmptyQueued'
    <3>1. pc[w] \notin {"pop", "blocked", "woken", "write"}
      <4> SUFFICES ASSUME pc[w] \in {"pop", "blocked", "woken", "write"} PROVE FALSE
        OBVIOUS
      <4>1. \A j \in 0..MaxJobs : ~Starting(j)'
        BY <1>4, PastStart
      <4>2. pc'[w] \in {"init", "pop", "woken"}
        BY <2>4, <4>1 DEF MayPop
      <4> QED BY <1>2, <4>2 DEF WriterMove
    <3>2. MayPop(w)
      <4>1. CASE pc[w] = "getmsg"
        <5>1. pc'[w] = "init" /\ msg'[w] = Head(msg_queue) /\ Head(msg_queue) = msg_queue[1]
              /\ 1 \in 1..Len(msg_queue) /\ msg_queue \in Seq(Message)
          BY <4>1, <1>1, <1>2, <2>2, <1>5, <1>7, <2>1
             DEF WriterFiles, ExitQueued, ControlInv, MuxerType
        <5>2. msg_queue[1].id = "START" /\ msg_queue[1] \in Message
          BY <1>2, <5>1 DEF WriterCharge
        <5>3. PICK j \in 0..MaxJobs : msg_queue[1].job = j
          BY <5>2 DEF Message
        <5>4. msg_queue[1] = StartOf(j)
          BY <5>2, <5>3 DEF Message, StartOf
        <5> QED BY <5>1, <5>4 DEF MayPop, Starting
      <4>2. CASE pc[w] = "check"
        BY <4>2, <1>2, <1>4, <2>4 DEF MayPop, WriterMove
      <4>3. CASE pc[w] = "init"
        BY <4>3 DEF MayPop
      <4> QED BY <4>1, <4>2, <4>3, <3>1, <2>1 DEF ToRead, Reading
    <3>3. packet_list' = packet_list
      BY <1>2, <3>1, <2>1 DEF WriterLists, ToRead, Reading
    <3> QED BY <1>5, <1>7, <2>1, <2>4, <3>2, <3>3 DEF EmptyQueued
  <2> QED BY <1>7, <2>2, <2>3, <2>4
<1> QED BY <1>6, <1>7

LEMMA ControlWake ==
  ASSUME MuxerInv, WakeInv, Control
  PROVE  WakeInv'
<1> USE DEF WakeInv
<1>0. ControlInv /\ MuxerType
  BY DEF MuxerInv, ControlInv
<1>1. CASE StopPost
  <2>1. /\ ctl' = "waking" /\ msg_queue' = Append(msg_queue, ExitMessage)
        /\ exit_id' = exit_id /\ msg_queue \in Seq(Message) /\ ExitMessage \in Message
    <3>1. exit_id \in Exits /\ msg_queue \in Seq(Message)
      BY <1>0 DEF MuxerType
    <3>2. ExitMessage \in Message
      BY <3>1, ConstantsAssumption DEF Message, ExitMessage
    <3> QED BY <1>1, <3>1, <3>2 DEF StopPost, ExitMessage
  <2>2. ExitQueued'
    BY <2>1, AppendProperties DEF ExitQueued, ExitMessage
  <2> QED BY <2>1, <2>2
<1>2. CASE StopWake
  <2>1. /\ ctl = "waking" /\ ctl' = "waiting" /\ WritersStay /\ pc' = WakeWriter
        /\ packet_list' = Append(packet_list, empty_packet) /\ packet_list \in Seq(Item)
        /\ UNCHANGED <<msg_queue, exit_id, notified>>
    BY <1>0, <1>2 DEF StopWake, WithEmptyPacket, WritersStay, MuxerType
  <2>2. /\ Append(packet_list, empty_packet) \in Seq(Item)
        /\ Len(Append(packet_list, empty_packet)) = Len(packet_list) + 1
        /\ Append(packet_list, empty_packet)[Len(packet_list) + 1] = empty_packet
        /\ Len(packet_list) \in Nat
    BY <2>1, AppendProperties DEF Item
  <2>3. EmptyQueued'
    BY <2>1, <2>2, ListsTyped DEF EmptyQueued
  <2>4. \A v \in Writers : pc'[v] # "blocked" /\ (ToRead(v)' => ToRead(v))
    BY <2>1 DEF WakeWriter, ToRead, Reading
  <2> QED BY <2>1, <2>3, <2>4 DEF ExitQueued, ExitMessage
<1>3. CASE ~StopPost /\ ~StopWake
  <2>1. ctl' \notin {"waking", "waiting"}
    BY <1>3 DEF Control, InitUri, StartPublish, StopCheck, StopWakeNull, StopReturn,
       DeleteBegin, SyncJoin, Destroy, StartCreate, SyncPick
  <2> QED BY <2>1
<1> QED BY <1>1, <1>2, <1>3

LEMMA NextWake == MuxerInv /\ WakeSafe /\ [Next]_vars => WakeSafe'
<1> SUFFICES ASSUME MuxerInv, WakeInv, [Next]_vars, ~failed, ~failed' PROVE WakeInv'
  BY FailedStays DEF WakeSafe
<1>1. CASE Control
  BY <1>1, ControlWake
<1>2. ASSUME NEW g \in {"restart", "delete"}, StopRequest(g)
      PROVE  WakeInv'
  BY <1>2 DEF StopRequest, WakeInv
<1>3. CASE PushVideo \/ PushAudio
  BY <1>3 DEF PushVideo, PushAudio, push_packet, WakeInv, MuxerInv, ControlInv, ChargeInv,
     AttachedRuns
<1>4. ASSUME NEW w \in Writers, Writer(w)
      PROVE  WakeInv'
  BY <1>4, WriterWake
<1>5. CASE UNCHANGED vars
  BY <1>5 DEF vars, muxerVars, ctlVars, writerVars, WakeInv, ToRead, Reading, MayPop, Starting,
     ExitQueued, ExitMessage, EmptyQueued
<1> QED BY <1>1, <1>2, <1>3, <1>4, <1>5 DEF Next, Done

LEMMA WakeIsSafe == Spec => [](MuxerInv /\ WakeSafe)
<1>1. Init => WakeSafe
  BY DEF Init, WakeSafe, WakeInv
<1> QED BY <1>1, InitMuxer, NextMuxer, NextWake, PTL DEF Spec

\* No wake-up is lost: as long as stop_current_job waits, and no writer has
\* failed, the writer it waits for can go on.
THEOREM StopIsHeard == Spec => []StopHeard
<1>1. MuxerInv /\ WakeSafe => StopHeard
  <2> SUFFICES ASSUME MuxerInv, WakeInv, ctl = "waiting", ~notified, ~failed
               PROVE  \E w \in Writers : Current(w) /\ GoesOn(w)
    BY DEF StopHeard, WakeSafe
  <2>1. PICK w \in Writers : Current(w)
    BY DEF MuxerInv, JobSafe, JobInv, StillCurrent, Unanswered
  <2>2. ToRead(w) => GoesOn(w)
    BY DEF WakeInv, GoesOn, MayPop, ExitQueued, EmptyQueued
  <2>3. ~ToRead(w) => GoesOn(w)
    BY DEF GoesOn, ToRead, Reading
  <2> QED BY <2>1, <2>2, <2>3
<1> QED BY <1>1, WakeIsSafe, PTL

LeftParts == \A w \in Writers :
  /\ ToRead(w) => Left(w) = 6 * Len(msg_queue) + Turn(w) + Length(packet_list) + 5
  /\ pc[w] = "take" => Left(w) = Length(packet_list) + 4
  /\ pc[w] = "drain" => Left(w) = Len(private[w]) + 3
  /\ pc[w] = "tailer" => Left(w) = 2
  /\ pc[w] \in {"notify", "flushed"} => Left(w) = 1
LEMMA LeftIs == LeftParts
<1> SUFFICES ASSUME NEW w \in Writers
             PROVE  /\ ToRead(w) =>
                         Left(w) = 6 * Len(msg_queue) + Turn(w) + Length(packet_list) + 5
                    /\ pc[w] = "take" => Left(w) = Length(packet_list) + 4
                    /\ pc[w] = "drain" => Left(w) = Len(private[w]) + 3
                    /\ pc[w] = "tailer" => Left(w) = 2
                    /\ pc[w] \in {"notify", "flushed"} => Left(w) = 1
  BY DEF LeftParts
<1> DEFINE all == 6 * Len(msg_queue) + Turn(w) + Length(packet_list) + 5
           rest == Length(packet_list) + 4
           own == Len(private[w]) + 3
<1>1. Left(w) = CASE ToRead(w) -> all [] pc[w] = "take" -> rest [] pc[w] = "drain" -> own
                  [] pc[w] = "tailer" -> 2 [] OTHER -> 1
  BY DEF Left
<1>2. /\ ToRead(w) => pc[w] \notin {"take", "drain", "tailer"}
      /\ pc[w] \in {"take", "drain", "tailer", "notify", "flushed"} => ~ToRead(w)
  BY DEF ToRead, Reading
<1> HIDE DEF all, rest, own
<1>3. /\ ToRead(w) => Left(w) = all
      /\ pc[w] = "take" => Left(w) = rest
      /\ pc[w] = "drain" => Left(w) = own
      /\ pc[w] = "tailer" => Left(w) = 2
      /\ pc[w] \in {"notify", "flushed"} => Left(w) = 1
  BY <1>1, <1>2
<1> QED BY <1>3 DEF all, rest, own

LEMMA LeftNext == LeftParts'
BY LeftIs, PTL

LEMMA LengthTyped ==
  /\ Length(NoPtr) = 0
  /\ \A s \in Seq(Item) : Length(s) = Len(s) /\ Length(s) \in Nat
BY ListsTyped DEF Length

\* Each step of the writer leaves it less to do.
LEMMA WriterAdvances ==
  ASSUME MuxerInv, WakeInv, ctl = "waiting", ~notified, ~failed', ~failed,
         NEW w \in Writers, Current(w), Writer(w), ~notified'
  PROVE  Left(w)' < Left(w)
<1>1. ControlInv /\ StartInv /\ JobInv
  BY DEF MuxerInv, JobSafe
<1>2. WriterFiles(w) /\ WriterCharge(w) /\ WriterMove(w) /\ WriterLists(w)
  BY <1>1, WriterFilesStep, WriterChargeStep, WriterMoveStep DEF ControlInv
<1>3. /\ msg_queue \in Seq(Message) /\ packet_list \in Seq(Item) \cup {NoPtr}
      /\ private[w] \in Seq(Item)
      /\ Len(msg_queue) \in Nat /\ Length(packet_list) \in Nat /\ Len(private[w]) \in Nat
  BY <1>1, LengthTyped DEF ControlInv, MuxerType
<1>4. Turn(w) \in 1..5 /\ Turn(w)' \in 1..5
  BY DEF Turn
<1>5. CASE ToRead(w)
  <2>0. ExitQueued /\ pc[w] # "blocked"
    BY <1>5 DEF WakeInv
  <2>l. /\ Left(w) = 6 * Len(msg_queue) + Turn(w) + Length(packet_list) + 5
        /\ ToRead(w)' =>
             Left(w)' = 6 * Len(msg_queue') + Turn(w)' + Length(packet_list') + 5
    BY <1>5, LeftIs, LeftNext DEF LeftParts
  <2>1. CASE pc[w] = "getmsg" /\ ToRead(w)'
    <3>1. pc'[w] = "init" /\ packet_list' = packet_list
      BY <1>1, <1>2, <2>0, <2>1, ReadsAll DEF WriterLists
    <3>2. msg_queue' = Tail(msg_queue) /\ Len(msg_queue') = Len(msg_queue) - 1
      BY <1>2, <1>3, <2>0, <3>1 DEF WriterFiles
    <3>3. Turn(w)' = 5 /\ Turn(w) = 1
      BY <2>1, <3>1 DEF Turn
    <3>4. \A n, k \in Nat : 6 * (n - 1) + 5 + k + 5 < 6 * n + 1 + k + 5
      OBVIOUS
    <3> QED BY <1>3, <2>1, <2>l, <3>1, <3>2, <3>3, <3>4
  <2>2. CASE pc[w] # "getmsg" /\ ToRead(w)'
    <3>1. msg_queue' = msg_queue
      BY <1>2, <2>2 DEF WriterFiles
    <3>2. Length(packet_list') <= Length(packet_list)
      <4>1. \/ packet_list' = packet_list
            \/ packet_list \in Seq(Item) /\ packet_list # <<>> /\ packet_list' = Tail(packet_list)
        BY <1>2, <1>5 DEF WriterLists, ToRead
      <4>2. ASSUME packet_list \in Seq(Item), packet_list # <<>>
            PROVE  Tail(packet_list) \in Seq(Item) /\ Len(Tail(packet_list)) <= Len(packet_list)
        BY <4>2
      <4>3. CASE packet_list' = packet_list
        BY <1>3, <4>3
      <4>4. CASE packet_list \in Seq(Item) /\ packet_list # <<>> /\ packet_list' = Tail(packet_list)
        BY <4>2, <4>4, LengthTyped
      <4> QED BY <4>1, <4>3, <4>4
    <3>3. Turn(w)' < Turn(w)
      <4>1. pc'[w] # "blocked" \/ packet_list = <<>>
        BY <1>1, BlocksOnEmpty
      <4>2. pc'[w] # "blocked"
        BY <1>2, <1>5, <4>1 DEF WakeInv, MayPop, EmptyQueued, WriterMove
      <4> QED BY <1>2, <1>5, <2>0, <2>2, <4>2 DEF WriterMove, Turn, ToRead, Reading
    <3>4. \A n, k, m \in Nat : \A t, u \in 1..5 :
            k <= m /\ t < u => 6 * n + t + k + 5 < 6 * n + u + m + 5
      OBVIOUS
    <3>5. Length(packet_list') \in Nat
      <4>1. packet_list' \in Seq(Item) \cup {NoPtr}
        BY <1>1, WriterType DEF ControlInv, MuxerType
      <4> QED BY <4>1, LengthTyped
    <3> QED BY <1>3, <1>4, <2>2, <2>l, <3>1, <3>2, <3>3, <3>4, <3>5
  <2>3. CASE ~ToRead(w)'
    <3>1. pc[w] = "getmsg" /\ pc'[w] \in {"take", "notify"} /\ packet_list' = packet_list
      BY <1>2, <1>5, <2>3, <2>0 DEF WriterMove, WriterLists, ToRead, Reading
    <3>2. Left(w)' = Length(packet_list) + 4 \/ Left(w)' = 1
      BY <3>1, LeftNext DEF LeftParts
    <3>3. \A n, k \in Nat : \A t \in 1..5 : k + 4 < 6 * n + t + k + 5 /\ 1 < 6 * n + t + k + 5
      OBVIOUS
    <3> QED BY <1>3, <1>4, <2>l, <3>2, <3>3
  <2> QED BY <2>1, <2>2, <2>3
<1>6. CASE pc[w] = "take"
  <2>1. /\ packet_list \in Seq(Item) /\ private'[w] = packet_list
        /\ pc'[w] \in {"notify", "drain"}
    BY <1>2, <1>6 DEF WriterMove, WriterLists
  <2>2. Left(w) = Len(packet_list) + 4
    BY <1>6, <2>1, LengthTyped, LeftIs DEF LeftParts
  <2>3. Left(w)' = Len(packet_list) + 3 \/ Left(w)' = 1
    BY <2>1, LeftNext DEF LeftParts
  <2>4. Len(packet_list) \in Nat
    BY <2>1
  <2> QED BY <2>2, <2>3, <2>4
<1>7. CASE pc[w] = "drain"
  <2>1. Left(w) = Len(private[w]) + 3
    BY <1>7, LeftIs DEF LeftParts
  <2>2. CASE pc'[w] = "tailer"
    <3>1. Left(w)' = 2
      BY <2>2, LeftNext DEF LeftParts
    <3> QED BY <1>3, <2>1, <3>1
  <2>3. CASE pc'[w] = "drain"
    <3>1. private[w] # <<>> /\ private'[w] = Tail(private[w])
      BY <1>2, <1>7, <2>3 DEF WriterLists
    <3>2. Left(w)' = Len(private'[w]) + 3
      BY <2>3, LeftNext DEF LeftParts
    <3>3. Len(Tail(private[w])) = Len(private[w]) - 1
      BY <1>3, <3>1
    <3> QED BY <1>3, <2>1, <3>1, <3>2, <3>3
  <2> QED BY <1>2, <1>7, <2>2, <2>3 DEF WriterMove
<1>8. CASE pc[w] = "tailer"
  <2>1. pc'[w] = "flushed"
    BY <1>2, <1>8 DEF WriterMove, Current, Reading, Answering, Flushing
  <2>2. Left(w) = 2 /\ Left(w)' = 1
    BY <1>8, <2>1, LeftIs, LeftNext DEF LeftParts
  <2> QED BY <2>2
<1>9. CASE pc[w] \in {"notify", "flushed"}
  BY <1>2, <1>9 DEF WriterMove
<1> QED BY <1>5, <1>6, <1>7, <1>8, <1>9 DEF Current, Reading, Answering, Flushing, ToRead

\* Only the writers go on while stop_current_job waits.
LEMMA WaitingNext ==
  ASSUME ControlInv, ctl = "waiting", ~notified, [Next]_vars
  PROVE  (\E v \in Writers : Writer(v)) \/ UNCHANGED vars
<1>1. CASE Control
  BY <1>1 DEF Control, InitUri, StartPublish, StopCheck, StopPost, StopWake, StopWakeNull,
     StopReturn, DeleteBegin, SyncJoin, Destroy, StartCreate, SyncPick
<1>2. ASSUME NEW g \in {"restart", "delete"}, StopRequest(g) PROVE FALSE
  BY <1>2 DEF StopRequest
<1>3. CASE PushVideo \/ PushAudio
  BY <1>3 DEF PushVideo, PushAudio, push_packet, ControlInv, ChargeInv, AttachedRuns
<1> QED BY <1>1, <1>2, <1>3 DEF Next, Done

LEMMA LeftStays ==
  ASSUME NEW w \in Writers, Current(w), pc'[w] = pc[w], private'[w] = private[w],
         UNCHANGED <<msg_queue, packet_list>>
  PROVE  Left(w)' = Left(w)
<1>1. Turn(w)' = Turn(w) /\ (ToRead(w)' <=> ToRead(w))
  BY DEF Turn, ToRead, Reading
<1>2. ToRead(w) \/ pc[w] \in {"take", "drain", "tailer", "notify", "flushed"}
  BY DEF Current, ToRead, Reading, Answering, Flushing
<1> QED BY <1>1, <1>2, LeftIs, LeftNext DEF LeftParts

\* While stop_current_job waits nobody sends the writer anything more, and each
\* of its steps brings the answer nearer, whatever the other writers do: it comes
\* after Left(w) steps at most, or a writer fails.
THEOREM StopAdvance == Spec => StopAdvances
<1>1. ASSUME MuxerInv, WakeSafe, [Next]_vars, ctl = "waiting", ~notified, ~failed',
             NEW w \in Writers, Current(w)
      PROVE  IF pc'[w] = pc[w] /\ private'[w] = private[w] THEN Left(w)' = Left(w)
             ELSE notified' \/ Left(w)' < Left(w)
  <2>0. ControlInv /\ WakeInv /\ ~failed
    BY <1>1, FailedStays DEF WakeSafe, MuxerInv
  <2>1. CASE UNCHANGED vars
    <3>1. UNCHANGED <<pc, private, msg_queue, packet_list>>
      BY <2>1 DEF vars, muxerVars, writerVars
    <3> QED BY <1>1, <3>1, LeftStays
  <2>2. ASSUME NEW v \in Writers, v # w, Writer(v)
        PROVE  /\ pc'[w] = pc[w] /\ private'[w] = private[w]
               /\ UNCHANGED <<msg_queue, packet_list>>
    <3>1. WriterCharge(v) /\ WriterLists(v)
      BY <1>1, <2>0, <2>2, WriterChargeStep, WriterMoveStep DEF ControlInv
    <3>2. ~Current(v)
      BY <1>1, <2>0, <2>2 DEF ControlInv, ChargeInv, OneCurrent
    <3> QED BY <2>2, <3>1, <3>2 DEF WriterCharge, WriterLists, Current
  <2>3. CASE Writer(w)
    <3>1. WriterMove(w) /\ WriterLists(w) /\ private[w] \in Seq(Item)
      BY <1>1, <2>0, <2>3, WriterMoveStep DEF ControlInv, MuxerType
    <3>2. ~(pc'[w] = pc[w] /\ private'[w] = private[w])
      <4> SUFFICES ASSUME pc'[w] = pc[w], private'[w] = private[w] PROVE FALSE
        OBVIOUS
      <4>1. pc[w] = "drain"
        BY <3>1 DEF WriterMove
      <4>2. private[w] # <<>> /\ private'[w] = Tail(private[w])
        BY <3>1, <4>1 DEF WriterLists
      <4>3. Len(Tail(private[w])) # Len(private[w])
        BY <3>1, <4>2
      <4>4. Tail(private[w]) = private[w]
        BY <4>2
      <4> QED BY <4>3, <4>4, Zenon
    <3> QED BY <1>1, <2>0, <2>3, <3>2, WriterAdvances
  <2> QED BY <1>1, <2>0, <2>1, <2>2, <2>3, WaitingNext, LeftStays
<1>2. MuxerInv /\ WakeSafe /\ [Next]_vars =>
        (ctl = "waiting" /\ ~notified /\ ~failed' => \A w \in Writers : Current(w) =>
           IF pc'[w] = pc[w] /\ private'[w] = private[w] THEN Left(w)' = Left(w)
           ELSE notified' \/ Left(w)' < Left(w))
  BY <1>1
<1> QED BY <1>2, WakeIsSafe, PTL DEF StopAdvances, Spec

\* A deletion does not wait for a writer that waits: when the destructor joins,
\* each writer that still runs has only its own packets to write, a file to close
\* and itself to remove, also after a failed start.
DeleteHeard == ctl \in {"syncing", "joining"} =>
  \A w \in Writers : Live(w) => pc[w] \in {"drain", "tailer", "end"}

THEOREM DeleteIsHeard == Spec => []DeleteHeard
<1>1. ControlInv => DeleteHeard
  <2> SUFFICES ASSUME ControlInv, ctl \in {"syncing", "joining"}, NEW w \in Writers, Live(w)
               PROVE  pc[w] \in {"drain", "tailer", "end"}
    BY DEF DeleteHeard
  <2>1. ~Current(w)
    BY DEF ControlInv, ChargeInv, NoneCurrent, Quiet
  <2>2. pc[w] \in WriterStates
    BY DEF ControlInv, MuxerType
  <2>3. pc[w] # "flushed"
    BY <2>1 DEF ControlInv, ChargeInv, StateMsg, Current, Answering, Flushing
  <2> QED BY <2>1, <2>2, <2>3 DEF Live, Current, Reading, Answering, WriterStates
<1>2. Init => ControlInv
  BY InitDelete, InitCharge DEF ControlInv
<1> QED BY <1>1, <1>2, NextControl, PTL DEF Spec

=============================================================================
