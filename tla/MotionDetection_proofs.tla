----------------------- MODULE MotionDetection_proofs -----------------------
(***************************************************************************)
(* Two properties of the recording by motion, whatever the number of       *)
(* processors and of frames that are judged together: the dispatcher knows *)
(* no deleted processor, and at the low rate nothing is recorded.          *)
(*                                                                         *)
(* The invariants follow the messages: an ATTACH or a DETACH is that of    *)
(* the processor there is, START and STOP say what the file does not know  *)
(* yet, and behind a LOW comes a NORMAL when the recording goes on.        *)
(***************************************************************************)
EXTENDS MotionDetection, FiniteSetTheorems, FunctionTheorems, TLAPS

Ids == {"ATTACH", "DETACH", "LOW", "NORMAL", "START", "STOP"}
Message == [id : Ids, p : Nat]
CallingBack == {"work", "start", "rate", "ratestop", "stop", "stopping"}

MotionType ==
  /\ md_process \in Nat /\ made \in Nat /\ md_process <= made
  /\ client \in {"idle", "detaching", "delete", "stopping"}
  /\ msgs \in Seq(Message) /\ \A i \in DOMAIN msgs : msgs[i].p <= made
  /\ answered \subseteq Sync /\ low_frame_rate \in -1..1
  /\ recording \in BOOLEAN /\ camerafile \in BOOLEAN
  /\ MD_PROCESSING_FLAG = (md_process # Nothing)

Once(id) == \A i, j \in DOMAIN msgs : msgs[i].id = id /\ msgs[j].id = id => i = j

\* The loop holds list_mutex while it calls processors.
Calling == loop \in CallingBack => list_mutex = Loop /\ handlers # {}

\* The processor that the dispatcher knows, or will.
Attaching ==
  /\ handlers \subseteq {md_process} \ {Nothing}
  /\ Once("ATTACH")
  /\ \A i \in DOMAIN msgs : msgs[i].id = "ATTACH" =>
       client = "idle" /\ md_process # Nothing /\ msgs[i].p = md_process /\ handlers = {}

\* The client waits for its DETACH, and deletes what the dispatcher does not know.
Detaching ==
  /\ Once("DETACH")
  /\ \A i \in DOMAIN msgs : msgs[i].id = "DETACH" =>
       client = "detaching" /\ msgs[i].p = md_process /\ "DETACH" \notin answered
  /\ "DETACH" \in answered => client = "detaching"
  /\ "DETACH" \in answered \/ client = "delete" => handlers = {}
  /\ client \in {"detaching", "delete"} => md_process # Nothing
  /\ client = "stopping" => md_process = Nothing

HandlerInv == MotionType /\ Calling /\ Attaching /\ Detaching

\* What the file knows of the recording, and what the queue has of it.
Stopping == client = "stopping" \/ loop = "stopping"
FileFollows ==
  /\ Once("START") /\ Once("STOP")
  /\ \A i \in DOMAIN msgs : msgs[i].id = "START" => recording /\ ~camerafile /\ ~Stopping
  /\ \A i \in DOMAIN msgs : msgs[i].id = "STOP" => recording /\ Stopping /\ "STOP" \notin answered
  /\ "STOP" \in answered => recording /\ ~camerafile /\ Stopping
  /\ Stopping => Pending("STOP") \/ "STOP" \in answered
  /\ ~Pending("START") /\ "STOP" \notin answered => (camerafile <=> recording)

\* Whoever records has said so, or is about to, after he said that the rate is low.
Normal(j) == msgs[j].id = "NORMAL" /\ msgs[j].p = md_process
RateFollows ==
  md_process # Nothing /\ recording /\ loop \notin {"rate", "stop", "stopping"} =>
    /\ low_frame_rate = 1 => \E j \in DOMAIN msgs : Normal(j)
    /\ \A i \in DOMAIN msgs : msgs[i].id = "LOW" /\ msgs[i].p = md_process =>
         \E j \in DOMAIN msgs : i < j /\ Normal(j)

RecordInv == FileFollows /\ RateFollows


-----------------------------------------------------------------------------
(* The message queue.                                                      *)

\* The messages at the places L are gone, the others keep their order.
Shrinks(L) ==
  /\ msgs' \in Seq(Message) /\ \A i \in DOMAIN msgs' : msgs'[i].p <= made
  /\ \A i \in DOMAIN msgs' : \E k \in DOMAIN msgs \ L :
       /\ msgs'[i] = msgs[k]
       /\ \A j \in DOMAIN msgs \ L : k < j =>
            \E l \in DOMAIN msgs' : i < l /\ msgs'[l] = msgs[j]
  /\ \A j \in DOMAIN msgs \ L : \E l \in DOMAIN msgs' : msgs'[l] = msgs[j]
  /\ \A i, j \in DOMAIN msgs' : i # j =>
       \E k, l \in DOMAIN msgs \ L : k # l /\ msgs'[i] = msgs[k] /\ msgs'[j] = msgs[l]

LEMMA ShrinksBy ==
  ASSUME MotionType, NEW L, NEW n \in Nat, NEW f \in [1..n -> DOMAIN msgs \ L],
         \A i, j \in 1..n : i < j => f[i] < f[j],
         \A j \in DOMAIN msgs \ L : \E l \in 1..n : f[l] = j,
         msgs' = [i \in 1..n |-> msgs[f[i]]]
  PROVE  Shrinks(L)
<1> HIDE DEF Message
<1>1. msgs \in Seq(Message) /\ DOMAIN msgs \subseteq Nat /\ \A i \in DOMAIN msgs : msgs[i] \in Message
  BY DEF MotionType
<1>2. /\ DOMAIN msgs' = 1..n /\ \A i \in 1..n : msgs'[i] = msgs[f[i]] /\ f[i] \in DOMAIN msgs \ L
  OBVIOUS
<1>3. msgs' \in Seq(Message)
  BY <1>1, <1>2
<1>4. \A i \in DOMAIN msgs' : msgs'[i].p <= made
  BY <1>2 DEF MotionType
<1>5. \A i, j \in 1..n : i # j => f[i] # f[j]
  BY <1>1, <1>2
<1>6. ASSUME NEW i \in DOMAIN msgs'
      PROVE  \E k \in DOMAIN msgs \ L :
               /\ msgs'[i] = msgs[k]
               /\ \A j \in DOMAIN msgs \ L : k < j =>
                    \E l \in DOMAIN msgs' : i < l /\ msgs'[l] = msgs[j]
  <2>1. ASSUME NEW j \in DOMAIN msgs \ L, f[i] < j
        PROVE  \E l \in DOMAIN msgs' : i < l /\ msgs'[l] = msgs[j]
    <3>1. PICK l \in 1..n : f[l] = j
      BY <2>1
    <3>2. i < l
      <4>1. ~(l < i) /\ l # i
        BY <1>1, <1>2, <2>1, <3>1
      <4> QED BY <1>2, <4>1
    <3> QED BY <1>2, <3>1, <3>2
  <2> QED BY <1>2, <2>1
<1>7. \A j \in DOMAIN msgs \ L : \E l \in DOMAIN msgs' : msgs'[l] = msgs[j]
  BY <1>2
<1>8. \A i, j \in DOMAIN msgs' : i # j =>
        \E k, l \in DOMAIN msgs \ L : k # l /\ msgs'[i] = msgs[k] /\ msgs'[j] = msgs[l]
  BY <1>2, <1>5
<1> QED BY <1>3, <1>4, <1>6, <1>7, <1>8 DEF Shrinks

\* remove_message_of_id takes exactly the messages of that id.
LEMMA TakesBack ==
  ASSUME MotionType, NEW id, TakeBack(id)
  PROVE  Shrinks({i \in DOMAIN msgs : msgs[i].id = id})
<1> DEFINE others == {i \in DOMAIN msgs : msgs[i].id # id}
           n == Cardinality(others)
           L == {i \in DOMAIN msgs : msgs[i].id = id}
<1>1. IsFiniteSet(others) /\ n \in Nat
  <2>1. msgs \in Seq(Message)
    BY DEF MotionType
  <2>2. IsFiniteSet(DOMAIN msgs)
    BY <2>1, FS_Interval
  <2> QED BY <2>2, FS_Subset, FS_CardinalityType
<1>2. PICK f \in [1..n -> others] :
        /\ \A i, j \in DOMAIN f : i < j => f[i] < f[j]
        /\ msgs' = [i \in DOMAIN f |-> msgs[f[i]]]
  BY Zenon DEF TakeBack
<1>3. others = DOMAIN msgs \ L /\ others \subseteq Nat
  BY DEF MotionType
<1> HIDE DEF others, L, n
<1>4. \A i, j \in 1..n : i < j => f[i] < f[j]
  BY <1>2
<1>5. \A j \in others : \E l \in 1..n : f[l] = j
  <2>1. f \in Injection(1..n, others)
    BY <1>1, <1>2, <1>3, <1>4 DEF Injection, IsInjective
  <2>2. Cardinality(1..n) = Cardinality(others)
    BY <1>1, FS_Interval DEF n
  <2>3. f \in Surjection(1..n, others)
    BY <1>1, <2>1, <2>2, FS_Injection
  <2> QED BY <2>3 DEF Surjection
<1>6. msgs' = [i \in 1..n |-> msgs[f[i]]]
  BY <1>2
<1>7. Shrinks(L)
  BY <1>1, <1>2, <1>3, <1>4, <1>5, <1>6, ShrinksBy
<1> QED BY <1>7 DEF L

\* The camera thread takes the first message.
LEMMA Takes ==
  ASSUME MotionType, NEW id, Handle(id)
  PROVE  /\ msgs # <<>> /\ 1 \in DOMAIN msgs /\ msgs[1].id = id /\ Head(msgs) = msgs[1]
         /\ Shrinks({1})
         /\ answered' = answered \cup ({id} \cap Sync)
<1> HIDE DEF Message
<1>1. msgs \in Seq(Message) /\ msgs # <<>> /\ msgs' = Tail(msgs) /\ Head(msgs).id = id
  BY DEF Handle, MotionType
<1>2. /\ Len(msgs) \in Nat \ {0} /\ DOMAIN msgs = 1..Len(msgs) /\ 1 \in DOMAIN msgs
      /\ Head(msgs) = msgs[1]
  BY <1>1
<1> DEFINE n == Len(msgs) - 1
           f == [i \in 1..n |-> i + 1]
<1>3. n \in Nat /\ f \in [1..n -> DOMAIN msgs \ {1}]
  BY <1>2
<1>4. msgs' = [i \in 1..n |-> msgs[f[i]]]
  <2>1. msgs' \in Seq(Message) /\ Len(msgs') = n /\ \A i \in 1..n : msgs'[i] = msgs[i + 1]
    BY <1>1, <1>2
  <2>2. \A i \in 1..n : f[i] = i + 1
    OBVIOUS
  <2>3. msgs' = [i \in 1..n |-> msgs'[i]]
    BY <2>1
  <2> HIDE DEF n, f
  <2>4. [i \in 1..n |-> msgs'[i]] = [i \in 1..n |-> msgs[f[i]]]
    BY <2>1, <2>2
  <2> QED BY <2>3, <2>4
<1>5. \A j \in DOMAIN msgs \ {1} : j - 1 \in 1..n /\ f[j - 1] = j
  BY <1>2
<1>6. \A j \in DOMAIN msgs \ {1} : \E l \in 1..n : f[l] = j
  BY <1>5
<1>7. \A i, j \in 1..n : i < j => f[i] < f[j]
  OBVIOUS
<1> HIDE DEF f, n
<1>8. Shrinks({1})
  BY <1>3, <1>4, <1>6, <1>7, ShrinksBy
<1> QED BY <1>1, <1>2, <1>8 DEF Handle, Notified

\* A message is appended.
LEMMA Grows ==
  ASSUME MotionType, NEW m \in Message, msgs' = Append(msgs, m)
  PROVE  /\ msgs' \in Seq(Message) /\ Len(msgs) + 1 \in DOMAIN msgs' /\ msgs'[Len(msgs) + 1] = m
         /\ \A i \in DOMAIN msgs : i \in DOMAIN msgs' /\ msgs'[i] = msgs[i] /\ i < Len(msgs) + 1
         /\ \A i \in DOMAIN msgs' : i \in DOMAIN msgs \/ i = Len(msgs) + 1
         /\ DOMAIN msgs \subseteq Nat /\ DOMAIN msgs' \subseteq Nat
         /\ Len(msgs) + 1 \notin DOMAIN msgs
<1> HIDE DEF Message
<1> QED BY DEF MotionType

-----------------------------------------------------------------------------
(* The steps.                                                              *)

Inv == HandlerInv /\ RecordInv

CallbackPlaces == {"rate", "stop", "stopping"}

\* Steps that only move the loop, outside of the callback that sends.
LEMMA Moving ==
  ASSUME Inv,
         UNCHANGED <<md_process, made, client, answered, low_frame_rate, recording, camerafile,
                     handlers, MD_PROCESSING_FLAG, msgs>>,
         loop' = loop \/ (loop \notin CallbackPlaces /\ loop' \notin CallbackPlaces),
         loop' \in CallingBack => list_mutex' = Loop /\ handlers # {}
  PROVE  Inv'
<1>1. MotionType' /\ Attaching' /\ Detaching'
  BY DEF Inv, HandlerInv, MotionType, Attaching, Detaching, Once
<1>2. Calling'
  BY DEF Calling
<1>3. FileFollows'
  BY DEF Inv, RecordInv, FileFollows, Once, Pending, Stopping, CallbackPlaces
<1>4. RateFollows'
  BY DEF Inv, RecordInv, RateFollows, Normal, CallbackPlaces
<1> QED BY <1>1, <1>2, <1>3, <1>4 DEF Inv, HandlerInv, RecordInv

LEMMA MovingSteps ==
  ASSUME Inv,
         \/ Trigger \/ CameraInit \/ NoMessage \/ Frame \/ LoopTest \/ LoopLock \/ LoopWait
         \/ LoopWork \/ Collect \/ Moves \/ Still \/ LoopUnlock \/ UNCHANGED vars
  PROVE  Inv'
<1>0. loop \in CallingBack => list_mutex = Loop /\ handlers # {}
  BY DEF Inv, HandlerInv, Calling
<1> DEFINE same == UNCHANGED <<md_process, made, client, answered, low_frame_rate, recording,
                               camerafile, handlers, MD_PROCESSING_FLAG, msgs>>
<1>1. CASE Trigger \/ CameraInit \/ NoMessage \/ UNCHANGED vars
  <2>1. same /\ list_mutex' = list_mutex /\ loop' = loop
    BY <1>1 DEF Trigger, CameraInit, NoMessage, vars, clientVars, procVars, queueVars,
       cameraVars, loopVars
  <2>2. loop' \in CallingBack => list_mutex' = Loop /\ handlers # {}
    BY <1>0, <2>1
  <2> QED BY <2>1, <2>2, Moving
<1>2. CASE Frame
  <2>1. same /\ list_mutex' = list_mutex
    BY <1>2 DEF Frame, clientVars, procVars, queueVars
  <2>2. loop' = loop \/ (loop = "wait" /\ loop' = "locked")
    BY <1>2 DEF Frame, Wakes
  <2>3. loop' \in CallingBack => list_mutex' = Loop /\ handlers # {}
    BY <1>0, <2>1, <2>2 DEF CallingBack
  <2>4. loop' = loop \/ (loop \notin CallbackPlaces /\ loop' \notin CallbackPlaces)
    BY <2>2 DEF CallbackPlaces
  <2> QED BY <2>1, <2>3, <2>4, Moving
<1>3. CASE LoopTest \/ LoopLock \/ LoopWait \/ LoopWork \/ LoopUnlock
  <2>1. same
    BY <1>3 DEF LoopTest, LoopLock, LoopWait, LoopWork, LoopUnlock, clientVars, procVars,
       queueVars, cameraVars
  <2>2. /\ loop \notin CallbackPlaces /\ loop' \notin CallbackPlaces
        /\ loop' \in CallingBack => list_mutex' = Loop /\ handlers # {}
    BY <1>3 DEF LoopTest, LoopLock, LoopWait, LoopWork, LoopUnlock, LoopGoto, CallbackPlaces,
       CallingBack
  <2> QED BY <2>1, <2>2, Moving
<1>4. CASE Collect \/ Moves \/ Still
  <2>1. same /\ list_mutex' = list_mutex /\ loop = "work"
    BY <1>4 DEF Collect, Moves, Still, clientVars, procVars, queueVars, cameraVars
  <2>2. loop' \in {"worked", "start", "ratestop"}
    BY <1>4 DEF Collect, Moves, Still, LoopGoto
  <2> QED BY <1>0, <2>1, <2>2, Moving DEF CallbackPlaces, CallingBack
<1> QED BY <1>1, <1>2, <1>3, <1>4


\* What the invariants say of messages stays true when some are gone, or when a
\* message of another id is appended.
From(id) == \A i \in DOMAIN msgs' : msgs'[i].id = id => \E k \in DOMAIN msgs : msgs'[i] = msgs[k]
Kept(id) == Pending(id) => Pending(id)'

LEMMA ShrinksKeeps ==
  ASSUME MotionType, NEW L, Shrinks(L)
  PROVE  /\ \A id \in Ids : From(id) /\ (Once(id) => Once(id)')
         /\ \A id \in Ids : (\A k \in DOMAIN msgs : k \in L => msgs[k].id # id) => Kept(id)
<1>1. ASSUME NEW id \in Ids
      PROVE  From(id) /\ (Once(id) => Once(id)')
  <2>1. From(id)
    BY DEF From, Shrinks
  <2>2. Once(id) => Once(id)'
    BY DEF Once, Shrinks
  <2> QED BY <2>1, <2>2
<1>2. ASSUME NEW id \in Ids, \A k \in DOMAIN msgs : k \in L => msgs[k].id # id
      PROVE  Kept(id)
  BY <1>2 DEF Kept, Pending, Shrinks
<1> QED BY <1>1, <1>2

LEMMA TakesKeeps ==
  ASSUME MotionType, NEW t \in Ids, Handle(t), Once(t)
  PROVE  /\ \A id \in Ids : From(id) /\ (Once(id) => Once(id)') /\ (id # t => Kept(id))
         /\ \A i \in DOMAIN msgs' : msgs'[i].id # t
<1>1. 1 \in DOMAIN msgs /\ msgs[1].id = t /\ Shrinks({1})
  BY Takes
<1>2. \A i \in DOMAIN msgs' : msgs'[i].id # t
  BY <1>1 DEF Shrinks, Once
<1> QED BY <1>1, <1>2, ShrinksKeeps

LEMMA TakesBackKeeps ==
  ASSUME MotionType, NEW t \in Ids, TakeBack(t)
  PROVE  /\ \A id \in Ids : From(id) /\ (Once(id) => Once(id)') /\ (id # t => Kept(id))
         /\ \A i \in DOMAIN msgs' : msgs'[i].id # t
<1> DEFINE L == {i \in DOMAIN msgs : msgs[i].id = t}
<1>1. Shrinks(L)
  BY TakesBack
<1>2. \A i \in DOMAIN msgs' : msgs'[i].id # t
  BY <1>1 DEF Shrinks
<1>3. \A id \in Ids : id # t => \A k \in DOMAIN msgs : k \in L => msgs[k].id # id
  OBVIOUS
<1> HIDE DEF L
<1> QED BY <1>1, <1>2, <1>3, ShrinksKeeps

LEMMA GrowsKeeps ==
  ASSUME MotionType, NEW m \in Message, msgs' = Append(msgs, m)
  PROVE  /\ \A id \in Ids : Kept(id) /\ (id # m.id => From(id) /\ (Once(id) => Once(id)'))
         /\ ~Pending(m.id) => Once(m.id)'
         /\ \A i \in DOMAIN msgs' : msgs'[i] = m \/ \E k \in DOMAIN msgs : msgs'[i] = msgs[k]
         /\ Pending(m.id)'
<1>1. \A id \in Ids : Kept(id)
  BY Grows DEF Kept, Pending
<1>2. \A i \in DOMAIN msgs' : msgs'[i] = m \/ \E k \in DOMAIN msgs : msgs'[i] = msgs[k]
  BY Grows
<1>3. \A id \in Ids : id # m.id => From(id) /\ (Once(id) => Once(id)')
  <2>1. ASSUME NEW id \in Ids, id # m.id PROVE From(id)
    BY <1>2, <2>1 DEF From
  <2>2. ASSUME NEW id \in Ids, id # m.id PROVE Once(id) => Once(id)'
    BY <2>2, Grows DEF Once
  <2> QED BY <2>1, <2>2
<1>4. ~Pending(m.id) => Once(m.id)'
  BY Grows DEF Once, Pending
<1>5. Pending(m.id)'
  BY Grows DEF Pending
<1> QED BY <1>1, <1>2, <1>3, <1>4, <1>5


LEMMA SameProcessor ==
  ASSUME HandlerInv, UNCHANGED <<md_process, client, handlers>>,
         "DETACH" \in answered' <=> "DETACH" \in answered,
         From("ATTACH"), From("DETACH"), Once("ATTACH")', Once("DETACH")'
  PROVE  Attaching' /\ Detaching'
  BY DEF HandlerInv, Attaching, Detaching, From

LEMMA SameFile ==
  ASSUME FileFollows, UNCHANGED <<recording, camerafile>>, Stopping' <=> Stopping,
         "STOP" \in answered' <=> "STOP" \in answered,
         From("START"), From("STOP"), Once("START")', Once("STOP")', Kept("START"), Kept("STOP")
  PROVE  FileFollows'
<1>1. \A i \in DOMAIN msgs' : msgs'[i].id = "START" => recording /\ ~camerafile /\ ~Stopping
  BY DEF FileFollows, From
<1>2. \A i \in DOMAIN msgs' : msgs'[i].id = "STOP" => recording /\ Stopping /\ "STOP" \notin answered
  BY DEF FileFollows, From
<1>3. Stopping => Pending("STOP")' \/ "STOP" \in answered
  BY DEF FileFollows, Kept
<1>4. ~Pending("START")' /\ "STOP" \notin answered => (camerafile <=> recording)
  BY DEF FileFollows, Kept
<1>5. "STOP" \in answered => recording /\ ~camerafile /\ Stopping
  BY DEF FileFollows
<1> QED BY <1>1, <1>2, <1>3, <1>4, <1>5 DEF FileFollows

LEMMA RateShrinks ==
  ASSUME MotionType, RateFollows, NEW L, Shrinks(L), md_process' = md_process,
         \A k \in DOMAIN msgs : k \in L /\ Normal(k) => k = 1 /\ low_frame_rate' # 1,
         recording' => recording,
         low_frame_rate' = 1 => \/ low_frame_rate = 1
                                \/ \E i \in DOMAIN msgs : msgs[i].id = "LOW" /\ msgs[i].p = md_process,
         loop' \notin CallbackPlaces => loop \notin CallbackPlaces
  PROVE  RateFollows'
<1> SUFFICES ASSUME md_process # Nothing, recording', loop' \notin CallbackPlaces
             PROVE  /\ low_frame_rate' = 1 => \E j \in DOMAIN msgs' : Normal(j)'
                    /\ \A i \in DOMAIN msgs' : msgs'[i].id = "LOW" /\ msgs'[i].p = md_process =>
                         \E j \in DOMAIN msgs' : i < j /\ Normal(j)'
  BY DEF RateFollows, CallbackPlaces
<1>1. /\ low_frame_rate = 1 => \E j \in DOMAIN msgs : Normal(j)
      /\ \A i \in DOMAIN msgs : msgs[i].id = "LOW" /\ msgs[i].p = md_process =>
           \E j \in DOMAIN msgs : i < j /\ Normal(j)
  BY DEF RateFollows, CallbackPlaces
<1>2. \A l \in DOMAIN msgs', k \in DOMAIN msgs : msgs'[l] = msgs[k] /\ Normal(k) =>
        msgs'[l].id = "NORMAL" /\ msgs'[l].p = md_process
  BY DEF Normal
<1>3. ASSUME low_frame_rate' = 1
      PROVE  \E j \in DOMAIN msgs' : msgs'[j].id = "NORMAL" /\ msgs'[j].p = md_process
  <2>1. PICK k \in DOMAIN msgs : Normal(k)
    BY <1>1, <1>3
  <2>2. PICK l \in DOMAIN msgs' : msgs'[l] = msgs[k]
    BY <1>3, <2>1 DEF Shrinks
  <2> QED BY <1>2, <2>1, <2>2
<1>4. ASSUME NEW i \in DOMAIN msgs', msgs'[i].id = "LOW", msgs'[i].p = md_process
      PROVE  \E j \in DOMAIN msgs' : i < j /\ msgs'[j].id = "NORMAL" /\ msgs'[j].p = md_process
  <2>1. PICK k \in DOMAIN msgs \ L :
          /\ msgs'[i] = msgs[k]
          /\ \A j \in DOMAIN msgs \ L : k < j =>
               \E l \in DOMAIN msgs' : i < l /\ msgs'[l] = msgs[j]
    BY DEF Shrinks
  <2>2. PICK j \in DOMAIN msgs : k < j /\ Normal(j)
    BY <1>1, <1>4, <2>1
  <2>3. j \notin L
    BY <2>2 DEF MotionType
  <2>4. PICK l \in DOMAIN msgs' : i < l /\ msgs'[l] = msgs[j]
    BY <2>1, <2>2, <2>3
  <2> QED BY <1>2, <2>2, <2>4
<1> QED BY <1>3, <1>4 DEF Normal

LEMMA RateGrows ==
  ASSUME MotionType, RateFollows, NEW m \in Message, msgs' = Append(msgs, m),
         md_process' = md_process, m.id = "LOW" => m.p # md_process,
         recording' => recording, low_frame_rate' = low_frame_rate,
         loop' \notin CallbackPlaces => loop \notin CallbackPlaces
  PROVE  RateFollows'
<1> SUFFICES ASSUME md_process # Nothing, recording', loop' \notin CallbackPlaces
             PROVE  /\ low_frame_rate' = 1 => \E j \in DOMAIN msgs' : Normal(j)'
                    /\ \A i \in DOMAIN msgs' : msgs'[i].id = "LOW" /\ msgs'[i].p = md_process =>
                         \E j \in DOMAIN msgs' : i < j /\ Normal(j)'
  BY DEF RateFollows, CallbackPlaces
<1>1. /\ low_frame_rate = 1 => \E j \in DOMAIN msgs : Normal(j)
      /\ \A i \in DOMAIN msgs : msgs[i].id = "LOW" /\ msgs[i].p = md_process =>
           \E j \in DOMAIN msgs : i < j /\ Normal(j)
  BY DEF RateFollows, CallbackPlaces
<1>2. \A j \in DOMAIN msgs : Normal(j) => j \in DOMAIN msgs' /\ Normal(j)'
  BY Grows DEF Normal
<1> QED BY <1>1, <1>2, Grows


-----------------------------------------------------------------------------
(* The client.                                                             *)

LEMMA StartsDetection ==
  ASSUME Inv, StartDetection
  PROVE  Inv'
<1> DEFINE m == Msg("ATTACH", made + 1)
<1>1. /\ client = "idle" /\ md_process = Nothing
      /\ made' = made + 1 /\ md_process' = made + 1 /\ low_frame_rate' = -1
      /\ MD_PROCESSING_FLAG' = TRUE /\ msgs' = Append(msgs, m)
      /\ UNCHANGED <<client, answered, recording, camerafile, handlers, loop, list_mutex>>
  BY DEF StartDetection, cameraVars, loopVars
<1>2. MotionType /\ made \in Nat /\ made + 1 # Nothing
  BY DEF Inv, HandlerInv, MotionType, Nothing
<1>3. m \in Message /\ m.id = "ATTACH" /\ m.p = made + 1
  BY <1>2 DEF Message, Msg, Ids
<1> HIDE DEF m
<1>4. /\ \A i \in DOMAIN msgs : msgs[i].id # "ATTACH" /\ msgs[i].id # "DETACH"
      /\ handlers = {} /\ "DETACH" \notin answered
  BY <1>1 DEF Inv, HandlerInv, Attaching, Detaching
<1>5. \A i \in DOMAIN msgs' : msgs'[i] = m \/ \E k \in DOMAIN msgs : msgs'[i] = msgs[k]
  BY <1>1, <1>2, <1>3, GrowsKeeps
<1>6. MotionType'
  <2>1. msgs' \in Seq(Message)
    BY <1>1, <1>2, <1>3, Grows
  <2>2. \A i \in DOMAIN msgs' : msgs'[i].p <= made'
    <3>1. \A k \in DOMAIN msgs : msgs[k].p \in Nat /\ msgs[k].p <= made
      <4>1. \A k \in DOMAIN msgs : msgs[k] \in Message
        BY <1>2 DEF MotionType
      <4> QED BY <1>2, <4>1 DEF MotionType, Message
    <3>2. \A k \in DOMAIN msgs : msgs[k].p <= made + 1
      BY <1>2, <3>1
    <3>3. made' = made + 1 /\ m.p <= made + 1
      BY <1>1, <1>2, <1>3
    <3>4. \A i \in DOMAIN msgs' : msgs'[i].p <= made + 1
      BY <1>5, <3>2, <3>3
    <3> QED BY <3>3, <3>4
  <2>3. /\ md_process' \in Nat /\ made' \in Nat /\ md_process' <= made' /\ low_frame_rate' \in -1..1
        /\ UNCHANGED <<client, answered, recording, camerafile>>
    <3>1. md_process' = made + 1 /\ made' = made + 1 /\ low_frame_rate' = -1
      BY <1>1
    <3>2. UNCHANGED <<client, answered, recording, camerafile>>
      BY <1>1
    <3> QED BY <1>2, <3>1, <3>2
  <2>4. MD_PROCESSING_FLAG' = (md_process' # Nothing)
    <3>1. md_process' # Nothing /\ MD_PROCESSING_FLAG' = TRUE
      BY <1>1, <1>2
    <3> QED BY <3>1
  <2> QED BY <1>2, <2>1, <2>2, <2>3, <2>4 DEF MotionType
<1>7. Attaching' /\ Detaching'
  <2>1. Once("ATTACH")'
    BY <1>1, <1>2, <1>3, <1>4, GrowsKeeps DEF Pending
  <2>2. \A i \in DOMAIN msgs' : msgs'[i].id # "DETACH" /\ (msgs'[i].id = "ATTACH" => msgs'[i] = m)
    BY <1>3, <1>4, <1>5
  <2>3. Once("DETACH")'
    BY <2>2 DEF Once
  <2> QED BY <1>1, <1>2, <1>3, <1>4, <2>1, <2>2, <2>3 DEF Attaching, Detaching
<1>8. Calling'
  BY <1>1 DEF Inv, HandlerInv, Calling
<1>9. FileFollows'
  <2>1. /\ From("START") /\ From("STOP") /\ Kept("START") /\ Kept("STOP")
        /\ (Once("START") => Once("START")') /\ (Once("STOP") => Once("STOP")')
    BY <1>1, <1>2, <1>3, GrowsKeeps DEF Ids
  <2>2. FileFollows /\ Once("START") /\ Once("STOP")
    BY DEF Inv, RecordInv, FileFollows
  <2> QED BY <1>1, <2>1, <2>2, SameFile DEF Stopping
<1>10. RateFollows'
  <2>1. \A i \in DOMAIN msgs' : ~(msgs'[i].id = "LOW" /\ msgs'[i].p = made + 1)
    <3>1. \A k \in DOMAIN msgs : msgs[k].p # made + 1
      BY <1>2 DEF MotionType, Message
    <3> QED BY <1>3, <1>5, <3>1
  <2> QED BY <1>1, <2>1 DEF RateFollows
<1> QED BY <1>6, <1>7, <1>8, <1>9, <1>10 DEF Inv, HandlerInv, RecordInv

\* Nobody but the client changes them.
MotionVars == <<md_process, made, MD_PROCESSING_FLAG>>

LEMMA TypeShrinks ==
  ASSUME MotionType, NEW L, Shrinks(L), UNCHANGED <<MotionVars, low_frame_rate>>,
         client' \in {"idle", "detaching", "delete", "stopping"}, answered' \subseteq Sync,
         recording' \in BOOLEAN, camerafile' \in BOOLEAN
  PROVE  MotionType'
  BY DEF MotionType, Shrinks, MotionVars

LEMMA TypeGrows ==
  ASSUME MotionType, NEW m \in Message, msgs' = Append(msgs, m), m.p <= made,
         UNCHANGED <<MotionVars, low_frame_rate, answered>>,
         client' \in {"idle", "detaching", "delete", "stopping"},
         recording' \in BOOLEAN, camerafile' \in BOOLEAN
  PROVE  MotionType'
<1>1. msgs' \in Seq(Message)
  BY Grows
<1>2. \A i \in DOMAIN msgs' : msgs'[i] = m \/ \E k \in DOMAIN msgs : msgs'[i] = msgs[k]
  BY GrowsKeeps
<1>3. \A i \in DOMAIN msgs' : msgs'[i].p <= made
  BY <1>2 DEF MotionType
<1> QED BY <1>1, <1>3 DEF MotionType, MotionVars

LEMMA StopsDetection ==
  ASSUME Inv, StopDetection
  PROVE  Inv'
<1>0. /\ client = "idle" /\ md_process # Nothing
      /\ UNCHANGED <<MotionVars, low_frame_rate, answered, recording, camerafile, handlers, loop, list_mutex>>
  BY DEF StopDetection, cameraVars, loopVars, procVars, MotionVars
<1>1. MotionType /\ FileFollows /\ RateFollows /\ Calling
  BY DEF Inv, HandlerInv, RecordInv
<1>2. Calling'
  BY <1>0, <1>1 DEF Calling
<1>3. \A i \in DOMAIN msgs : msgs[i].id # "DETACH"
  BY <1>0 DEF Inv, HandlerInv, Detaching
<1>4. Once("START") /\ Once("STOP") /\ "DETACH" \notin answered
  BY <1>0 DEF Inv, HandlerInv, RecordInv, FileFollows, Detaching
<1>5. CASE Pending("ATTACH")
  <2>1. TakeBack("ATTACH") /\ client' = "delete"
    BY <1>5 DEF StopDetection
  <2>2. Shrinks({i \in DOMAIN msgs : msgs[i].id = "ATTACH"})
    BY <1>1, <2>1, TakesBack
  <2>3. /\ \A id \in Ids : From(id) /\ (Once(id) => Once(id)') /\ (id # "ATTACH" => Kept(id))
        /\ \A i \in DOMAIN msgs' : msgs'[i].id # "ATTACH"
    BY <1>1, <2>1, TakesBackKeeps DEF Ids
  <2>4. MotionType'
    BY <1>0, <1>1, <2>1, <2>2, TypeShrinks DEF MotionType
  <2>5. handlers = {}
    BY <1>5 DEF Inv, HandlerInv, Attaching, Pending
  <2>6. \A i \in DOMAIN msgs' : msgs'[i].id # "DETACH"
    BY <1>3, <2>3 DEF From, Ids
  <2>7. Attaching' /\ Detaching'
    BY <1>0, <1>4, <2>1, <2>3, <2>5, <2>6 DEF Attaching, Detaching, Once, MotionVars
  <2>8. FileFollows'
    BY <1>0, <1>1, <1>4, <2>1, <2>3, SameFile DEF Stopping, Ids
  <2>9. RateFollows'
    BY <1>0, <1>1, <2>2, RateShrinks DEF Normal, MotionVars
  <2> QED BY <1>2, <2>4, <2>7, <2>8, <2>9 DEF Inv, HandlerInv, RecordInv
<1>6. CASE ~Pending("ATTACH")
  <2> DEFINE m == Msg("DETACH", md_process)
  <2>1. msgs' = Append(msgs, m) /\ client' = "detaching"
    BY <1>6 DEF StopDetection
  <2>2. m \in Message /\ m.id = "DETACH" /\ m.p = md_process /\ m.p <= made
    BY <1>1 DEF Message, Msg, Ids, MotionType
  <2> HIDE DEF m
  <2>3. /\ \A id \in Ids : Kept(id) /\ (id # "DETACH" => From(id) /\ (Once(id) => Once(id)'))
        /\ Once("DETACH")'
        /\ \A i \in DOMAIN msgs' : msgs'[i] = m \/ \E k \in DOMAIN msgs : msgs'[i] = msgs[k]
    BY <1>1, <1>3, <2>1, <2>2, GrowsKeeps DEF Pending
  <2>4. MotionType'
    BY <1>0, <1>1, <2>1, <2>2, TypeGrows DEF MotionType
  <2>5. \A i \in DOMAIN msgs' : msgs'[i].id # "ATTACH" /\ (msgs'[i].id = "DETACH" => msgs'[i] = m)
    BY <1>3, <1>6, <2>2, <2>3 DEF Pending
  <2>6. Attaching' /\ Detaching'
    <3>1. handlers \subseteq {md_process} \ {Nothing}
      BY DEF Inv, HandlerInv, Attaching
    <3> QED BY <1>0, <1>4, <2>1, <2>2, <2>3, <2>5, <3>1 DEF Attaching, Detaching, Once, MotionVars
  <2>7. FileFollows'
    BY <1>0, <1>1, <1>4, <2>1, <2>3, SameFile DEF Stopping, Ids
  <2>8. RateFollows'
    BY <1>0, <1>1, <2>1, <2>2, RateGrows DEF MotionVars
  <2> QED BY <1>2, <2>4, <2>6, <2>7, <2>8 DEF Inv, HandlerInv, RecordInv
<1> QED BY <1>5, <1>6


LEMMA Returns ==
  ASSUME Inv, Detached \/ DeleteProcessor
  PROVE  Inv'
<1>1. UNCHANGED <<made, low_frame_rate, recording, camerafile, handlers, loop, list_mutex, msgs>>
  BY DEF Detached, DeleteProcessor, procVars, queueVars, cameraVars, loopVars
<1>2. CASE Detached
  <2>1. /\ client = "detaching" /\ client' = "delete" /\ "DETACH" \in answered
        /\ answered' = answered \ {"DETACH"} /\ UNCHANGED <<md_process, MD_PROCESSING_FLAG>>
    BY <1>2 DEF Detached, DetachAnswered
  <2>2. MotionType' /\ Attaching' /\ Detaching'
    BY <1>1, <2>1 DEF Inv, HandlerInv, MotionType, Attaching, Detaching, Once
  <2>3. FileFollows'
    BY <1>1, <2>1 DEF Inv, RecordInv, FileFollows, Stopping, Once, Pending
  <2>4. RateFollows' /\ Calling'
    BY <1>1, <2>1 DEF Inv, HandlerInv, RecordInv, RateFollows, Calling, Normal
  <2> QED BY <2>2, <2>3, <2>4 DEF Inv, HandlerInv, RecordInv
<1>3. CASE DeleteProcessor
  <2>1. /\ client = "delete" /\ client' = "idle" /\ md_process' = Nothing
        /\ MD_PROCESSING_FLAG' = FALSE /\ answered' = answered
    BY <1>3 DEF DeleteProcessor, queueVars
  <2>2. MotionType'
    <3>1. MotionType
      BY DEF Inv, HandlerInv
    <3>2. md_process' \in Nat /\ md_process' <= made
      BY <2>1, <3>1 DEF Nothing, MotionType
    <3>3. MD_PROCESSING_FLAG' = (md_process' # Nothing)
      BY <2>1
    <3> QED BY <1>1, <2>1, <3>1, <3>2, <3>3 DEF MotionType
  <2>3. Attaching' /\ Detaching'
    BY <1>1, <2>1 DEF Inv, HandlerInv, Attaching, Detaching, Once
  <2>4. FileFollows'
    BY <1>1, <2>1 DEF Inv, RecordInv, FileFollows, Stopping, Once, Pending
  <2>5. RateFollows' /\ Calling'
    BY <1>1, <2>1 DEF Inv, HandlerInv, RateFollows, Calling
  <2> QED BY <2>2, <2>3, <2>4, <2>5 DEF Inv, HandlerInv, RecordInv
<1> QED BY <1>2, <1>3

\* Nothing is on its way to the file of one who does not record.
LEMMA Silent ==
  ASSUME Inv, ~recording
  PROVE  ~Pending("START") /\ ~Pending("STOP") /\ "STOP" \notin answered /\ ~camerafile /\ ~Stopping
  BY DEF Inv, RecordInv, FileFollows, Pending

\* Somebody starts the recording.
LEMMA Starts ==
  ASSUME Inv, ~recording, StartRec, UNCHANGED <<answered, camerafile>>, ~Stopping'
  PROVE  /\ FileFollows' /\ recording' = TRUE /\ Msg("START", 0) \in Message
         /\ msgs' = Append(msgs, Msg("START", 0))
<1> DEFINE m == Msg("START", 0)
<1>1. m \in Message /\ m.id = "START"
  BY DEF Message, Msg, Ids
<1>2. msgs' = Append(msgs, m) /\ recording' = TRUE
  BY DEF StartRec
<1> HIDE DEF m
<1>3. MotionType /\ Once("STOP")
  BY DEF Inv, HandlerInv, RecordInv, FileFollows
<1>4. /\ Once("START")' /\ From("STOP") /\ Once("STOP")' /\ Pending("START")'
  BY <1>1, <1>2, <1>3, Silent, GrowsKeeps DEF Ids
<1>5. \A i \in DOMAIN msgs' : msgs'[i].id # "STOP"
  BY <1>4, Silent DEF From, Pending
<1>6. FileFollows'
  <2>1. recording' /\ ~camerafile' /\ "STOP" \notin answered'
    BY <1>2, Silent
  <2> QED BY <1>4, <1>5, <2>1 DEF FileFollows
<1> QED BY <1>1, <1>2, <1>6 DEF m

\* Somebody takes a START back.
LEMMA TakesStartBack ==
  ASSUME Inv, Pending("START"), TakeBack("START"), recording' = FALSE,
         UNCHANGED <<answered, camerafile>>, Stopping' <=> Stopping
  PROVE  FileFollows'
<1>1. /\ ~camerafile /\ ~Stopping /\ "STOP" \notin answered
      /\ \A i \in DOMAIN msgs : msgs[i].id # "STOP"
  BY DEF Inv, RecordInv, FileFollows, Pending
<1>2. /\ \A i \in DOMAIN msgs' : msgs'[i].id # "START"
      /\ From("STOP")
  BY TakesBackKeeps DEF Ids, Inv, HandlerInv
<1>3. \A i \in DOMAIN msgs' : msgs'[i].id # "STOP"
  BY <1>1, <1>2 DEF From
<1> QED BY <1>1, <1>2, <1>3 DEF FileFollows, Once

\* Somebody sends a STOP, and waits.
LEMMA SendsStop ==
  ASSUME Inv, recording, ~Pending("START"), ~Stopping, msgs' = Append(msgs, Msg("STOP", 0)),
         UNCHANGED <<answered, camerafile, recording>>, Stopping'
  PROVE  FileFollows' /\ Msg("STOP", 0) \in Message
<1> DEFINE m == Msg("STOP", 0)
<1>1. m \in Message /\ m.id = "STOP"
  BY DEF Message, Msg, Ids
<1>2. msgs' = Append(msgs, m)
  OBVIOUS
<1> HIDE DEF m
<1>3. MotionType /\ ~Pending("STOP") /\ "STOP" \notin answered /\ (camerafile <=> recording)
  BY DEF Inv, HandlerInv, RecordInv, FileFollows, Pending
<1>4. Once("STOP")' /\ Pending("STOP")' /\ From("START")
  BY <1>1, <1>2, <1>3, GrowsKeeps DEF Ids
<1>5. \A i \in DOMAIN msgs' : msgs'[i].id # "START"
  BY <1>4 DEF From, Pending
<1>6. FileFollows'
  BY <1>3, <1>4, <1>5 DEF FileFollows, Once
<1> QED BY <1>1, <1>6 DEF m

\* The waiting one sees that the file is ended.
LEMMA SeesStop ==
  ASSUME Inv, "STOP" \in answered, recording' = FALSE, answered' = answered \ {"STOP"},
         UNCHANGED <<msgs, camerafile>>, ~Stopping'
  PROVE  FileFollows'
<1>1. ~camerafile /\ Stopping
  BY DEF Inv, RecordInv, FileFollows
<1>2. \A i \in DOMAIN msgs : msgs[i].id # "START" /\ msgs[i].id # "STOP"
  BY <1>1 DEF Inv, RecordInv, FileFollows
<1> QED BY <1>1, <1>2 DEF FileFollows, Once, Pending


LEMMA ClientRecords ==
  ASSUME Inv, ClientStarts \/ ClientStops \/ ClientStopped
  PROVE  Inv'
<1>0. /\ UNCHANGED <<MotionVars, low_frame_rate, camerafile, handlers, loop, list_mutex>>
      /\ client \in {"idle", "stopping"} /\ client' \in {"idle", "stopping"}
      /\ md_process = Nothing
  <2>1. client = "stopping" => md_process = Nothing
    BY DEF Inv, HandlerInv, Detaching
  <2> QED BY <2>1 DEF ClientStarts, ClientStops, ClientStopped, procVars, cameraVars, loopVars,
             MotionVars, clientVars
<1>1. MotionType /\ Attaching /\ Detaching /\ Calling
  BY DEF Inv, HandlerInv
<1>2. RateFollows' /\ Calling'
  BY <1>0, <1>1 DEF RateFollows, Calling, MotionVars
<1>3. /\ handlers = {} /\ loop # "stopping" /\ "DETACH" \notin answered
      /\ \A i \in DOMAIN msgs : msgs[i].id # "ATTACH" /\ msgs[i].id # "DETACH"
  BY <1>0, <1>1 DEF Attaching, Detaching, Calling, CallingBack
<1>4. ASSUME \A i \in DOMAIN msgs' : msgs'[i].id # "ATTACH" /\ msgs'[i].id # "DETACH",
             "DETACH" \notin answered'
      PROVE  Attaching' /\ Detaching'
  BY <1>0, <1>3, <1>4 DEF Attaching, Detaching, Once, MotionVars
<1>5. CASE ClientStarts
  <2>1. ~recording /\ StartRec /\ answered' = answered /\ client' = client /\ client = "idle"
    BY <1>5 DEF ClientStarts, clientVars
  <2>2. ~Stopping'
    BY <1>0, <1>3, <2>1 DEF Stopping
  <2>3. /\ FileFollows' /\ recording' = TRUE /\ Msg("START", 0) \in Message
        /\ msgs' = Append(msgs, Msg("START", 0))
    BY <1>0, <2>1, <2>2, Starts
  <2>4. From("ATTACH") /\ From("DETACH")
    BY <1>1, <2>3, GrowsKeeps DEF Ids, Msg
  <2>5. Attaching' /\ Detaching'
    BY <1>3, <1>4, <2>1, <2>4 DEF From
  <2>6. MotionType'
    BY <1>0, <1>1, <2>1, <2>3, TypeGrows DEF Msg, MotionType
  <2> QED BY <1>2, <2>3, <2>5, <2>6 DEF Inv, HandlerInv, RecordInv
<1>6. CASE ClientStops /\ Pending("START")
  <2>1. TakeBack("START") /\ recording' = FALSE /\ answered' = answered /\ client' = client
    BY <1>6 DEF ClientStops
  <2>2. From("ATTACH") /\ From("DETACH")
    BY <1>1, <2>1, TakesBackKeeps DEF Ids
  <2>3. Attaching' /\ Detaching'
    BY <1>3, <1>4, <2>1, <2>2 DEF From
  <2>4. FileFollows'
    BY <1>0, <1>6, <2>1, TakesStartBack DEF Stopping
  <2>5. MotionType'
    BY <1>0, <1>1, <2>1, TakesBack, TypeShrinks DEF MotionType
  <2> QED BY <1>2, <2>3, <2>4, <2>5 DEF Inv, HandlerInv, RecordInv
<1>7. CASE ClientStops /\ ~Pending("START")
  <2>1. /\ msgs' = Append(msgs, Msg("STOP", 0)) /\ client = "idle" /\ client' = "stopping"
        /\ recording /\ recording' = recording /\ answered' = answered
    BY <1>7 DEF ClientStops
  <2>2. ~Stopping /\ Stopping'
    BY <1>3, <2>1 DEF Stopping
  <2>3. FileFollows' /\ Msg("STOP", 0) \in Message
    BY <1>0, <1>7, <2>1, <2>2, SendsStop
  <2>4. From("ATTACH") /\ From("DETACH")
    BY <1>1, <2>1, <2>3, GrowsKeeps DEF Ids, Msg
  <2>5. Attaching' /\ Detaching'
    BY <1>3, <1>4, <2>1, <2>4 DEF From
  <2>6. MotionType'
    BY <1>0, <1>1, <2>1, <2>3, TypeGrows DEF Msg, MotionType
  <2> QED BY <1>2, <2>3, <2>5, <2>6 DEF Inv, HandlerInv, RecordInv
<1>8. CASE ClientStopped
  <2>1. /\ "STOP" \in answered /\ answered' = answered \ {"STOP"} /\ recording' = FALSE
        /\ client' = "idle" /\ msgs' = msgs
    BY <1>8 DEF ClientStopped
  <2>2. FileFollows'
    BY <1>0, <1>3, <2>1, SeesStop DEF Stopping
  <2>3. MotionType'
    BY <1>0, <1>1, <2>1 DEF MotionType, MotionVars
  <2>4. Attaching' /\ Detaching'
    BY <1>3, <1>4, <2>1
  <2> QED BY <1>2, <2>2, <2>3, <2>4 DEF Inv, HandlerInv, RecordInv
<1> QED BY <1>5, <1>6, <1>7, <1>8

-----------------------------------------------------------------------------
(* The camera thread.                                                      *)

LEMMA Attaches ==
  ASSUME Inv, HandleAttach
  PROVE  Inv'
<1>0. /\ Handle("ATTACH") /\ list_mutex = Nobody
      /\ UNCHANGED <<MotionVars, client, low_frame_rate, recording, camerafile, loop, list_mutex>>
      /\ handlers' = handlers \cup {Head(msgs).p} \/ handlers' = handlers
  BY DEF HandleAttach, Handle, clientVars, procVars, loopVars, MotionVars
<1>1. MotionType /\ FileFollows /\ RateFollows
  BY DEF Inv, HandlerInv, RecordInv
<1>2. /\ 1 \in DOMAIN msgs /\ msgs[1].id = "ATTACH" /\ Head(msgs) = msgs[1] /\ Shrinks({1})
      /\ answered' = answered
  BY <1>0, <1>1, Takes DEF Sync
<1>3. Once("ATTACH") /\ client = "idle" /\ md_process # Nothing /\ Head(msgs).p = md_process
  BY <1>2 DEF Inv, HandlerInv, Attaching
<1>4. /\ \A id \in Ids : From(id) /\ (Once(id) => Once(id)') /\ (id # "ATTACH" => Kept(id))
      /\ \A i \in DOMAIN msgs' : msgs'[i].id # "ATTACH"
  BY <1>0, <1>1, <1>3, TakesKeeps DEF Ids
<1>5. MotionType'
  BY <1>0, <1>1, <1>2, TypeShrinks DEF MotionType
<1>6. Calling'
  BY <1>0, MotionAssumption DEF MotionAssumption, Inv, HandlerInv, Calling
<1>7. Attaching'
  BY <1>0, <1>3, <1>4 DEF Inv, HandlerInv, Attaching, Once, MotionVars
<1>8. Detaching'
  <2>1. \A i \in DOMAIN msgs' : msgs'[i].id # "DETACH"
    BY <1>3, <1>4 DEF From, Ids, Inv, HandlerInv, Detaching
  <2> QED BY <1>0, <1>2, <1>3, <2>1 DEF Inv, HandlerInv, Detaching, Once, MotionVars
<1>9. FileFollows'
  <2>1. Once("START") /\ Once("STOP")
    BY <1>1 DEF FileFollows
  <2> QED BY <1>0, <1>1, <1>2, <1>4, <2>1, SameFile DEF Stopping, Ids
<1>10. RateFollows'
  BY <1>0, <1>1, <1>2, RateShrinks DEF Normal, MotionVars
<1> QED BY <1>5, <1>6, <1>7, <1>8, <1>9, <1>10 DEF Inv, HandlerInv, RecordInv

LEMMA Detaches ==
  ASSUME Inv, HandleDetach
  PROVE  Inv'
<1>0. /\ Handle("DETACH") /\ list_mutex = Nobody
      /\ UNCHANGED <<MotionVars, client, low_frame_rate, recording, camerafile, loop, list_mutex>>
      /\ handlers' = handlers \ {Head(msgs).p}
  BY DEF HandleDetach, Handle, clientVars, procVars, loopVars, MotionVars
<1>1. MotionType /\ FileFollows /\ RateFollows
  BY DEF Inv, HandlerInv, RecordInv
<1>2. /\ 1 \in DOMAIN msgs /\ msgs[1].id = "DETACH" /\ Head(msgs) = msgs[1] /\ Shrinks({1})
      /\ answered' = answered \cup {"DETACH"}
  BY <1>0, <1>1, Takes DEF Sync
<1>3. /\ Once("DETACH") /\ client = "detaching" /\ Head(msgs).p = md_process
      /\ handlers \subseteq {md_process} /\ \A i \in DOMAIN msgs : msgs[i].id # "ATTACH"
  BY <1>2 DEF Inv, HandlerInv, Attaching, Detaching
<1>4. /\ \A id \in Ids : From(id) /\ (Once(id) => Once(id)') /\ (id # "DETACH" => Kept(id))
      /\ \A i \in DOMAIN msgs' : msgs'[i].id # "DETACH"
  BY <1>0, <1>1, <1>3, TakesKeeps DEF Ids
<1>5. MotionType'
  BY <1>0, <1>1, <1>2, TypeShrinks DEF MotionType, Sync
<1>6. Calling'
  BY <1>0, MotionAssumption DEF MotionAssumption, Inv, HandlerInv, Calling
<1>7. handlers' = {} /\ \A i \in DOMAIN msgs' : msgs'[i].id # "ATTACH"
  BY <1>0, <1>3, <1>4 DEF From, Ids
<1>8. Attaching' /\ Detaching'
  BY <1>0, <1>2, <1>3, <1>4, <1>7 DEF Inv, HandlerInv, Attaching, Detaching, Once, MotionVars
<1>9. FileFollows'
  <2>1. Once("START") /\ Once("STOP")
    BY <1>1 DEF FileFollows
  <2> QED BY <1>0, <1>1, <1>2, <1>4, <2>1, SameFile DEF Stopping, Ids
<1>10. RateFollows'
  BY <1>0, <1>1, <1>2, RateShrinks DEF Normal, MotionVars
<1> QED BY <1>5, <1>6, <1>8, <1>9, <1>10 DEF Inv, HandlerInv, RecordInv


LEMMA ChangesRate ==
  ASSUME Inv, HandleLow \/ HandleNormal
  PROVE  Inv'
<1> DEFINE t == msgs[1].id
           p == Head(msgs).p
<1>0. /\ UNCHANGED <<MotionVars, client, recording, camerafile, handlers, loop, list_mutex>>
      /\ \/ Handle("LOW") /\ low_frame_rate' = IF p = md_process THEN 1 ELSE low_frame_rate
         \/ Handle("NORMAL") /\ low_frame_rate' = IF p = md_process THEN 0 ELSE low_frame_rate
  BY DEF HandleLow, HandleNormal, Handle, SetLow, clientVars, procVars, loopVars, MotionVars
<1>1. MotionType /\ FileFollows /\ RateFollows
  BY DEF Inv, HandlerInv, RecordInv
<1>2. /\ 1 \in DOMAIN msgs /\ Head(msgs) = msgs[1] /\ Shrinks({1}) /\ answered' = answered
      /\ \/ t = "LOW" /\ low_frame_rate' = IF p = md_process THEN 1 ELSE low_frame_rate
         \/ t = "NORMAL" /\ low_frame_rate' = IF p = md_process THEN 0 ELSE low_frame_rate
  BY <1>0, <1>1, Takes DEF Sync
<1>3. \A id \in Ids : From(id) /\ (Once(id) => Once(id)')
  BY <1>1, <1>2, ShrinksKeeps
<1>4. Kept("START") /\ Kept("STOP")
  BY <1>1, <1>2, ShrinksKeeps DEF Ids
<1>5. /\ Once("ATTACH") /\ Once("DETACH") /\ Once("START") /\ Once("STOP")
      /\ HandlerInv
  BY DEF Inv, HandlerInv, RecordInv, Attaching, Detaching, FileFollows
<1>6. MotionType'
  BY <1>0, <1>1, <1>2 DEF MotionType, Shrinks, MotionVars
<1>7. Attaching' /\ Detaching'
  BY <1>0, <1>2, <1>3, <1>5, SameProcessor DEF MotionVars, Ids
<1>8. FileFollows'
  BY <1>0, <1>1, <1>2, <1>3, <1>4, <1>5, SameFile DEF Stopping, Ids
<1>9. Calling'
  BY <1>0 DEF Inv, HandlerInv, Calling
<1>10. RateFollows'
  <2>1. Normal(1) <=> t = "NORMAL" /\ p = md_process
    BY <1>2 DEF Normal
  <2>2. \A k \in DOMAIN msgs : k \in {1} /\ Normal(k) => k = 1 /\ low_frame_rate' # 1
    BY <1>2, <2>1
  <2>3. low_frame_rate' = 1 => \/ low_frame_rate = 1
                               \/ \E i \in DOMAIN msgs : msgs[i].id = "LOW" /\ msgs[i].p = md_process
    BY <1>2
  <2> QED BY <1>0, <1>1, <1>2, <2>2, <2>3, RateShrinks DEF MotionVars
<1> QED BY <1>6, <1>7, <1>8, <1>9, <1>10 DEF Inv, HandlerInv, RecordInv

LEMMA ChangesFile ==
  ASSUME Inv, HandleStart \/ HandleStop
  PROVE  Inv'
<1> DEFINE t == msgs[1].id
<1>0. /\ UNCHANGED <<MotionVars, client, low_frame_rate, recording, handlers, loop, list_mutex>>
      /\ \/ Handle("START") /\ camerafile' = TRUE
         \/ Handle("STOP") /\ camerafile' = FALSE
  BY DEF HandleStart, HandleStop, Handle, clientVars, procVars, loopVars, MotionVars
<1>1. MotionType /\ FileFollows /\ RateFollows
  BY DEF Inv, HandlerInv, RecordInv
<1>2. /\ 1 \in DOMAIN msgs /\ Shrinks({1})
      /\ \/ t = "START" /\ camerafile' = TRUE /\ answered' = answered
         \/ t = "STOP" /\ camerafile' = FALSE /\ answered' = answered \cup {"STOP"}
  <2>1. CASE Handle("START") /\ camerafile' = TRUE
    BY <1>1, <2>1, Takes DEF Sync
  <2>2. CASE Handle("STOP") /\ camerafile' = FALSE
    BY <1>1, <2>2, Takes DEF Sync
  <2> QED BY <1>0, <2>1, <2>2
<1>3. /\ Once("ATTACH") /\ Once("DETACH") /\ Once("START") /\ Once("STOP")
      /\ HandlerInv
  BY DEF Inv, HandlerInv, RecordInv, Attaching, Detaching, FileFollows
<1>4. \A id \in Ids : From(id) /\ (Once(id) => Once(id)')
  BY <1>1, <1>2, ShrinksKeeps
<1>5. MotionType'
  BY <1>0, <1>1, <1>2 DEF MotionType, Shrinks, MotionVars, Sync
<1>6. Attaching' /\ Detaching'
  BY <1>0, <1>2, <1>3, <1>4, SameProcessor DEF MotionVars, Ids
<1>7. Calling'
  BY <1>0 DEF Inv, HandlerInv, Calling
<1>8. RateFollows'
  BY <1>0, <1>1, <1>2, RateShrinks DEF Normal, MotionVars
<1>9. FileFollows'
  <2>1. Stopping' <=> Stopping
    BY <1>0 DEF Stopping
  <2>2. CASE t = "START"
    <3>1. recording /\ ~camerafile /\ ~Stopping /\ "STOP" \notin answered
      BY <1>1, <1>2, <2>2 DEF FileFollows
    <3>2. \A i \in DOMAIN msgs' : msgs'[i].id # "START"
      BY <1>2, <1>3, <2>2 DEF Shrinks, Once
    <3>3. \A i \in DOMAIN msgs' : msgs'[i].id # "STOP"
      BY <1>1, <1>4, <3>1 DEF FileFollows, From, Ids
    <3> QED BY <1>0, <1>2, <2>1, <2>2, <3>1, <3>2, <3>3 DEF FileFollows, Once
  <2>3. CASE t = "STOP"
    <3>1. recording /\ Stopping
      BY <1>1, <1>2, <2>3 DEF FileFollows
    <3>2. \A i \in DOMAIN msgs' : msgs'[i].id # "STOP"
      BY <1>2, <1>3, <2>3 DEF Shrinks, Once
    <3>3. \A i \in DOMAIN msgs' : msgs'[i].id # "START"
      BY <1>1, <1>4, <3>1 DEF FileFollows, From, Ids
    <3> QED BY <1>0, <1>2, <2>1, <2>3, <3>1, <3>2, <3>3 DEF FileFollows, Once
  <2> QED BY <1>2, <2>2, <2>3
<1> QED BY <1>5, <1>6, <1>7, <1>8, <1>9 DEF Inv, HandlerInv, RecordInv


-----------------------------------------------------------------------------
(* The callback, in the loop's thread.                                     *)

\* While the loop calls back there is the one processor, and the client has not
\* gone past its DETACH.
LEMMA InCallback ==
  ASSUME Inv, loop \in CallingBack
  PROVE  /\ list_mutex = Loop /\ handlers = {md_process} /\ md_process # Nothing
         /\ MD_PROCESSING_FLAG /\ (CHOOSE p \in handlers : TRUE) = md_process
         /\ client # "stopping" /\ md_process \in Nat /\ md_process <= made
<1>1. list_mutex = Loop /\ handlers = {md_process} /\ md_process # Nothing /\ client # "stopping"
  BY DEF Inv, HandlerInv, Calling, Attaching, Detaching
<1>2. MD_PROCESSING_FLAG /\ md_process \in Nat /\ md_process <= made
  <2>1. MD_PROCESSING_FLAG = (md_process # Nothing)
    BY DEF Inv, HandlerInv, MotionType
  <2>2. md_process \in Nat /\ md_process <= made
    BY DEF Inv, HandlerInv, MotionType
  <2> QED BY <1>1, <2>1, <2>2
<1>3. (CHOOSE p \in handlers : TRUE) = md_process
  BY <1>1
<1> QED BY <1>1, <1>2, <1>3

\* A step of the callback that sends a message, or none, not about processors.
LEMMA Callback ==
  ASSUME Inv, loop \in CallingBack,
         UNCHANGED <<MotionVars, client, low_frame_rate, camerafile, handlers, list_mutex>>,
         "DETACH" \in answered' <=> "DETACH" \in answered,
         recording' \in BOOLEAN, answered' \subseteq answered, MotionType',
         \/ msgs' = msgs
         \/ TakeBack("START")
         \/ \E m \in Message : msgs' = Append(msgs, m) /\ m.id \notin {"ATTACH", "DETACH"},
         FileFollows', RateFollows'
  PROVE  Inv'
<1>1. Calling'
  BY InCallback DEF Calling, MotionVars
<1>2. HandlerInv /\ Once("ATTACH") /\ Once("DETACH") /\ MotionType
  BY DEF Inv, HandlerInv, Attaching, Detaching
<1>3. From("ATTACH") /\ From("DETACH") /\ Once("ATTACH")' /\ Once("DETACH")'
  <2>1. CASE msgs' = msgs
    BY <1>2, <2>1 DEF From, Once
  <2>2. CASE TakeBack("START")
    BY <1>2, <2>2, TakesBackKeeps DEF Ids
  <2>3. ASSUME NEW m \in Message, msgs' = Append(msgs, m), m.id \notin {"ATTACH", "DETACH"}
        PROVE  From("ATTACH") /\ From("DETACH") /\ Once("ATTACH")' /\ Once("DETACH")'
    BY <1>2, <2>3, GrowsKeeps DEF Ids
  <2> QED BY <2>1, <2>2, <2>3
<1>4. Attaching' /\ Detaching'
  BY <1>2, <1>3, SameProcessor DEF MotionVars
<1> QED BY <1>1, <1>4 DEF Inv, HandlerInv, RecordInv

LEMMA CallbackStarts ==
  ASSUME Inv, CallbackStart
  PROVE  Inv'
<1>0. /\ loop = "start" /\ loop' = "rate" /\ loop \in CallingBack
      /\ UNCHANGED <<MotionVars, client, low_frame_rate, camerafile, handlers, list_mutex, answered>>
      /\ (~recording /\ StartRec) \/ UNCHANGED <<recording, msgs>>
  BY DEF CallbackStart, LoopGoto, clientVars, procVars, cameraVars, MotionVars, CallingBack
<1>1. RateFollows'
  BY <1>0 DEF RateFollows
<1>2. ~Stopping' /\ MotionType /\ FileFollows
  BY <1>0, InCallback DEF Stopping, Inv, HandlerInv, RecordInv
<1>3. CASE ~recording /\ StartRec
  <2>1. /\ FileFollows' /\ recording' = TRUE /\ Msg("START", 0) \in Message
        /\ msgs' = Append(msgs, Msg("START", 0))
    BY <1>0, <1>2, <1>3, Starts
  <2>2. MotionType'
    BY <1>0, <1>2, <2>1, TypeGrows DEF Msg, MotionType
  <2>3. Msg("START", 0).id \notin {"ATTACH", "DETACH"}
    BY DEF Msg
  <2> QED BY <1>0, <1>1, <2>1, <2>2, <2>3, Callback
<1>4. CASE UNCHANGED <<recording, msgs>>
  <2>1. MotionType'
    BY <1>0, <1>2, <1>4 DEF MotionType, MotionVars
  <2>2. FileFollows'
    BY <1>0, <1>2, <1>4 DEF FileFollows, Stopping, Once, Pending
  <2>3. recording' \in BOOLEAN
    BY <1>2, <1>4 DEF MotionType
  <2> QED BY <1>0, <1>1, <1>4, <2>1, <2>2, <2>3, Callback
<1> QED BY <1>0, <1>3, <1>4

LEMMA CallbackRates ==
  ASSUME Inv, CallbackRate \/ CallbackRateStop
  PROVE  Inv'
<1> DEFINE id == IF loop = "rate" THEN "NORMAL" ELSE "LOW"
           m == Msg(id, md_process)
<1>0. /\ UNCHANGED <<MotionVars, client, low_frame_rate, camerafile, handlers, list_mutex,
                     answered, recording>>
      /\ loop \in CallingBack
      /\ \/ loop = "rate" /\ loop' = "worked" /\ SendRate("NORMAL")
         \/ loop = "ratestop" /\ SendRate("LOW") /\ loop' = IF recording THEN "stop" ELSE "worked"
  BY DEF CallbackRate, CallbackRateStop, LoopGoto, clientVars, procVars, cameraVars, MotionVars,
     CallingBack
<1>1. MotionType /\ FileFollows /\ RateFollows /\ recording' \in BOOLEAN /\ Once("START") /\ Once("STOP")
  BY <1>0 DEF Inv, HandlerInv, RecordInv, MotionType, FileFollows
<1>2. msgs' = Append(msgs, m)
  BY <1>0, InCallback DEF SendRate
<1>3. m \in Message /\ m.id \in {"NORMAL", "LOW"} /\ m.p = md_process /\ m.p <= made
  BY <1>0, InCallback DEF Message, Msg, Ids
<1>4. m.id = "NORMAL" <=> loop = "rate"
  BY DEF Msg
<1> HIDE DEF m, id
<1>5. MotionType'
  BY <1>0, <1>1, <1>2, <1>3, TypeGrows DEF MotionType
<1>6. FileFollows'
  <2>1. Stopping' <=> Stopping
    BY <1>0 DEF Stopping
  <2>2. /\ From("START") /\ From("STOP") /\ Once("START")' /\ Once("STOP")'
        /\ Kept("START") /\ Kept("STOP")
    BY <1>1, <1>2, <1>3, GrowsKeeps DEF Ids
  <2> QED BY <1>0, <1>1, <2>1, <2>2, SameFile
<1>7. RateFollows'
  <2>1. CASE loop = "rate"
    <3>1. /\ Len(msgs) + 1 \in DOMAIN msgs' /\ msgs'[Len(msgs) + 1] = m
          /\ \A i \in DOMAIN msgs : i < Len(msgs) + 1
          /\ \A i \in DOMAIN msgs' : i \in DOMAIN msgs \/ i = Len(msgs) + 1
      BY <1>1, <1>2, <1>3, Grows
    <3>2. PICK n : n = Len(msgs) + 1
      OBVIOUS
    <3>3. n \in DOMAIN msgs' /\ msgs'[n].id = "NORMAL" /\ msgs'[n].p = md_process'
      BY <1>0, <1>3, <1>4, <2>1, <3>1, <3>2 DEF MotionVars
    <3>4. \A i \in DOMAIN msgs' : msgs'[i].id = "LOW" => i < n
      BY <3>1, <3>2, <3>3
    <3> QED BY <3>3, <3>4 DEF RateFollows, Normal
  <2>2. CASE loop = "ratestop"
    <3>1. ~recording' \/ loop' = "stop"
      BY <1>0, <2>2
    <3> QED BY <3>1 DEF RateFollows
  <2> QED BY <1>0, <2>1, <2>2
<1>8. m.id \notin {"ATTACH", "DETACH"}
  BY <1>3
<1> QED BY <1>0, <1>1, <1>2, <1>3, <1>5, <1>6, <1>7, <1>8, Callback


LEMMA CallbackStops ==
  ASSUME Inv, CallbackStop \/ CallbackStopped
  PROVE  Inv'
<1>0. /\ UNCHANGED <<MotionVars, client, low_frame_rate, camerafile, handlers, list_mutex>>
      /\ loop \in CallingBack /\ loop \in {"stop", "stopping"} /\ client # "stopping"
  <2>1. /\ UNCHANGED <<MotionVars, client, low_frame_rate, camerafile, handlers, list_mutex>>
        /\ loop \in {"stop", "stopping"}
    BY DEF CallbackStop, CallbackStopped, clientVars, procVars, cameraVars, MotionVars
  <2> QED BY <2>1, InCallback DEF CallingBack
<1>1. MotionType /\ FileFollows
  BY DEF Inv, HandlerInv, RecordInv
<1>2. CASE CallbackStop /\ ~recording
  <2>1. /\ loop = "stop" /\ loop' = "worked" /\ UNCHANGED <<msgs, answered, recording>>
    BY <1>2 DEF CallbackStop, StopsRec, LoopGoto
  <2>2. FileFollows'
    BY <1>0, <1>1, <2>1 DEF FileFollows, Stopping, Once, Pending
  <2>3. MotionType' /\ recording' \in BOOLEAN
    BY <1>0, <1>1, <2>1 DEF MotionType, MotionVars
  <2>4. RateFollows'
    BY <1>2, <2>1 DEF RateFollows
  <2> QED BY <1>0, <2>1, <2>2, <2>3, <2>4, Callback
<1>3. CASE CallbackStop /\ recording /\ Pending("START")
  <2>1. /\ loop = "stop" /\ loop' = "worked" /\ TakeBack("START") /\ recording' = FALSE
        /\ answered' = answered
    BY <1>3 DEF CallbackStop, StopsRec, LoopGoto
  <2>2. FileFollows'
    BY <1>0, <1>3, <2>1, TakesStartBack DEF Stopping
  <2>3. MotionType'
    BY <1>0, <1>1, <2>1, TakesBack, TypeShrinks DEF MotionType
  <2>4. RateFollows'
    BY <2>1 DEF RateFollows
  <2> QED BY <1>0, <2>1, <2>2, <2>3, <2>4, Callback
<1>4. CASE CallbackStop /\ recording /\ ~Pending("START")
  <2>1. /\ loop = "stop" /\ loop' = "stopping" /\ msgs' = Append(msgs, Msg("STOP", 0))
        /\ recording' = recording /\ answered' = answered
    BY <1>4 DEF CallbackStop, StopsRec, LoopGoto
  <2>2. ~Stopping /\ Stopping'
    BY <1>0, <2>1 DEF Stopping
  <2>3. FileFollows' /\ Msg("STOP", 0) \in Message
    BY <1>0, <1>4, <2>1, <2>2, SendsStop
  <2>4. MotionType' /\ recording' \in BOOLEAN
    BY <1>0, <1>1, <2>1, <2>3, TypeGrows DEF Msg, MotionType
  <2>5. RateFollows'
    BY <2>1 DEF RateFollows
  <2>6. Msg("STOP", 0).id \notin {"ATTACH", "DETACH"}
    BY DEF Msg
  <2> QED BY <1>0, <2>1, <2>3, <2>4, <2>5, <2>6, Callback
<1>5. CASE CallbackStopped
  <2>1. /\ "STOP" \in answered /\ answered' = answered \ {"STOP"} /\ recording' = FALSE
        /\ loop' = "worked" /\ msgs' = msgs
    BY <1>5 DEF CallbackStopped, LoopGoto
  <2>2. FileFollows'
    BY <1>0, <2>1, SeesStop DEF Stopping
  <2>3. MotionType'
    BY <1>0, <1>1, <2>1 DEF MotionType, MotionVars
  <2>4. RateFollows'
    BY <2>1 DEF RateFollows
  <2> QED BY <1>0, <2>1, <2>2, <2>3, <2>4, Callback
<1> QED BY <1>2, <1>3, <1>4, <1>5

-----------------------------------------------------------------------------
(* The theorems.                                                           *)

LEMMA InvStep == Inv /\ [Next]_vars => Inv'
<1> SUFFICES ASSUME Inv, [Next]_vars PROVE Inv'
  OBVIOUS
<1>1. CASE ClientCalls
  BY <1>1, StartsDetection, StopsDetection, ClientRecords, MovingSteps DEF ClientCalls
<1>2. CASE ClientReturns
  BY <1>2, Returns, ClientRecords DEF ClientReturns
<1>3. CASE CameraGoesOn
  BY <1>3, Attaches, Detaches, ChangesRate, ChangesFile, MovingSteps DEF CameraGoesOn
<1>4. CASE LoopGoesOn
  BY <1>4, CallbackStarts, CallbackRates, CallbackStops, MovingSteps DEF LoopGoesOn
<1>5. CASE UNCHANGED vars
  BY <1>5, MovingSteps
<1> QED BY <1>1, <1>2, <1>3, <1>4, <1>5 DEF Next

LEMMA InvInit == Init => Inv
<1> SUFFICES ASSUME Init PROVE Inv
  OBVIOUS
<1>1. /\ md_process = Nothing /\ made = 0 /\ client = "idle" /\ low_frame_rate = -1
      /\ msgs = <<>> /\ answered = {} /\ handlers = {} /\ loop = "test"
  BY DEF Init
<1>2. MotionType
  <2>1. msgs \in Seq(Message) /\ DOMAIN msgs = {}
    BY <1>1
  <2>2. recording \in BOOLEAN /\ camerafile \in BOOLEAN
    BY DEF Init
  <2>3. MD_PROCESSING_FLAG = (md_process # Nothing)
    BY DEF Init
  <2> QED BY <1>1, <2>1, <2>2, <2>3 DEF MotionType, Nothing
<1>3. Attaching /\ Detaching /\ Calling
  BY <1>1 DEF Attaching, Detaching, Calling, CallingBack, Once
<1>4. ~recording /\ ~camerafile
  BY DEF Init
<1>5. FileFollows /\ RateFollows
  BY <1>1, <1>4 DEF FileFollows, RateFollows, Once, Stopping, Pending
<1> QED BY <1>2, <1>3, <1>5 DEF Inv, HandlerInv, RecordInv

LEMMA InvAlways == Spec => []Inv
  BY InvInit, InvStep, PTL DEF Spec

\* When stop_motion_detection deletes the processor, the dispatcher does not know
\* it any more, whichever of the ATTACH and the DETACH the camera thread has seen.
THEOREM HandlersCorrect == Spec => []HandlersLive
<1>1. Inv => HandlersLive
  BY DEF Inv, HandlerInv, Attaching, HandlersLive
<1> QED BY <1>1, InvAlways, PTL

\* At the low rate nothing is recorded, and no file is open, once the messages are
\* handled and no callback is on its way.
THEOREM RecordCorrect == Spec => []RecordFollows
<1>1. ASSUME Inv, md_process \in handlers, low_frame_rate = 1, msgs = <<>>, list_mutex = Nobody
      PROVE  ~recording /\ ~camerafile
  <2>1. loop \notin CallingBack /\ md_process # Nothing
    BY <1>1, MotionAssumption DEF MotionAssumption, Inv, HandlerInv, Calling, Attaching
  <2>2. ~recording
    BY <1>1, <2>1 DEF Inv, RecordInv, RateFollows, CallingBack
  <2> QED BY <1>1, <2>2, Silent
<1>2. Inv => RecordFollows
  BY <1>1 DEF RecordFollows
<1> QED BY <1>2, InvAlways, PTL
=============================================================================
