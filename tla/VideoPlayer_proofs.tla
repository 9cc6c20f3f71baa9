------------------------ MODULE VideoPlayer_proofs ------------------------
(***************************************************************************)
(* Theorems about VideoPlayer, for every size of the frame queue, length   *)
(* of the file and sequence of seeks and keys.                             *)
(*   The ring: the video thread never writes into a slot that the play     *)
(* thread reads.  windex, rindex and size are changed in several steps by  *)
(* two threads, outside one another's locks; the inductive invariant says  *)
(* how far apart the indices are in each of the steps: size, one more once *)
(* windex has moved and size not yet, one less once rindex has moved and   *)
(* size not yet.                                                           *)
(*   The stale frame, the images (each in one place, and freed once) and   *)
(* the order in which frames are shown build on it.                        *)
(***************************************************************************)
EXTENDS VideoPlayer, TLAPS

Pushing == decoder = "push"
Moving == display \in {"shrink", "shrink_again"}
Apart(n) == windex = rindex + n \/ windex = rindex + n - QueueSize

RingType ==
  /\ rindex \in 0..QueueSize-1 /\ windex \in 0..QueueSize-1
  /\ size \in Nat /\ rindex_shown \in {0, 1}
RingCount ==
  /\ (Pushing <=> Moving) => Apart(size)
  /\ Pushing /\ ~Moving => Apart(size + 1)
  /\ Moving /\ ~Pushing => Apart(size - 1)
  /\ size <= QueueSize
  /\ decoder \in {"write", "push"} => size < QueueSize
ShownCount ==
  /\ rindex_shown <= size
  /\ display \in {"judge", "show"} => rindex_shown < size
  /\ display \in {"shrink", "shrink_again"} => rindex_shown = 1 /\ size >= 2
NotYetOpen == reader = "open" => decoder = "none"

RingInv == RingType /\ RingCount /\ ShownCount /\ NotYetOpen

\* The next slot is the next number, or the first again.
LEMMA AfterInRing ==
  ASSUME NEW i \in 0..QueueSize-1
  PROVE  After(i) \in 0..QueueSize-1 /\ (After(i) = i + 1 \/ After(i) = i + 1 - QueueSize)
  BY PlayerAssumption DEF PlayerAssumption, After

\* The ring begins empty, and the video thread is not there yet.
LEMMA RingInit == Init => RingInv
  BY PlayerAssumption DEF PlayerAssumption, Init, RingInv, RingType, RingCount,
     ShownCount, NotYetOpen, Pushing, Moving, Apart

\* The steps of the read thread change the place of a waiting video thread at most.
LEMMA ReaderKeeps == RingInv /\ Reader => RingInv'
<1> SUFFICES ASSUME RingInv, Reader PROVE RingInv'
  OBVIOUS
<1> USE PlayerAssumption
    DEF PlayerAssumption, RingInv, RingType, RingCount, ShownCount, NotYetOpen, Pushing,
        Moving, Apart, ringVars, decoderVars, displayVars
<1>1. ASSUME Open PROVE RingInv'
  BY <1>1 DEF Open
<1>2. ASSUME NEW n, Put(n)
      PROVE decoder' = decoder \/ (decoder = "no_packet" /\ decoder' = "get")
  BY <1>2 DEF Put, Woken
<1>3. ASSUME PutFlush PROVE RingInv'
  BY <1>2, <1>3 DEF PutFlush
<1>4. ASSUME ReadPacket PROVE RingInv'
  BY <1>2, <1>4 DEF ReadPacket
<1>5. ASSUME ReadEnd PROVE RingInv'
  BY <1>2, <1>5 DEF ReadEnd
<1>6. ASSUME OpenFails \/ Top \/ Seek \/ Sought \/ Room \/ ReadError PROVE RingInv'
  BY <1>6 DEF OpenFails, Top, Seek, Sought, Room, ReadError
<1> QED
  BY <1>1, <1>3, <1>4, <1>5, <1>6 DEF Reader

\* The video thread writes only when it saw a free slot, and size does not grow
\* but by its own hand.
LEMMA DecoderKeeps == RingInv /\ Decoder => RingInv'
<1> SUFFICES ASSUME RingInv, Decoder PROVE RingInv'
  OBVIOUS
<1> USE PlayerAssumption
    DEF PlayerAssumption, RingInv, RingType, RingCount, ShownCount, NotYetOpen, Pushing,
        Moving, Apart, readerVars, displayVars, ringVars
<1>1. ASSUME Alloc \/ Get \/ Decode \/ DropEarly \/ DecoderEnds PROVE RingInv'
  <2>1. /\ UNCHANGED <<ringVars, readerVars, display>>
        /\ decoder \notin {"push", "write", "none"}
        /\ decoder' \notin {"push", "write"}
    BY <1>1 DEF Alloc, Get, Decode, DropEarly, DecoderEnds
  <2> QED BY <2>1
<1>2. ASSUME PeekWritable PROVE RingInv'
  <2>1. UNCHANGED <<rindex, windex, size, rindex_shown, reader, display>>
    BY <1>2 DEF PeekWritable
  <2>2. decoder = "picture" /\ decoder' \in {"end", "no_slot", "write"}
        /\ (decoder' = "write" => ~NoSlot)
    BY <1>2 DEF PeekWritable
  <2> QED BY <2>1, <2>2 DEF NoSlot
<1>3. ASSUME Write PROVE RingInv'
  <2>1. UNCHANGED <<rindex, size, rindex_shown, reader, display>> /\ windex' = After(windex)
    BY <1>3 DEF Write
  <2>2. decoder = "write" /\ decoder' = "push"
    BY <1>3 DEF Write
  <2> QED BY <2>1, <2>2, AfterInRing
<1>4. ASSUME Push PROVE RingInv'
  <2>1. UNCHANGED <<rindex, windex, rindex_shown, reader, display>> /\ size' = size + 1
    BY <1>4 DEF Push
  <2>2. decoder = "push" /\ decoder' = "alloc"
    BY <1>4 DEF Push
  <2> QED BY <2>1, <2>2
<1> QED
  BY <1>1, <1>2, <1>3, <1>4 DEF Decoder

\* The play thread looks at a slot only when it saw a frame there, and size does
\* not shrink but by its own hand.
LEMMA DisplayKeeps == RingInv /\ Display => RingInv'
<1> SUFFICES ASSUME RingInv, Display PROVE RingInv'
  OBVIOUS
<1> USE PlayerAssumption
    DEF PlayerAssumption, RingInv, RingType, RingCount, ShownCount, NotYetOpen, Pushing,
        Moving, Apart, readerVars, decoderVars
<1>1. ASSUME Loop \/ Idle \/ NotYet \/ Due PROVE RingInv'
  BY <1>1 DEF Loop, Idle, NotYet, Due, ringVars
<1>2. ASSUME Refresh PROVE RingInv'
  BY <1>2 DEF Refresh, Remaining, ringVars
<1>3. ASSUME display \in {"judge", "show"}, UNCHANGED <<windex, size, decoder, reader>>,
             FrameQueueNext("shrink", "loop") \/ FrameQueueNext("shrink_again", "refresh")
      PROVE RingInv'
  <2>1. CASE rindex_shown = 0
    <3>1. rindex_shown' = 1 /\ display' \in {"loop", "refresh"} /\ rindex' = rindex
      BY <1>3, <2>1 DEF FrameQueueNext
    <3> QED BY <1>3, <2>1, <3>1
  <2>2. CASE rindex_shown # 0
    <3>1. rindex' = After(rindex) /\ rindex_shown' = rindex_shown
          /\ display' \in {"shrink", "shrink_again"}
      BY <1>3, <2>2 DEF FrameQueueNext
    <3>2. rindex' \in 0..QueueSize-1
          /\ (rindex' = rindex + 1 \/ rindex' = rindex + 1 - QueueSize)
      BY <3>1, AfterInRing
    <3> QED BY <1>3, <2>2, <3>1, <3>2
  <2> QED BY <2>1, <2>2
<1>4. ASSUME DropOutdated \/ DropLate \/ Show PROVE RingInv'
  BY <1>3, <1>4 DEF DropOutdated, DropLate, Show
<1>5. ASSUME Shrink PROVE RingInv'
  BY <1>5 DEF Shrink, FreesSlot, Woken
<1> QED
  BY <1>1, <1>2, <1>4, <1>5 DEF Display

\* The user interface does not touch the indices.
LEMMA UiKeeps == RingInv /\ (Keys \/ CloseDown \/ Closed \/ UNCHANGED vars) => RingInv'
<1> SUFFICES ASSUME RingInv, Keys \/ CloseDown \/ Closed \/ UNCHANGED vars PROVE RingInv'
  OBVIOUS
<1> USE DEF RingInv, RingType, RingCount, ShownCount, NotYetOpen, Pushing, Moving, Apart,
      readerVars, decoderVars, ringVars, displayVars
<1>1. ASSUME Keys PROVE RingInv'
  BY <1>1 DEF Keys, KeySeek, KeyPause, KeyStep, Exit
<1>2. ASSUME CloseDown PROVE RingInv'
  BY <1>2 DEF CloseDown, Deinit, AbortQueue, SignalFrameQueue, SignalsFrames, Close, Woken
<1>3. ASSUME Closed \/ UNCHANGED vars PROVE RingInv'
  BY <1>3 DEF Closed, vars
<1> QED
  BY <1>1, <1>2, <1>3

\* Indices less than a turn apart name different slots.
LEMMA RingSafe == RingInv => NotOverwritten
  BY AfterInRing, PlayerAssumption
  DEF PlayerAssumption, RingInv, RingType, RingCount, ShownCount, NotOverwritten, Pushing,
      Moving, Apart, Vp

\* The slot that the video thread writes is neither the one the play thread
\* judges or shows (frame_queue_peek) nor the last one shown (frame_queue_peek_last),
\* whatever the size of the frame queue.
THEOREM RingCorrect == Spec => []NotOverwritten
<1>1. Init => RingInv
  BY RingInit
<1>2. RingInv /\ [Next]_vars => RingInv'
  BY ReaderKeeps, DecoderKeeps, DisplayKeeps, UiKeeps DEF Next
<1>3. RingInv => NotOverwritten
  BY RingSafe
<1> QED
  BY <1>1, <1>2, <1>3, PTL DEF Spec

-----------------------------------------------------------------------------
(* The second theorem rests on the first: while a frame is shown nobody     *)
(* changes its serial, so that what was judged is what is shown.            *)

SlotsType == DOMAIN slots = 0..QueueSize-1 /\ pos \in Nat \ {0}
StaleCount ==
  /\ stale \in {0, 1}
  /\ display = "show" /\ slots[Vp].serial # serial => stale = 0
NothingBeforeOpen == reader = "open" => size = 0 /\ rindex_shown = 0
Leaving == (ui # "playing" => exited) /\ (exited => display = "out")

StaleInv == SlotsType /\ StaleCount /\ NothingBeforeOpen /\ Leaving

\* Only a flush packet begins a serial once the file is open, and then the count
\* begins again.
LEMMA ReaderStale == RingInv /\ StaleInv /\ Reader => StaleInv'
<1> SUFFICES ASSUME RingInv, StaleInv, Reader PROVE StaleInv'
  OBVIOUS
<1> USE DEF StaleInv, SlotsType, StaleCount, NothingBeforeOpen, Leaving, Vp
<1>1. UNCHANGED <<slots, rindex, rindex_shown, size, display, ui, exited>>
  BY DEF Reader, Open, OpenFails, Top, Seek, PutFlush, Sought, Room, ReadPacket, ReadEnd,
     ReadError, ringVars, displayVars, uiVars
<1>2. reader' # "open"
  BY DEF Reader, Open, OpenFails, Top, Seek, PutFlush, Sought, Room, ReadPacket, ReadEnd,
     ReadError
<1>3. pos' \in Nat \ {0}
  BY DEF Reader, Open, OpenFails, Top, Seek, PutFlush, Sought, Room, ReadPacket, ReadEnd,
     ReadError
<1>4. ASSUME Open PROVE StaleInv'
  <2>1. display # "show"
    <3>1. size = 0 /\ rindex_shown = 0
      BY <1>4 DEF Open
    <3> QED BY <3>1 DEF RingInv, ShownCount
  <2>2. stale' = stale
    BY <1>4 DEF Open, displayVars
  <2> QED BY <1>1, <1>2, <1>3, <2>1, <2>2
<1>5. ASSUME PutFlush PROVE StaleInv'
  BY <1>1, <1>2, <1>5, <1>3 DEF PutFlush
<1>6. ASSUME \/ OpenFails \/ Top \/ Seek \/ Sought \/ Room
             \/ ReadPacket \/ ReadEnd \/ ReadError
      PROVE StaleInv'
  <2>1. ASSUME NEW n, n # Flush, Put(n) PROVE serial' = serial
    BY <2>1 DEF Put, queueVars
  <2>2. pos # Flush /\ Null # Flush
    BY DEF Flush, Null
  <2>3. UNCHANGED <<serial, stale>>
    BY <1>6, <2>1, <2>2 DEF OpenFails, Top, Seek, Sought, Room, ReadPacket, ReadEnd,
       ReadError, queueVars, displayVars
  <2> QED BY <1>1, <1>2, <1>3, <2>3
<1> QED
  BY <1>4, <1>5, <1>6 DEF Reader

\* The video thread writes another slot than the one that is shown.
LEMMA DecoderStale == RingInv /\ StaleInv /\ Decoder => StaleInv'
<1> SUFFICES ASSUME RingInv, StaleInv, Decoder PROVE StaleInv'
  OBVIOUS
<1> USE DEF StaleInv, SlotsType, StaleCount, NothingBeforeOpen, Leaving
<1>1. UNCHANGED <<rindex, rindex_shown, serial, stale, reader, pos, display, ui, exited>>
  BY DEF Decoder, Alloc, Get, Decode, DropEarly, PeekWritable, Write, Push, DecoderEnds,
     queueVars, ringVars, readerVars, displayVars, uiVars
<1>2. decoder # "none"
  BY DEF Decoder, Alloc, Get, Decode, DropEarly, PeekWritable, Write, Push, DecoderEnds
<1>3. reader # "open"
  BY <1>2 DEF RingInv, NotYetOpen
<1>4. Vp' = Vp
  BY <1>1 DEF Vp
<1>5. ASSUME Write PROVE StaleInv'
  <2>1. slots' = [slots EXCEPT ![windex] =
                    [serial |-> item.serial, n |-> item.n, image |-> frame]]
    BY <1>5 DEF Write
  <2>2. display = "show" => windex # Vp
    BY <1>5, RingSafe DEF Write, NotOverwritten
  <2>3. Vp \in 0..QueueSize-1
    BY AfterInRing DEF RingInv, RingType, Vp
  <2>4. DOMAIN slots' = DOMAIN slots
    BY <2>1
  <2>5. display = "show" => slots'[Vp] = slots[Vp]
    BY <2>1, <2>2, <2>3
  <2> QED BY <1>1, <1>3, <1>4, <2>4, <2>5
<1>6. ASSUME ~Write PROVE StaleInv'
  <2>1. slots' = slots
    BY <1>6 DEF Decoder, Alloc, Get, Decode, DropEarly, PeekWritable, Push, DecoderEnds,
       ringVars
  <2> QED BY <1>1, <1>3, <1>4, <2>1
<1> QED
  BY <1>5, <1>6

\* The serial is compared before a frame is shown, and once shown the next is judged.
LEMMA DisplayStale == RingInv /\ StaleInv /\ Display => StaleInv'
<1> SUFFICES ASSUME RingInv, StaleInv, Display PROVE StaleInv'
  OBVIOUS
<1> USE DEF StaleInv, SlotsType, StaleCount, NothingBeforeOpen, Leaving
<1>1. UNCHANGED <<serial, reader, pos, ui>>
  BY DEF Display, Loop, Refresh, Idle, DropOutdated, NotYet, Due, DropLate, Show, Shrink,
     queueVars, readerVars, uiVars
<1>2. DOMAIN slots' = DOMAIN slots
  BY DEF Display, Loop, Refresh, Idle, DropOutdated, NotYet, Due, DropLate, Show, Shrink,
     FreePicture, ringVars
<1>3. display # "out" /\ ~exited /\ ui = "playing" /\ (exited' => display' = "out")
  BY DEF Display, Loop, Refresh, Idle, DropOutdated, NotYet, Due, DropLate, Show, Shrink
<1>4. reader = "open" => size' = size /\ rindex_shown' = rindex_shown
  BY DEF Display, Loop, Refresh, Idle, DropOutdated, NotYet, Due, DropLate, Show, Shrink,
     ringVars, RingInv, RingType, ShownCount
<1>5. ASSUME Due PROVE StaleCount'
  BY <1>1, <1>5 DEF Due, Outdated, Vp, ringVars
<1>6. ASSUME Show PROVE StaleCount'
  BY <1>6 DEF Show, FrameQueueNext
<1>7. ASSUME Loop \/ Refresh \/ Idle \/ DropOutdated \/ NotYet \/ DropLate \/ Shrink
      PROVE StaleCount'
  BY <1>7 DEF Loop, Refresh, Idle, DropOutdated, NotYet, DropLate, Shrink, FrameQueueNext
<1> QED
  BY <1>1, <1>2, <1>3, <1>4, <1>5, <1>6, <1>7 DEF Display

\* The user interface takes the player down when the play thread has left.
LEMMA UiStale ==
  RingInv /\ StaleInv /\ (Keys \/ CloseDown \/ Closed \/ UNCHANGED vars) => StaleInv'
<1> SUFFICES ASSUME RingInv, StaleInv, Keys \/ CloseDown \/ Closed \/ UNCHANGED vars
             PROVE StaleInv'
  OBVIOUS
<1> USE DEF StaleInv, SlotsType, StaleCount, NothingBeforeOpen, Leaving, Vp, queueVars,
      readerVars, decoderVars, ringVars, displayVars, uiVars
<1>1. ASSUME Keys PROVE StaleInv'
  <2>1. UNCHANGED <<slots, rindex, rindex_shown, size, serial, stale, display, reader,
                    pos, ui, exited>>
    BY <1>1 DEF Keys, KeySeek, KeyPause, KeyStep, Exit
  <2> QED BY <2>1
<1>2. ASSUME Deinit \/ AbortQueue \/ SignalFrameQueue PROVE StaleInv'
  <2>1. exited /\ UNCHANGED <<slots, rindex, rindex_shown, size, serial, stale, display,
                              reader, pos, exited>>
    BY <1>2 DEF Deinit, AbortQueue, SignalFrameQueue
  <2> QED BY <2>1
<1>3. ASSUME Close PROVE StaleInv'
  <2>1. exited /\ UNCHANGED <<rindex, rindex_shown, size, serial, stale, display, reader,
                              pos, exited>>
    BY <1>3 DEF Close
  <2>2. DOMAIN slots' = DOMAIN slots /\ display # "show"
    BY <1>3 DEF Close
  <2> QED BY <2>1, <2>2
<1>4. ASSUME Closed \/ UNCHANGED vars PROVE StaleInv'
  <2>1. UNCHANGED <<slots, rindex, rindex_shown, size, serial, stale, display, reader,
                    pos, ui, exited>>
    BY <1>4 DEF Closed, vars
  <2> QED BY <2>1
<1> QED
  BY <1>1, <1>2, <1>3, <1>4 DEF CloseDown

\* At most one frame from before a seek is shown after it (video_refresh compares
\* the serial before the display and not again), whatever the size of the queues
\* and however many seeks there are.
THEOREM StaleCorrect == Spec => []AtMostOneStale
<1>1. Init => RingInv /\ StaleInv
  <2>1. Init => StaleInv
    BY DEF Init, StaleInv, SlotsType, StaleCount, NothingBeforeOpen, Leaving
  <2> QED BY <2>1, RingInit
<1>2. RingInv /\ StaleInv /\ [Next]_vars => (RingInv /\ StaleInv)'
  BY ReaderKeeps, DecoderKeeps, DisplayKeeps, UiKeeps, ReaderStale, DecoderStale,
     DisplayStale, UiStale DEF Next
<1>3. StaleInv => AtMostOneStale
  BY DEF StaleInv, StaleCount, AtMostOneStale
<1> QED
  BY <1>1, <1>2, <1>3, PTL DEF Spec

-----------------------------------------------------------------------------
(* Images and the order of frames.  The frames that wait to be shown are    *)
(* those of the slots At(rindex_shown) .. At(Held - 1): nobody else holds   *)
(* an image in the ring, and they are in the order of the file, before the  *)
(* packet that is being decoded and the packets of the queue.               *)

At(k) == IF rindex + k < QueueSize THEN rindex + k ELSE rindex + k - QueueSize
\* The frames between rindex and windex.
Held == size + (IF Pushing THEN 1 ELSE 0) - (IF Moving THEN 1 ELSE 0)
Waiting == {At(k) : k \in rindex_shown..Held-1}

Packet == [serial : Nat, n : Int]
Slot == [serial : Nat, n : Int, image : Images \cup {NoImage}]
PlayerType ==
  /\ packets \in Seq(Packet) /\ serial \in Nat /\ item \in Packet /\ pos \in Nat \ {0}
  /\ slots \in [0..QueueSize-1 -> Slot]
  /\ frame \in Images \cup {NoImage} /\ pre_pic \in Images \cup {NoImage}
  /\ live \in SUBSET Images
  /\ shown \in Packet

Owned ==
  /\ \A p, q \in Places : ImageAt(p) = ImageAt(q) /\ ImageAt(p) # NoImage => p = q
  /\ \A p \in Places : ImageAt(p) \in live \cup {NoImage}
  /\ \A i \in live : \E p \in Places : ImageAt(p) = i
OnlyWaiting == \A i \in 0..QueueSize-1 : slots[i].image # NoImage => i \in Waiting
NoFrameWhen == decoder \in {"none", "alloc", "push", "out"} => frame = NoImage
WhenClosed ==
  /\ decoder = "none" => live = {}
  /\ ui \in {"signal", "join_decoder", "closed"} => reader = "out"
  /\ ui = "closed" => live = {} /\ decoder \in {"none", "out"}
ImageInv == Owned /\ OnlyWaiting /\ NoFrameWhen /\ WhenClosed

\* The frames that wait, the next to be shown first.
Ring == rindex_shown..Held-1
Frame(k) == slots[At(k)]
\* A picture that may still be shown is under work.
Pending == decoder \in {"got", "picture", "no_slot", "write"} /\ item.n > 0
Behind(x) == /\ x.serial <= serial
             /\ x.serial = serial /\ reader # "flush" => x.n < pos
InOrder ==
  /\ \A i, j \in DOMAIN packets :
       i < j /\ packets[i].n > 0 /\ packets[j].n > 0 => Later(packets[j], packets[i])
  /\ \A k, l \in Ring : k < l => Later(Frame(l), Frame(k))
  /\ \A j \in DOMAIN packets : packets[j].n > 0 => Later(packets[j], shown)
  /\ \A j \in DOMAIN packets, k \in Ring : packets[j].n > 0 => Later(packets[j], Frame(k))
  /\ \A j \in DOMAIN packets : packets[j].n > 0 /\ Pending => Later(packets[j], item)
  /\ \A k \in Ring : Later(Frame(k), shown)
  /\ Pending => Later(item, shown)
  /\ \A k \in Ring : Pending => Later(item, Frame(k))
AllBehind ==
  /\ \A j \in DOMAIN packets : packets[j].n > 0 => Behind(packets[j])
  /\ \A k \in Ring : Behind(Frame(k))
  /\ Pending => Behind(item)
  /\ Behind(shown)
Numbers ==
  /\ \A j \in DOMAIN packets : packets[j].n >= Null
  /\ item.n >= Null
  /\ decoder \in {"picture", "no_slot", "write"} => item.n > 0
OrderInv ==
  /\ reader \notin {"open", "out"} => ~aborted
  /\ Numbers
  /\ display # "out" => InOrder /\ AllBehind

\* The places of the ring, by their distance from rindex.
LEMMA AtInRing ==
  ASSUME RingInv
  PROVE  /\ \A k \in 0..QueueSize-1 : At(k) \in 0..QueueSize-1
         /\ \A k, l \in 0..QueueSize-1 : At(k) = At(l) => k = l
  BY PlayerAssumption DEF PlayerAssumption, RingInv, RingType, At

\* How many frames the ring holds, and where the next is written and the first read.
LEMMA HeldInRing ==
  ASSUME RingInv
  PROVE  /\ Held \in Int /\ rindex_shown <= Held /\ Held <= QueueSize
         /\ Held < QueueSize => windex = At(Held)
         /\ display \in {"judge", "show"} => rindex_shown < Held
         /\ decoder = "write" => Held < QueueSize
         /\ Vp = At(rindex_shown) /\ Vp \in 0..QueueSize-1 /\ windex \in 0..QueueSize-1
<1> USE PlayerAssumption DEF PlayerAssumption, RingInv, RingType, RingCount, ShownCount
<1>1. /\ Held \in Int /\ rindex_shown <= Held /\ Held <= QueueSize
      /\ display \in {"judge", "show"} => rindex_shown < Held
      /\ decoder = "write" => Held < QueueSize
  BY DEF Held, Pushing, Moving
<1>2. Apart(Held)
  BY DEF Held, Apart, Pushing, Moving
<1>3. Held < QueueSize => windex = At(Held)
  BY <1>1, <1>2 DEF Apart, At
<1>4. Vp = At(rindex_shown) /\ Vp \in 0..QueueSize-1
  BY DEF Vp, At, After
<1> QED BY <1>1, <1>3, <1>4

\* The read thread fills the queue with packets of the file.
LEMMA ReaderTypes == RingInv /\ PlayerType /\ Reader => PlayerType'
<1> SUFFICES ASSUME RingInv, PlayerType, Reader PROVE PlayerType'
  OBVIOUS
<1> USE DEF PlayerType, Packet
<1>1. UNCHANGED <<item, slots, frame, pre_pic, live, shown>>
  BY Zenon DEF Reader, Open, OpenFails, Top, Seek, PutFlush, Sought, Room, ReadPacket, ReadEnd,
     ReadError, ringVars, decoderVars, displayVars
<1>2. ASSUME NEW n \in Int, Put(n) PROVE packets' \in Seq(Packet) /\ serial' \in Nat
  <2>1. CASE aborted
    BY <1>2, <2>1 DEF Put, queueVars
  <2>2. CASE ~aborted
    <3>1. serial' = (IF n = Flush THEN serial + 1 ELSE serial)
          /\ packets' = Append(packets, [serial |-> serial', n |-> n])
      BY <1>2, <2>2 DEF Put
    <3> QED BY <3>1
  <2> QED BY <2>1, <2>2
<1>3. CASE Open
  <2>1. serial' = serial + 1 /\ pos' = pos
        /\ packets' = <<[serial |-> serial', n |-> Flush]>>
    BY <1>3 DEF Open
  <2> QED BY <1>1, <2>1 DEF Flush
<1>4. CASE Seek
  <2>1. \/ serial' = serial /\ packets' = <<>> /\ pos' \in 1..Frames
        \/ serial' = serial /\ packets' = packets /\ pos' = pos
    BY <1>4, Zenon DEF Seek
  <2>2. packets' \in Seq(Packet)
    <3> HIDE DEF Packet
    <3>1. <<>> \in Seq(Packet)
      OBVIOUS
    <3> QED BY <2>1, <3>1
  <2>3. pos' \in Nat \ {0}
    BY <2>1, PlayerAssumption DEF PlayerAssumption
  <2> QED BY <1>1, <2>1, <2>2, <2>3
<1>5. CASE PutFlush
  BY <1>1, <1>2, <1>5 DEF PutFlush, Flush
<1>6. CASE ReadPacket
  BY <1>1, <1>2, <1>6 DEF ReadPacket
<1>7. CASE ReadEnd
  <2>1. pos' = pos /\ (UNCHANGED queueVars \/ Put(Null))
    BY <1>7 DEF ReadEnd
  <2> QED BY <1>1, <1>2, <2>1 DEF Null, queueVars
<1>8. CASE OpenFails \/ Top \/ Sought \/ Room \/ ReadError
  <2>1. UNCHANGED <<packets, serial, pos>>
    BY <1>8 DEF OpenFails, Top, Sought, Room, ReadError, queueVars, readerVars
  <2> QED BY <1>1, <2>1
<1> QED
  BY <1>3, <1>4, <1>5, <1>6, <1>7, <1>8 DEF Reader

\* The video thread makes frames of them.
LEMMA DecoderTypes == RingInv /\ PlayerType /\ Decoder => PlayerType'
<1> SUFFICES ASSUME RingInv, PlayerType, Decoder PROVE PlayerType'
  OBVIOUS
<1> USE DEF PlayerType, Packet
<1>1. UNCHANGED <<serial, pos, pre_pic, shown>>
  BY Zenon DEF Decoder, Alloc, Get, Decode, DropEarly, PeekWritable, Write, Push, DecoderEnds,
     queueVars, readerVars, displayVars
<1>2. CASE Alloc
  <2>1. UNCHANGED <<packets, item, slots>>
        /\ \E i \in Images \ live : frame' = i /\ live' = live \cup {i}
    BY <1>2, Zenon DEF Alloc, queueVars, ringVars
  <2> QED BY <1>1, <2>1
<1>3. CASE Get
  <2>1. UNCHANGED <<slots, frame, live>>
    BY <1>3 DEF Get, ringVars
  <2>2. \/ UNCHANGED <<packets, item>>
        \/ packets # <<>> /\ item' = Head(packets) /\ packets' = Tail(packets)
    BY <1>3 DEF Get
  <2>3. packets # <<>> => Head(packets) \in Packet /\ Tail(packets) \in Seq(Packet)
    <3> HIDE DEF Packet
    <3> QED OBVIOUS
  <2> QED BY <1>1, <2>1, <2>2, <2>3
<1>4. CASE Decode \/ DropEarly \/ PeekWritable \/ Push \/ DecoderEnds
  <2>1. UNCHANGED <<packets, item, slots>>
    BY <1>4, Zenon DEF Decode, DropEarly, PeekWritable, Push, DecoderEnds, queueVars, ringVars
  <2>2. UNCHANGED <<frame, live>> \/ GiveBack
    BY <1>4 DEF Decode, DropEarly, PeekWritable, Push, DecoderEnds, AtTheEnd
  <2> QED BY <1>1, <2>1, <2>2 DEF GiveBack
<1>5. CASE Write
  <2>1. UNCHANGED <<packets, item, live>> /\ frame' = NoImage
        /\ slots' = [slots EXCEPT ![windex] =
                       [serial |-> item.serial, n |-> item.n, image |-> frame]]
    BY <1>5 DEF Write, queueVars
  <2>2. [serial |-> item.serial, n |-> item.n, image |-> frame] \in Slot
    BY DEF Slot
  <2> QED BY <1>1, <2>1, <2>2
<1> QED
  BY <1>2, <1>3, <1>4, <1>5 DEF Decoder

\* The play thread, and the user interface.
LEMMA DisplayTypes == RingInv /\ PlayerType /\ Display => PlayerType'
<1> SUFFICES ASSUME RingInv, PlayerType, Display PROVE PlayerType'
  OBVIOUS
<1> USE DEF PlayerType, Packet
<1>1. UNCHANGED <<packets, serial, item, pos, frame>>
  BY Zenon DEF Display, Loop, Refresh, Idle, DropOutdated, NotYet, Due, DropLate, Show, Shrink,
     queueVars, readerVars, decoderVars
<1>2. Vp \in 0..QueueSize-1 /\ slots[Vp] \in Slot
  BY HeldInRing
<1>3. [slots EXCEPT ![Vp].image = NoImage] \in [0..QueueSize-1 -> Slot]
  BY <1>2 DEF Slot
<1>4. CASE Loop \/ Refresh \/ Idle \/ NotYet \/ Due \/ Shrink
  <2>1. UNCHANGED <<slots, pre_pic, live, shown>>
    BY <1>4, Zenon DEF Loop, Refresh, Idle, NotYet, Due, Shrink, ringVars
  <2> QED BY <1>1, <2>1
<1>5. CASE DropOutdated \/ DropLate
  <2>1. UNCHANGED <<pre_pic, shown>> /\ FreePicture
    BY <1>5, Zenon DEF DropOutdated, DropLate
  <2> QED BY <1>1, <1>3, <2>1 DEF FreePicture
<1>6. CASE Show
  <2>1. shown' = [serial |-> slots[Vp].serial, n |-> slots[Vp].n]
    BY <1>6 DEF Show
  <2>2. \/ UNCHANGED <<slots, live, pre_pic>>
        \/ /\ live' = live \ {pre_pic} /\ pre_pic' = slots[Vp].image
           /\ slots' = [slots EXCEPT ![Vp].image = NoImage]
    BY <1>6 DEF Show
  <2> QED BY <1>1, <1>2, <1>3, <2>1, <2>2 DEF Slot
<1> QED
  BY <1>4, <1>5, <1>6 DEF Display

LEMMA UiTypes == PlayerType /\ (Keys \/ CloseDown \/ Closed \/ UNCHANGED vars) => PlayerType'
<1> SUFFICES ASSUME PlayerType, Keys \/ CloseDown \/ Closed \/ UNCHANGED vars
             PROVE PlayerType'
  OBVIOUS
<1> USE DEF PlayerType
<1>1. CASE Close
  <2>1. UNCHANGED <<serial, item, pos, frame, shown>>
    BY <1>1 DEF Close, readerVars, decoderVars
  <2>2. packets' = <<>> /\ pre_pic' = NoImage /\ live' \subseteq live
        /\ slots' = [i \in DOMAIN slots |-> NoFrame]
    BY <1>1 DEF Close
  <2>3. NoFrame \in Slot
    BY DEF NoFrame, Slot
  <2> QED BY <2>1, <2>2, <2>3
<1>2. CASE Keys \/ Deinit \/ AbortQueue \/ SignalFrameQueue \/ Closed \/ UNCHANGED vars
  <2>1. UNCHANGED <<packets, serial, item, pos, slots, frame, pre_pic, live, shown>>
    BY <1>2, Zenon DEF Keys, KeySeek, KeyPause, KeyStep, Exit, Deinit, AbortQueue, SignalFrameQueue, Closed,
       vars, queueVars, readerVars, decoderVars, ringVars, displayVars
  <2> QED BY <2>1
<1> QED
  BY <1>1, <1>2 DEF CloseDown


LEMMA TypesKeep == RingInv /\ PlayerType /\ [Next]_vars => PlayerType'
  BY ReaderTypes, DecoderTypes, DisplayTypes, UiTypes DEF Next

\* A frame that is written waits behind the others.
LEMMA HeldGrows ==
  ASSUME RingInv, Write
  PROVE  /\ UNCHANGED <<rindex, rindex_shown>> /\ Held' = Held + 1
         /\ windex = At(Held) /\ Held < QueueSize
<1>1. UNCHANGED <<rindex, rindex_shown, size, display>>
      /\ decoder = "write" /\ decoder' = "push"
  BY DEF Write, displayVars
<1>2. Held' = Held + 1
  BY <1>1 DEF Held, Pushing, Moving, RingInv, RingType
<1> QED BY <1>1, <1>2, HeldInRing

\* frame_queue_next leaves the first frame that waits behind.
LEMMA HeldShrinks ==
  ASSUME RingInv, display \in {"judge", "show"}, UNCHANGED <<windex, size, decoder>>,
         FrameQueueNext("shrink", "loop") \/ FrameQueueNext("shrink_again", "refresh")
  PROVE  \E d \in 0..1 : /\ Held' = Held - d /\ rindex_shown' = rindex_shown + 1 - d
                           /\ \A k \in rindex_shown'..Held'-1 : At(k)' = At(k + d)
<1> USE DEF RingInv, RingType
<1>1. CASE rindex_shown = 0
  <2>1. rindex_shown' = 1 /\ display' \in {"loop", "refresh"} /\ rindex' = rindex
    BY <1>1 DEF FrameQueueNext
  <2>2. Held' = Held - 0
    BY <2>1, HeldInRing DEF Held, Pushing, Moving
  <2>3. \A k \in rindex_shown'..Held'-1 : At(k)' = At(k + 0)
    BY <2>1, <2>2, HeldInRing DEF At
  <2> QED BY <1>1, <2>1, <2>2, <2>3
<1>2. CASE rindex_shown # 0
  <2>1. rindex_shown' = 1 /\ display' \in {"shrink", "shrink_again"}
        /\ rindex' = After(rindex) /\ rindex_shown = 1
    BY <1>2 DEF FrameQueueNext
  <2>2. Held' = Held - 1
    BY <2>1, HeldInRing DEF Held, Pushing, Moving
  <2>3. \A k \in rindex_shown'..Held'-1 : At(k)' = At(k + 1)
    BY <2>1, <2>2, HeldInRing, PlayerAssumption DEF At, After, PlayerAssumption
  <2> QED BY <2>1, <2>2, <2>3
<1> QED BY <1>1, <1>2

Passes == DropOutdated \/ DropLate \/ Show

\* Every other step leaves the frames of the ring as they are.
LEMMA HeldStays ==
  ASSUME RingInv, [Next]_vars, ~Write, ~Passes
  PROVE  UNCHANGED <<rindex, rindex_shown>> /\ Held' = Held
<1> USE DEF RingInv, RingType, Held, Pushing, Moving
<1>1. CASE Reader
  <2>1. UNCHANGED <<rindex, rindex_shown, size, display>>
    BY <1>1, Zenon DEF Reader, Open, OpenFails, Top, Seek, PutFlush, Sought, Room, ReadPacket,
       ReadEnd, ReadError, ringVars, displayVars
  <2>2. \/ decoder' = decoder
        \/ decoder' \in {"get", "alloc"} /\ decoder \in {"none", "no_packet"}
    <3>1. ASSUME Open PROVE decoder' = "alloc" /\ decoder = "none"
      BY <3>1 DEF Open, NotYetOpen
    <3>2. ASSUME NEW n, Put(n)
          PROVE decoder' = decoder \/ (decoder' = "get" /\ decoder = "no_packet")
      BY <3>2 DEF Put, Woken
    <3>3. CASE PutFlush \/ ReadPacket \/ ReadEnd
      BY <3>2, <3>3, Zenon DEF PutFlush, ReadPacket, ReadEnd
    <3>4. CASE OpenFails \/ Top \/ Seek \/ Sought \/ Room \/ ReadError
      BY <3>4, Zenon DEF OpenFails, Top, Seek, Sought, Room, ReadError, decoderVars
    <3> QED BY <1>1, <3>1, <3>2, <3>3, <3>4 DEF Reader
  <2> QED BY <2>1, <2>2
<1>2. CASE Decoder
  <2>1. CASE Push
    <3>1. UNCHANGED <<rindex, rindex_shown, display>> /\ size' = size + 1
          /\ decoder = "push" /\ decoder' = "alloc"
      BY <2>1 DEF Push, displayVars
    <3> QED BY <3>1
  <2>2. CASE ~Push
    <3>1. UNCHANGED <<rindex, rindex_shown, size, display>>
      BY <1>2, <2>2, Zenon DEF Decoder, Alloc, Get, Decode, DropEarly, PeekWritable, DecoderEnds,
         ringVars, displayVars
    <3>2. decoder # "push" /\ decoder' # "push"
      BY <1>2, <2>2 DEF Decoder, Alloc, Get, Decode, DropEarly, PeekWritable, DecoderEnds
    <3> QED BY <3>1, <3>2
  <2> QED BY <2>1, <2>2
<1>3. CASE Display
  <2>1. CASE Shrink
    <3>1. UNCHANGED <<rindex, rindex_shown>> /\ size' = size - 1
          /\ display \in {"shrink", "shrink_again"} /\ display' \in {"loop", "refresh"}
      BY <2>1 DEF Shrink
    <3>2. decoder' = decoder \/ (decoder = "no_slot" /\ decoder' = "picture")
      BY <2>1 DEF Shrink, FreesSlot, Woken
    <3> QED BY <3>1, <3>2
  <2>2. CASE ~Shrink
    <3>1. UNCHANGED <<rindex, rindex_shown, size, decoder>>
      BY <1>3, <2>2, Zenon DEF Passes, Display, Loop, Refresh, Idle, NotYet, Due, ringVars,
         decoderVars
    <3>2. display \notin {"shrink", "shrink_again"} /\ display' \notin {"shrink", "shrink_again"}
      BY <1>3, <2>2 DEF Passes, Display, Loop, Refresh, Idle, NotYet, Due
    <3> QED BY <3>1, <3>2
  <2> QED BY <2>1, <2>2
<1>4. CASE Keys \/ CloseDown \/ Closed \/ UNCHANGED vars
  <2>1. UNCHANGED <<rindex, rindex_shown, size, display>>
    BY <1>4, Zenon DEF Keys, KeySeek, KeyPause, KeyStep, Exit, CloseDown, Deinit, AbortQueue,
       SignalFrameQueue, Close, Closed, vars, ringVars, displayVars
  <2>2. \/ decoder' = decoder
        \/ decoder \in {"no_packet", "no_slot"} /\ decoder' \in {"get", "picture"}
    <3>1. ASSUME AbortQueue \/ SignalFrameQueue
          PROVE  \/ decoder' = decoder
                 \/ decoder = "no_packet" /\ decoder' = "get"
                 \/ decoder = "no_slot" /\ decoder' = "picture"
      BY <3>1 DEF AbortQueue, SignalFrameQueue, SignalsFrames, Woken
    <3>2. ASSUME ~AbortQueue, ~SignalFrameQueue PROVE decoder' = decoder
      BY <1>4, <3>2, Zenon DEF Keys, KeySeek, KeyPause, KeyStep, Exit, CloseDown, Deinit,
         Close, Closed, vars, decoderVars
    <3> QED BY <3>1, <3>2
  <2> QED BY <2>1, <2>2
<1> QED BY <1>1, <1>2, <1>3, <1>4 DEF Next

LEMMA WaitingGrows == RingInv /\ Write => Waiting' = Waiting \cup {windex}
<1> SUFFICES ASSUME RingInv, Write PROVE Waiting' = Waiting \cup {windex}
  OBVIOUS
<1>1. \A k : At(k)' = At(k)
  BY HeldGrows DEF At
<1> QED BY <1>1, HeldGrows, HeldInRing DEF Waiting, RingInv, RingType

LEMMA WaitingShrinks ==
  ASSUME RingInv, display \in {"judge", "show"}, UNCHANGED <<windex, size, decoder>>,
         FrameQueueNext("shrink", "loop") \/ FrameQueueNext("shrink_again", "refresh")
  PROVE  Waiting \ {Vp} \subseteq Waiting'
<1>1. PICK d \in 0..1 : /\ Held' = Held - d /\ rindex_shown' = rindex_shown + 1 - d
                          /\ \A k \in rindex_shown'..Held'-1 : At(k)' = At(k + d)
  BY HeldShrinks
<1>2. SUFFICES ASSUME NEW j \in rindex_shown..Held-1, At(j) # Vp
               PROVE \E k \in rindex_shown'..Held'-1 : At(k)' = At(j)
  BY DEF Waiting
<1>3. j # rindex_shown
  BY <1>2, HeldInRing
<1>4. rindex_shown \in Int /\ Held \in Int
  BY HeldInRing DEF RingInv, RingType
<1>5. rindex_shown' \in Int /\ d \in Int
  BY <1>4 DEF FrameQueueNext
<1>6. j \in Int /\ rindex_shown <= j /\ j <= Held - 1
  BY <1>4
<1>7. Held' = Held - d /\ rindex_shown' = rindex_shown + 1 - d
  BY <1>1
<1>8. j - d \in Int /\ rindex_shown' <= j - d /\ j - d <= Held' - 1 /\ (j - d) + d = j
  BY <1>3, <1>4, <1>5, <1>6, <1>7
<1>9. j - d \in rindex_shown'..Held'-1
  BY <1>4, <1>5, <1>7, <1>8
<1> QED BY <1>1, <1>8, <1>9

LEMMA WaitingStays == RingInv /\ [Next]_vars /\ ~Write /\ ~Passes => Waiting' = Waiting
<1> SUFFICES ASSUME RingInv, [Next]_vars, ~Write, ~Passes PROVE Waiting' = Waiting
  OBVIOUS
<1>1. \A k : At(k)' = At(k)
  BY HeldStays DEF At
<1> QED BY <1>1, HeldStays DEF Waiting


\* An image is given back, taken, or moved to where the one that was there is given back.
LEMMA Drops ==
  ASSUME Owned, NEW p \in Places, ImageAt(p)' = NoImage, live' = live \ {ImageAt(p)},
         \A q \in Places : q # p => ImageAt(q)' = ImageAt(q)
  PROVE  Owned'
<1>1. \A q \in Places : ImageAt(q)' # NoImage => q # p /\ ImageAt(q)' = ImageAt(q)
  OBVIOUS
<1>2. \A i \in live' : \E q \in Places : ImageAt(q)' = i
  BY DEF Owned
<1>3. \A q \in Places : ImageAt(q)' \in live' \cup {NoImage}
  BY <1>1 DEF Owned
<1>4. \A q, r \in Places : ImageAt(q)' = ImageAt(r)' /\ ImageAt(q)' # NoImage => q = r
  BY <1>1 DEF Owned
<1> QED BY <1>2, <1>3, <1>4 DEF Owned, Places

LEMMA Takes ==
  ASSUME Owned, NEW p \in Places, ImageAt(p) = NoImage, NEW i, i \notin live, i # NoImage,
         NoImage \notin live, ImageAt(p)' = i, live' = live \cup {i},
         \A q \in Places : q # p => ImageAt(q)' = ImageAt(q)
  PROVE  Owned'
<1>1. \A q \in Places : ImageAt(q) # i
  BY DEF Owned
<1>2. \A j \in live' : \E q \in Places : ImageAt(q)' = j
  <2> TAKE j \in live'
  <2>1. CASE j = i
    BY <2>1
  <2>2. CASE j # i
    <3>1. PICK q \in Places : ImageAt(q) = j
      BY <2>2 DEF Owned
    <3>2. q # p
      BY <2>2, <3>1
    <3> QED BY <3>1, <3>2
  <2> QED BY <2>1, <2>2
<1>3. \A q \in Places : ImageAt(q)' \in live' \cup {NoImage}
  BY DEF Owned
<1>4. \A q, r \in Places : ImageAt(q)' = ImageAt(r)' /\ ImageAt(q)' # NoImage => q = r
  BY <1>1 DEF Owned
<1> QED BY <1>2, <1>3, <1>4 DEF Owned, Places

LEMMA Moves ==
  ASSUME Owned, NEW p \in Places, NEW q \in Places, p # q, ImageAt(p)' = NoImage,
         ImageAt(q)' = ImageAt(p), live' = live \ {ImageAt(q)}, ImageAt(p) # NoImage,
         \A r \in Places : r # p /\ r # q => ImageAt(r)' = ImageAt(r)
  PROVE  Owned'
<1>1. \A j \in live' : \E r \in Places : ImageAt(r)' = j
  <2> TAKE j \in live'
  <2>1. PICK r \in Places : ImageAt(r) = j
    BY DEF Owned
  <2>2. r # q
    BY <2>1
  <2> QED BY <2>1, <2>2
<1>2. ImageAt(p) # ImageAt(q)
  BY DEF Owned
<1>3. \A r \in Places : ImageAt(r)' \in live' \cup {NoImage}
  BY <1>2 DEF Owned
<1>4. \A r, s \in Places : ImageAt(r)' = ImageAt(s)' /\ ImageAt(r)' # NoImage => r = s
  BY <1>2 DEF Owned
<1> QED BY <1>1, <1>3, <1>4 DEF Owned, Places


LEMMA ImageInit == Init => ImageInv
<1> SUFFICES ASSUME Init PROVE ImageInv
  OBVIOUS
<1>1. \A p \in Places : ImageAt(p) = NoImage
  BY PlayerAssumption DEF PlayerAssumption, Init, Places, ImageAt, NoFrame
<1>2. live = {}
  BY DEF Init
<1>3. Owned
  BY <1>1, <1>2 DEF Owned
<1>4. OnlyWaiting /\ NoFrameWhen /\ WhenClosed
  BY DEF Init, OnlyWaiting, NoFrameWhen, WhenClosed, NoFrame
<1> QED BY <1>3, <1>4 DEF ImageInv

\* A step that does not touch the images, in a ring whose frames wait as before.
LEMMA ImagesStay ==
  ASSUME RingInv, [Next]_vars, ~Write, ~Passes, UNCHANGED <<slots, frame, pre_pic, live>>
  PROVE  Owned /\ OnlyWaiting => (Owned /\ OnlyWaiting)'
<1>1. \A p : ImageAt(p)' = ImageAt(p)
  BY DEF ImageAt
<1>2. Owned => Owned'
  BY <1>1 DEF Owned, Places
<1>3. OnlyWaiting => OnlyWaiting'
  BY WaitingStays DEF OnlyWaiting
<1> QED BY <1>2, <1>3

\* The read thread has nothing to do with images.
LEMMA ReaderImages == RingInv /\ PlayerType /\ ImageInv /\ Reader => ImageInv'
<1> SUFFICES ASSUME RingInv, PlayerType, ImageInv, Reader PROVE ImageInv'
  OBVIOUS
<1>1. UNCHANGED <<slots, frame, pre_pic, live, ui>>
  BY Zenon DEF Reader, Open, OpenFails, Top, Seek, PutFlush, Sought, Room, ReadPacket, ReadEnd,
     ReadError, ringVars, decoderVars, displayVars, uiVars
<1>2. reader # "out"
  BY DEF Reader, Open, OpenFails, Top, Seek, PutFlush, Sought, Room, ReadPacket, ReadEnd,
     ReadError
<1>3. \/ decoder' = decoder
      \/ decoder = "none" /\ decoder' = "alloc"
      \/ decoder = "no_packet" /\ decoder' = "get"
  <2>1. ASSUME Open PROVE decoder' = "alloc" /\ decoder = "none"
    BY <2>1 DEF Open, RingInv, NotYetOpen
  <2>2. ASSUME NEW n, Put(n)
        PROVE decoder' = decoder \/ (decoder' = "get" /\ decoder = "no_packet")
    BY <2>2 DEF Put, Woken
  <2>3. CASE PutFlush \/ ReadPacket \/ ReadEnd
    BY <2>2, <2>3, Zenon DEF PutFlush, ReadPacket, ReadEnd
  <2>4. CASE OpenFails \/ Top \/ Seek \/ Sought \/ Room \/ ReadError
    BY <2>4, Zenon DEF OpenFails, Top, Seek, Sought, Room, ReadError, decoderVars
  <2> QED BY <2>1, <2>2, <2>3, <2>4 DEF Reader
<1>4. ~Write /\ ~Passes
  <2>1. ~Write
    BY <1>3 DEF Write
  <2>2. UNCHANGED display
    BY Zenon DEF Reader, Open, OpenFails, Top, Seek, PutFlush, Sought, Room, ReadPacket,
       ReadEnd, ReadError, displayVars
  <2>3. Passes => display' # display
    BY DEF Passes, DropOutdated, DropLate, Show, FrameQueueNext
  <2> QED BY <2>1, <2>2, <2>3
<1>5. (Owned /\ OnlyWaiting)'
  BY <1>1, <1>4, ImagesStay DEF ImageInv, Next
<1>6. NoFrameWhen'
  BY <1>1, <1>3 DEF ImageInv, NoFrameWhen
<1>7. WhenClosed'
  BY <1>1, <1>2, <1>3 DEF ImageInv, WhenClosed
<1> QED BY <1>5, <1>6, <1>7 DEF ImageInv


\* The video thread holds one image at a time, and gives it to a slot that is empty.
LEMMA DecoderImages == RingInv /\ StaleInv /\ PlayerType /\ ImageInv /\ Decoder => ImageInv'
<1> SUFFICES ASSUME RingInv, StaleInv, PlayerType, ImageInv, Decoder PROVE ImageInv'
  OBVIOUS
<1> USE PlayerAssumption DEF PlayerAssumption
<1>1. UNCHANGED <<pre_pic, ui, reader, display>> /\ decoder \notin {"none", "out"}
  BY Zenon DEF Decoder, Alloc, Get, Decode, DropEarly, PeekWritable, Write, Push, DecoderEnds,
     displayVars, uiVars, readerVars
<1>2. ~Passes
  <2>1. Passes => display' # display
    BY DEF Passes, DropOutdated, DropLate, Show, FrameQueueNext
  <2> QED BY <1>1, <2>1
<1>3. decoder' # "none" /\ (decoder' = "out" => decoder = "end")
  BY DEF Decoder, Alloc, Get, Decode, DropEarly, PeekWritable, Write, Push, DecoderEnds
<1>4. WhenClosed'
  BY <1>1, <1>3 DEF ImageInv, WhenClosed
<1>5. QueueSize \in Places /\ ImageAt(QueueSize) = frame
  BY DEF Places, ImageAt
<1>6. NoImage \notin live
  BY DEF PlayerType, Images, NoImage
<1>7. CASE Alloc
  <2>1. PICK i \in Images \ live : frame' = i /\ live' = live \cup {i}
    BY <1>7 DEF Alloc
  <2>2. UNCHANGED slots /\ decoder = "alloc" /\ decoder' = "get"
    BY <1>7 DEF Alloc, ringVars
  <2>3. i # NoImage
    BY <2>1 DEF Images, NoImage
  <2>4. \A q \in Places : q # QueueSize => ImageAt(q)' = ImageAt(q)
    BY <1>1, <2>2 DEF Places, ImageAt
  <2>5. frame = NoImage
    BY <2>2 DEF ImageInv, NoFrameWhen
  <2>6. ImageAt(QueueSize)' = i
    BY <2>1 DEF ImageAt
  <2>7. Owned'
    BY <1>5, <1>6, <2>1, <2>3, <2>4, <2>5, <2>6, Takes DEF ImageInv
  <2>8. OnlyWaiting'
    BY <1>2, <1>7, <2>2, WaitingStays DEF ImageInv, OnlyWaiting, Next, Decoder, Write
  <2> QED BY <1>4, <2>2, <2>7, <2>8 DEF ImageInv, NoFrameWhen
<1>8. CASE GiveBack /\ UNCHANGED slots /\ ~Write
  <2>1. \A q \in Places : q # QueueSize => ImageAt(q)' = ImageAt(q)
    BY <1>1, <1>8 DEF Places, ImageAt
  <2>2. ImageAt(QueueSize)' = NoImage /\ live' = live \ {ImageAt(QueueSize)}
    BY <1>5, <1>8 DEF ImageAt, GiveBack
  <2>3. Owned'
    BY <1>5, <2>1, <2>2, Drops DEF ImageInv
  <2>4. OnlyWaiting'
    BY <1>2, <1>8, WaitingStays DEF ImageInv, OnlyWaiting, Next
  <2> QED BY <1>4, <1>8, <2>3, <2>4 DEF ImageInv, NoFrameWhen, GiveBack
<1>9. CASE /\ UNCHANGED <<slots, frame, live>> /\ ~Write
           /\ decoder' \in {"alloc", "push", "out"} => frame = NoImage
  <2>1. (Owned /\ OnlyWaiting)'
    BY <1>1, <1>2, <1>9, ImagesStay DEF ImageInv, Next
  <2> QED BY <1>3, <1>4, <1>9, <2>1 DEF ImageInv, NoFrameWhen
<1>10. CASE Write
  <2>1. /\ decoder = "write" /\ decoder' = "push" /\ frame' = NoImage /\ live' = live
        /\ slots' = [slots EXCEPT ![windex] =
                       [serial |-> item.serial, n |-> item.n, image |-> frame]]
    BY <1>10 DEF Write
  <2>2. PICK w \in 0..QueueSize-1 : w = windex
    BY HeldInRing
  <2>3. w \notin Waiting
    <3> SUFFICES ASSUME NEW k \in rindex_shown..Held-1, At(k) = w PROVE FALSE
      BY DEF Waiting
    <3>1. k \in 0..QueueSize-1 /\ Held \in 0..QueueSize-1 /\ k # Held /\ w = At(Held)
      BY <1>10, <2>2, HeldGrows, HeldInRing DEF RingInv, RingType
    <3> QED BY <3>1, AtInRing
  <2>4. ImageAt(w) = NoImage /\ w \in Places /\ w # QueueSize
    BY <2>3 DEF ImageInv, OnlyWaiting, ImageAt, Places
  <2>5. slots'[w].image = frame
    BY <2>1, <2>2 DEF PlayerType
  <2>6. \A i \in 0..QueueSize-1 : i # w => slots'[i] = slots[i]
    BY <2>1, <2>2 DEF PlayerType
  <2>7. ImageAt(w)' = ImageAt(QueueSize) /\ ImageAt(QueueSize)' = NoImage
    <3>1. ImageAt(w)' = slots'[w].image
      BY DEF ImageAt
    <3>2. ImageAt(QueueSize)' = frame'
      BY DEF ImageAt
    <3> QED BY <1>5, <2>1, <2>5, <3>1, <3>2
  <2>8. \A r \in Places : r # QueueSize /\ r # w => ImageAt(r)' = ImageAt(r)
    BY <1>1, <2>6 DEF Places, ImageAt
  <2>9. Owned'
    <3>1. CASE frame = NoImage
      <4>1. \A r \in Places : ImageAt(r)' = ImageAt(r)
        BY <1>5, <2>4, <2>7, <2>8, <3>1
      <4> QED BY <2>1, <4>1 DEF ImageInv, Owned, Places
    <3>2. CASE frame # NoImage
      <4>1. live' = live \ {ImageAt(w)}
        BY <1>6, <2>1, <2>4
      <4> QED BY <1>5, <2>4, <2>7, <2>8, <3>2, <4>1, Moves DEF ImageInv
    <3> QED BY <3>1, <3>2
  <2>10. OnlyWaiting'
    BY <1>10, <2>2, <2>6, WaitingGrows DEF ImageInv, OnlyWaiting
  <2> QED BY <1>4, <2>1, <2>9, <2>10 DEF ImageInv, NoFrameWhen
<1>11. CASE Get \/ Decode \/ PeekWritable \/ Push \/ DropEarly \/ DecoderEnds
  <2>1. ~Write /\ UNCHANGED slots
    BY <1>11 DEF Get, Decode, PeekWritable, Push, DropEarly, DecoderEnds, Write, ringVars
  <2>2. CASE Get \/ PeekWritable
    <3>1. UNCHANGED <<frame, live>>
      BY <2>2, Zenon DEF Get, PeekWritable
    <3>2. decoder' \notin {"alloc", "push", "out"}
      BY <2>2 DEF Get, PeekWritable
    <3> QED BY <1>9, <2>1, <3>1, <3>2
  <2>3. CASE Push
    BY <1>9, <2>1, <2>3 DEF Push, ImageInv, NoFrameWhen
  <2>4. CASE DropEarly \/ DecoderEnds
    BY <1>8, <2>1, <2>4 DEF DropEarly, DecoderEnds, AtTheEnd
  <2>5. CASE Decode
    <3>1. \/ GiveBack
          \/ decoder' \in {"get", "picture"} /\ UNCHANGED <<frame, live>>
      BY <2>5 DEF Decode
    <3> QED BY <1>8, <1>9, <2>1, <3>1
  <2> QED BY <1>11, <2>2, <2>3, <2>4, <2>5
<1> QED BY <1>7, <1>10, <1>11 DEF Decoder


\* The play thread gives back what it drops, and what was on the screen when it shows
\* the next.
LEMMA DisplayImages == RingInv /\ StaleInv /\ PlayerType /\ ImageInv /\ Display => ImageInv'
<1> SUFFICES ASSUME RingInv, StaleInv, PlayerType, ImageInv, Display PROVE ImageInv'
  OBVIOUS
<1> USE PlayerAssumption DEF PlayerAssumption
<1>1. UNCHANGED <<frame, ui, reader>> /\ ui = "playing"
  <2>1. display # "out"
    BY DEF Display, Loop, Refresh, Idle, DropOutdated, NotYet, Due, DropLate, Show, Shrink
  <2>2. UNCHANGED <<frame, ui, reader>>
    BY Zenon DEF Display, Loop, Refresh, Idle, DropOutdated, NotYet, Due, DropLate, Show, Shrink,
       decoderVars, uiVars, readerVars
  <2> QED BY <2>1, <2>2 DEF StaleInv, Leaving
<1>2. decoder' = decoder \/ (decoder = "no_slot" /\ decoder' = "picture")
  <2>1. CASE Shrink
    BY <2>1 DEF Shrink, FreesSlot, Woken
  <2>2. CASE ~Shrink
    BY <2>2, Zenon DEF Display, Loop, Refresh, Idle, DropOutdated, NotYet, Due, DropLate, Show,
       decoderVars
  <2> QED BY <2>1, <2>2
<1>3. NoFrameWhen'
  BY <1>1, <1>2 DEF ImageInv, NoFrameWhen
<1>4. NoImage \notin live
  BY DEF PlayerType, Images, NoImage
<1>5. ASSUME live' \subseteq live PROVE WhenClosed'
  BY <1>1, <1>2, <1>5 DEF ImageInv, WhenClosed
<1>6. CASE ~Passes
  <2>1. UNCHANGED <<slots, pre_pic, live>>
    BY <1>6, Zenon DEF Passes, Display, Loop, Refresh, Idle, NotYet, Due, Shrink, ringVars
  <2>2. ~Write
    <3>1. Write => decoder = "write" /\ decoder' = "push"
      BY DEF Write
    <3> QED BY <1>2, <3>1
  <2>3. (Owned /\ OnlyWaiting)'
    BY <1>1, <1>6, <2>1, <2>2, ImagesStay DEF ImageInv, Next
  <2>4. WhenClosed'
    BY <1>5, <2>1
  <2> QED BY <1>3, <2>3, <2>4 DEF ImageInv
<1>7. CASE Passes
  <2>1. display \in {"judge", "show"}
    BY <1>7 DEF Passes, DropOutdated, DropLate, Show
  <2>2. UNCHANGED <<windex, size, decoder>>
    BY <1>7, Zenon DEF Passes, DropOutdated, DropLate, Show, decoderVars
  <2>3. FrameQueueNext("shrink", "loop") \/ FrameQueueNext("shrink_again", "refresh")
    BY <1>7, Zenon DEF Passes, DropOutdated, DropLate, Show
  <2>4. Waiting \ {Vp} \subseteq Waiting'
    BY <2>1, <2>2, <2>3, WaitingShrinks
  <2>5. PICK w \in 0..QueueSize-1 : w = Vp
    BY HeldInRing
  <2>6. w \in Places /\ w # QueueSize + 1 /\ QueueSize + 1 \in Places
        /\ ImageAt(w) = slots[w].image /\ ImageAt(QueueSize + 1) = pre_pic
    BY DEF Places, ImageAt
  <2>7. \A i \in 0..QueueSize-1 : i # w /\ slots'[i] = slots[i] /\ slots'[i].image # NoImage
          => i \in Waiting'
    BY <2>4, <2>5 DEF ImageInv, OnlyWaiting
  <2>8. /\ [slots EXCEPT ![Vp].image = NoImage][w].image = NoImage
        /\ \A i \in 0..QueueSize-1 : i # w => [slots EXCEPT ![Vp].image = NoImage][i] = slots[i]
    BY <2>5 DEF PlayerType, Slot
  <2>9. CASE DropOutdated \/ DropLate
    <3>1. FreePicture /\ UNCHANGED pre_pic
      BY <2>9, Zenon DEF DropOutdated, DropLate
    <3>2. ImageAt(w)' = NoImage
      BY <2>8, <3>1 DEF ImageAt, FreePicture
    <3>3. live' = live \ {ImageAt(w)}
      BY <2>5, <2>6, <3>1 DEF FreePicture
    <3>4. \A q \in Places : q # w => ImageAt(q)' = ImageAt(q)
      <4>1. \A i \in 0..QueueSize-1 : i # w => slots'[i] = slots[i]
        BY <2>8, <3>1 DEF FreePicture
      <4> QED BY <1>1, <3>1, <4>1 DEF ImageAt, Places
    <3>5. Owned'
      BY <2>6, <3>2, <3>3, <3>4, Drops DEF ImageInv
    <3>6. OnlyWaiting'
      BY <2>7, <2>8, <3>1 DEF OnlyWaiting, FreePicture
    <3>7. WhenClosed'
      BY <1>5, <3>3
    <3> QED BY <1>3, <3>5, <3>6, <3>7 DEF ImageInv
  <2>10. CASE Show /\ slots[Vp].image = NoImage
    <3>1. UNCHANGED <<slots, live, pre_pic>>
      BY <2>10 DEF Show
    <3>2. \A q \in Places : ImageAt(q)' = ImageAt(q)
      BY <1>1, <3>1 DEF ImageAt
    <3>3. Owned'
      BY <3>1, <3>2 DEF ImageInv, Owned, Places
    <3>4. OnlyWaiting'
      BY <2>5, <2>7, <2>10, <3>1 DEF OnlyWaiting
    <3>5. WhenClosed'
      BY <1>5, <3>1
    <3> QED BY <1>3, <3>3, <3>4, <3>5 DEF ImageInv
  <2>11. CASE Show /\ slots[Vp].image # NoImage
    <3>1. /\ live' = live \ {pre_pic} /\ pre_pic' = slots[Vp].image
          /\ slots' = [slots EXCEPT ![Vp].image = NoImage]
      BY <2>11 DEF Show
    <3>2. ImageAt(w)' = NoImage
      BY <2>8, <3>1 DEF ImageAt
    <3>3. ImageAt(QueueSize + 1)' = ImageAt(w)
      BY <2>5, <2>6, <3>1 DEF ImageAt
    <3>4. \A r \in Places : r # w /\ r # QueueSize + 1 => ImageAt(r)' = ImageAt(r)
      <4>1. \A i \in 0..QueueSize-1 : i # w => slots'[i] = slots[i]
        BY <2>8, <3>1
      <4> QED BY <1>1, <4>1 DEF ImageAt, Places
    <3>5. live' = live \ {ImageAt(QueueSize + 1)} /\ ImageAt(w) # NoImage
      BY <2>5, <2>6, <2>11, <3>1
    <3>6. Owned'
      BY <2>6, <3>2, <3>3, <3>4, <3>5, Moves DEF ImageInv
    <3>7. OnlyWaiting'
      BY <2>7, <2>8, <3>1 DEF OnlyWaiting
    <3>8. WhenClosed'
      BY <1>5, <3>1
    <3> QED BY <1>3, <3>6, <3>7, <3>8 DEF ImageInv
  <2> QED BY <1>7, <2>9, <2>10, <2>11 DEF Passes
<1> QED BY <1>6, <1>7

\* stream_close frees the rest when the three threads have ended.
LEMMA UiImages ==
  RingInv /\ StaleInv /\ PlayerType /\ ImageInv
  /\ (Keys \/ CloseDown \/ Closed \/ UNCHANGED vars) => ImageInv'
<1> SUFFICES ASSUME RingInv, StaleInv, PlayerType, ImageInv,
                    Keys \/ CloseDown \/ Closed \/ UNCHANGED vars
             PROVE ImageInv'
  OBVIOUS
<1> USE PlayerAssumption DEF PlayerAssumption
<1>1. ~Passes /\ ~Write
  <2>1. display' = display
    BY Zenon DEF Keys, KeySeek, KeyPause, KeyStep, Exit, CloseDown, Deinit, AbortQueue,
       SignalFrameQueue, Close, Closed, vars, displayVars
  <2>2. Passes => display' # display
    BY DEF Passes, DropOutdated, DropLate, Show, FrameQueueNext
  <2>3. Write => ui' = ui /\ decoder = "write" /\ decoder' = "push"
    BY DEF Write, uiVars
  <2>4. decoder # "write" \/ decoder' # "push"
    BY DEF Keys, KeySeek, KeyPause, KeyStep, Exit, CloseDown, Deinit, AbortQueue,
       SignalFrameQueue, SignalsFrames, Woken, Close, Closed, vars, decoderVars
  <2> QED BY <2>1, <2>2, <2>3, <2>4
<1>2. CASE Keys \/ Deinit \/ AbortQueue \/ SignalFrameQueue \/ Closed \/ UNCHANGED vars
  <2>1. UNCHANGED <<slots, frame, pre_pic, live, reader>>
    BY <1>2, Zenon DEF Keys, KeySeek, KeyPause, KeyStep, Exit, Deinit, AbortQueue,
       SignalFrameQueue, Closed, vars, ringVars, decoderVars, displayVars, readerVars
  <2>2. (Owned /\ OnlyWaiting)'
    BY <1>1, <1>2, <2>1, ImagesStay DEF ImageInv, Next, CloseDown
  <2>3. CASE AbortQueue
    <3>1. \/ decoder = "none" /\ decoder' = decoder
          \/ decoder # "none" /\ ui' = "signal" /\ decoder' = Woken("no_packet", "get")
      BY <2>3 DEF AbortQueue
    <3>2. reader = "out" /\ ui' \in {"closed", "signal"}
      BY <2>3 DEF AbortQueue
    <3>3. NoFrameWhen'
      BY <2>1, <3>1 DEF ImageInv, NoFrameWhen, Woken
    <3>4. WhenClosed'
      BY <2>1, <3>1, <3>2 DEF ImageInv, WhenClosed, Woken
    <3> QED BY <2>2, <3>3, <3>4 DEF ImageInv
  <2>4. CASE SignalFrameQueue
    <3>1. ui = "signal" /\ ui' = "join_decoder" /\ decoder' = Woken("no_slot", "picture")
      BY <2>4 DEF SignalFrameQueue, SignalsFrames
    <3>2. NoFrameWhen'
      BY <2>1, <3>1 DEF ImageInv, NoFrameWhen, Woken
    <3>3. WhenClosed'
      BY <2>1, <3>1 DEF ImageInv, WhenClosed, Woken
    <3> QED BY <2>2, <3>2, <3>3 DEF ImageInv
  <2>5. CASE Keys \/ Deinit \/ Closed \/ UNCHANGED vars
    <3>1. decoder' = decoder
      BY <2>5, Zenon DEF Keys, KeySeek, KeyPause, KeyStep, Exit, Deinit, Closed, vars, decoderVars
    <3>2. ui' = ui \/ ui' = "join_reader"
      BY <2>5 DEF Keys, KeySeek, KeyPause, KeyStep, Exit, Deinit, Closed, vars, uiVars
    <3>3. NoFrameWhen' /\ WhenClosed'
      BY <2>1, <3>1, <3>2 DEF ImageInv, NoFrameWhen, WhenClosed
    <3> QED BY <2>2, <3>3 DEF ImageInv
  <2> QED BY <1>2, <2>3, <2>4, <2>5
<1>3. CASE Close
  <2>1. /\ ui = "join_decoder" /\ ui' = "closed" /\ decoder = "out"
        /\ live' = live \ ({slots[i].image : i \in DOMAIN slots} \cup {pre_pic})
        /\ slots' = [i \in DOMAIN slots |-> NoFrame] /\ pre_pic' = NoImage
        /\ UNCHANGED <<frame, decoder, reader>>
    BY <1>3 DEF Close, decoderVars, readerVars
  <2>2. frame = NoImage /\ NoImage \notin live
    BY <2>1 DEF ImageInv, NoFrameWhen, PlayerType, Images, NoImage
  <2>3. \A p \in Places : ImageAt(p)' = NoImage
    <3>1. \A p \in 0..QueueSize-1 : slots'[p].image = NoImage
      BY <2>1 DEF PlayerType, NoFrame
    <3> QED BY <2>1, <2>2, <3>1 DEF Places, ImageAt
  <2>4. live' = {}
    <3> SUFFICES ASSUME NEW i \in live, i \in live' PROVE FALSE
      BY <2>1
    <3>1. PICK p \in Places : ImageAt(p) = i
      BY DEF ImageInv, Owned
    <3>2. p \in 0..QueueSize-1 \/ p = QueueSize \/ p = QueueSize + 1
      BY DEF Places
    <3> QED BY <2>1, <2>2, <3>1, <3>2 DEF ImageAt, PlayerType
  <2>5. Owned' /\ OnlyWaiting'
    <3>1. Owned'
      BY <2>3, <2>4 DEF Owned, Places
    <3>2. \A i \in 0..QueueSize-1 : slots'[i].image = NoImage
      BY <2>1 DEF PlayerType, NoFrame
    <3> QED BY <3>1, <3>2 DEF OnlyWaiting
  <2> QED BY <2>1, <2>2, <2>4, <2>5 DEF ImageInv, NoFrameWhen, WhenClosed
<1> QED BY <1>2, <1>3 DEF CloseDown

\* Every image is in exactly one place, from set_avframe_using to the display or to
\* where it is dropped, and none is left when the player has been taken down; so for
\* every size of the frame queue, and however the three threads and the user
\* interface interleave.
THEOREM ImagesCorrect == Spec => []ImagesOnce
<1>1. Init => RingInv /\ StaleInv /\ PlayerType /\ ImageInv
  <2> SUFFICES ASSUME Init PROVE RingInv /\ StaleInv /\ PlayerType /\ ImageInv
    OBVIOUS
  <2>1. StaleInv
    BY DEF Init, StaleInv, SlotsType, StaleCount, NothingBeforeOpen, Leaving
  <2>2. PlayerType
    <3>1. NoPacket \in Packet /\ NoFrame \in Slot /\ [serial |-> 0, n |-> 0] \in Packet
      BY DEF Packet, Slot, NoPacket, NoFrame, Flush
    <3>2. <<>> \in Seq(Packet)
      OBVIOUS
    <3> QED BY <3>1, <3>2 DEF Init, PlayerType
  <2> QED BY <2>1, <2>2, RingInit, ImageInit
<1>2. RingInv /\ StaleInv /\ PlayerType /\ ImageInv /\ [Next]_vars
        => (RingInv /\ StaleInv /\ PlayerType /\ ImageInv)'
  <2>1. RingInv /\ StaleInv /\ [Next]_vars => (RingInv /\ StaleInv)'
    BY ReaderKeeps, DecoderKeeps, DisplayKeeps, UiKeeps, ReaderStale, DecoderStale,
       DisplayStale, UiStale DEF Next
  <2>2. RingInv /\ StaleInv /\ PlayerType /\ ImageInv /\ [Next]_vars => ImageInv'
    BY ReaderImages, DecoderImages, DisplayImages, UiImages DEF Next
  <2> QED BY <2>1, <2>2, TypesKeep
<1>3. PlayerType /\ ImageInv => ImagesOnce
  <2> SUFFICES ASSUME PlayerType, ImageInv PROVE ImagesOnce
    OBVIOUS
  <2>1. NoImage \notin live
    BY DEF PlayerType, Images, NoImage
  <2> QED BY <2>1 DEF ImageInv, Owned, WhenClosed, ImagesOnce
<1> QED
  BY <1>1, <1>2, <1>3, PTL DEF Spec


-----------------------------------------------------------------------------
(* The order of the frames.                                                *)

\* The frames that wait are slots, and the first of them is the one that is looked at.
LEMMA RingFrames ==
  ASSUME RingInv, PlayerType
  PROVE  /\ \A k \in Ring : Frame(k) \in Slot /\ k \in 0..QueueSize-1
         /\ display \in {"judge", "show"} => rindex_shown \in Ring
         /\ Frame(rindex_shown) = slots[Vp]
<1>1. rindex_shown \in Int /\ 0 <= rindex_shown
  BY DEF RingInv, RingType
<1>2. \A k \in Ring : k \in 0..QueueSize-1
  BY <1>1, HeldInRing, PlayerAssumption DEF Ring, PlayerAssumption
<1>3. \A k \in Ring : Frame(k) \in Slot
  BY <1>2, AtInRing DEF Frame, PlayerType
<1>4. display \in {"judge", "show"} => rindex_shown \in Ring
  BY <1>1, HeldInRing DEF Ring
<1>5. Frame(rindex_shown) = slots[Vp]
  BY HeldInRing DEF Frame
<1> QED BY <1>2, <1>3, <1>4, <1>5

\* A step that leaves the frames that wait as they are.
LEMMA FramesStay ==
  ASSUME RingInv, [Next]_vars, ~Write, ~Passes, UNCHANGED slots
  PROVE  Ring' = Ring /\ \A k : Frame(k)' = Frame(k)
  BY HeldStays DEF Ring, Frame, At

\* A step that adds nothing to the queue and brings no frame under work.
LEMMA OrderStays ==
  ASSUME InOrder, UNCHANGED <<packets, shown>>, Pending' => Pending /\ item' = item,
         Ring' = Ring, \A k : Frame(k)' = Frame(k)
  PROVE  InOrder'
<1>1. /\ \A i, j \in DOMAIN packets' :
           i < j /\ packets'[i].n > 0 /\ packets'[j].n > 0 => Later(packets'[j], packets'[i])
      /\ \A j \in DOMAIN packets' : packets'[j].n > 0 => Later(packets'[j], shown')
      /\ \A j \in DOMAIN packets' : packets'[j].n > 0 /\ Pending' => Later(packets'[j], item')
      /\ Pending' => Later(item', shown')
  BY DEF InOrder
<1>2. /\ \A k, l \in Ring' : k < l => Later(Frame(l)', Frame(k)')
      /\ \A j \in DOMAIN packets', k \in Ring' :
           packets'[j].n > 0 => Later(packets'[j], Frame(k)')
      /\ \A k \in Ring' : Later(Frame(k)', shown')
      /\ \A k \in Ring' : Pending' => Later(item', Frame(k)')
  BY DEF InOrder
<1> QED BY <1>1, <1>2 DEF InOrder, Later

\* Nothing gets ahead of where the read thread is.
LEMMA BehindStays ==
  ASSUME AllBehind, UNCHANGED <<packets, shown>>, Pending' => Pending /\ item' = item,
         Ring' = Ring, \A k : Frame(k)' = Frame(k),
         UNCHANGED <<serial, pos>>, reader = "flush" => reader' = "flush"
  PROVE  AllBehind'
<1>1. \A x : Behind(x) => /\ x.serial <= serial'
                          /\ x.serial = serial' /\ reader' # "flush" => x.n < pos'
  BY DEF Behind
<1>2. \A j \in DOMAIN packets' : packets'[j].n > 0 => Behind(packets'[j])
  BY DEF AllBehind
<1>3. \A k \in Ring' : Behind(Frame(k)')
  BY DEF AllBehind
<1>4. (Pending' => Behind(item')) /\ Behind(shown')
  BY DEF AllBehind
<1>5. \A j \in DOMAIN packets' : packets'[j].n > 0 => Behind(packets[j])'
  BY <1>1, <1>2 DEF Behind
<1>6. \A k \in Ring' : Behind(Frame(k))'
  BY <1>1, <1>3 DEF Behind
<1>7. (Pending' => Behind(item)') /\ Behind(shown)'
  BY <1>1, <1>4 DEF Behind
<1> QED BY <1>5, <1>6, <1>7 DEF AllBehind


\* What the read thread does to the rest: at most, it wakes the video thread.
LEMMA ReaderAlone ==
  ASSUME RingInv, Reader
  PROVE  /\ UNCHANGED <<slots, shown, item, display>> /\ Ring' = Ring
         /\ \A k : Frame(k)' = Frame(k)
         /\ \/ decoder' = decoder
            \/ decoder = "none" /\ decoder' = "alloc"
            \/ decoder = "no_packet" /\ decoder' = "get"
<1>1. UNCHANGED <<slots, shown, item, display>>
  BY Zenon DEF Reader, Open, OpenFails, Top, Seek, PutFlush, Sought, Room, ReadPacket, ReadEnd,
     ReadError, ringVars, decoderVars, displayVars
<1>2. \/ decoder' = decoder
      \/ decoder = "none" /\ decoder' = "alloc"
      \/ decoder = "no_packet" /\ decoder' = "get"
  <2>1. ASSUME Open PROVE decoder' = "alloc" /\ decoder = "none"
    BY <2>1 DEF Open, RingInv, NotYetOpen
  <2>2. ASSUME NEW n, Put(n)
        PROVE decoder' = decoder \/ (decoder' = "get" /\ decoder = "no_packet")
    BY <2>2 DEF Put, Woken
  <2>3. CASE PutFlush \/ ReadPacket \/ ReadEnd
    BY <2>2, <2>3, Zenon DEF PutFlush, ReadPacket, ReadEnd
  <2>4. CASE OpenFails \/ Top \/ Seek \/ Sought \/ Room \/ ReadError
    BY <2>4, Zenon DEF OpenFails, Top, Seek, Sought, Room, ReadError, decoderVars
  <2> QED BY <2>1, <2>2, <2>3, <2>4 DEF Reader
<1>3. ~Write
  BY <1>2 DEF Write
<1>4. ~Passes
  <2>1. Passes => display' # display
    BY DEF Passes, DropOutdated, DropLate, Show, FrameQueueNext
  <2> QED BY <1>1, <2>1
<1>5. Ring' = Ring /\ \A k : Frame(k)' = Frame(k)
  BY <1>1, <1>3, <1>4, FramesStay DEF Next
<1> QED BY <1>1, <1>2, <1>5

\* A packet at the end of the queue, or one that is no frame.
LEMMA Appends ==
  ASSUME PlayerType, RingInv, InOrder, AllBehind, NEW x, x \in Packet,
         packets' = Append(packets, x), UNCHANGED shown, Pending' => Pending /\ item' = item,
         Ring' = Ring, \A k : Frame(k)' = Frame(k),
         x.n > 0 => x.serial = serial /\ x.n = pos /\ reader # "flush"
  PROVE  InOrder' /\ \A j \in DOMAIN packets' : packets'[j].n > 0 =>
                       (j \in DOMAIN packets /\ packets'[j] = packets[j]) \/ packets'[j] = x
<1>1. /\ DOMAIN packets' = 1..Len(packets) + 1 /\ DOMAIN packets = 1..Len(packets)
      /\ Len(packets) \in Nat
      /\ \A j \in DOMAIN packets : packets'[j] = packets[j] /\ packets[j] \in Packet
      /\ packets'[Len(packets) + 1] = x
  BY DEF PlayerType
<1>2. \A y : Behind(y) /\ (y \in Packet \/ y \in Slot) /\ x.n > 0 => Later(x, y)
  <2> SUFFICES ASSUME NEW y, Behind(y), y \in Packet \/ y \in Slot, x.n > 0
               PROVE Later(x, y)
    OBVIOUS
  <2>1. y.serial \in Nat /\ y.n \in Int /\ x.serial \in Nat /\ x.n \in Int
    BY DEF Packet, Slot
  <2> QED BY <2>1 DEF Behind, Later, PlayerType
<1>3. \A j \in DOMAIN packets' : j \in DOMAIN packets \/ j = Len(packets) + 1
  BY <1>1
<1>4. \A i, j \in DOMAIN packets' :
        i < j /\ packets'[i].n > 0 /\ packets'[j].n > 0 => Later(packets'[j], packets'[i])
  <2> SUFFICES ASSUME NEW i \in DOMAIN packets', NEW j \in DOMAIN packets', i < j,
                      packets'[i].n > 0, packets'[j].n > 0
               PROVE Later(packets'[j], packets'[i])
    OBVIOUS
  <2>1. i \in DOMAIN packets /\ packets'[i] = packets[i] /\ packets[i] \in Packet
    BY <1>1
  <2>2. CASE j \in DOMAIN packets
    BY <1>1, <2>1, <2>2 DEF InOrder
  <2>3. CASE j = Len(packets) + 1
    BY <1>1, <1>2, <2>1, <2>3 DEF AllBehind
  <2> QED BY <1>3, <2>2, <2>3
<1>5. \A j \in DOMAIN packets' : packets'[j].n > 0 =>
        /\ Later(packets'[j], shown')
        /\ \A k \in Ring' : Later(packets'[j], Frame(k)')
        /\ Pending' => Later(packets'[j], item')
  <2> SUFFICES ASSUME NEW j \in DOMAIN packets', packets'[j].n > 0
               PROVE  /\ Later(packets'[j], shown)
                      /\ \A k \in Ring : Later(packets'[j], Frame(k))
                      /\ Pending => Later(packets'[j], item)
    OBVIOUS
  <2>1. CASE j \in DOMAIN packets
    BY <1>1, <2>1 DEF InOrder
  <2>2. CASE j = Len(packets) + 1
    <3>1. packets'[j] = x
      BY <1>1, <2>2
    <3>2. \A k \in Ring : Frame(k) \in Slot /\ Behind(Frame(k))
      BY RingFrames DEF AllBehind
    <3> QED BY <1>2, <3>1, <3>2 DEF AllBehind, PlayerType
  <2> QED BY <1>3, <2>1, <2>2
<1>6. /\ \A k, l \in Ring' : k < l => Later(Frame(l)', Frame(k)')
      /\ \A k \in Ring' : Later(Frame(k)', shown')
      /\ \A k \in Ring' : Pending' => Later(item', Frame(k)')
      /\ Pending' => Later(item', shown')
  BY DEF InOrder
<1>7. InOrder'
  BY <1>4, <1>5, <1>6 DEF InOrder, Later
<1> QED BY <1>1, <1>3, <1>7


\* Where the read thread is, as far as it concerns the order.
BehindNext(y) == y.serial <= serial' /\ (y.serial = serial' /\ reader' # "flush" => y.n < pos')

LEMMA AppendsBehind ==
  ASSUME PlayerType, RingInv, AllBehind, NEW x, UNCHANGED shown,
         Pending' => Pending /\ item' = item, Ring' = Ring, \A k : Frame(k)' = Frame(k),
         \A j \in DOMAIN packets' : packets'[j].n > 0 =>
           (j \in DOMAIN packets /\ packets'[j] = packets[j]) \/ packets'[j] = x,
         \A y : Behind(y) /\ (y \in Packet \/ y \in Slot) => BehindNext(y),
         x.n > 0 => BehindNext(x)
  PROVE  AllBehind'
<1>1. \A j \in DOMAIN packets : packets[j] \in Packet
  BY DEF PlayerType
<1>2. \A k \in Ring : Frame(k) \in Slot
  BY RingFrames
<1>3. \A j \in DOMAIN packets' : packets'[j].n > 0 => BehindNext(packets'[j])
  <2> TAKE j \in DOMAIN packets'
  <2> HAVE packets'[j].n > 0
  <2>1. CASE packets'[j] = x
    BY <2>1
  <2>2. CASE j \in DOMAIN packets /\ packets'[j] = packets[j]
    <3>1. Behind(packets[j]) /\ packets[j] \in Packet
      BY <1>1, <2>2 DEF AllBehind
    <3> QED BY <2>2, <3>1
  <2> QED BY <2>1, <2>2
<1>4. \A k \in Ring' : BehindNext(Frame(k)')
  BY <1>2 DEF AllBehind
<1>5. (Pending' => BehindNext(item')) /\ BehindNext(shown')
  BY DEF AllBehind, PlayerType
<1>6. \A j \in DOMAIN packets' : packets'[j].n > 0 => Behind(packets[j])'
  BY <1>3 DEF Behind, BehindNext
<1>7. \A k \in Ring' : Behind(Frame(k))'
  BY <1>4 DEF Behind, BehindNext
<1>8. (Pending' => Behind(item)') /\ Behind(shown)'
  BY <1>5 DEF Behind, BehindNext
<1> QED BY <1>6, <1>7, <1>8 DEF AllBehind

LEMMA Empties ==
  ASSUME InOrder, UNCHANGED shown, Pending' => Pending /\ item' = item,
         Ring' = Ring, \A k : Frame(k)' = Frame(k),
         \A j \in DOMAIN packets' : ~(packets'[j].n > 0)
  PROVE  InOrder'
<1>1. /\ \A k, l \in Ring' : k < l => Later(Frame(l)', Frame(k)')
      /\ \A k \in Ring' : Later(Frame(k)', shown')
      /\ \A k \in Ring' : Pending' => Later(item', Frame(k)')
      /\ Pending' => Later(item', shown')
  BY DEF InOrder
<1> QED BY <1>1 DEF InOrder, Later

\* The read thread reads on, or, after a seek, begins a serial that is later than all.
LEMMA ReaderOrder == RingInv /\ PlayerType /\ OrderInv /\ Reader => OrderInv'
<1> SUFFICES ASSUME RingInv, PlayerType, OrderInv, Reader PROVE OrderInv'
  OBVIOUS
<1>1. /\ UNCHANGED <<slots, shown, item, display>> /\ Ring' = Ring
      /\ \A k : Frame(k)' = Frame(k)
      /\ \/ decoder' = decoder
         \/ decoder = "none" /\ decoder' = "alloc"
         \/ decoder = "no_packet" /\ decoder' = "get"
  BY ReaderAlone
<1>2. Pending' => Pending /\ item' = item
  BY <1>1 DEF Pending
<1>3. item'.n >= Null /\ (decoder' \in {"picture", "no_slot", "write"} => item'.n > 0)
  BY <1>1 DEF OrderInv, Numbers
<1>4. \A y : y \in Packet \/ y \in Slot => y.serial \in Nat /\ y.n \in Int
  BY DEF Packet, Slot
<1>5. serial \in Nat /\ pos \in Nat /\ pos # 0
  BY DEF PlayerType
<1>6. CASE Open
  <2>1. /\ aborted' = FALSE /\ serial' = serial + 1 /\ reader = "open" /\ pos' = pos
        /\ packets' = <<[serial |-> serial', n |-> Flush]>>
    BY <1>6 DEF Open
  <2>2. \A j \in DOMAIN packets' : packets'[j].n = 0
    BY <2>1 DEF Flush
  <2>3. \A y : Behind(y) /\ (y \in Packet \/ y \in Slot) => BehindNext(y)
    BY <1>4, <1>5, <2>1 DEF Behind, BehindNext
  <2>4. display' # "out" => InOrder' /\ AllBehind'
    <3>1. \A j \in DOMAIN packets' : ~(packets'[j].n > 0)
      BY <2>2
    <3>2. ASSUME InOrder PROVE InOrder'
      BY <1>1, <1>2, <3>1, <3>2, Empties
    <3>3. NoPacket.n = 0
      BY DEF NoPacket, Flush
    <3>4. ASSUME AllBehind PROVE AllBehind'
      BY <1>1, <1>2, <2>3, <3>1, <3>3, <3>4, AppendsBehind
    <3> QED BY <1>1, <3>2, <3>4 DEF OrderInv
  <2>5. Numbers'
    BY <1>3, <2>2 DEF Numbers, Null
  <2> QED BY <2>1, <2>4, <2>5 DEF OrderInv
<1>7. CASE Seek /\ packets' = <<>> /\ reader' = "flush"
  <2>1. UNCHANGED <<serial, aborted>> /\ reader = "seek"
    BY <1>7, Zenon DEF Seek
  <2>2. \A j \in DOMAIN packets' : packets'[j].n = 0
    BY <1>7
  <2>3. \A y : Behind(y) /\ (y \in Packet \/ y \in Slot) => BehindNext(y)
    BY <1>7, <2>1 DEF Behind, BehindNext
  <2>4. display' # "out" => InOrder' /\ AllBehind'
    <3>1. \A j \in DOMAIN packets' : ~(packets'[j].n > 0)
      BY <2>2
    <3>2. ASSUME InOrder PROVE InOrder'
      BY <1>1, <1>2, <3>1, <3>2, Empties
    <3>3. NoPacket.n = 0
      BY DEF NoPacket, Flush
    <3>4. ASSUME AllBehind PROVE AllBehind'
      BY <1>1, <1>2, <2>3, <3>1, <3>3, <3>4, AppendsBehind
    <3> QED BY <1>1, <3>2, <3>4 DEF OrderInv
  <2>5. Numbers'
    BY <1>3, <2>2 DEF Numbers, Null
  <2> QED BY <2>1, <2>4, <2>5 DEF OrderInv
<1>8. ASSUME NEW n \in {Flush, Null, pos}, Put(n), ~aborted,
             n = Flush => reader = "flush" /\ pos' = pos,
             n = Null => pos' = pos /\ reader # "flush",
             n = pos => pos' = pos + 1 /\ reader # "flush"
      PROVE  OrderInv'
  <2>1. /\ serial' = IF n = Flush THEN serial + 1 ELSE serial
        /\ packets' = Append(packets, [serial |-> serial', n |-> n]) /\ aborted' = aborted
    BY <1>8 DEF Put
  <2>2. PICK x : x = [serial |-> serial', n |-> n]
    OBVIOUS
  <2>3. n \in Int /\ serial' \in Nat
    BY <1>5, <2>1 DEF Flush, Null
  <2>4. x \in Packet /\ x.n = n /\ x.serial = serial' /\ n >= Null
    BY <1>5, <2>2, <2>3 DEF Packet, Flush, Null
  <2>5. x.n > 0 => x.serial = serial /\ x.n = pos /\ reader # "flush"
    BY <1>5, <1>8, <2>1, <2>4 DEF Flush, Null
  <2>6. pos' = IF n = pos THEN pos + 1 ELSE pos
    BY <1>5, <1>8 DEF Flush, Null
  <2>7. n # Flush => reader # "flush"
    BY <1>8
  <2>8. \A y : Behind(y) /\ (y \in Packet \/ y \in Slot) => BehindNext(y)
    <3> SUFFICES ASSUME NEW y, Behind(y), y.serial \in Nat, y.n \in Int PROVE BehindNext(y)
      BY <1>4
    <3>1. CASE n = Flush
      BY <1>5, <2>1, <3>1 DEF Behind, BehindNext
    <3>2. CASE n # Flush
      <4>1. serial' = serial /\ reader # "flush" /\ pos <= pos'
        BY <1>5, <2>1, <2>6, <2>7, <3>2
      <4> QED BY <1>5, <2>6, <4>1 DEF Behind, BehindNext
    <3> QED BY <3>1, <3>2
  <2>9. x.n > 0 => BehindNext(x)
    BY <1>5, <2>1, <2>4, <2>5, <2>6 DEF BehindNext, Flush
  <2>10. display' # "out" => InOrder' /\ AllBehind'
    <3> SUFFICES ASSUME InOrder, AllBehind PROVE InOrder' /\ AllBehind'
      BY <1>1 DEF OrderInv
    <3>1. packets' = Append(packets, x) /\ x \in Packet
      BY <2>1, <2>2, <2>4
    <3>2. InOrder' /\ \A j \in DOMAIN packets' : packets'[j].n > 0 =>
                       (j \in DOMAIN packets /\ packets'[j] = packets[j]) \/ packets'[j] = x
      BY <1>1, <1>2, <2>5, <3>1, Appends
    <3>3. AllBehind'
      BY <1>1, <1>2, <2>8, <2>9, <3>2, AppendsBehind
    <3> QED BY <3>2, <3>3
  <2>11. Numbers'
    <3>1. \A j \in DOMAIN packets' : packets'[j].n >= Null
      <4>1. /\ DOMAIN packets' = 1..Len(packets) + 1 /\ DOMAIN packets = 1..Len(packets)
            /\ Len(packets) \in Nat
            /\ \A j \in DOMAIN packets : packets'[j] = packets[j]
            /\ packets'[Len(packets) + 1] = x
        BY <2>1, <2>2 DEF PlayerType
      <4>2. \A j \in DOMAIN packets' : j \in DOMAIN packets \/ j = Len(packets) + 1
        BY <4>1
      <4> QED BY <2>4, <4>1, <4>2 DEF OrderInv, Numbers
    <3> QED BY <1>3, <3>1 DEF Numbers
  <2> QED BY <1>8, <2>1, <2>10, <2>11 DEF OrderInv
<1>9. CASE PutFlush
  <2>1. Put(Flush) /\ reader = "flush" /\ pos' = pos
    BY <1>9 DEF PutFlush
  <2> QED BY <1>5, <1>8, <2>1 DEF OrderInv, Flush, Null
<1>10. CASE ReadPacket
  <2>1. Put(pos) /\ reader = "read" /\ pos' = pos + 1
    BY <1>10 DEF ReadPacket
  <2> QED BY <1>5, <1>8, <2>1 DEF OrderInv, Flush, Null
<1>11. CASE ReadEnd /\ Put(Null)
  <2>1. reader = "read" /\ pos' = pos
    BY <1>11 DEF ReadEnd
  <2> QED BY <1>5, <1>8, <1>11, <2>1 DEF OrderInv, Flush, Null
<1>12. CASE UNCHANGED <<packets, serial, aborted, pos>> /\ reader' \notin {"open", "flush"}
            /\ (reader = "open" => reader' = "out") /\ reader \notin {"flush", "out"}
  <2>1. InOrder => InOrder'
    BY <1>1, <1>2, <1>12, OrderStays
  <2>2. AllBehind => AllBehind'
    BY <1>1, <1>2, <1>12, BehindStays
  <2>3. Numbers'
    BY <1>3, <1>12 DEF OrderInv, Numbers
  <2> QED BY <1>1, <1>12, <2>1, <2>2, <2>3 DEF OrderInv
<1>13. CASE OpenFails \/ Top \/ Sought \/ Room \/ ReadError
  <2>1. UNCHANGED <<packets, serial, aborted, pos>>
    BY <1>13, Zenon DEF OpenFails, Top, Sought, Room, ReadError, queueVars, readerVars
  <2>2. reader' \notin {"open", "flush"} /\ (reader = "open" => reader' = "out")
        /\ reader \notin {"flush", "out"}
    BY <1>13 DEF OpenFails, Top, Sought, Room, ReadError
  <2> QED BY <1>12, <2>1, <2>2
<1>14. CASE Seek
  <2>1. \/ packets' = <<>> /\ reader' = "flush"
        \/ UNCHANGED <<packets, pos>> /\ reader' = "sought"
    BY <1>14, Zenon DEF Seek
  <2>2. UNCHANGED <<serial, aborted>> /\ reader = "seek"
    BY <1>14, Zenon DEF Seek
  <2> QED BY <1>7, <1>12, <1>14, <2>1, <2>2
<1>15. CASE ReadEnd
  <2>1. Put(Null) \/ UNCHANGED queueVars
    BY <1>15 DEF ReadEnd
  <2>2. reader = "read" /\ reader' = "top" /\ pos' = pos
    BY <1>15 DEF ReadEnd
  <2> QED BY <1>11, <1>12, <1>15, <2>1, <2>2 DEF queueVars
<1> QED
  BY <1>6, <1>9, <1>10, <1>13, <1>14, <1>15 DEF Reader


\* The video thread takes the oldest packet, and what it makes of it waits behind the
\* other frames.
LEMMA DecoderOrder == RingInv /\ StaleInv /\ PlayerType /\ OrderInv /\ Decoder => OrderInv'
<1> SUFFICES ASSUME RingInv, StaleInv, PlayerType, OrderInv, Decoder PROVE OrderInv'
  OBVIOUS
<1>1. UNCHANGED <<shown, serial, aborted, pos, reader, display>>
  BY Zenon DEF Decoder, Alloc, Get, Decode, DropEarly, PeekWritable, Write, Push, DecoderEnds,
     displayVars, queueVars, readerVars
<1>2. ~Passes
  <2>1. Passes => display' # display
    BY DEF Passes, DropOutdated, DropLate, Show, FrameQueueNext
  <2> QED BY <1>1, <2>1
<1>3. \A y : Behind(y)' <=> Behind(y)
  BY <1>1 DEF Behind
<1>4. CASE /\ ~Write /\ UNCHANGED <<packets, item, slots>>
           /\ decoder' \in {"got", "picture", "no_slot", "write"} =>
                decoder \in {"got", "picture", "no_slot", "write"} /\ item.n > 0
  <2>1. Pending' => Pending /\ item' = item
    BY <1>4 DEF Pending
  <2>2. Ring' = Ring /\ \A k : Frame(k)' = Frame(k)
    BY <1>2, <1>4, FramesStay DEF Next
  <2>3. InOrder => InOrder'
    BY <1>1, <1>4, <2>1, <2>2, OrderStays
  <2>4. AllBehind => AllBehind'
    BY <1>1, <1>4, <2>1, <2>2, BehindStays
  <2>5. Numbers'
    BY <1>4 DEF OrderInv, Numbers
  <2> QED BY <1>1, <2>3, <2>4, <2>5 DEF OrderInv
<1>5. CASE Alloc \/ DropEarly \/ PeekWritable \/ Push \/ DecoderEnds
  <2>1. UNCHANGED <<packets, item, slots>>
    BY <1>5, Zenon DEF Alloc, DropEarly, PeekWritable, Push, DecoderEnds, queueVars, ringVars
  <2>2. decoder' \in {"got", "picture", "no_slot", "write"} => decoder = "picture"
    BY <1>5 DEF Alloc, DropEarly, PeekWritable, Push, DecoderEnds
  <2>3. ~Write
    BY <1>5 DEF Alloc, DropEarly, PeekWritable, Push, DecoderEnds, Write
  <2> QED BY <1>4, <2>1, <2>2, <2>3 DEF OrderInv, Numbers
<1>6. CASE Decode
  <2>1. UNCHANGED <<packets, item, slots>> /\ decoder = "got" /\ ~Write
    <3>1. UNCHANGED <<packets, item, slots>> /\ decoder = "got"
      BY <1>6, Zenon DEF Decode, queueVars, ringVars
    <3> QED BY <3>1 DEF Write
  <2>2. decoder' \in {"got", "picture", "no_slot", "write"} => item.n # Flush /\ item.n # Null
    BY <1>6 DEF Decode
  <2>3. item.n \in Int /\ item.n >= Null
    BY DEF PlayerType, Packet, OrderInv, Numbers
  <2>4. item.n # Flush /\ item.n # Null => item.n > 0
    BY <2>3 DEF Flush, Null
  <2> QED BY <1>4, <2>1, <2>2, <2>4
<1>7. CASE Get /\ UNCHANGED <<packets, item>>
  <2>1. UNCHANGED slots
    BY <1>7, Zenon DEF Get, ringVars
  <2>2. decoder' \in {"end", "no_packet"} \/ decoder' = "got"
    BY <1>7 DEF Get
  <2>3. ~Write /\ decoder = "get"
    BY <1>7 DEF Get, Write
  <2>4. decoder' # "got"
    <3> SUFFICES ASSUME decoder' = "got" PROVE FALSE
      OBVIOUS
    <3>1. packets # <<>> /\ packets' = Tail(packets)
      BY <1>7 DEF Get
    <3> QED BY <1>7, <3>1 DEF PlayerType
  <2> QED BY <1>4, <1>7, <2>1, <2>2, <2>3, <2>4
<1>8. CASE Get /\ packets # <<>> /\ item' = Head(packets) /\ packets' = Tail(packets)
  <2>1. UNCHANGED slots /\ decoder = "get" /\ ~Write
    <3>1. UNCHANGED slots /\ decoder = "get"
      BY <1>8, Zenon DEF Get, ringVars
    <3> QED BY <3>1 DEF Write
  <2>2. decoder' \notin {"picture", "no_slot", "write"}
    BY <1>8 DEF Get
  <2>3. Ring' = Ring /\ \A k : Frame(k)' = Frame(k)
    BY <1>2, <2>1, FramesStay DEF Next
  <2>4. /\ \A j \in DOMAIN packets' : j + 1 \in DOMAIN packets /\ packets'[j] = packets[j + 1]
                                      /\ j \in Int /\ 1 < j + 1
        /\ 1 \in DOMAIN packets /\ item' = packets[1]
    BY <1>8 DEF PlayerType
  <2>5. Pending' => packets[1].n > 0
    BY <2>4 DEF Pending
  <2>6. Numbers'
    BY <2>2, <2>4 DEF OrderInv, Numbers
  <2>7. ASSUME InOrder PROVE InOrder'
    <3>1. \A i, j \in DOMAIN packets' :
            i < j /\ packets'[i].n > 0 /\ packets'[j].n > 0 => Later(packets'[j], packets'[i])
      <4> SUFFICES ASSUME NEW i \in DOMAIN packets', NEW j \in DOMAIN packets', i < j,
                          packets'[i].n > 0, packets'[j].n > 0
                   PROVE Later(packets[j + 1], packets[i + 1])
        BY <2>4
      <4>1. i + 1 < j + 1
        BY <2>4
      <4>2. /\ packets[i + 1].n > 0 /\ packets[j + 1].n > 0
            /\ i + 1 \in DOMAIN packets /\ j + 1 \in DOMAIN packets
        BY <2>4
      <4> QED BY <2>7, <4>1, <4>2 DEF InOrder
    <3>2. \A j \in DOMAIN packets' : packets'[j].n > 0 =>
            /\ Later(packets'[j], shown')
            /\ \A k \in Ring' : Later(packets'[j], Frame(k)')
      BY <1>1, <2>3, <2>4, <2>7 DEF InOrder
    <3>3. \A j \in DOMAIN packets' : packets'[j].n > 0 /\ Pending' => Later(packets'[j], item')
      BY <2>4, <2>5, <2>7 DEF InOrder
    <3>4. Pending' => Later(item', shown') /\ \A k \in Ring' : Later(item', Frame(k)')
      BY <1>1, <2>3, <2>4, <2>5, <2>7 DEF InOrder
    <3>5. /\ \A k, l \in Ring' : k < l => Later(Frame(l)', Frame(k)')
          /\ \A k \in Ring' : Later(Frame(k)', shown')
      BY <1>1, <2>3, <2>7 DEF InOrder
    <3> QED BY <3>1, <3>2, <3>3, <3>4, <3>5 DEF InOrder, Later
  <2>8. ASSUME AllBehind PROVE AllBehind'
    <3>1. \A j \in DOMAIN packets' : packets'[j].n > 0 => Behind(packets'[j])
      BY <2>4, <2>8 DEF AllBehind
    <3>2. \A k \in Ring' : Behind(Frame(k)')
      BY <2>3, <2>8 DEF AllBehind
    <3>3. (Pending' => Behind(item')) /\ Behind(shown')
      BY <1>1, <2>4, <2>5, <2>8 DEF AllBehind
    <3> QED BY <1>1, <3>1, <3>2, <3>3 DEF AllBehind, Behind
  <2> QED BY <1>1, <2>6, <2>7, <2>8 DEF OrderInv
<1>9. CASE Write
  <2>1. /\ decoder = "write" /\ decoder' = "push" /\ UNCHANGED <<packets, item>>
        /\ slots' = [slots EXCEPT ![windex] =
                       [serial |-> item.serial, n |-> item.n, image |-> frame]]
    BY <1>9 DEF Write, queueVars
  <2>2. Pending /\ ~Pending'
    BY <2>1 DEF Pending, OrderInv, Numbers
  <2>3. /\ UNCHANGED <<rindex, rindex_shown>> /\ Held' = Held + 1
        /\ windex = At(Held) /\ Held < QueueSize /\ Held \in Int /\ rindex_shown \in Int
        /\ 0 <= rindex_shown /\ rindex_shown <= Held
    BY <1>9, HeldGrows, HeldInRing DEF RingInv, RingType
  <2>4. PICK h \in Int : h = Held
    BY <2>3
  <2>5. \A k \in Ring' : k \in Int /\ (k \in Ring \/ k = h)
    BY <2>3, <2>4 DEF Ring
  <2>6. \A k \in Ring : k \in 0..QueueSize-1 /\ k < h
    BY <2>3, <2>4, RingFrames DEF Ring
  <2>7. \A k : At(k)' = At(k)
    BY <2>3 DEF At
  <2>8. \A k \in Ring : Frame(k)' = Frame(k)
    <3> TAKE k \in Ring
    <3>1. k \in 0..QueueSize-1 /\ Held \in 0..QueueSize-1 /\ k # Held
      BY <2>3, <2>4, <2>6, PlayerAssumption DEF PlayerAssumption
    <3>2. At(k) \in 0..QueueSize-1 /\ At(k) # windex
      BY <2>3, <3>1, AtInRing
    <3>3. slots'[At(k)] = slots[At(k)]
      BY <2>1, <3>2 DEF PlayerType
    <3> QED BY <2>7, <3>3 DEF Frame
  <2>9. Frame(h)'.serial = item.serial /\ Frame(h)'.n = item.n
    <3>1. slots'[windex] = [serial |-> item.serial, n |-> item.n, image |-> frame]
      BY <2>1, HeldInRing DEF PlayerType
    <3>2. At(h)' = windex
      BY <2>3, <2>4, <2>7
    <3> QED BY <3>1, <3>2 DEF Frame
  <2>10. \A x : (Later(x, item) <=> Later(x, Frame(h)')) /\ (Later(item, x) <=> Later(Frame(h)', x))
    BY <2>9 DEF Later
  <2>11. Numbers'
    BY <2>1 DEF OrderInv, Numbers
  <2>12. ASSUME InOrder PROVE InOrder'
    <3>1. /\ \A i, j \in DOMAIN packets' :
               i < j /\ packets'[i].n > 0 /\ packets'[j].n > 0 => Later(packets'[j], packets'[i])
          /\ \A j \in DOMAIN packets' : packets'[j].n > 0 => Later(packets'[j], shown')
      BY <1>1, <2>1, <2>12 DEF InOrder
    <3>2. \A k, l \in Ring' : k < l => Later(Frame(l)', Frame(k)')
      <4> SUFFICES ASSUME NEW k \in Ring', NEW l \in Ring', k < l
                   PROVE Later(Frame(l)', Frame(k)')
        OBVIOUS
      <4>1. k \in Ring
        BY <2>4, <2>5, <2>6
      <4>2. CASE l \in Ring
        BY <2>8, <2>12, <4>1, <4>2 DEF InOrder
      <4>3. CASE l = h
        BY <2>2, <2>8, <2>10, <2>12, <4>1, <4>3 DEF InOrder
      <4> QED BY <2>5, <4>2, <4>3
    <3>3. \A j \in DOMAIN packets', k \in Ring' :
            packets'[j].n > 0 => Later(packets'[j], Frame(k)')
      <4> SUFFICES ASSUME NEW j \in DOMAIN packets, NEW k \in Ring', packets[j].n > 0
                   PROVE Later(packets[j], Frame(k)')
        BY <2>1
      <4>1. CASE k \in Ring
        BY <2>8, <2>12, <4>1 DEF InOrder
      <4>2. CASE k = h
        BY <2>2, <2>10, <2>12, <4>2 DEF InOrder
      <4> QED BY <2>5, <4>1, <4>2
    <3>4. \A k \in Ring' : Later(Frame(k)', shown')
      <4> TAKE k \in Ring'
      <4>1. CASE k \in Ring
        BY <1>1, <2>8, <2>12, <4>1 DEF InOrder
      <4>2. CASE k = h
        BY <1>1, <2>2, <2>10, <2>12, <4>2 DEF InOrder
      <4> QED BY <2>5, <4>1, <4>2
    <3> QED BY <2>2, <3>1, <3>2, <3>3, <3>4 DEF InOrder, Later
  <2>13. ASSUME AllBehind PROVE AllBehind'
    <3>1. \A k \in Ring' : Behind(Frame(k)')
      <4> TAKE k \in Ring'
      <4>1. CASE k \in Ring
        BY <2>8, <2>13, <4>1 DEF AllBehind
      <4>2. CASE k = h
        BY <2>2, <2>9, <2>13, <4>2 DEF AllBehind, Behind
      <4> QED BY <2>5, <4>1, <4>2
    <3>2. \A j \in DOMAIN packets' : packets'[j].n > 0 => Behind(packets'[j])
      BY <2>1, <2>13 DEF AllBehind
    <3> QED BY <1>1, <2>2, <2>13, <3>1, <3>2 DEF AllBehind, Behind
  <2> QED BY <1>1, <2>11, <2>12, <2>13 DEF OrderInv
<1>10. CASE Get
  <2>1. \/ UNCHANGED <<packets, item>>
        \/ packets # <<>> /\ item' = Head(packets) /\ packets' = Tail(packets)
    BY <1>10 DEF Get
  <2> QED BY <1>7, <1>8, <1>10, <2>1
<1> QED
  BY <1>5, <1>6, <1>9, <1>10 DEF Decoder


\* What is shown is the first of the frames that wait, and it waits no more.
LEMMA DisplayOrder ==
  RingInv /\ StaleInv /\ PlayerType /\ OrderInv /\ Display =>
    OrderInv' /\ (display = "show" => Later(shown', shown))
<1> SUFFICES ASSUME RingInv, StaleInv, PlayerType, OrderInv, Display
             PROVE  OrderInv' /\ (display = "show" => Later(shown', shown))
  OBVIOUS
<1>1. UNCHANGED <<packets, serial, aborted, pos, reader, item>>
  BY Zenon DEF Display, Loop, Refresh, Idle, DropOutdated, NotYet, Due, DropLate, Show, Shrink,
     queueVars, readerVars, decoderVars
<1>2. display # "out"
  BY DEF Display, Loop, Refresh, Idle, DropOutdated, NotYet, Due, DropLate, Show, Shrink
<1>3. InOrder /\ AllBehind
  BY <1>2 DEF OrderInv
<1>4. decoder' = decoder \/ (decoder = "no_slot" /\ decoder' = "picture")
  <2>1. CASE Shrink
    BY <2>1 DEF Shrink, FreesSlot, Woken
  <2>2. CASE ~Shrink
    BY <2>2, Zenon DEF Display, Loop, Refresh, Idle, DropOutdated, NotYet, Due, DropLate, Show,
       decoderVars
  <2> QED BY <2>1, <2>2
<1>5. Pending' => Pending /\ item' = item
  BY <1>1, <1>4 DEF Pending
<1>6. Numbers'
  BY <1>1, <1>4 DEF OrderInv, Numbers
<1>7. \A y : Behind(y)' <=> Behind(y)
  BY <1>1 DEF Behind
<1>8. CASE ~Passes
  <2>1. UNCHANGED <<slots, shown>> /\ display # "show"
    <3>1. UNCHANGED <<slots, shown>>
      BY <1>8, Zenon DEF Passes, Display, Loop, Refresh, Idle, NotYet, Due, Shrink, ringVars
    <3>2. display # "show"
      BY <1>8 DEF Passes, Display, Loop, Refresh, Idle, NotYet, Due, Shrink
    <3> QED BY <3>1, <3>2
  <2>2. ~Write
    <3>1. Write => decoder = "write" /\ decoder' = "push"
      BY DEF Write
    <3> QED BY <1>4, <3>1
  <2>3. Ring' = Ring /\ \A k : Frame(k)' = Frame(k)
    BY <1>8, <2>1, <2>2, FramesStay DEF Next
  <2>4. InOrder' /\ AllBehind'
    BY <1>1, <1>3, <1>5, <2>1, <2>3, OrderStays, BehindStays
  <2> QED BY <1>1, <1>6, <2>1, <2>4 DEF OrderInv
<1>9. CASE Passes
  <2>1. display \in {"judge", "show"}
    BY <1>9 DEF Passes, DropOutdated, DropLate, Show
  <2>2. UNCHANGED <<windex, size, decoder>>
    BY <1>9, Zenon DEF Passes, DropOutdated, DropLate, Show, decoderVars
  <2>3. FrameQueueNext("shrink", "loop") \/ FrameQueueNext("shrink_again", "refresh")
    BY <1>9, Zenon DEF Passes, DropOutdated, DropLate, Show
  <2>4. PICK d \in 0..1 : /\ Held' = Held - d /\ rindex_shown' = rindex_shown + 1 - d
                          /\ \A k \in rindex_shown'..Held'-1 : At(k)' = At(k + d)
    BY <2>1, <2>2, <2>3, HeldShrinks
  <2>5. PICK r \in Int : r = rindex_shown
    BY DEF RingInv, RingType
  <2>6. \A k \in Ring' : /\ k \in Int /\ k + d \in Ring /\ k + d \in Int /\ r < k + d
                         /\ At(k)' = At(k + d)
    BY <2>4, <2>5, HeldInRing DEF Ring
  <2>7. r \in Ring /\ Frame(r) = slots[Vp] /\ Vp \in 0..QueueSize-1
    BY <2>1, <2>5, RingFrames, HeldInRing
  <2>8. \A i \in 0..QueueSize-1 : slots'[i].serial = slots[i].serial /\ slots'[i].n = slots[i].n
    <3>1. \/ slots' = slots
          \/ slots' = [slots EXCEPT ![Vp].image = NoImage]
      BY <1>9 DEF Passes, DropOutdated, DropLate, Show, FreePicture
    <3>2. \A i \in 0..QueueSize-1 :
            /\ [slots EXCEPT ![Vp].image = NoImage][i].serial = slots[i].serial
            /\ [slots EXCEPT ![Vp].image = NoImage][i].n = slots[i].n
      BY <2>7 DEF PlayerType, Slot
    <3> QED BY <3>1, <3>2
  <2>9. \A k \in Ring' : Frame(k)'.serial = Frame(k + d).serial /\ Frame(k)'.n = Frame(k + d).n
    <3> TAKE k \in Ring'
    <3>1. At(k + d) \in 0..QueueSize-1
      BY <2>6, RingFrames, AtInRing
    <3>2. Frame(k)' = slots'[At(k + d)]
      BY <2>6 DEF Frame
    <3> QED BY <2>8, <3>1, <3>2 DEF Frame
  <2>10. \A k \in Ring' : \A x : /\ Later(x, Frame(k)') <=> Later(x, Frame(k + d))
                                 /\ Later(Frame(k)', x) <=> Later(Frame(k + d), x)
    BY <2>9 DEF Later
  <2>11. /\ \A k, l \in Ring' : k < l => Later(Frame(l)', Frame(k)')
         /\ \A j \in DOMAIN packets, k \in Ring' :
              packets[j].n > 0 => Later(packets[j], Frame(k)')
         /\ \A k \in Ring' : Pending => Later(item, Frame(k)')
         /\ \A k \in Ring' : Later(Frame(k)', shown) /\ Later(Frame(k)', Frame(r))
    <3>1. \A k, l \in Ring' : k < l => Later(Frame(l)', Frame(k)')
      <4> SUFFICES ASSUME NEW k \in Ring', NEW l \in Ring', k < l
                   PROVE Later(Frame(l)', Frame(k)')
        OBVIOUS
      <4>1. k + d < l + d /\ k + d \in Ring /\ l + d \in Ring
        BY <2>6
      <4>2. Later(Frame(l + d), Frame(k + d))
        BY <1>3, <4>1 DEF InOrder
      <4> QED BY <2>10, <4>2
    <3>2. \A j \in DOMAIN packets, k \in Ring' :
            packets[j].n > 0 => Later(packets[j], Frame(k)')
      BY <1>3, <2>6, <2>10 DEF InOrder
    <3>3. \A k \in Ring' : Pending => Later(item, Frame(k)')
      BY <1>3, <2>6, <2>10 DEF InOrder
    <3>4. \A k \in Ring' : Later(Frame(k)', shown) /\ Later(Frame(k)', Frame(r))
      BY <1>3, <2>6, <2>7, <2>10 DEF InOrder
    <3> QED BY <3>1, <3>2, <3>3, <3>4
  <2>12. \A k \in Ring' : Behind(Frame(k)')
    BY <1>3, <2>6, <2>9 DEF AllBehind, Behind
  <2>13. /\ \A i, j \in DOMAIN packets' :
              i < j /\ packets'[i].n > 0 /\ packets'[j].n > 0 => Later(packets'[j], packets'[i])
         /\ \A j \in DOMAIN packets' : packets'[j].n > 0 /\ Pending' => Later(packets'[j], item')
    BY <1>1, <1>3, <1>5 DEF InOrder
  <2>14. ASSUME shown' = shown PROVE InOrder' /\ AllBehind'
    <3>1. \A j \in DOMAIN packets' : packets'[j].n > 0 => Later(packets'[j], shown')
      BY <1>1, <1>3, <2>14 DEF InOrder
    <3>2. Pending' => Later(item', shown')
      BY <1>3, <1>5, <2>14 DEF InOrder
    <3>3. InOrder'
      BY <1>1, <1>5, <2>11, <2>13, <2>14, <3>1, <3>2 DEF InOrder, Later
    <3>4. AllBehind'
      BY <1>1, <1>3, <1>5, <2>12, <2>14 DEF AllBehind, Behind
    <3> QED BY <3>3, <3>4
  <2>15. ASSUME Show PROVE InOrder' /\ AllBehind' /\ Later(shown', shown)
    <3>1. shown'.serial = Frame(r).serial /\ shown'.n = Frame(r).n
      BY <2>7, <2>15 DEF Show
    <3>2. \A x : (Later(x, shown') <=> Later(x, Frame(r)))
                 /\ (Later(shown', x) <=> Later(Frame(r), x))
      BY <3>1 DEF Later
    <3>3. \A j \in DOMAIN packets' : packets'[j].n > 0 => Later(packets'[j], shown')
      BY <1>1, <1>3, <2>7, <3>2 DEF InOrder
    <3>4. Pending' => Later(item', shown')
      BY <1>3, <1>5, <2>7, <3>2 DEF InOrder
    <3>5. \A k \in Ring' : Later(Frame(k)', shown')
      BY <2>11, <3>2
    <3>6. InOrder'
      BY <1>1, <1>5, <2>11, <2>13, <3>3, <3>4, <3>5 DEF InOrder, Later
    <3>7. Behind(shown')
      BY <1>3, <2>7, <3>1 DEF AllBehind, Behind
    <3>8. AllBehind'
      BY <1>1, <1>3, <1>5, <2>12, <3>7 DEF AllBehind, Behind
    <3>9. Later(shown', shown)
      BY <1>3, <2>7, <3>2 DEF InOrder
    <3> QED BY <3>6, <3>8, <3>9
  <2>16. DropOutdated \/ DropLate => shown' = shown /\ display = "judge"
    BY Zenon DEF DropOutdated, DropLate
  <2> QED BY <1>1, <1>6, <1>9, <2>14, <2>15, <2>16 DEF Passes, OrderInv
<1> QED BY <1>8, <1>9

\* The user interface empties the queue when the play thread has left.
LEMMA UiOrder ==
  RingInv /\ StaleInv /\ PlayerType /\ OrderInv
  /\ (Keys \/ CloseDown \/ Closed \/ UNCHANGED vars) => OrderInv' /\ display' = display
<1> SUFFICES ASSUME RingInv, StaleInv, PlayerType, OrderInv,
                    Keys \/ CloseDown \/ Closed \/ UNCHANGED vars
             PROVE OrderInv' /\ display' = display
  OBVIOUS
<1>1. UNCHANGED <<display, item, reader>>
  BY Zenon DEF Keys, KeySeek, KeyPause, KeyStep, Exit, CloseDown, Deinit, AbortQueue,
     SignalFrameQueue, Close, Closed, vars, displayVars, decoderVars, readerVars
<1>2. CASE Keys \/ Closed \/ UNCHANGED vars
  <2>1. UNCHANGED <<packets, serial, aborted, slots, rindex, rindex_shown, size, pos, decoder,
                    shown>>
    BY <1>2, Zenon DEF Keys, KeySeek, KeyPause, KeyStep, Exit, Closed, vars, displayVars,
       decoderVars, readerVars, queueVars, ringVars
  <2>2. Ring' = Ring /\ (\A k : Frame(k)' = Frame(k)) /\ (Pending' <=> Pending)
    BY <1>1, <2>1 DEF Ring, Held, Pushing, Moving, Frame, At, Pending
  <2>3. InOrder => InOrder'
    BY <1>1, <2>1, <2>2, OrderStays
  <2>4. AllBehind => AllBehind'
    BY <1>1, <2>1, <2>2, BehindStays
  <2>5. Numbers'
    BY <1>1, <2>1 DEF OrderInv, Numbers
  <2> QED BY <1>1, <2>1, <2>3, <2>4, <2>5 DEF OrderInv
<1>3. CASE CloseDown
  <2>1. display = "out"
    BY <1>3 DEF CloseDown, Deinit, AbortQueue, SignalFrameQueue, Close, StaleInv, Leaving
  <2>2. aborted' = aborted \/ reader = "out"
    BY <1>3, Zenon DEF CloseDown, Deinit, AbortQueue, SignalFrameQueue, Close, queueVars
  <2>3. UNCHANGED packets \/ packets' = <<>>
    BY <1>3, Zenon DEF CloseDown, Deinit, AbortQueue, SignalFrameQueue, Close, queueVars
  <2>4. decoder' \in {"picture", "no_slot", "write"} =>
          decoder \in {"picture", "no_slot", "write"}
    BY <1>3 DEF CloseDown, Deinit, AbortQueue, SignalFrameQueue, SignalsFrames, Woken, Close,
       decoderVars
  <2>5. Numbers'
    BY <1>1, <2>3, <2>4 DEF OrderInv, Numbers
  <2> QED BY <1>1, <2>1, <2>2, <2>5 DEF OrderInv
<1> QED BY <1>1, <1>2, <1>3

PlayerInv == RingInv /\ StaleInv /\ PlayerType /\ OrderInv

LEMMA PlayerInit == Init => PlayerInv
<1> SUFFICES ASSUME Init PROVE PlayerInv
  OBVIOUS
<1>1. StaleInv
  BY DEF Init, StaleInv, SlotsType, StaleCount, NothingBeforeOpen, Leaving
<1>2. PlayerType
  <2>1. NoPacket \in Packet /\ NoFrame \in Slot /\ [serial |-> 0, n |-> 0] \in Packet
    BY DEF Packet, Slot, NoPacket, NoFrame, Flush
  <2>2. <<>> \in Seq(Packet)
    OBVIOUS
  <2> QED BY <2>1, <2>2 DEF Init, PlayerType
<1>3. RingInv
  BY RingInit
<1>4. Ring = {} /\ ~Pending
  <2>1. size = 0 /\ rindex_shown = 0 /\ decoder = "none" /\ display = "loop"
    BY Zenon DEF Init
  <2>2. Held = 0
    <3>1. ~Pushing /\ ~Moving
      BY <2>1 DEF Pushing, Moving
    <3> QED BY <2>1, <3>1 DEF Held
  <2> QED BY <2>1, <2>2 DEF Ring, Pending
<1>5. InOrder /\ AllBehind
  BY <1>4 DEF Init, InOrder, AllBehind, Behind
<1>6. Numbers
  BY DEF Init, Numbers, NoPacket, Flush, Null
<1>7. reader = "open"
  BY DEF Init
<1> QED BY <1>1, <1>2, <1>3, <1>5, <1>6, <1>7 DEF PlayerInv, OrderInv

\* Frames are shown in the order of the file, none twice, and none from before a seek
\* once one from after it was shown (the packet queue, the decoder, queue_picture,
\* frame_queue_peek and frame_queue_next): for every size of the queues, every file and
\* any number of seeks.
THEOREM OrderCorrect == Spec => ShownInOrder
<1>1. Init => PlayerInv
  BY PlayerInit
<1>2. PlayerInv /\ [Next]_vars => PlayerInv'
  <2>1. RingInv /\ StaleInv /\ [Next]_vars => (RingInv /\ StaleInv)'
    BY ReaderKeeps, DecoderKeeps, DisplayKeeps, UiKeeps, ReaderStale, DecoderStale,
       DisplayStale, UiStale DEF Next
  <2>2. RingInv /\ StaleInv /\ PlayerType /\ OrderInv /\ [Next]_vars => OrderInv'
    BY ReaderOrder, DecoderOrder, DisplayOrder, UiOrder DEF Next
  <2> QED BY <2>1, <2>2, TypesKeep DEF PlayerInv
<1>3. PlayerInv /\ [Next]_vars =>
        [display = "show" /\ display' # "show" => Later(shown', shown)]_vars
  <2> SUFFICES ASSUME PlayerInv, Next, display = "show", display' # "show"
               PROVE Later(shown', shown)
    OBVIOUS
  <2>1. Reader \/ Decoder => display' = display
    BY Zenon DEF Reader, Open, OpenFails, Top, Seek, PutFlush, Sought, Room, ReadPacket, ReadEnd,
       ReadError, Decoder, Alloc, Get, Decode, DropEarly, PeekWritable, Write, Push,
       DecoderEnds, displayVars
  <2>2. Display
    BY <2>1, UiOrder DEF Next, PlayerInv
  <2> QED BY <2>2, DisplayOrder DEF PlayerInv
<1> QED
  BY <1>1, <1>2, <1>3, PTL DEF Spec, ShownInOrder
=============================================================================
