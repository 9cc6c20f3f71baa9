---------------------------- MODULE VideoPlayer ----------------------------
(***************************************************************************)
(* The playback of one file (videoplay.c): the read thread, which fills    *)
(* the packet queue and carries out seeks; the video thread, which decodes *)
(* packets into the images of the frame queue; the play thread, which      *)
(* shows them; and the user interface, which seeks, pauses, steps and      *)
(* takes the player down.                                                  *)
(*                                                                         *)
(* Packets are numbered by their place in the file; times are left to      *)
(* choice: whether a frame is due, too late, or skipped because the speed  *)
(* is not 1.  The file has one video stream and no audio.  An image is     *)
(* what frame->data[3] points at; av_frame_unref is taken to leave it, as  *)
(* video_thread gives it back afterwards (external).                       *)
(***************************************************************************)
EXTENDS Integers, Sequences, FiniteSets

CONSTANTS
  QueueSize,        \* VIDEO_PICTURE_QUEUE_SIZE
  Frames,           \* packets of the file (bound)
  MaxPackets,       \* MAX_FRAMES
  MaxSeeks, MaxKeys \* seeks, and pause and step keys, of a behaviour (bounds)

ASSUME PlayerAssumption ==
  /\ QueueSize \in Nat /\ QueueSize >= 2
  /\ Frames \in Nat /\ MaxPackets \in Nat /\ MaxSeeks \in Nat /\ MaxKeys \in Nat

VARIABLES
  packets, serial, aborted,     \* videoq: its packets, serial, abort_request
  slots, rindex, windex, size, rindex_shown,   \* pictq
  reader, pos,                  \* the read thread, where it is in the file
  decoder, item, frame,         \* the video thread, its packet, the image of its frame
  finished,                     \* viddec.finished
  display, pthread_run, exited, \* the play thread; CMD_VIDEOPLAY_EXIT was sent
  pre_pic,                      \* the image on the screen
  eof, seek_req, abort_request, paused, step,
  ui, seeks, keys,              \* the user interface, and what it has done
  live,                         \* images that are allocated
  shown, stale                  \* histories: the last frame shown, and how many
                                \* frames were shown after the seek that ended them

queueVars == <<packets, serial, aborted>>
ringVars == <<slots, rindex, windex, size, rindex_shown>>
readerVars == <<reader, pos>>
decoderVars == <<decoder, item, frame, finished>>
displayVars == <<display, pthread_run, exited, pre_pic, shown, stale>>
controlVars == <<eof, seek_req, abort_request, paused, step>>
uiVars == <<ui, seeks, keys>>
vars == <<queueVars, ringVars, readerVars, decoderVars, displayVars, controlVars,
          uiVars, live>>

NoImage == 0
Images == 1..(QueueSize + 2)
Flush == 0
Null == -1
NoFrame == [serial |-> 0, n |-> 0, image |-> NoImage]
NoPacket == [serial |-> 0, n |-> Flush]

After(i) == IF i + 1 = QueueSize THEN 0 ELSE i + 1
Remaining == size - rindex_shown
\* Mutant of Vp: frame_queue_peek forgets that the first frame has been shown.
VpFirst == rindex
Vp == IF rindex_shown = 0 THEN rindex ELSE After(rindex)

Init ==
  /\ packets = <<>> /\ serial = 0 /\ aborted = TRUE
  /\ slots = [i \in 0..QueueSize-1 |-> NoFrame]
  /\ rindex = 0 /\ windex = 0 /\ size = 0 /\ rindex_shown = 0
  /\ reader = "open" /\ pos = 1
  /\ decoder = "none" /\ item = NoPacket /\ frame = NoImage /\ finished = 0
  /\ display = "loop" /\ pthread_run = TRUE /\ exited = FALSE
  /\ pre_pic = NoImage
  /\ eof = FALSE /\ seek_req = FALSE /\ abort_request = FALSE
  /\ paused = FALSE /\ step = FALSE
  /\ ui = "playing" /\ seeks = 0 /\ keys = 0
  /\ live = {} /\ shown = [serial |-> 0, n |-> 0] /\ stale = 0

-----------------------------------------------------------------------------
(* The packet queue: under its mutex, and a waiting video thread is woken. *)

Woken(place, again) == IF decoder = place THEN again ELSE decoder

Put(n) ==
  IF aborted THEN UNCHANGED <<queueVars, decoder>>
  ELSE /\ serial' = IF n = Flush THEN serial + 1 ELSE serial
       /\ packets' = Append(packets, [serial |-> serial', n |-> n])
       /\ decoder' = Woken("no_packet", "get")
       /\ UNCHANGED aborted

-----------------------------------------------------------------------------
(* The read thread.                                                        *)

\* The file is opened, packet_queue_start, and the video thread created.
Open ==
  /\ reader = "open"
  /\ aborted' = FALSE /\ serial' = serial + 1
  /\ packets' = <<[serial |-> serial', n |-> Flush]>>
  /\ reader' = "top" /\ decoder' = "alloc"
  /\ UNCHANGED <<ringVars, pos, item, frame, finished, displayVars, controlVars, uiVars,
                 live>>

\* The file cannot be opened: only eof tells the play thread.
OpenFails ==
  /\ reader = "open"
  /\ eof' = TRUE /\ reader' = "out"
  /\ UNCHANGED <<queueVars, ringVars, pos, decoderVars, displayVars, seek_req,
                 abort_request, paused, step, uiVars, live>>

\* The player is taken down, or there is a seek to carry out.
Top ==
  /\ reader = "top" /\ (abort_request \/ seek_req)
  /\ reader' = IF abort_request THEN "out" ELSE "seek"
  /\ UNCHANGED <<queueVars, ringVars, pos, decoderVars, displayVars, controlVars,
                 uiVars, live>>

\* avformat_seek_file, and packet_queue_flush of what was read before.
Seek ==
  /\ reader = "seek"
  /\ \/ pos' \in 1..Frames /\ packets' = <<>> /\ reader' = "flush"
     \/ reader' = "sought" /\ UNCHANGED <<pos, packets>>
  /\ UNCHANGED <<serial, aborted, ringVars, decoderVars, displayVars, controlVars,
                 uiVars, live>>

\* The flush packet begins a new serial: what carries an older one is stale.
PutFlush ==
  /\ reader = "flush"
  /\ Put(Flush)
  /\ stale' = 0 /\ reader' = "sought"
  /\ UNCHANGED <<ringVars, pos, item, frame, finished, display, pthread_run, exited,
                 pre_pic, shown, controlVars, uiVars, live>>

Sought ==
  /\ reader = "sought"
  /\ seek_req' = FALSE /\ eof' = FALSE
  /\ paused' = FALSE /\ step' = (step \/ paused)
  /\ reader' = "room"
  /\ UNCHANGED <<queueVars, ringVars, pos, decoderVars, displayVars, abort_request,
                 uiVars, live>>

Full ==
  /\ Len(packets) >= QueueSize \div 2 \/ aborted
  /\ Len(packets) >= MaxPackets \/ aborted

AllPlayed == ~paused /\ finished = serial /\ Remaining = 0

\* The queue is full: wait, a tenth of a second at most, and test again.  All
\* is played: the thread ends (autoexit).
Room ==
  /\ reader = "room" \/ (reader = "top" /\ ~abort_request /\ ~seek_req)
  /\ reader' = IF Full THEN "top" ELSE IF AllPlayed THEN "out" ELSE "read"
  /\ eof' = (eof \/ (~Full /\ AllPlayed))
  /\ UNCHANGED <<queueVars, ringVars, pos, decoderVars, displayVars, seek_req,
                 abort_request, paused, step, uiVars, live>>

ReadPacket ==
  /\ reader = "read" /\ pos <= Frames
  /\ Put(pos)
  /\ pos' = pos + 1 /\ eof' = FALSE /\ reader' = "top"
  /\ UNCHANGED <<ringVars, item, frame, finished, displayVars, seek_req, abort_request,
                 paused, step, uiVars, live>>

\* The end of the file: a null packet, once, drains the decoder.
ReadEnd ==
  /\ reader = "read" /\ pos > Frames
  /\ IF eof THEN UNCHANGED <<queueVars, decoder>> ELSE Put(Null)
  /\ eof' = TRUE /\ reader' = "top"
  /\ UNCHANGED <<ringVars, pos, item, frame, finished, displayVars, seek_req,
                 abort_request, paused, step, uiVars, live>>

\* The medium fails: abort_request, and eof stays as it was.
ReadError ==
  /\ reader = "read"
  /\ abort_request' = TRUE /\ reader' = "out"
  /\ UNCHANGED <<queueVars, ringVars, pos, decoderVars, displayVars, eof, seek_req,
                 paused, step, uiVars, live>>

Reader == Open \/ OpenFails \/ Top \/ Seek \/ PutFlush \/ Sought \/ Room
          \/ ReadPacket \/ ReadEnd \/ ReadError

-----------------------------------------------------------------------------
(* The video thread.                                                       *)

\* set_avframe_using(1): an image for the next frame.
Alloc ==
  /\ decoder = "alloc"
  /\ \E i \in Images \ live :
       /\ \A j \in Images \ live : i <= j
       /\ frame' = i /\ live' = live \cup {i}
  /\ decoder' = "get"
  /\ UNCHANGED <<queueVars, ringVars, readerVars, item, finished, displayVars,
                 controlVars, uiVars>>

\* set_avframe_using(0), and the next turn of the loop.
GiveBack == frame' = NoImage /\ live' = live \ {frame}

\* packet_queue_get: the oldest packet, or the thread waits, or ends.
Get ==
  /\ decoder = "get"
  /\ IF aborted THEN decoder' = "end" /\ UNCHANGED <<packets, item>>
     ELSE IF packets = <<>> THEN decoder' = "no_packet" /\ UNCHANGED <<packets, item>>
     ELSE /\ item' = Head(packets) /\ packets' = Tail(packets)
          /\ decoder' = "got"
  /\ UNCHANGED <<serial, aborted, ringVars, readerVars, frame, finished, displayVars,
                 controlVars, uiVars, live>>

\* A flush packet, or one of an older serial, is passed over.  Another one gives
\* a frame, or none: then the next is decoded into the same image.  After a
\* null packet there is nothing left of this serial.
Decode ==
  /\ decoder = "got"
  /\ \/ /\ item.n = Flush \/ item.serial # serial
        /\ decoder' = "get" /\ finished' = IF item.n = Flush THEN 0 ELSE finished
        /\ UNCHANGED <<frame, live>>
     \/ /\ item.n # Flush /\ item.serial = serial
        /\ IF item.n = Null
           THEN finished' = item.serial /\ decoder' = "alloc" /\ GiveBack
           ELSE decoder' \in {"picture", "get"} /\ UNCHANGED <<finished, frame, live>>
  /\ UNCHANGED <<queueVars, ringVars, readerVars, item, displayVars, controlVars,
                 uiVars>>

\* get_video_frame: at another speed a frame is skipped for its time, or because
\* the decoder was told to skip it and gave no image.
DropEarly ==
  /\ decoder = "picture"
  /\ decoder' = "alloc" /\ GiveBack
  /\ UNCHANGED <<queueVars, ringVars, readerVars, item, finished, displayVars,
                 controlVars, uiVars>>

\* Mutant of NoSlot: the test for a full frame queue is off by one.
NoSlotLate == size > QueueSize
NoSlot == size >= QueueSize

\* frame_queue_peek_writable: a free slot, or the thread waits, or ends.
PeekWritable ==
  /\ decoder = "picture"
  /\ decoder' = IF aborted THEN "end" ELSE IF NoSlot THEN "no_slot" ELSE "write"
  /\ UNCHANGED <<queueVars, ringVars, readerVars, item, frame, finished, displayVars,
                 controlVars, uiVars, live>>

\* queue_picture: the image goes to the slot; frame_queue_push moves windex.
Write ==
  /\ decoder = "write"
  /\ slots' = [slots EXCEPT ![windex] =
                 [serial |-> item.serial, n |-> item.n, image |-> frame]]
  /\ windex' = After(windex) /\ frame' = NoImage /\ decoder' = "push"
  /\ UNCHANGED <<queueVars, rindex, size, rindex_shown, readerVars, item, finished,
                 displayVars, controlVars, uiVars, live>>

Push ==
  /\ decoder = "push"
  /\ size' = size + 1 /\ decoder' = "alloc"
  /\ UNCHANGED <<queueVars, slots, rindex, windex, rindex_shown, readerVars, item,
                 frame, finished, displayVars, controlVars, uiVars, live>>

\* Mutant of AtTheEnd: the image of the frame under work is left behind.
AtTheEndLeft == UNCHANGED <<frame, live>>
AtTheEnd == GiveBack

DecoderEnds ==
  /\ decoder = "end"
  /\ AtTheEnd
  /\ decoder' = "out"
  /\ UNCHANGED <<queueVars, ringVars, readerVars, item, finished, displayVars,
                 controlVars, uiVars>>

Decoder == Alloc \/ Get \/ Decode \/ DropEarly \/ PeekWritable \/ Write \/ Push
           \/ DecoderEnds

-----------------------------------------------------------------------------
(* The play thread: video_refresh and the loop around it.                  *)

FreePicture ==
  /\ slots' = [slots EXCEPT ![Vp].image = NoImage]
  /\ live' = live \ {slots[Vp].image}

\* After a step the player is paused again.
StepDone == paused' = (paused \/ step)

\* frame_queue_next keeps the first frame as the last shown; later rindex moves,
\* and Shrink follows.
FrameQueueNext(shrink, done) ==
  IF rindex_shown = 0
  THEN rindex_shown' = 1 /\ display' = done /\ UNCHANGED rindex
  ELSE rindex' = After(rindex) /\ display' = shrink /\ UNCHANGED rindex_shown

Loop ==
  /\ display = "loop"
  /\ IF ~pthread_run THEN display' = "out" /\ exited' = TRUE
     ELSE display' = (IF paused THEN "loop" ELSE "refresh") /\ UNCHANGED exited
  /\ UNCHANGED <<queueVars, ringVars, readerVars, decoderVars, pthread_run, pre_pic,
                 shown, stale, controlVars, uiVars, live>>

Refresh ==
  /\ display = "refresh"
  /\ display' = IF Remaining = 0 THEN "idle" ELSE "judge"
  /\ UNCHANGED <<queueVars, ringVars, readerVars, decoderVars, pthread_run, exited,
                 pre_pic, shown, stale, controlVars, uiVars, live>>

\* Nothing to show: at the end of the file, with empty queues, playing ends.
Idle ==
  /\ display = "idle"
  /\ pthread_run' = (pthread_run /\ ~(eof /\ packets = <<>>))
  /\ display' = "loop"
  /\ UNCHANGED <<queueVars, ringVars, readerVars, decoderVars, exited, pre_pic, shown,
                 stale, controlVars, uiVars, live>>

\* Mutant of Outdated: the serial is not compared.
OutdatedNever == FALSE
Outdated == slots[Vp].serial # serial

\* A frame from before a seek is dropped.
DropOutdated ==
  /\ display = "judge" /\ Outdated
  /\ FreePicture
  /\ FrameQueueNext("shrink_again", "refresh")
  /\ UNCHANGED <<queueVars, windex, size, readerVars, decoderVars, pthread_run, exited,
                 pre_pic, shown, stale, controlVars, uiVars>>

\* It is not yet time.
NotYet ==
  /\ display = "judge" /\ ~Outdated /\ ~paused
  /\ display' = "loop"
  /\ UNCHANGED <<queueVars, ringVars, readerVars, decoderVars, pthread_run, exited,
                 pre_pic, shown, stale, controlVars, uiVars, live>>

\* It is time, or the player is paused meanwhile.
Due ==
  /\ display = "judge" /\ ~Outdated
  /\ display' = "show"
  /\ UNCHANGED <<queueVars, ringVars, readerVars, decoderVars, pthread_run, exited,
                 pre_pic, shown, stale, controlVars, uiVars, live>>

\* Too late at another speed, and another frame is there.
DropLate ==
  /\ display = "judge" /\ ~Outdated /\ ~paused /\ ~step /\ Remaining > 1
  /\ FreePicture
  /\ FrameQueueNext("shrink_again", "refresh")
  /\ UNCHANGED <<queueVars, windex, size, readerVars, decoderVars, pthread_run, exited,
                 pre_pic, shown, stale, controlVars, uiVars>>

\* video_image_display: the image before the last one is given back.
Show ==
  /\ display = "show"
  /\ IF slots[Vp].image = NoImage THEN UNCHANGED <<slots, live, pre_pic>>
     ELSE /\ live' = live \ {pre_pic} /\ pre_pic' = slots[Vp].image
          /\ slots' = [slots EXCEPT ![Vp].image = NoImage]
  /\ shown' = [serial |-> slots[Vp].serial, n |-> slots[Vp].n]
  /\ stale' = IF slots[Vp].serial = serial THEN stale ELSE stale + 1
  /\ FrameQueueNext("shrink", "loop")
  /\ IF rindex_shown = 0 THEN StepDone ELSE UNCHANGED paused
  /\ UNCHANGED <<queueVars, windex, size, readerVars, decoderVars, pthread_run, exited,
                 eof, seek_req, abort_request, step, uiVars>>

\* Mutant of FreesSlot: frame_queue_next does not signal.
FreesSlotSilently == decoder
FreesSlot == Woken("no_slot", "picture")

\* The end of frame_queue_next, under the lock: a video thread that waits for a
\* slot is woken.
Shrink ==
  /\ \/ display = "shrink" /\ display' = "loop" /\ StepDone
     \/ display = "shrink_again" /\ display' = "refresh" /\ UNCHANGED paused
  /\ size' = size - 1 /\ decoder' = FreesSlot
  /\ UNCHANGED <<queueVars, slots, rindex, windex, rindex_shown, readerVars, item,
                 frame, finished, pthread_run, exited, pre_pic, shown, stale, eof,
                 seek_req, abort_request, step, uiVars, live>>

Display == Loop \/ Refresh \/ Idle \/ DropOutdated \/ NotYet \/ Due \/ DropLate \/ Show
           \/ Shrink

-----------------------------------------------------------------------------
(* The user interface.                                                     *)

\* stream_seek: a request before the last one was carried out is dropped.
KeySeek ==
  /\ ui = "playing" /\ seeks < MaxSeeks /\ ~seek_req
  /\ seek_req' = TRUE /\ seeks' = seeks + 1
  /\ UNCHANGED <<queueVars, ringVars, readerVars, decoderVars, displayVars, eof,
                 abort_request, paused, step, ui, keys, live>>

KeyPause ==
  /\ ui = "playing" /\ keys < MaxKeys
  /\ paused' = ~paused /\ step' = FALSE /\ keys' = keys + 1
  /\ UNCHANGED <<queueVars, ringVars, readerVars, decoderVars, displayVars, eof,
                 seek_req, abort_request, ui, seeks, live>>

KeyStep ==
  /\ ui = "playing" /\ keys < MaxKeys
  /\ paused' = FALSE /\ step' = TRUE /\ keys' = keys + 1
  /\ UNCHANGED <<queueVars, ringVars, readerVars, decoderVars, displayVars, eof,
                 seek_req, abort_request, ui, seeks, live>>

\* videoplay_exit: a key, a card that is taken out, a USB cable.
Exit ==
  /\ ui = "playing" /\ pthread_run
  /\ pthread_run' = FALSE
  /\ UNCHANGED <<queueVars, ringVars, readerVars, decoderVars, display, exited, pre_pic,
                 shown, stale, controlVars, uiVars, live>>

\* videoplay_deinit when CMD_VIDEOPLAY_EXIT arrives: the play thread is
\* joined, and stream_close asks the read thread to end.
Deinit ==
  /\ ui = "playing" /\ exited
  /\ abort_request' = TRUE /\ ui' = "join_reader"
  /\ UNCHANGED <<queueVars, ringVars, readerVars, decoderVars, displayVars, eof,
                 seek_req, paused, step, seeks, keys, live>>

\* decoder_abort, unless the file was never opened.
AbortQueue ==
  /\ ui = "join_reader" /\ reader = "out"
  /\ IF decoder = "none" THEN ui' = "closed" /\ UNCHANGED <<aborted, decoder>>
     ELSE /\ aborted' = TRUE /\ decoder' = Woken("no_packet", "get")
          /\ ui' = "signal"
  /\ UNCHANGED <<packets, serial, ringVars, readerVars, item, frame, finished,
                 displayVars, controlVars, seeks, keys, live>>

\* Mutant of SignalsFrames: only the packet queue is signalled.
SignalsFramesNot == decoder
SignalsFrames == Woken("no_slot", "picture")

SignalFrameQueue ==
  /\ ui = "signal"
  /\ decoder' = SignalsFrames /\ ui' = "join_decoder"
  /\ UNCHANGED <<queueVars, ringVars, readerVars, item, frame, finished, displayVars,
                 controlVars, seeks, keys, live>>

\* frame_queue_destory gives back what the slots hold, then the image shown.
Close ==
  /\ ui = "join_decoder" /\ decoder = "out"
  /\ packets' = <<>>
  /\ live' = live \ ({slots[i].image : i \in DOMAIN slots} \cup {pre_pic})
  /\ slots' = [i \in DOMAIN slots |-> NoFrame] /\ pre_pic' = NoImage
  /\ ui' = "closed"
  /\ UNCHANGED <<serial, aborted, rindex, windex, size, rindex_shown, readerVars,
                 decoderVars, display, pthread_run, exited, shown, stale, controlVars,
                 seeks, keys>>

Closed == ui = "closed" /\ UNCHANGED vars

CloseDown == Deinit \/ AbortQueue \/ SignalFrameQueue \/ Close
Keys == KeySeek \/ KeyPause \/ KeyStep \/ Exit

Next == Reader \/ Decoder \/ Display \/ Keys \/ CloseDown \/ Closed

\* Threads run, and a frame that is tested again and again is due at some time.
Fairness ==
  /\ WF_vars(Reader) /\ WF_vars(Decoder) /\ WF_vars(Display) /\ WF_vars(CloseDown)
  /\ SF_vars(Due)

Spec == Init /\ [][Next]_vars /\ Fairness

-----------------------------------------------------------------------------
(* Properties.                                                             *)

\* Where an image may be: the slots, the frame under work, the screen.
Places == 0..QueueSize+1
ImageAt(p) == IF p < QueueSize THEN slots[p].image
              ELSE IF p = QueueSize THEN frame ELSE pre_pic

\* Every image that is allocated is in exactly one place: the frame under work,
\* a slot of the frame queue, or the screen (pre_pic).  None is lost and none
\* is given back twice, whatever is dropped, sought or closed, by whichever of
\* the three threads; a player that has been taken down holds none.
ImagesOnce ==
  /\ \A i \in live : \E p \in Places : /\ ImageAt(p) = i
                                      /\ \A q \in Places : ImageAt(q) = i => q = p
  /\ \A p \in Places : ImageAt(p) \in live \cup {NoImage}
  /\ ui = "closed" => live = {}

\* While the play thread judges or shows a frame, without the lock of the frame
\* queue, the video thread writes into another slot (frame_queue_peek,
\* frame_queue_peek_writable, and the frame kept by frame_queue_next).
NotOverwritten ==
  decoder = "write" /\ display \in {"judge", "show"} => windex # Vp /\ windex # rindex

\* video_refresh compares the serial of a frame once: between that and the
\* display a seek may end it, so that one frame from before a seek is shown
\* after it, and never two.
AtMostOneStale == stale <= 1

Later(a, b) == a.serial > b.serial \/ (a.serial = b.serial /\ a.n > b.n)

\* Frames are shown in the order of the file, none twice, and none from before
\* a seek once one from after it was shown.
ShownInOrder == [][display = "show" /\ display' # "show" => Later(shown', shown)]_vars

\* stream_close joins the read thread, then the video thread, wherever it
\* waits (for a packet or for a slot): videoplay_deinit returns.
DeinitReturns == (ui = "join_reader") ~> (ui = "closed")

\* A player that is not left paused plays to the end of the file and sends
\* CMD_VIDEOPLAY_EXIT, unless reading fails.
PlaysToEnd == <>[]~paused => <>(exited \/ abort_request)
=============================================================================
