----------------------------- MODULE CameraMuxer -----------------------------
(***************************************************************************)
(* The asynchronous muxer of av_wrapper/encoder_muxing/muxing/             *)
(* camera_muxer.cpp: the thread that controls it (the camera thread, which *)
(* also pushes the video packets), the audio thread, which pushes while    *)
(* the muxer is a handler of the packet dispatcher, and one writer thread  *)
(* per job, created by start_new_job and alive until it has removed itself *)
(* from w_tid_list.  A muxer is created, runs one or more jobs (one file   *)
(* each), and is deleted.                                                  *)
(*                                                                         *)
(* One action is one critical section or one blocking call.  Allocation    *)
(* failures are left out; thumbnails, time stamps and the libav calls are  *)
(* abstracted to the packets a file receives, in order.                    *)
(***************************************************************************)
EXTENDS Integers, Sequences, FiniteSets, PacketLists

CONSTANTS
  Writers,     \* writer threads that may exist at a time (bound)
  MaxJobs,     \* files recorded in a behaviour (bound)
  MaxPackets,  \* packets accepted by push_packet in a behaviour (bound)
  MaxVideo,    \* max_video_num, set by init_uri to rate * 2
  Gop,         \* the encoder emits a key frame at least every Gop frames
  ExitIds,     \* the exit_id a muxer may be configured with
  NoPtr, NoThread

ASSUME ConstantsAssumption ==
  /\ MaxJobs \in Nat /\ MaxPackets \in Nat
  /\ MaxVideo \in Nat \ {0} /\ Gop \in Nat \ {0}
  /\ ExitIds \subseteq {"NORMAL", "FLUSH", "IMMEDIATE"}
  /\ NoThread \notin Writers
  /\ NoPtr \notin Seq([n : Nat, kind : {"key", "delta", "audio", "empty"}, job : Nat])

VARIABLES
  \* the muxer object
  exit_id, write_enable, write_tid, w_tid_list, packet_list,
  video_packet_num, msg_queue,
  \* the controlling thread and the dispatcher
  ctl, goal, attached, joining, notified, sinceKey,
  \* the writer threads
  pc, msg, hand, private, out,
  \* history: what was recorded
  jobs, pushed, refs, accepted, dropped, file, closedBy, failed

muxerVars == <<exit_id, write_enable, write_tid, w_tid_list, packet_list,
               video_packet_num, msg_queue>>
ctlVars == <<ctl, goal, attached, joining, notified, sinceKey>>
writerVars == <<pc, msg, hand, private, out>>
dataVars == <<pushed, refs, accepted, dropped>>
fileVars == <<file, closedBy, failed>>
vars == <<muxerVars, ctlVars, writerVars, jobs, dataVars, fileVars>>

Packet == [n : 1..MaxPackets, kind : {"key", "delta", "audio"}, job : 1..MaxJobs]
\* The packet pushed to wake the writer; never counted, never written.
empty_packet == [n |-> 0, kind |-> "empty", job |-> 0]
NoMessage == [id |-> "none", job |-> 0]
WriterStates == {"free", "check", "getmsg", "init", "take", "notify", "pop",
                 "blocked", "woken", "write", "drain", "tailer",
                 "flushed", "end", "detach"}

Init ==
  /\ exit_id \in ExitIds
  /\ write_enable = FALSE /\ write_tid = NoThread /\ w_tid_list = {}
  /\ packet_list = NoPtr /\ video_packet_num = 0 /\ msg_queue = <<>>
  /\ ctl = "none" /\ goal = "run" /\ attached = FALSE /\ joining = NoThread
  /\ notified = FALSE /\ sinceKey = 0
  /\ pc = [w \in Writers |-> "free"]
  /\ msg = [w \in Writers |-> NoMessage]
  /\ hand = [w \in Writers |-> empty_packet]
  /\ private = [w \in Writers |-> <<>>]
  /\ out = [w \in Writers |-> 0]
  /\ jobs = 0 /\ pushed = 0
  /\ refs = [n \in 1..MaxPackets |-> 0]
  /\ accepted = [j \in 1..MaxJobs |-> <<>>] /\ dropped = {}
  /\ file = [j \in 1..MaxJobs |-> <<>>] /\ closedBy = [j \in 1..MaxJobs |-> "open"]
  /\ failed = FALSE

-----------------------------------------------------------------------------
(* The controlling thread.                                                 *)

\* A thread that still runs; "detach" is past its last access to the muxer.
Live(w) == pc[w] \notin {"free", "detach"}

\* init_uri: the list is created once per object (or after a writer took the
\* old one away), and the START message carries the uri of the new job.
InitUri ==
  /\ \/ ctl = "none" /\ exit_id' \in ExitIds
     \/ ctl = "stopped" /\ goal = "restart" /\ UNCHANGED exit_id
  /\ jobs < MaxJobs
  /\ jobs' = jobs + 1
  /\ packet_list' = IF packet_list = NoPtr THEN <<>> ELSE packet_list
  /\ msg_queue' = Append(msg_queue, [id |-> "START", job |-> jobs + 1])
  /\ ctl' = "inited" /\ goal' = "run"
  /\ UNCHANGED <<write_enable, write_tid, w_tid_list,
                 video_packet_num, attached, joining, notified, sinceKey,
                 writerVars, dataVars, fileVars>>

\* start_new_job, first half: pthread_create, holding w_tidlist_mutex.
StartCreate(w) ==
  /\ ctl = "inited" /\ pc[w] = "free"
  /\ pc' = [pc EXCEPT ![w] = "check"]
  /\ out' = [out EXCEPT ![w] = 0] /\ msg' = [msg EXCEPT ![w] = NoMessage]
  /\ ctl' = "creating" /\ joining' = w
  /\ UNCHANGED <<muxerVars, goal, attached, notified, sinceKey, hand, private,
                 jobs, dataVars, fileVars>>

\* start_new_job, second half, and the AddHandler every caller does next.
\* The caller forces a key frame.
StartPublish ==
  /\ ctl = "creating"
  /\ write_enable' = TRUE
  /\ write_tid' = joining /\ w_tid_list' = w_tid_list \cup {joining}
  /\ joining' = NoThread
  /\ attached' = TRUE /\ sinceKey' = 0
  /\ ctl' = "running"
  /\ UNCHANGED <<exit_id, packet_list, video_packet_num, msg_queue, goal,
                 notified, writerVars, jobs, dataVars, fileVars>>

\* The camera thread ends the job: RemoveHandler, then stop_current_job.  A
\* muxer with the IMMEDIATE exit id is always deleted after its stop, and a
\* muxer about to be deleted may get that exit id first (set_exit_id).
StopRequest(g) ==
  /\ ctl = "running"
  /\ \/ /\ g = "restart" /\ exit_id # "IMMEDIATE" /\ jobs < MaxJobs
        /\ UNCHANGED exit_id
     \/ g = "delete" /\ exit_id' \in {exit_id} \cup (ExitIds \cap {"IMMEDIATE"})
  /\ goal' = g /\ attached' = FALSE /\ ctl' = "stopping"
  /\ UNCHANGED <<write_enable, write_tid, w_tid_list, packet_list,
                 video_packet_num, msg_queue, joining, notified, sinceKey,
                 writerVars, jobs, dataVars, fileVars>>

\* stop_current_job up to the first unlock: nothing to stop, or go on.
NothingToStop == write_tid = NoThread \/ w_tid_list = {}
StopCheck ==
  /\ ctl = "stopping"
  /\ ctl' = IF NothingToStop THEN "stopped" ELSE "posting"
  /\ UNCHANGED <<muxerVars, goal, attached, joining, notified, sinceKey,
                 writerVars, jobs, dataVars, fileVars>>

\* Under the private mutex the exit message is queued ...
StopPost ==
  /\ ctl = "posting"
  /\ write_tid' = NoThread
  /\ msg_queue' = Append(msg_queue, [id |-> exit_id, job |-> 0])
  /\ notified' = FALSE
  /\ ctl' = "waking"
  /\ UNCHANGED <<exit_id, write_enable, w_tid_list, packet_list,
                 video_packet_num, goal, attached, joining, sinceKey,
                 writerVars, jobs, dataVars, fileVars>>

\* A notify_one on packet_list_cond: the writer that waits, if any, wakes.
WakeWriter == [w \in Writers |-> IF pc[w] = "blocked" THEN "woken" ELSE pc[w]]

\* Mutant of WithEmptyPacket: the writer is woken, and given nothing.
WithNothing(s) == s
WithEmptyPacket(s) == Append(s, empty_packet)

\* ... then the empty packet is pushed to wake the writer, and cond.wait
\* releases the private mutex.  packet_list is dereferenced unchecked.
StopWake ==
  /\ ctl = "waking" /\ packet_list # NoPtr
  /\ packet_list' = WithEmptyPacket(packet_list)
  /\ pc' = WakeWriter
  /\ ctl' = "waiting"
  /\ UNCHANGED <<exit_id, write_enable, write_tid, w_tid_list,
                 video_packet_num, msg_queue, goal, attached, joining,
                 notified, sinceKey, msg, hand, private, out, jobs, dataVars,
                 fileVars>>

\* The writer has read the message and already taken the list away: the push
\* dereferences a null pointer and the program is gone.
StopWakeNull ==
  /\ ctl = "waking" /\ packet_list = NoPtr
  /\ ctl' = "crashed"
  /\ UNCHANGED <<muxerVars, goal, attached, joining, notified, sinceKey,
                 writerVars, jobs, dataVars, fileVars>>

StopReturn ==
  /\ ctl = "waiting" /\ notified
  /\ notified' = FALSE /\ ctl' = "stopped"
  /\ UNCHANGED <<muxerVars, goal, attached, joining, sinceKey, writerVars,
                 jobs, dataVars, fileVars>>

\* ~CameraMuxer: write_enable = false, then sync_jobs_complete.
DeleteBegin ==
  /\ ctl = "stopped" /\ goal = "delete"
  /\ write_enable' = FALSE /\ ctl' = "syncing"
  /\ UNCHANGED <<exit_id, write_tid, w_tid_list, packet_list,
                 video_packet_num, msg_queue, goal, attached, joining,
                 notified, sinceKey, writerVars, jobs, dataVars, fileVars>>

\* sync_jobs_complete reads a thread of the list under the lock, unlocks ...
SyncPick(w) ==
  /\ ctl = "syncing" /\ w \in w_tid_list
  /\ joining' = w /\ ctl' = "joining"
  /\ UNCHANGED <<muxerVars, goal, attached, notified, sinceKey, writerVars,
                 jobs, dataVars, fileVars>>

\* ... and joins it.  A thread that has detached itself meanwhile, or has
\* ended, does not block the join.
SyncJoin ==
  /\ ctl = "joining" /\ pc[joining] = "free"
  /\ joining' = NoThread /\ ctl' = "syncing"
  /\ UNCHANGED <<muxerVars, goal, attached, notified, sinceKey, writerVars,
                 jobs, dataVars, fileVars>>

\* Mutant of Unref: the references are forgotten.
UnrefForgotten(r, s) == r

\* The packets of s release the reference the muxer holds on them.
Unref(r, s) ==
  [n \in DOMAIN r |-> r[n] - Cardinality({i \in DOMAIN s : s[i].n = n})]

\* Mutant of AllJoined: the destructor does not wait for the writers.
AllJoinedSkipped == TRUE
AllJoined == w_tid_list = {}

\* The rest of the destructor: free_packet_list, msg_queue.clear(), and the
\* object is gone.
Destroy ==
  /\ ctl = "syncing" /\ AllJoined
  /\ refs' = IF packet_list = NoPtr THEN refs ELSE Unref(refs, packet_list)
  /\ packet_list' = NoPtr /\ msg_queue' = <<>>
  /\ write_tid' = NoThread /\ video_packet_num' = 0
  /\ ctl' = "none" /\ goal' = "run"
  /\ UNCHANGED <<exit_id, write_enable, w_tid_list, attached, joining,
                 notified, sinceKey, writerVars, jobs, pushed, accepted,
                 dropped, fileVars>>

-----------------------------------------------------------------------------
(* push_packet, called by the dispatcher while the muxer is attached.      *)

\* Mutant of Counted: audio packets are counted too.
CountedAlways(p) == 1
Counted(p) == IF IsVideo(p) THEN 1 ELSE 0

Overflow == video_packet_num > MaxVideo

push_packet(kind) ==
  LET pkt  == [n |-> pushed + 1, kind |-> kind, job |-> jobs]
      lost == IF Overflow THEN Dropped(packet_list) ELSE <<>>
      kept == IF Overflow THEN DropTo(packet_list) ELSE packet_list
  IN /\ attached /\ write_enable /\ packet_list # NoPtr
     /\ pushed < MaxPackets
     /\ pushed' = pushed + 1
     /\ packet_list' = Append(kept, pkt)
     /\ video_packet_num' = video_packet_num - VideoCount(lost) + Counted(pkt)
     /\ refs' = [Unref(refs, lost) EXCEPT ![pkt.n] = 1]
     /\ dropped' = dropped \cup {lost[i] : i \in DOMAIN lost}
     /\ accepted' = [accepted EXCEPT ![jobs] = Append(@, pkt)]
     /\ pc' = WakeWriter
     /\ UNCHANGED <<exit_id, write_enable, write_tid, w_tid_list, msg_queue,
                    ctl, goal, attached, joining, notified, msg, hand, private,
                    out, jobs, fileVars>>

\* The camera thread pushes between two control operations.  sinceKey counts
\* the frames since the last key frame; 0 means a key frame was forced.
PushVideo ==
  /\ ctl = "running"
  /\ \/ push_packet("key") /\ sinceKey' = 1
     \/ sinceKey \in 1..(Gop - 1) /\ push_packet("delta") /\ sinceKey' = sinceKey + 1

\* The audio thread pushes at any moment.
PushAudio == push_packet("audio") /\ UNCHANGED sinceKey

-----------------------------------------------------------------------------
(* muxer_process, the writer thread.                                       *)

Goto(w, label) == pc' = [pc EXCEPT ![w] = label]

\* while (muxer->write_enable).  The creator stores TRUE only after
\* pthread_create has returned: a thread that is faster leaves at once.
Check(w) ==
  /\ pc[w] = "check"
  /\ Goto(w, IF write_enable THEN "getmsg" ELSE "tailer")
  /\ failed' = (failed \/ ~write_enable)
  /\ UNCHANGED <<muxerVars, ctlVars, msg, hand, private, out, jobs, dataVars,
                 file, closedBy>>

\* getMessage and the dispatch on the message id.
GetMessage(w) ==
  /\ pc[w] = "getmsg"
  /\ \/ /\ msg_queue = <<>>
        /\ Goto(w, "pop")
        /\ UNCHANGED <<msg_queue, msg>>
     \/ /\ msg_queue # <<>>
        /\ msg_queue' = Tail(msg_queue)
        /\ msg' = [msg EXCEPT ![w] = Head(msg_queue)]
        /\ Goto(w, CASE Head(msg_queue).id = "START"     -> "init"
                     [] Head(msg_queue).id = "IMMEDIATE" -> "notify"
                     [] OTHER                            -> "take")
  /\ UNCHANGED <<exit_id, write_enable, write_tid, w_tid_list, packet_list,
                 video_packet_num, ctlVars, hand, private, out, jobs,
                 dataVars, fileVars>>

\* muxer_init opens the file of the START message and writes its header.
MuxerInit(w) ==
  /\ pc[w] = "init"
  /\ out' = [out EXCEPT ![w] = msg[w].job]
  /\ msg' = [msg EXCEPT ![w] = NoMessage]
  /\ Goto(w, "pop")
  /\ UNCHANGED <<muxerVars, ctlVars, hand, private, jobs, dataVars, fileVars>>

\* muxer_init fails (no card, no space): no more packets are accepted, and
\* the thread ends without reading its list or its messages.
MuxerInitFails(w) ==
  /\ pc[w] = "init"
  /\ write_enable' = FALSE /\ failed' = TRUE
  /\ Goto(w, "end")
  /\ UNCHANGED <<exit_id, write_tid, w_tid_list, packet_list,
                 video_packet_num, msg_queue, ctlVars, msg, hand, private,
                 out, jobs, dataVars, file, closedBy>>

\* Mutant of AfterTake: FLUSH answers before the packets are written.
AfterTakeAtOnce(id) == "notify"
AfterTake(id) == IF id = "NORMAL" THEN "notify" ELSE "drain"

\* Mutant of TakeList: the thread gets the list and the muxer keeps it.
TakeListKept(w) ==
  /\ pc[w] = "take"
  /\ private' = [private EXCEPT ![w] = packet_list]
  /\ video_packet_num' = 0
  /\ Goto(w, AfterTake(msg[w].id))
  /\ UNCHANGED <<exit_id, write_enable, write_tid, w_tid_list, packet_list,
                 msg_queue, ctlVars, msg, hand, out, jobs, dataVars, fileVars>>

\* set_packet_list(NULL, &packet_list): the thread keeps what is left.
TakeList(w) ==
  /\ pc[w] = "take"
  /\ private' = [private EXCEPT ![w] = packet_list]
  /\ packet_list' = NoPtr /\ video_packet_num' = 0
  /\ Goto(w, AfterTake(msg[w].id))
  /\ UNCHANGED <<exit_id, write_enable, write_tid, w_tid_list, msg_queue,
                 ctlVars, msg, hand, out, jobs, dataVars, fileVars>>

\* NORMAL and IMMEDIATE answer at once; the private mutex is free only when
\* the controlling thread waits.
Notify(w) ==
  /\ pc[w] = "notify" /\ ctl = "waiting"
  /\ notified' = TRUE
  /\ Goto(w, IF msg[w].id = "NORMAL" THEN "drain" ELSE "tailer")
  /\ UNCHANGED <<muxerVars, ctl, goal, attached, joining, sinceKey, msg, hand,
                 private, out, jobs, dataVars, fileVars>>

\* wait_pop_packet, the list is empty: wait on packet_list_cond, once.
Block(w) ==
  /\ pc[w] = "pop" /\ packet_list = <<>>
  /\ Goto(w, "blocked")
  /\ UNCHANGED <<muxerVars, ctlVars, msg, hand, private, out, jobs, dataVars,
                 fileVars>>

AfterPop(p) == IF p = empty_packet THEN "check" ELSE "write"

\* wait_pop_packet: take the front, at once or after having been woken; the
\* empty packet only makes the thread look at its messages again.
Pop(w) ==
  /\ pc[w] \in {"pop", "woken"} /\ packet_list \notin {NoPtr, <<>>}
  /\ LET pkt == Head(packet_list)
     IN /\ packet_list' = Tail(packet_list)
        /\ video_packet_num' = video_packet_num - Counted(pkt)
        /\ hand' = [hand EXCEPT ![w] = pkt]
        /\ Goto(w, AfterPop(pkt))
  /\ UNCHANGED <<exit_id, write_enable, write_tid, w_tid_list, msg_queue,
                 ctlVars, msg, private, out, jobs, dataVars, fileVars>>

\* muxer_write_free_packet: the packet goes to the open file and is released.
WriteFree(w, pkt) ==
  /\ file' = IF out[w] = 0 THEN file
             ELSE [file EXCEPT ![out[w]] = Append(@, pkt)]
  /\ refs' = Unref(refs, <<pkt>>)
  /\ UNCHANGED <<closedBy, failed, pushed, accepted, dropped>>

Write(w) ==
  /\ pc[w] = "write"
  /\ WriteFree(w, hand[w])
  /\ hand' = [hand EXCEPT ![w] = empty_packet]
  /\ Goto(w, "check")
  /\ UNCHANGED <<muxerVars, ctlVars, msg, private, out, jobs>>

\* loop_end: the packets of the private list, one at a time.
Drain(w) ==
  /\ pc[w] = "drain" /\ private[w] # <<>>
  /\ private' = [private EXCEPT ![w] = Tail(@)]
  /\ IF Head(private[w]) = empty_packet
     THEN UNCHANGED <<dataVars, fileVars>>
     ELSE WriteFree(w, Head(private[w]))
  /\ UNCHANGED <<muxerVars, ctlVars, pc, msg, hand, out, jobs>>

\* Mutant of Drained: the file is closed with packets left.
DrainedEarly(w) ==
  /\ pc[w] = "drain"
  /\ Goto(w, "tailer")
  /\ UNCHANGED <<muxerVars, ctlVars, msg, hand, private, out, jobs, dataVars,
                 fileVars>>

Drained(w) ==
  /\ pc[w] = "drain" /\ private[w] = <<>>
  /\ Goto(w, "tailer")
  /\ UNCHANGED <<muxerVars, ctlVars, msg, hand, private, out, jobs, dataVars,
                 fileVars>>

\* muxer_write_tailer closes the file, if one was opened.
Tailer(w) ==
  /\ pc[w] = "tailer"
  /\ closedBy' = IF out[w] = 0 THEN closedBy
                 ELSE [closedBy EXCEPT ![out[w]] = msg[w].id]
  /\ Goto(w, IF msg[w].id = "FLUSH" THEN "flushed" ELSE "end")
  /\ UNCHANGED <<muxerVars, ctlVars, msg, hand, private, out, jobs, dataVars, file,
                 failed>>

\* FLUSH answers after the last packet and the tailer.
NotifyFlushed(w) ==
  /\ pc[w] = "flushed" /\ ctl = "waiting"
  /\ notified' = TRUE
  /\ Goto(w, "end")
  /\ UNCHANGED <<muxerVars, ctl, goal, attached, joining, sinceKey, msg, hand,
                 private, out, jobs, dataVars, fileVars>>

\* Mutant of remove_wtid: the thread stays listed.
remove_wtid_skipped(w) == UNCHANGED w_tid_list
remove_wtid(w) == w_tid_list' = w_tid_list \ {w}

\* thread_end: the last access to the muxer is remove_wtid, which needs
\* w_tidlist_mutex, held throughout start_new_job.
End(w) ==
  /\ pc[w] = "end" /\ ctl # "creating"
  /\ remove_wtid(w)
  /\ Goto(w, "detach")
  /\ UNCHANGED <<exit_id, write_enable, write_tid, packet_list,
                 video_packet_num, msg_queue, ctlVars, msg, hand, private, out,
                 jobs, dataVars, fileVars>>

\* pthread_detach(pthread_self()) and pthread_exit.
Detach(w) ==
  /\ pc[w] = "detach"
  /\ Goto(w, "free")
  /\ UNCHANGED <<muxerVars, ctlVars, msg, hand, private, out, jobs, dataVars,
                 fileVars>>

-----------------------------------------------------------------------------
Control ==
  \/ InitUri \/ StartPublish \/ StopCheck \/ StopPost \/ StopWake
  \/ StopWakeNull \/ StopReturn \/ DeleteBegin \/ SyncJoin \/ Destroy
  \/ \E w \in Writers : StartCreate(w) \/ SyncPick(w)

Writer(w) ==
  /\ ctl # "crashed"
  /\ \/ Check(w) \/ GetMessage(w) \/ MuxerInit(w) \/ MuxerInitFails(w)
     \/ TakeList(w) \/ Notify(w) \/ Block(w) \/ Pop(w) \/ Write(w) \/ Drain(w)
     \/ Drained(w) \/ Tailer(w) \/ NotifyFlushed(w) \/ End(w) \/ Detach(w)

\* Everything was recorded, the program is gone, or stop_current_job waits
\* for a writer that failed: nothing more happens.
Done ==
  /\ \/ ctl = "crashed"
     \/ ctl = "waiting" /\ failed
     \/ ctl = "none" /\ jobs = MaxJobs /\ \A w \in Writers : pc[w] = "free"
  /\ UNCHANGED vars

Next ==
  \/ Control
  \/ \E g \in {"restart", "delete"} : StopRequest(g)
  \/ PushVideo \/ PushAudio
  \/ \E w \in Writers : Writer(w)
  \/ Done

Spec == Init /\ [][Next]_vars

\* Threads are scheduled: the controlling thread finishes an operation it
\* began and each writer goes on.  Nothing obliges anybody to push or stop.
Fairness == WF_vars(Control) /\ \A w \in Writers : WF_vars(Writer(w))
FairSpec == Spec /\ Fairness

-----------------------------------------------------------------------------
(* Properties.                                                             *)

\* video_packet_num, kept by push_packet, wait_pop_packet and
\* set_packet_list in three places, is the number of video packets queued.
VideoCountExact ==
  video_packet_num = IF packet_list = NoPtr THEN 0 ELSE VideoCount(packet_list)

\* The places that hold a reference to packet n.
Places(s, n) == Cardinality({i \in DOMAIN s : s[i].n = n})
Holders(n) ==
  (IF packet_list = NoPtr THEN 0 ELSE Places(packet_list, n))
    + Cardinality({w \in Writers : pc[w] = "write" /\ hand[w].n = n})
    + Cardinality({x \in UNION {{w} \X DOMAIN private[w] : w \in Writers} :
                     private[x[1]][x[2]].n = n})

\* The muxer's references on a packet are the places it is kept in: none is
\* leaked by an overflow, an exit or a deletion, so that the encode buffer
\* behind it becomes writable again, and none is given back twice.
RefsExact == \A n \in 1..MaxPackets : refs[n] = Holders(n)

\* The packets of a list; they are numbered as they are accepted.
PacketsOf(s) == {s[i] : i \in DOMAIN s}
InPushOrder(s) == \A i, k \in DOMAIN s : i < k => s[i].n < s[k].n
\* What is to be written of job j.
Kept(j) == PacketsOf(accepted[j]) \ dropped

\* A file closed by a NORMAL or FLUSH exit holds exactly the packets that
\* were pushed during its job and not dropped, in their order, and nothing of
\* the neighbouring jobs, whose writers may run at the same time; an
\* IMMEDIATE exit may only cut off the end.
ClosedComplete ==
  ~failed => \A j \in 1..MaxJobs : closedBy[j] # "open" =>
    LET written == PacketsOf(file[j])
    IN /\ InPushOrder(file[j]) /\ written \subseteq Kept(j)
       /\ \A p \in Kept(j) \ written :
            closedBy[j] = "IMMEDIATE" /\ \A q \in written : q.n < p.n

\* An overflow drops whole groups of pictures: a delta frame is written only
\* after the frame before it, when a key frame comes often enough: the
\* max_video_num + 1 frames of an overflow, before a delta frame, hold two key
\* frames when 2 * Gop <= max_video_num + 2.
Frames(j) == {p \in PacketsOf(accepted[j]) : IsVideo(p)}
Decodable ==
  ~failed => \A j \in 1..MaxJobs : \A i \in DOMAIN file[j] :
    file[j][i].kind = "delta" => \E k \in 1..(i - 1) :
      /\ file[j][k] \in Frames(j)
      /\ \A m \in (k + 1)..(i - 1) : ~IsVideo(file[j][m])
      /\ \A p \in Frames(j) : ~(file[j][k].n < p.n /\ p.n < file[j][i].n)

\* A writer woken by a push finds a packet: no other step empties the list
\* between the notification and the pop, which does not test again.
NoPopFromEmpty ==
  \A w \in Writers : pc[w] = "woken" => packet_list \notin {NoPtr, <<>>}

\* When the muxer has been deleted no thread still uses it.
NoUseAfterDelete == ctl = "none" => \A w \in Writers : ~Live(w)

\* A list without the empty packet, which is pushed last.
Proper(s) == IF s # <<>> /\ s[Len(s)] = empty_packet THEN SubSeq(s, 1, Len(s) - 1) ELSE s

\* What the threads hold of job j, in the order it will be written: the packet
\* in the hand of its writer, the writer's private list and, of the job that
\* was begun last, the shared list.
Own(w) == (IF pc[w] = "write" THEN <<hand[w]>> ELSE <<>>) \o Proper(private[w])
Shared(j) == IF packet_list = NoPtr \/ j # jobs THEN <<>> ELSE Proper(packet_list)
WritersOf(j) == {w \in Writers : out[w] = j}
Held(j) == (IF WritersOf(j) = {} THEN <<>> ELSE Own(CHOOSE w \in WritersOf(j) : TRUE))
             \o Shared(j)

JobState(j) == CASE closedBy[j] \in {"NORMAL", "FLUSH"} -> "complete"
                 [] closedBy[j] = "IMMEDIATE" -> "cut"
                 [] closedBy[j] = "open" /\ j > jobs -> "new"
                 [] OTHER -> "open"
JobPending(j) == IF closedBy[j] = "IMMEDIATE" THEN <<>> ELSE Held(j)
IsKeyPacket(p) == p.kind = "key"

\* The muxer, its threads, messages and lists implement a recording job: no
\* step does to a file or to what is queued for it what RecordingJob forbids.
Job == INSTANCE RecordingJob WITH
  Jobs <- 1..MaxJobs, Packets <- Packet, IsKey <- IsKeyPacket,
  state <- [j \in 1..MaxJobs |-> JobState(j)],
  current <- IF attached THEN jobs ELSE 0,
  pending <- [j \in 1..MaxJobs |-> JobPending(j)],
  broken <- failed
ImplementsJob == Job!Spec

\* When stop_current_job returns to a muxer configured with FLUSH, the file
\* of the job is complete and closed.
FlushCloses ==
  [][ctl = "waiting" /\ ctl' = "stopped" /\ exit_id = "FLUSH"
       => closedBy[jobs] = "FLUSH"]_vars

\* stop_current_job returns once it waits for a writer that did not fail.
StopReturns == ctl = "waiting" ~> ctl = "stopped" \/ failed

\* A deletion that began ends, after every writer has ended.
DeleteReturns == ctl = "syncing" ~> ctl = "none"

=============================================================================
