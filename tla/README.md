# Verification of cvr-video: recording, streaming, motion and playback

cvr-video is the firmware of a dashboard camera (RV1108). Threads read frames
from the cameras, encode them once, and hand the packets to several muxers: the
recorded file, a cache in memory, a live stream, a motion detector. The user
interface, the SD card, the wifi commands and the sensors start, stop and switch
these muxers while frames keep coming. This directory holds TLA+ models of the
part where that concurrency lives, the TLC configurations that check them, and
proofs that TLAPS checks.

Paths below are relative to `src/`.

## 1. Inventory

| component | state | operations | talks to |
|---|---|---|---|
| `CameraMuxer` (`av_wrapper/encoder_muxing/muxing/camera_muxer.*`) | packet list and its video count, message queue, writer thread ids, `write_enable`, exit id | `init_uri`, `start_new_job`, `push_packet`, `stop_current_job`, `sync_jobs_complete`, destructor, `muxer_process` | camera thread, audio thread (through the dispatcher), one writer thread per file |
| `EncodeHandler` (`encode_handler.*`) | message queue, file / cache / user muxers, two dispatchers, H.264 encoder with a reference count | `send_*`, `sync_*`, `h264_encode_process`, `attach/detach_user_muxer`, destructor | clients (messages and answers), camera thread, muxers |
| video thread and `video_record_*` (`process/video.cpp`, `process/nv12_process.hpp`) | list of cameras under `notelock`; per camera `pthread_run`, `mp4_encoding`, `encode_status` | `startrec`, `stoprec`, `start_cache`, `stop_cache`, `switch`, `savefile`, `attach`, `detach`, `deletevideo`, `deinit` | `EncodeHandler`, user interface, SD card, wifi |
| `MessageQueue` (`av_wrapper/message_queue.h`) | prioritised list, mutex | `Push`, `PopFront`, `Empty`, `PopMessageOfId` | clients and consumers |
| packet dispatcher (`.../packet_dispatcher.*`, `dispatcher.h`) | list of handlers, special muxer | `AddHandler`, `RemoveHandler`, `Dispatch` | video and audio producers, muxers |
| `EncodedPacket` | reference count, buffer | `ref`, `unref` | producers, muxers, encode buffers |
| cache muxer (`.../cache/`) | list of packets, inner muxer | `push_packet`, `StoreCacheData`, `StopCache` | dispatcher, `EncodeHandler` |
| TS muxer, live stream handler (`.../muxing/ts/`, `av_wrapper/handler/scale_encode_ts_handler.*`) | `LiveState`, the muxer, the command thread, a dispatcher with a callback | `StartTransferStream`, `StopTransferStream`, `_commu_routine`, `Process` | RTSP server (a pipe), camera thread, audio encode handler |
| audio encode handler (`av_wrapper/handler/audio_encode_handler.*`) | lists of dispatchers and receivers, capture thread, mute, the recheck flag | `Init`, `Deinit`, `Add...`/`Rm...`, `audio_record` | dispatchers of all cameras, raw receivers |
| motion detection (`av_wrapper/handler/motion_detect_handler.*`, `av_wrapper/motion_detection/`, `example/user.cpp`) | processors, scaling loop, windows of vectors, low rate | attach, detach, `Process`, `Work`, the result callback | camera thread, client, public interface |
| playback (`videoplay.c`) | packet queue with a serial, frame queue, decoder, pause, step, seek and abort flags | `stream_open`, `stream_seek`, `video_refresh`, `videoplay_exit`, `videoplay_deinit` | user interface, decoder, display |
| encode buffers, DPP buffers | free list, used counts | get, put | camera thread, encoder, display |
| thumbnails | — | per frame | dispatcher |
| g-sensor, collision, parking | clients, thread flags | register, start, stop | recording |
| SD card and USB state (`ueventmonitor/`) | mount state | mount, unmount, format | recording, user interface |
| message list manager (`msg_list_manager.*`) | list of callbacks | register, remove, dispatch | modules |
| user interfaces, wifi, GPS, modem, display, settings, thermal | — | — | the public interface |

What is hard in it:

* **Concurrency without a plan.** A muxer is touched by the camera thread, the
  audio thread and its writers under four different mutexes. `notelock` is a
  read-write lock that writers of `encode_status` only read-lock. Two plain
  bools decide when a handler may be deleted.
* **Jobs that overlap.** The writer of a file may still drain its private list
  when the next file has its own writer.
* **Synchronous messages.** A stop waits, on a mutex and a condition on its own
  stack, for an answer of the camera thread, or cancels a start still queued.
* **Failures half way.** An encoder or a job may fail to start after a reference
  was taken or a handler registered.
* **Overflow.** A slow card fills the list; what is dropped must leave a stream
  that decodes and leak no buffer.
* **Threads shared by strangers.** One microphone thread serves every camera and
  every raw receiver; whoever leaves last joins it, under the lock it may want.
* **Callbacks under locks.** A dispatcher that empties calls back under its own
  mutex; a motion processor starts and stops the recording from the loop that
  calls it.
* **Commands from outside.** A server says when to stream, before, during or
  after the transfer that could obey.
* **Seeks.** Frames decoded before a seek are still in three threads' hands after it.
* **Ends.** A stop, a deletion and a camera that is unplugged must all end, and
  nothing may be used after its owner has deleted it.

The correctness properties of each component, in words: a file that is closed
holds what was pushed during its job (muxer); references match users and answers
match waiters (handler); the handler outlives whoever uses it (video); a packet
is released as often as it was taken (dispatcher and packets); a saved cache
holds the packets around the event, each once (cache); a live stream is in the
state of the last command (live stream); a capture thread runs exactly while
somebody listens (audio); a deleted processor is not called, and recording and
rate agree (motion); frames are shown in order, each image is owned once, and the
player comes down whatever it waits for (playback); a buffer is free exactly when nobody uses it (buffers);
a started thread can be stopped (sensors); a card is mounted in at most one place
and leaves every state (SD card). `PROJECT.json` lists the hazards line by line.

## 2. Modules

| module | models | extends |
|---|---|---|
| `PacketLists` | lists of packets and what an overflow drops from them | — |
| `RecordingJob` | abstract: what a muxer promises for the packets of a job | — |
| `CameraMuxer` | the asynchronous muxer, its controller, the producers, the writer threads; implements `RecordingJob` | `PacketLists`, instantiates `RecordingJob` |
| `MCCameraMuxer` | instances | `CameraMuxer` |
| `CameraMuxer_proofs` | who is in charge of a job: no writer outlives its muxer, no pop from an empty list, a flushed file is closed | `CameraMuxer` |
| `CameraMuxerJob_proofs` | the refinement: where the packets of each job are; closed files complete, delta frames decodable; a stop is heard | `CameraMuxer_proofs` |
| `CacheMuxer` | the cache and the file that is saved from it | `PacketLists` |
| `MCCacheMuxer` | instance | `CacheMuxer` |
| `CacheMuxer_proofs` | saved files: no gap, their length, the first key frame | `CacheMuxer` |
| `EncodeHandler` | one camera: clients, camera thread, video thread, handler | — |
| `MCEncodeHandler` | instances: who makes which calls | `EncodeHandler` |
| `EncodeHandler_proofs` | types, the life of the handler, answers, registration, key frames, the reference count, detaches; flags and stops of one recorder | `EncodeHandler` |
| `AudioHandler` | the microphone: its lists, its calls, its capture thread | — |
| `AudioCallers` | the callers that record, cache and listen to raw samples | `AudioHandler` |
| `MCAudioCallers` | instance | `AudioCallers` |
| `AudioCallers_proofs` | a capture thread exactly for listeners | `AudioCallers` |
| `LiveStream` | the live stream of a camera, composed with the microphone | `AudioHandler` |
| `MCLiveStream` | instance | `LiveStream` |
| `LiveStream_proofs` | attached while it runs, obeys the server, gives the microphone back | `LiveStream` |
| `MotionDetection` | client, camera thread and scaling loop of motion detection | — |
| `MotionDetection_proofs` | deleted processors, rate and recording | `MotionDetection` |
| `VideoPlayer` | playback: read, video and play threads, user interface | — |
| `VideoPlayer_proofs` | the frame queue, the stale frame, the images, the order of frames | `VideoPlayer` |

`EncodeHandler` uses a muxer only through what `CameraMuxer` shows of it: a start
may fail, a stop returns, and a deleted muxer has no thread left. That is why the
states of a muxer there are "none", "running" and "idle" (its job failed to
start). `CacheMuxer` uses the muxer of the saved file in the same way.

### CameraMuxer

One action is one critical section or one blocking call.

| actions | code |
|---|---|
| `InitUri`, `StartCreate`, `StartPublish` | `init_uri`, the two halves of `start_new_job` (before and after `pthread_create` returns; `w_tidlist_mutex` is held throughout) |
| `StopRequest`, `StopCheck`, `StopPost`, `StopWake`, `StopWakeNull`, `StopReturn` | `RemoveHandler` in the caller and `stop_current_job`: test, message under the private mutex, empty packet under the list mutex, wait |
| `DeleteBegin`, `SyncPick`, `SyncJoin`, `Destroy` | `sync_jobs_complete` and the destructor |
| `PushVideo`, `PushAudio` | `push_packet` with its overflow loop, called by the camera thread (between its own control operations) and by the audio thread (at any time) |
| `Check` ... `Detach` | `muxer_process`: `getMessage`, `muxer_init`, `set_packet_list`, `wait_pop_packet`, `muxer_write_free_packet`, tailer, `remove_wtid`, `pthread_detach` |

`private[w]` is the list a writer took over, `out[w]` the file it has open (0 for
none). `accepted`, `dropped`, `file` and `closedBy` are history: what was pushed
during a job, what an overflow dropped, and what went into the file and how it was
closed. `refs[n]` counts the muxer's references on packet *n*. `failed` becomes
true when a writer ended on its own: `muxer_init` failed, or the thread was
scheduled before its creator had stored `write_enable`.

`RecordingJob` knows no thread, list or message: a job is new, open, complete or
cut; packets are accepted and pending, then in its file. The refinement maps a
job to `closedBy` and `jobs`, the packets pending for it to what is in its
writer's hand, in that writer's private list (`Own`) and, for the job that was
begun last, in the shared list (`Shared`; together `Held`), each without the
empty packet (`Proper`), and the accepting job to `attached`. Every step of the muxer, taking over the list
included, must then be a step of the job or none; a packet that changes jobs,
falls between two lists, overtakes another or is written after its file was
closed is a step the job does not have. After a writer failed, nothing is
promised (`broken`).

### CacheMuxer

| actions | code |
|---|---|
| `StartCache`, `StopCache` | the messages START_CACHE and STOP_CACHE |
| `Frame`, `AudioPush` | a packet dispatched to the special muxer by the camera thread and by the audio thread: `push_packet`, into the cache, into the file, or the end of the file by time |
| `StoreBegin`, `StoreMove` | `StoreCacheData`, before `mutex_.lock()` and with it held; audio packets come in between |
| `SaveStop` | STOP_SAVE_CACHE: `StopCurrentJobImmediately` |
| `Close` | the answer of the file's writer, for which the camera thread waits |
| `WriterStep` | the writer of the file: opens it or fails, writes, leaves |

Time is counted in frames, which come at the encoder's rate, so that
`cache_duration_` is `Window` frames and `difftime` is a difference of frame
numbers. Packets are numbered in the order of their dispatch: a gap in a file is
a gap in these numbers. `origin`, `file`, `began` and `closed` are history: how
the list of the cache last became empty, and the last file with how it began and
ended. `Stuck` is the camera thread waiting for a writer that
has failed, with `mutex_` and the dispatcher's `list_mutex` locked.

### EncodeHandler

| actions | code |
|---|---|
| `Begin`, `Cancel`, `Send`, `Answered`, `NoFlags`, `ReadFlags`, `WriteFlags`, `Return` | a `video_record_*` call: read lock and test; `remove_message_of_id`; `send_message`; the wait; `encode_status \|=`, as a read and a write; unlock |
| `Deinit`, `Joined` | `video_record_deinit` |
| `CamPeek` ... `CamEnter`, `CamCheck` | `processFrame` up to `h264_encode_process` |
| `CamEmpty`, `CamPop`, `Handle...`, `Notify` | the message of this frame |
| `SkipFrame`, `EncodeFrame`, `RestartFile`, `KeepFile`, `CamLeave`, `CamSignal` | the frame, the next file when the time is over, and the way out |
| `VideoLeave`, `VideoDestroy`, `VideoDelete` | the video thread once `pthread_run` is false |

`StartTwice`, `RestartNoEncoder`, `DetachNoEncoder`, `CamEmptyDeleted` and
`UseAfterDelete` are the places where the code's own assertions fail or freed
memory is used; they set `fault`, and nothing happens after them. So every other
property is checked on the executions that have not gone wrong yet. The faults
are kept reachable on purpose: they are what the code does.

`Calls[c]` says which calls a client makes. `owned[c]` is the set of muxers a
client has attached: it detaches no other. `badAttach` is history: the job of an
attached muxer failed half way. So is `takenBack`: `sync_detach_user_muxer`
removes every ATTACH that is queued, and one of another client's muxer was among
them.

`mp4_encoding` is a plain bool. With `InOrder = FALSE` its store may become
visible late, up to the next unlock of the queue. With `InOrder = TRUE` memory is
sequentially consistent; every other variable is treated so in all runs.

### AudioHandler and AudioCallers

| actions | code |
|---|---|
| `Call`, `LockMtx`, `Return` | a call of `AddPacketDispatcher`, `RmPacketDispatcher`, `AddRawReceiver` or `RmRawReceiver`, up to `mtx_`, and its end |
| `Adding`, `InitRunning` ... `InitSetTid`, `InitFails`, `Insert` | `Init`: nothing to do, the devices, `pthread_create`, then `audio_enable_` and `encode_tid_`, each a step as the new thread already runs; the ways to fail; the entry in the list |
| `Remove`, `RemoveUnknown`, `DeinitStop`, `DeinitJoin`, `DeinitFree` | the removal, and `Deinit` when both lists are empty, with `mtx_` held over the join |
| `GenMute`, `TestStop`, `CaptureSamples`, `CaptureFails`, `ThreadOut` | the loop of `audio_record` and its exits |
| `TryLock`, `Deliver`, `Delivered` | `SendRawData`, `Dispatch`, `DispatchToSpecial`: `try_lock`, one listener at a time, unlock |
| `Choose`, `EncPcmAlways`, `Recheck` | muted or not, the flag, and the look at the special muxers with `mtx_` |
| `MarkSpecial`, `FlagRecheck` | START_CACHE and STOP_CACHE as far as the microphone sees them |
| `SetMute` | `video_record_setaudio` |

`AudioCallers` adds who calls: whoever has added a listener may remove it, and
turns a camera's cache on and off in between. `refused` is history: dispatchers
whose addition failed. `Stuck` is the state in which `Deinit` waits for a thread
that waits for `mtx_` (`SelfLocked`).

### LiveStream

| actions | code |
|---|---|
| `StartTransfer`, `LockStart`, `MakeMuxer`, `MakeExists`, `SetReady`, `OpenPipe`, `StartThread`, `Rewrite`, `SetRun`, `StartAttach`, `Register`, `StartFails`, `StartUndo` | `video_record_start_ts_transfer` and `StartTransferStream`, the START written back after a RERUN included |
| `StopTransfer`, `StopOnError`, `LockStop`, `StopDetach`, `StopCallBack`, `StopJob`, `StopJoin`, `StopDelete` | `stop_ts_transfer`, `Process` after a fatal error, `StopTransferStream` |
| `CommuTest`, `PollNothing`, `ReadCommand`, `CommuSetRunning`, `CommuAttach`, `CommuDetach`, `CommuCallBack`, `CommuPause` | `_commu_routine` |
| `SendCommand`, `MuxerFails` | the server outside, and a muxer whose write fails |

The calls into the microphone are those of `AudioHandler`, with three callers:
the client, the camera thread and the command thread, and they interleave with
its capture thread; `list_mutex` of the dispatcher is held over the callback. One
read of the pipe takes every command that is in it and obeys the first; `missed`
is history of that, and of a RERUN that a stream without a pipe overwrote
(`SetRun`). `wanted` is the last command that was sent.

### MotionDetection

| actions | code |
|---|---|
| `StartDetection`, `StopDetection`, `Detached`, `DeleteProcessor`, `Trigger`, `ClientStarts`, `ClientStops`, `ClientStopped` | `start_motion_detection`, `stop_motion_detection`, `api_start_rec`, `api_stop_rec` |
| `CameraInit`, `NoMessage`, `Handle...`, `Frame` | the camera thread: its message, then `MotionDetectHandler::Process` |
| `LoopTest`, `LoopLock`, `LoopWait`, `LoopWork`, `LoopUnlock` | `ScaleEncodeLoop` |
| `Collect`, `Moves`, `Still`, `SendRate` | `push_mv_data`, `MD_Result_doing`, `calc_time_val` |
| `CallbackStart`, `CallbackRate`, `CallbackRateStop`, `CallbackStop`, `CallbackStopped` | `user_event_callback`, which starts or stops the recording and waits for the camera thread |

A detach that finds its ATTACH still queued takes every queued ATTACH back
(`TakeBack`), and needs no answer.

### VideoPlayer

| actions | code |
|---|---|
| `Open`, `OpenFails`, `Top`, `Seek`, `PutFlush`, `Sought`, `Room` | `read_thread`: opening, one turn of its loop, a seek with its flush packet in three steps, a packet, the end of the file or a read error |
| `Alloc`, `Get`, `Decode`, `DropEarly`, `PeekWritable`, `Write`, `Push`, `AtTheEnd` | `video_thread`: an image for the frame, `packet_queue_get`, the decoder, the frame queue |
| `Loop`, `Refresh`, `Idle`, `DropOutdated`, `NotYet`, `Due`, `DropLate`, `Show`, `Shrink` | `videoplay_thread` and `video_refresh`: the test of the serial, of the time, the display, and `frame_queue_next` in its two halves |
| `KeySeek`, `KeyPause`, `KeyStep`, `Exit` | the keys |
| `Deinit`, `AbortQueue`, `SignalFrameQueue`, `Close` | `videoplay_deinit` and `stream_close`: each join and each signal is a step |

`live` is the set of images that are allocated; an image is where
`frame->data[3]` points. `shown` and `stale` are history: the last frame shown,
and how many were shown after the seek that made them outdated.

## 3. Runs

| run | instance | shows |
|---|---|---|
| `muxer_safety` | 2 writers, 2 jobs, 4 packets, list of 2, all exits (1.6 M states) | the muxer implements `RecordingJob`; files are complete and not mixed up between jobs that overlap; references are exact; nothing used after a deletion |
| `muxer_overflow` | 1 writer, 1 job, 6 packets, list of 2, groups of 2 (0.5 M) | overflows leave what can be decoded; the count is exact; FLUSH closes before it returns; stops and deletions end |
| `cache_save` | cache of 3 frames, groups of 2, 9 frames and 2 audio packets (8.1 M) | saved files have no gap where the cache hands over, begin with a key frame and last as long as configured |
| `handler_record` | two clients, 3 calls each, a user muxer, one failure, cache in memory (4.3 M) | types, key frames, flags, complete stops, answers, life of the handler |
| `handler_muxers` | recording and a user muxer, no cache, `InOrder = FALSE` (0.1 M) | waiting clients are answered, stopped cameras are deleted |
| `handler_starters` | two clients that both start and stop, attach and detach, two user muxers (3.1 M) | references and registration stay right even when the flags do not |
| `audio` | a caller that caches, one that records and listens, one camera, one receiver (0.2 M) | a capture thread exactly for listeners, calls that end, a cache heard while muted |
| `live` | 3 transfers, 2 commands (0.2 M) | the stream runs as told, stops return, the microphone is given back |
| `motion` | 2 processors, windows of 2 frames (18 k) | no call of a deleted processor, rate and recording agree, frames and the client are served |
| `player` | 2 frames, queue of 2, one seek, one key (0.5 M) | images owned once, nothing overwritten while shown, order, at most one outdated frame, the way down and the end |
| `handler_unplug` | violation | see below |
| `live_stop_race` | violation | see below |

Every passing property has a mutant in `PROJECT.json`: a definition changed the
way a bug would, under which the same run fails.

### Where code and its own words disagree

* `handler_unplug`: `deletevideo` stops the recording, not the cache; the
  destructor asserts that both are closed.
* `live_stop_race`: `StopTransferStream` takes the muxer out of the dispatcher
  before it joins the command thread, which may just be carrying out a START and
  put it back; then the muxer is deleted. `~Dispatcher` asserts that nobody is
  left in it.

Also seen. These are in the models, which end there, name the state in a property
that excludes it, or say so in a comment; they have no run of their own.

*Muxer.* `stop_current_job` queues the exit message and only then pushes the
waking packet: a writer between two packets may take the list away first, and the
push dereferences null (`StopWakeNull`). Without the cache in memory the encoder
makes a key frame every `4 * fps` frames and the list holds `2 * fps`: an overflow,
which drops up to the second key frame, then drops everything, and the file goes
on with a delta frame (`Decodable` is about the other build: `gop_size` is `fps`
with `MAIN_APP_CACHE_ENCODEDATA_IN_MEM`, `encode_handler.cpp`:161). `CameraTs`
lets its list hold `rate` frames only (`camera_ts.cpp`:80), so that a live stream
which overflows may go on with a delta frame in either build. A writer that failed
to open its file leaves a `stop_current_job` that still saw it waiting for ever
(`Done`, second disjunct, and `failed` in `StopReturns`). `camera_muxer.h` says of
NORMAL and IMMEDIATE that the list and the tailer are not completed; the code
drains after NORMAL and writes the tailer in all three, which is what
`ClosedComplete` states.

*Handler.* The queue is tested and popped in two critical sections, and a stop
that cancels takes the message in between: `PopFront` asserts (`CamEmptyDeleted`,
`CamPop`). Two clients pass the test of `RECORDING_FLAG` under a read lock, and the
second start fails `assert(!camerafile)` (`StartTwice`). A client may wait for a
camera thread that has ended, holding `notelock` (third disjunct of `Stopped`). A
failed attach leaves the encoder in the muxer, which gives it back again
(`badAttach`).

*Cache.* If the writer of a saved file has written no frame when the list holds
more than twice the cache, one more audio packet overflows it (the exception in
`SavedContiguous`; with frames alone the time is over first). STOP_SAVE_CACHE
forces no key frame, so a file saved soon after may begin with a delta frame (the
exception in `KeyFirst`). The frame that ends a file is neither written nor cached.

*Microphone.* `Deinit` joins under `mtx_` while the thread may wait for it in
`EncPcmAlways` (`SelfLocked`). A dispatcher whose addition failed is added later
without a recheck, and its cache is not heard (`refused`). A thread that fails
before its creator has stored the flags leaves `audio_enable_` true and
`encode_tid_` set, and later listeners get nothing. The packets flushed at the end
are never dispatched: whoever joins has `mtx_`.

*Live stream.* One read of the pipe may take several commands, of which the first
is obeyed. A START written back after a RERUN may come after the server's STOP,
which is then undone. A stream that the server does not command (`wifi_management.c`:583
and 611 use both kinds) sets its state to RUN at its start and NONE at its end, and so
forgets a RERUN that the server's stream has left: the next one of the server waits
in READY for a START that was sent long ago. It takes three transfers; the attempt to
prove `Obeys` found it, after two transfers had passed every check. The callback is kept as a reference to a local variable of
`video_record_start_ts_transfer`. `RemoveHandler` calls back under `list_mutex`
into `mtx_`, which the capture thread takes the other way round (`LockCycle`).
`video_ts_deinit` deletes a handler that may be live, and `g_live_state` is one for
all cameras.

*Motion.* `run_` is set after the thread was created, so that the loop may find it
false and end. The callback waits for the camera thread while it holds the
dispatcher's mutex, and the camera thread wants that mutex to attach or detach
(`CallbackCycle`). A RATE message may be handled after its processor was deleted
(`crashed`). Without time lapse every frame sets the file back to MODE_NORMAL, so
that the only-key mode lasts for a frame. `api_stop_rec` with motion detection on
forces the result "motion", as `api_start_rec` does.

*Playback.* After a read error `eof` stays 0 and the play thread does not end by
itself. It ends when the packet queue is empty, while the last frames may still be
in the frame queue or the decoder; and `eof` is still set between the flush of a
seek and its end, so that a seek back from the end may end the player instead.
Packets that a seek outdated are popped and not freed. `videoplay_exit` reads its
parameter while `videoplay_deinit` frees it.

*Thermal policy* (not modelled). An unreadable alarm file makes the level -1,
and the next one is computed from it (`power/thermal.c`:112, 154); `off_wifi` is
never cleared, so that a wifi the user has switched off comes back at the next
cooling (355).

### Bounds, and why they are enough

* *Two writers, two jobs*: what two jobs share is the list, the message queue and
  the condition variable. A third writer would need a third restart and meets
  the same list; the proofs, that of the refinement included, cover any number.
* *Four packets with a list of two*: an overflow needs `MaxVideo + 1` queued
  frames and one more push; four leave one for either side of a restart. Six with
  groups of two: the overflow drops a whole group with frames left on both sides.
  With groups of two a list of two is as short as `Decodable` allows
  (`2 * Gop = MaxVideo + 2`); with three and three TLC finds a broken file.
* *A cache of three frames, nine frames and two audio packets*: the cache
  overflows at the fifth frame; a file holds up to seven frames, cached ones and
  those of the time after the event; the rest is enough to begin the next file.
  The audio packets fall anywhere, between the two halves of `StoreCacheData` too.
  The proofs cover any numbers; a cache has to have room for two groups.
* *Two or three calls per client*: start, stop, and start or cache again. The
  camera's loop itself is not bounded.
* *One failure*: the recovery paths are each taken after a failure-free prefix.
  Two failures in a row repeat the idle state the first one leaves.
* *Two callers, a camera and a receiver* share the microphone: the first and the
  last of either kind, and a failure at any step, happen. Nothing is bounded.
* *Three transfers and two commands*: a command before, during and after a
  transfer, a second transfer that meets the state the first one left (RERUN), and
  a third that meets what the second made of it. The proofs cover any number.
* *Two processors, windows of two*: a processor and the one made after its
  deletion; a window that is half full when its processor leaves. The proofs cover
  any number and size.
* *Two frames, a queue of two, one seek, one key*: the queue's slots are all in
  use when one frame is kept, one waits and one is decoded; a seek falls at every
  point between two frames, with frames before and after it. The proofs
  cover any sizes, any length of the file and any number of seeks.
* `MaxPackets`, `MaxJobs`, `MaxCalls`, `MaxFails`, `MaxStarts`, `MaxCommands`,
  `MaxProcessors`, `MaxSeeks` and `MaxKeys` bound the environment only.

`CHECK_DEADLOCK` is on everywhere: the states in which the system really stops
are listed in `Done`, `Stopped`, `Stuck`, `AtBounds` and `Closed`, and, with
`LockCycle`, `CallbackCycle` and `crashed`, in the `Next` of their modules.

### Fairness

* `WF(Control)`, `WF(Writer(w))`: threads are scheduled. Control operations once
  begun go on; nothing obliges anyone to push, to stop or to begin (`StopRequest`,
  the pushes and `Begin` from idle are not fair). The mutexes that are held over
  an action are held for a bounded time, so weak fairness is enough.
* `WF(Camera)`: frames arrive while the camera runs; `processFrame` is called for
  each. A camera that was stopped gets no frame, and the properties say so.
* `WF(Video)`, `WF(GoOn(c))`: the video thread waits with timeouts and a call
  goes on. `VideoDelete` needs the write lock: in the model it is weakly fair and
  not strongly, and calls are bounded, so no starvation of writers is assumed
  away.
* `audio`: weak fairness of each call and of the capture thread; `SF(Recheck)`,
  since the thread blocks on a mutex that is free again and again. `try_lock` is
  given no fairness: it may lose every time.
* `live`: weak fairness of the client, of the camera thread's stop and of the
  command thread; `SF(InCall)` for a caller of the microphone, which waits for a
  mutex the capture thread does not hold while it samples. The server, errors and
  new transfers are not fair.
* `motion`: weak fairness of a client inside a call, of the camera thread (frames
  keep coming) and of the loop. Starting and stopping are not fair.
* `player`: weak fairness of the three threads and of the way down once begun;
  `SF(Due)`: a frame whose time is tested again and again is due at some time. No
  key is fair.

## 4. Proofs

All are checked by TLAPS, for all values of the constants that satisfy the
assumptions of the module. The assumptions say that the sizes are positive, that
model values which stand for different things differ, and that the cache has room
for two groups of pictures (in the code it has room for five, of one second each).
Three hypotheses are stated in the theorems themselves, since the models are also
run without them:

* `InOrder` (`InUseSafe`): two plain stores are seen in program order.
* `OneRecorder` (`FlagsCorrect`, `StopsCorrect`, `NeverStartedTwice`): all calls that
  set or clear a flag of `encode_status` come from one client; others attach and
  detach user muxers as they like. In the program such calls are made by the user
  interface (`ui/cvr/camera_ui.c`:849, 2307) and by the telephone's menu commands
  (`wifi_management.c`:712, `menu_commond.c`:434), without a lock between the two: it
  holds while only one of them records. It is needed: with the two recorders of
  `handler_starters` TLC violates all three.
* `KeysOften` (`DecodableCorrect`): `2 * Gop <= MaxVideo + 2`. The file muxers have
  `max_video_num = 2 * rate` and, with the cache in memory, a group is `rate` frames;
  section 2 says where it does not hold.

TLC checked the larger invariants on small instances before they were proved.

**The muxer.** Most of these invariants build on the ones before.

* `DeleteInv`: every live writer is in `w_tid_list`, or is the one being created
  (`LiveListed`, which needs that `End` and `start_new_job` exclude each other),
  and a muxer in state "none" has an empty list (`NoneListed`, from `AllJoined` in
  `Destroy`). It gives `MuxerOutlivesWriters` (`Spec => []NoUseAfterDelete`).
* `ControlInv` adds `ChargeInv`: at most one writer is in charge (`Current`: it
  reads the shared list, or has yet to answer its stop); none is when the stop has
  been answered; the exit message is the last one queued and is that of `exit_id`;
  and the list is there while anybody uses it. So between the notification that
  wakes a writer and its pop nobody else can pop: `PopCorrect`
  (`Spec => []NoPopFromEmpty`). It holds after failed starts too.
* `StartInv` follows the START messages: they are queued in the order of their
  jobs, a job's START is obeyed once and by one writer (`OneOut`, `OutOnce`), and
  the writer in charge has opened the file of the last job or will (`JobStarts`).
  With `FlushedClosed` it gives `FlushCorrect` (`Spec => FlushCloses`): an answer
  to FLUSH comes from the writer of the last job, behind its tailer.
* `CountCorrect` (`Spec => []VideoCountExact`). The counter is inductive with
  `ControlInv`; what it rests on is that the count of two lists put behind each
  other is the sum (`VideoConcat`, from `CountSplit`), and that an overflow cuts the
  list in two (`DropSplits`).
* `RefsCorrect` (`Spec => []RefsExact`). `RefsInv` says that a packet is in one
  place at a time: twice in no list (`OnceEach`), not in the hands of two threads
  nor in the shared list and with a thread (`Apart`), and that there is one reference
  on it exactly then (`RefsMatch`). Steps move packets (`MoveHeld`) or give them back
  (`ReleaseHeld`, with `UnrefIs`). Both theorems hold after failed starts too.
* `JobInv`, which holds until a writer fails, says where packets can be: a job
  begins with an empty list and an unused file (`FreshList`, `Future`); only a
  writer that drains has a private list (`PrivateHeld`); whoever stopped reading
  by NORMAL or FLUSH has taken the shared list away (`ListTaken`), and what an
  IMMEDIATE exit left in it is gone with the object before any other job begins
  (`ListLeft`, `RestartExit`); the empty packet is the last of its list
  (`SharedEmpty`, `PrivateEmpty`).
* `JobRefinement` (`Spec => ImplementsJob`): under `MuxerInv`, the conjunction of
  these, each action is a step of `RecordingJob` or none. One lemma per kind of
  step: `RefineInit`, `RefinePublish` and `RefineStop` open, accept and stop
  accepting; `RefinePush` is `Accept`, with what an overflow leaves found as the
  end of the shared list from a key frame on (`DropParts`, `AcceptKeeps`);
  `RefineWriter` writes, completes or cuts. Taking the list over, popping and
  creating a writer move packets from one place to another: `OwnMoves` shows that
  hand, private list and shared list together stay the same.
* `ClosedCorrect` (`Spec => []ClosedComplete`), from the refinement: `FilesInv` says
  that the file of a job and what is pending for it, put behind each other, are what
  was accepted and not dropped, in order (`AllThere`; after an IMMEDIATE exit the
  front of it), and that a closed job has nothing pending (`ClosedEmpty`). Each step
  is then one of `RecordingJob`'s (`RefineMoves`), and only `Accept` and the cut of an
  IMMEDIATE exit change the whole.
* `DecodableCorrect` (`KeysOften => (Spec => []Decodable)`). `FramesInv`: each delta
  frame that is kept, written or not, has the frame before it (`Linked`), and in the
  shared list the next key frame is never more than a group away, counting the frames
  the encoder has made since its last (`Spaced`). So when the list overflows before a
  delta frame it holds two key frames (`SecondKey`), and what is dropped ends before
  one of them; `VideoCountExact` is what ties `video_packet_num` to the list.
* `StopIsHeard` and `StopAdvance`: what `StopReturns` says without fairness.
  `stop_current_job` and the writer wait for each other on two condition variables,
  neither with a predicate. `WakeInv`: from the moment the exit message is queued it
  is the last one, and while the answer is awaited a writer that may pop before it
  looks for messages has the empty packet before it (`MayPop`). So the writer in charge
  is not asleep and does not find its list or its messages empty (`StopHeard`), and
  each of its steps lowers `Left(w)`, which nobody else changes. `DeleteIsHeard`: who is
  joined only drains, closes and removes itself. What is left for TLC is that a
  thread which can go on does.

**The cache.** `CacheInv` is about three lists, of which the frames are runs of
times that follow each other: the file that is written has the frames from `a` to
`c - 1`, its muxer's list those from `c` to `b`, the cache's list those from its own
`a` to `now` (`Spans`). With the frames go the key frames: one in any `Gop`
(`Paced`), and the last one is still there (`KeepsKey`); and the packet numbers,
those of audio packets included, without a gap (`Run`).

* What the code does with a list is proved once: `PushKeeps` and `PushDrops` say
  what a push leaves, by `DropGroup`: an overflow drops up to a key frame, which is
  at most two groups, and only one if the list began with a key frame. `MovedIsList`:
  what `StoreCacheData` moves is the list; `HeadMoves`: what the writer takes.
* `ContiguousCorrect` (`Spec => []SavedContiguous`). The packet behind the last one
  of the file is the first one of its muxer's list, unless that list has overflowed,
  which can only happen while no frame is written (`Parts`).
* `LengthCorrect` (`Spec => []SavedLength`). The muxer's list, twice as long as the
  cache, drops nothing from after the event: when it overflows it begins with the
  first cached frame, and the dropped groups end by the time of the event.
  Here a proof that failed corrected the model: a cache that was emptied by
  STOP_SAVE_CACHE may begin between two key frames, so that two groups are dropped;
  without the assumption `2 * Gop <= Window + 1` TLC finds such a file that is too
  short (`Window` and `Gop` both 3). The code is far from that bound.
* `KeyFirstCorrect` (`Spec => []KeyFirst`). While the list is empty a key frame is
  pending (`idr`), unless STOP_SAVE_CACHE emptied it; an overflow leaves a list that
  begins with a key frame.

**The handler.**

* `TypeCorrect` (`Spec => []TypeOK`). `TypeInv` adds `Sendable`: what a client is
  about to send is a call that has a message. `h264_ref` stays natural because
  `ENCODER_UNREF` does nothing without an encoder.
* `InUseSafe` (`Spec => []HandlerInUse`, assuming `InOrder`). `HandlerInUse` alone
  does not say why the video thread waits. `InUseInv` adds that a camera the
  video thread has left was stopped for good (`StoppedForGood`: no step sets
  `pthread_run` again), and that `mp4_encoding` is true from before the camera
  thread's test of `pthread_run` until it leaves (`FlagCovers`). So a handler
  can be deleted only while the camera thread is outside, and who enters later
  fails the test. Without `InOrder` `FlagCovers` does not hold: it is the one
  place where the code relies on the order of two plain accesses.
* `AnswersCorrect` (`Spec => []AnswersWaiter`). `AnswerInv` adds that the message
  under work has a sender of its own who waits, and that a client with an answer
  still waits; that `PopFront` and `PopMessageOfId` leave the senders of the rest
  alone is a lemma on the two.
* `RegisteredCorrect` and `KeyCorrect` (`Registered`, `BeginsWithKey`). They need
  `IdleIsOver`: a job that failed to start again leaves its muxer idle, and the
  camera then leaves the frame and stops for good.
* `RefcountCorrect` and `DetachCorrect` (`RefcountExact`, `DetachComplete`). The
  count is right only if each muxer that has a reference is in the dispatcher
  once, which depends on what clients may do: `DetachInv` says whose each muxer is
  (`Owners`), that a message is what its sender's call sends (`Senders`), that a
  muxer being attached is in one place (`OnePlace`: queue, message under work or
  dispatcher) and where it is not during a detach (`Detached`). `AttachInv` has the
  lower bounds: what is owned is somewhere. `CountInv` is then about the count.
  The first are lost when a detach takes another's attach back (`takenBack`), the
  second also when an attached job fails (`badAttach`), and the property says so.
* `FlagsCorrect`, `StopsCorrect`, `NeverStartedTwice` (`FlagsMatch`, `StopComplete`, and
  `[][~StartTwice]_vars`, assuming `OneRecorder`). `RecorderInv` says, for the file and
  for the cache: there is at most one start or one muxer (`OneStart`), a clear flag
  means that there is nothing and a set one that there is something, while the camera
  runs (`FlagSays`), and for each place the recorder can be at in a start or a stop
  what has been queued, obeyed or answered so far (`Starting`, `Stopping`). The copy
  of `encode_status` that the recorder modifies is then the current one (`Alone`).
  `AliveInv` is about the end: who still uses a handler, and that a deleted one has
  neither messages nor, unless its destructor found them, muxers.

**The microphone.**

* `CaptureCorrect` (`Spec => []CaptureWhileListed` of `AudioCallers`, any callers,
  cameras and receivers, any failures of `Init`). The property speaks only of a
  free `mtx_`; `CaptureInv` adds that a call in the middle of a change holds
  `mtx_` (`Exclusive`) and, for each place it can be at, what it has made so far
  of thread, devices and lists (`CallInv`). `LockStep` and `RemoveStep` are where
  the two lists matter: `Init` is entered when one of them is empty, and must
  find the thread that the other one has; `Deinit` is entered only when both are.

**The live stream**, composed with the microphone's calls.

* `AttachedCorrect` (`Spec => []AttachedIfRunning`). `LiveInv` follows the muxer
  through its life: none, prepared by the client, serving, ending; in each what
  `live_state`, the pipe, the command thread and the dispatcher are. `mtx_` lets
  one caller at a time prepare or end (`Locked`), and the command thread is the
  third party.
* `ObeysCorrect` (`Spec => []Obeys`). `ObeyInv` adds that without a stream a
  wanted START is remembered as RERUN (`Marked`) and that a running command thread
  does what was last read (`Followed`). The proof failed at first, on a fault of
  the model's history and of the code (section 3, *Live stream*): `missed` now
  records a RERUN that is overwritten.
* `MicCorrect` (`Spec => []NoAudioAfterStop`). `MicInv`: only the client adds the
  stream to the microphone (`OnlyClientAdds`), and every way out of a transfer has
  the removal behind it or under way (`GivenBack`).

**Motion detection.**

* `HandlersCorrect` (`Spec => []HandlersLive`). `HandlerInv`: an ATTACH in the
  queue is there once and is of the processor the client has, a DETACH is there
  once and the client waits for it, and an answered one has emptied the
  dispatcher; the loop calls back with `list_mutex` held.
* `RecordCorrect` (`Spec => []RecordFollows`). `RecordInv`: START and STOP in the
  queue are what the file does not know yet, each at most once, and while the
  recording goes on a NORMAL stands behind every LOW of the processor.

**The player.**

* `RingCorrect` (`Spec => []NotOverwritten`, any `QueueSize`).
  Nothing in the property says why the indices differ. `RingInv` adds that
  `windex` is `size` slots after `rindex` round the ring, that at most
  `QueueSize` slots are in use and fewer while the video thread writes, and what
  `rindex_shown` and `size` are while the play thread judges a frame.
* `StaleCorrect` (`Spec => []AtMostOneStale`). `StaleInv` adds that while an
  outdated frame is about to be shown none has been since the seek; it needs the
  ring (the slot that is shown is not the one written), that nothing is queued
  before the file is open, and that the play thread has left before the player
  is taken down.
* `ImagesCorrect` (`Spec => []ImagesOnce`). `ImageInv` adds that only the slots
  between `rindex_shown` and the last frame pushed hold an image (`OnlyWaiting`),
  which is how one that was shown or dropped is not freed again, and that the
  video thread holds none where it waits or leaves.
* `OrderCorrect` (`Spec => ShownInOrder`). `OrderInv` orders what is on its way:
  packets, the picture under work, the slots that wait, the last frame shown, each
  later than the next, and all of them behind the read position of their serial.

**Only model-checked.** Liveness, the eleven checks of it: it needs fairness, and
ENABLED is outside the prover. These are `StopReturns` (of the muxer, the live stream
and motion detection), `DeleteReturns`, `StopAnswered`, `StoppedIsDeleted`, `CacheHeard`,
`LockReleased`, `ScaledServed`, `DeinitReturns` and `PlaysToEnd`. Every safety property of
a passing run is a theorem.

## 5. Not modelled

* In `CameraMuxer`: the synchronous mode (`no_async`: the custom muxer, and the file
  muxer with a single encode buffer, `encode_handler.cpp`:719), allocation and
  `pthread_create` failures, libav calls and time stamps.
* In `EncodeHandler`: allocation failures; motion processors and the rate change
  (they are in `MotionDetection`); changes of bit rate and resolution; time lapse; cameras that deliver H.264; the camera's
  own microphone and its thread; `START_ENCODE`, `STOP_ENCODE` and `GEN_IDR`
  (used by the live stream and the photo path); the second, scaled handler; the
  list of several cameras.
* In `CacheMuxer`: the thumbnail flag, an irregular frame rate, failed
  allocations, and `is_cache_writing`, with which `video_record_savefile` looks at
  the cache from a client's thread.
* In `AudioHandler`: samples, their encoding and time stamps. In `EncodeHandler`'s
  own microphone thread the same pattern occurs (flags set after the thread was
  created, `encode_handler.cpp`:497), without a list of listeners.
* In `LiveStream`: scaling and encoding, what the pipes do when full, several
  cameras behind one `g_live_state`, `video_ts_deinit` while live.
* In `MotionDetection`: the judgement of the vectors and elapsed time (choices),
  concurrent calls of start and stop, which the code does not expect.
* In `VideoPlayer`: the audio stream and the clocks (whether a frame is due or
  late is a choice), frames the decoder holds back, redisplay, the information
  dialogue, and `decoder_demuxing.cpp`, a sequential wrapper around libav.
* Encode and DPP buffers: `get_writeable_edb` waits a second and then drops the
  frame, and the camera thread marks a buffer as read without the lock; a flag per
  buffer, with no more than that to go wrong. Who holds a DPP buffer is decided by libdpp, which is not in the repository.
* Sensors, card, message list, thermal policy: their threads share plain flags or
  an unlocked list, or are one sequential loop around shell commands and sysfs
  files. What can go wrong there is a data race or a single call, not a protocol;
  `collision.c`:84 clears its exit flag when the thread starts, so that a stop
  before that is lost; a failed format leaves the card in ERR, and the next
  insertion is ignored (`usb_sd_ctrl.c`:242-262).
* Message priorities: a muxer's START has a higher one than its exits, but is
  always queued first, and `EncodeHandler` uses one; queues are first in, first
  out.
* Spurious wakeups of condition variables: `wait_pop_packet` and
  `stop_current_job` wait without a predicate, and the model wakes them only by
  the notifications the code makes.
* Everything listed as `not_modelled` in `PROJECT.json`: device and network I/O,
  vendor libraries, user interfaces, settings. By lines this is most of the
repository (windows, the UVC gadget, wifi and modem commands, drivers' tables):
code that is sequential or whose behaviour is a device's.

## 6. Plan

Done, in this order: the muxer and the handler, since everything recorded goes
through them; the cache; the microphone that all cameras share; the live stream,
composed with it; motion detection; playback; the abstract recording job with
the muxer that implements it; and proofs of every safety property
that the runs check, of the muxer, the cache, the handler, the microphone, the live
stream, motion detection and the player. What is left, if the
project goes on:

1. Several cameras: one `g_live_state`, the list under `notelock`, and the second,
   scaled handler.
