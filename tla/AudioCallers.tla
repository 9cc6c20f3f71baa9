---------------------------- MODULE AudioCallers ----------------------------
(***************************************************************************)
(* AudioHandler with the callers that record and cache (process/video.cpp) *)
(* or listen to raw samples (av_wrapper/audio/pcm_receiver.cpp): whoever   *)
(* added a listener may remove it, and a caller turns a cache on and off   *)
(* while it has added the camera's dispatcher.                             *)
(***************************************************************************)
EXTENDS AudioHandler

CONSTANTS
  Adds,    \* the listeners each caller adds
  Caches   \* the dispatchers whose cache it turns on

ASSUME CallersAssumption ==
  /\ Adds \in [Callers -> SUBSET Listeners]
  /\ Caches \in [Callers -> SUBSET Dispatchers]

VARIABLES
  has, caching,  \* of each caller: what it has added, whose cache it has on
  refused        \* history: dispatchers whose addition once failed
userVars == <<has, caching, refused>>
vars == <<audioVars, userVars>>

Init ==
  /\ AudioInit
  /\ has = [c \in Callers |-> {}] /\ caching = [c \in Callers |-> {}]
  /\ refused = {}

BeginAdd(c, x) ==
  /\ x \in Adds[c] \ has[c] /\ Call(c, "add", x)
  /\ has' = [has EXCEPT ![c] = @ \cup {x}] /\ UNCHANGED <<caching, refused>>

BeginRemove(c, x) ==
  /\ x \in has[c] \ caching[c] /\ Call(c, "rm", x)
  /\ has' = [has EXCEPT ![c] = @ \ {x}] /\ UNCHANGED <<caching, refused>>

BeginCache(c, d) ==
  /\ d \in has[c] \cap Caches[c] /\ \A b \in Callers : d \notin caching[b]
  /\ Call(c, "mark", d)
  /\ caching' = [caching EXCEPT ![c] = @ \cup {d}] /\ UNCHANGED <<has, refused>>

EndCache(c, d) ==
  /\ d \in caching[c] /\ Call(c, "unmark", d)
  /\ caching' = [caching EXCEPT ![c] = @ \ {d}] /\ UNCHANGED <<has, refused>>

Begin(c) ==
  \/ \E x \in Listeners : BeginAdd(c, x) \/ BeginRemove(c, x)
  \/ \E d \in Dispatchers : BeginCache(c, d) \/ EndCache(c, d)

GoOn(c) ==
  /\ CallStep(c) \/ MarkSpecial(c) \/ FlagRecheck(c)
  /\ refused' = refused \cup (IF InitFails(c) THEN {arg[c]} \cap Dispatchers ELSE {})
  /\ UNCHANGED <<has, caching>>

Stuck == SelfLocked /\ UNCHANGED vars

Next ==
  \/ \E c \in Callers : Begin(c) \/ GoOn(c)
  \/ CaptureStep /\ UNCHANGED userVars
  \/ CaptureFails /\ UNCHANGED userVars
  \/ SetMute /\ UNCHANGED userVars
  \/ Stuck

Spec == Init /\ [][Next]_vars

\* Threads are scheduled, and the capture thread, whose try_lock may always
\* lose, gets the lock it waits for if it is free again and again.
Fairness ==
  /\ \A c \in Callers : WF_vars(GoOn(c))
  /\ WF_vars(CaptureStep /\ UNCHANGED userVars)
  /\ SF_vars(Recheck /\ UNCHANGED userVars)
FairSpec == Spec /\ Fairness

-----------------------------------------------------------------------------
(* Properties.                                                             *)

\* A caller that has mtx_ gives it back, unless the thread it joins waits for
\* the same lock (SelfLocked).
LockReleased ==
  \A c \in Callers : mtx = c ~> mtx # c \/ SelfLocked

\* audio_encode_handler.h: "For collision, encode pcm from microphone always":
\* as long as a camera that caches is listed and the sound stays muted, the
\* capture thread comes to know of the cache, in whatever order the messages,
\* the flag and the list change.  (A dispatcher that could not be added when
\* its cache began and is added later is not noticed: nothing sets the flag.)
CacheHeard ==
  \A d \in Dispatchers :
    d \in special \cap unique_dispatcher_list /\ CacheInMem
      ~> \/ enc_pcm_always \/ d \notin special \cap unique_dispatcher_list
         \/ ~mute \/ ~Running \/ SelfLocked \/ d \in refused
=============================================================================
