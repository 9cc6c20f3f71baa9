------------------------ MODULE AudioCallers_proofs ------------------------
(***************************************************************************)
(* The capture thread of the microphone exists exactly while somebody      *)
(* listens, for any callers, cameras and receivers: Init and Deinit of     *)
(* AudioEncodeHandler change the thread, its devices and the lists in      *)
(* several steps, and all of them lie under mtx_.                          *)
(***************************************************************************)
EXTENDS AudioCallers, TLAPS

\* The places of a call that holds mtx_.
Unchanged == {"adding", "removing", "init"}
Starting == {"create", "enable", "settid"}
Locked == Unchanged \cup Starting \cup {"insert", "deinit", "join", "free"}
\* The places of a call about a listener.
OnListener == Locked \cup {"add", "rm"}
Places == OnListener \cup {"idle", "mark", "unmark", "flag"}

ListenersTyped == listed \in [Listeners -> Nat]
FlagsTyped == encode_tid \in BOOLEAN /\ audio_encoder \in BOOLEAN /\ audio_capture \in BOOLEAN
CallsTyped ==
  /\ call \in [Callers -> Places]
  /\ arg \in [Callers -> Listeners \cup {Nobody}]
  /\ \A c \in Callers : call[c] \in OnListener => arg[c] \in Listeners

Devices(there) == audio_encoder = there /\ audio_capture = there
Steady == encode_tid = ~NoneListed(Listeners) /\ Devices(encode_tid)

\* What a call under mtx_ has made of thread, devices and lists at each place.
CallInv(place) ==
  /\ place \in Unchanged => Steady
  /\ place \in Starting => ~encode_tid /\ NoneListed(Listeners) /\ Devices(TRUE)
  /\ place = "insert" => encode_tid /\ Devices(TRUE)
  /\ place = "deinit" => NoneListed(Listeners) /\ Devices(encode_tid)
  /\ place = "join" => NoneListed(Listeners) /\ encode_tid
  /\ place = "free" => NoneListed(Listeners) /\ ~encode_tid

\* The strengthening: at most the holder of mtx_ is in the middle of a change,
\* and how far it is tells what it has changed.
Exclusive == \A c \in Callers : call[c] \in Locked => mtx = c
Progress == \A c \in Callers : CallInv(call[c])
SteadyUnlocked == mtx \in {Capture, Nobody} => Steady
TypeInv == ListenersTyped /\ FlagsTyped /\ CallsTyped
CaptureInv == TypeInv /\ Exclusive /\ Progress /\ SteadyUnlocked

-----------------------------------------------------------------------------
LEMMA InitCapture == Init => CaptureInv
<1> SUFFICES ASSUME Init PROVE CaptureInv
  OBVIOUS
<1>1. AudioInit
  BY DEF Init
<1>2. /\ listed = [x \in Listeners |-> 0]
      /\ encode_tid = FALSE /\ audio_encoder = FALSE /\ audio_capture = FALSE
      /\ call = [c \in Callers |-> "idle"] /\ arg = [c \in Callers |-> Nobody]
  BY <1>1, Zenon DEF AudioInit
<1>3. \A c \in Callers : call[c] = "idle"
  BY <1>2
<1>4. CallsTyped
  <2>1. "idle" \notin OnListener
    BY DEF OnListener, Locked, Unchanged, Starting
  <2>2. call \in [Callers -> Places] /\ arg \in [Callers -> Listeners \cup {Nobody}]
    BY <1>2 DEF Places
  <2> QED BY <1>3, <2>1, <2>2 DEF CallsTyped
<1>5. TypeInv
  BY <1>2, <1>4 DEF TypeInv, ListenersTyped, FlagsTyped
<1>6. Steady
  BY <1>2 DEF Steady, Devices, NoneListed
<1> QED BY <1>3, <1>5, <1>6 DEF CaptureInv, Exclusive, Progress, CallInv, SteadyUnlocked,
                               Locked, Unchanged, Starting

\* A step that leaves lists, thread id and devices alone, and of the callers
\* moves at most one, outside mtx_, keeps the invariant.
LEMMA Outside ==
  ASSUME CaptureInv, NEW c \in Callers, NEW place \in Places \ Locked,
         NEW x \in Listeners \cup {Nobody}, place \in OnListener => x \in Listeners,
         call[c] \notin Locked,
         UNCHANGED <<mtx, listed, encode_tid, deviceVars>>,
         call' = [call EXCEPT ![c] = place], arg' = [arg EXCEPT ![c] = x]
  PROVE  CaptureInv'
<1> USE DEF CaptureInv, TypeInv, deviceVars
<1>1. TypeInv'
  BY DEF ListenersTyped, FlagsTyped, CallsTyped
<1>2. Exclusive'
  BY DEF Exclusive, CallsTyped
<1>3. \A b \in Callers : call'[b] = call[b] \/ call'[b] \notin Locked
  BY DEF CallsTyped
<1>4. Progress'
  BY <1>3, SMT DEF Progress, CallInv, Steady, Devices, NoneListed, Locked
<1>5. SteadyUnlocked'
  BY DEF SteadyUnlocked, Steady, Devices, NoneListed
<1> QED BY <1>1, <1>2, <1>4, <1>5

\* A call begins, or the messages about the cache are handled.
LEMMA BeginStep == ASSUME CaptureInv, NEW c \in Callers, Begin(c) PROVE CaptureInv'
<1>1. PICK place \in {"add", "rm", "mark", "unmark"}, x \in Listeners : Call(c, place, x)
  <2>1. Dispatchers \subseteq Listeners
    BY DEF Listeners
  <2>2. ASSUME NEW x \in Listeners, BeginAdd(c, x) \/ BeginRemove(c, x)
        PROVE  Call(c, "add", x) \/ Call(c, "rm", x)
    BY <2>2, Zenon DEF BeginAdd, BeginRemove
  <2>3. ASSUME NEW x \in Dispatchers, BeginCache(c, x) \/ EndCache(c, x)
        PROVE  Call(c, "mark", x) \/ Call(c, "unmark", x)
    BY <2>3, Zenon DEF BeginCache, EndCache
  <2> QED BY <2>1, <2>2, <2>3, Zenon DEF Begin
<1>2. place \notin Locked /\ place \in Places
  BY DEF Places, OnListener, Locked, Unchanged, Starting
<1>3. call[c] \notin Locked
  BY <1>1 DEF Call, Locked, Unchanged, Starting
<1> QED BY <1>1, <1>2, <1>3, Outside DEF Call, CallGoto, listVars, threadVars

LEMMA CacheStep ==
  ASSUME CaptureInv, NEW c \in Callers, MarkSpecial(c) \/ FlagRecheck(c)
  PROVE  CaptureInv'
<1>1. call[c] \notin Locked
  BY DEF MarkSpecial, FlagRecheck, Locked, Unchanged, Starting
<1>2. {"flag", "idle"} \cap OnListener = {}
  BY DEF OnListener, Locked, Unchanged, Starting
<1>3. {"flag", "idle"} \subseteq Places \ Locked
  BY <1>2 DEF Places, OnListener
<1>4. arg[c] \in Listeners \cup {Nobody} /\ arg = [arg EXCEPT ![c] = arg[c]]
  BY DEF CaptureInv, TypeInv, CallsTyped
<1>5. CASE MarkSpecial(c)
  <2>1. call' = [call EXCEPT ![c] = "flag"] /\ arg' = [arg EXCEPT ![c] = arg[c]]
    BY <1>4, <1>5 DEF MarkSpecial, CallGoto
  <2>2. UNCHANGED <<mtx, listed, encode_tid, deviceVars>>
    BY <1>5 DEF MarkSpecial, listVars, threadVars
  <2> QED BY <1>1, <1>2, <1>3, <1>4, <2>1, <2>2, Outside
<1>6. CASE FlagRecheck(c)
  <2>1. call' = [call EXCEPT ![c] = "idle"] /\ arg' = [arg EXCEPT ![c] = Nobody]
    BY <1>6 DEF FlagRecheck, Return, CallGoto
  <2>2. UNCHANGED <<mtx, listed, encode_tid, deviceVars>>
    BY <1>6 DEF FlagRecheck, listVars, threadVars
  <2> QED BY <1>1, <1>2, <1>3, <2>1, <2>2, Outside
<1> QED BY <1>5, <1>6

\* The capture thread and the mute key take no part in it: they take a free
\* mtx_ and give it back.
LEMMA OthersStep ==
  ASSUME CaptureInv, CaptureStep \/ CaptureFails \/ SetMute
  PROVE  CaptureInv'
<1>1. UNCHANGED <<listed, encode_tid, deviceVars, callVars>>
      /\ (mtx' = mtx \/ (mtx \in {Capture, Nobody} /\ mtx' \in {Capture, Nobody}))
  <2>1. CASE CaptureFails \/ SetMute \/ GenMute \/ TestStop \/ CaptureSamples \/ TryLock
    BY <2>1, Zenon DEF CaptureFails, SetMute, GenMute, TestStop, CaptureSamples, TryLock,
                       listVars, threadVars
  <2>2. CASE Delivered \/ Choose \/ EncPcmAlways \/ Recheck \/ ThreadOut
             \/ \E x \in Listeners : Deliver(x)
    BY <2>2, Zenon DEF Delivered, Choose, EncPcmAlways, Recheck, ThreadOut, Deliver,
                       listVars, threadVars
  <2> QED BY <2>1, <2>2, Zenon DEF CaptureStep
<1> USE <1>1, AudioAssumption DEF CaptureInv, deviceVars, callVars
<1>2. TypeInv'
  BY DEF TypeInv, ListenersTyped, FlagsTyped, CallsTyped
<1>3. Exclusive'
  BY DEF Exclusive
<1>4. Progress'
  BY DEF Progress, CallInv, Steady, Devices, NoneListed
<1>5. SteadyUnlocked'
  BY DEF SteadyUnlocked, Steady, Devices, NoneListed
<1> QED BY <1>2, <1>3, <1>4, <1>5

-----------------------------------------------------------------------------
\* A step of a call under mtx_ that ends at place: it is enough to look at
\* this call, for nobody else is under mtx_.
LEMMA Inside ==
  ASSUME CaptureInv, NEW c \in Callers, NEW place \in Places,
         mtx = c \/ mtx = Nobody, mtx' = c \/ mtx' = Nobody,
         call' = [call EXCEPT ![c] = place],
         arg' = arg \/ arg' = [arg EXCEPT ![c] = Nobody],
         place \in Locked => mtx' = c, place \in OnListener => arg' = arg,
         place \in OnListener => call[c] \in OnListener,
         ListenersTyped', FlagsTyped', CallInv(place)', mtx' = Nobody => Steady'
  PROVE  CaptureInv'
<1> USE AudioAssumption DEF CaptureInv, TypeInv
<1>1. CallsTyped'
  BY DEF CallsTyped
<1>2. \A b \in Callers \ {c} : call'[b] = call[b] /\ call[b] \notin Locked
  BY DEF CallsTyped, Exclusive
<1>3. call'[c] = place
  BY DEF CallsTyped
<1>4. Exclusive'
  BY <1>2, <1>3 DEF Exclusive
<1>5. \A b \in Callers \ {c} : CallInv(call[b])'
  BY <1>2 DEF CallInv, Locked, Unchanged, Starting
<1>6. Progress'
  BY <1>3, <1>5 DEF Progress
<1>7. SteadyUnlocked'
  BY DEF SteadyUnlocked
<1> QED BY <1>1, <1>4, <1>6, <1>7

\* mtx_ is taken and the list looked at; nothing is changed yet.
LEMMA LockStep ==
  ASSUME CaptureInv, NEW c \in Callers, LockMtx(c) \/ Adding(c) \/ InitRunning(c)
  PROVE  CaptureInv'
<1>1. PICK place \in {"adding", "removing", "init", "insert"} :
        call' = [call EXCEPT ![c] = place] /\ (place = "insert" => Steady /\ encode_tid)
  <2>1. CASE LockMtx(c)
    BY <2>1 DEF LockMtx, CallGoto
  <2>2. CASE Adding(c)
    <3>1. NoneListed(SameList(arg[c])) \/ (Steady /\ encode_tid)
      <4>1. SameList(arg[c]) \subseteq Listeners
        BY DEF SameList, Listeners
      <4>2. Steady
        BY <2>2 DEF Adding, CaptureInv, Progress, CallInv, Unchanged
      <4> QED BY <4>1, <4>2 DEF NoneListed, Steady
    <3> QED BY <2>2, <3>1 DEF Adding, CallGoto
  <2>3. CASE InitRunning(c)
    BY <2>3 DEF InitRunning, CallGoto, CaptureInv, Progress, CallInv, Unchanged
  <2> QED BY <2>1, <2>2, <2>3
<1>2. UNCHANGED <<arg, listed, encode_tid, deviceVars>> /\ mtx' = c
      /\ (mtx = c \/ mtx = Nobody) /\ call[c] \in OnListener /\ Steady
  BY DEF LockMtx, Adding, InitRunning, MtxFree, listVars, threadVars, CaptureInv, OnListener,
         Exclusive, Progress, CallInv, SteadyUnlocked, Locked, Unchanged, Starting
<1>3. ListenersTyped' /\ FlagsTyped'
  BY <1>2 DEF CaptureInv, TypeInv, ListenersTyped, FlagsTyped, deviceVars
<1>4. Steady'
  BY <1>2 DEF Steady, Devices, NoneListed, deviceVars
<1>5. CallInv(place)'
  BY <1>1, <1>2, <1>4 DEF CallInv, Steady, Devices, deviceVars, Unchanged, Starting
<1>6. place \in Locked /\ place \in Places
  BY DEF Locked, Unchanged, Starting, Places, OnListener
<1> QED BY <1>1, <1>2, <1>3, <1>4, <1>5, <1>6, Inside

\* Init: devices, thread, entry in the list, or a failure on the way.
LEMMA InitStep ==
  ASSUME CaptureInv, NEW c \in Callers,
         InitOpen(c) \/ InitFails(c) \/ InitCreate(c) \/ InitEnable(c) \/ InitSetTid(c)
  PROVE  CaptureInv'
<1> USE DEF deviceVars, listVars, threadVars
<1>1. NoneListed(Listeners) /\ ~encode_tid /\ mtx = c /\ call[c] \in OnListener
      /\ (call[c] \in Starting => Devices(TRUE)) /\ UNCHANGED listed
  BY DEF InitOpen, InitFails, InitCreate, InitEnable, InitSetTid, CaptureInv, OnListener,
         Exclusive, Progress, CallInv, Steady, Locked, Unchanged, Starting
<1>2. ListenersTyped' /\ NoneListed(Listeners)'
  BY <1>1 DEF CaptureInv, TypeInv, ListenersTyped, NoneListed
<1>3. CASE InitOpen(c) \/ InitCreate(c) \/ InitEnable(c)
  <2>1. PICK place \in Starting : call' = [call EXCEPT ![c] = place]
    BY <1>3 DEF InitOpen, InitCreate, InitEnable, CallGoto, Starting
  <2>2. ~encode_tid' /\ Devices(TRUE)' /\ UNCHANGED <<mtx, arg, encode_tid>>
    BY <1>1, <1>3 DEF InitOpen, InitCreate, InitEnable, Devices, Starting
  <2>3. CallInv(place)' /\ FlagsTyped'
    <3>1. FlagsTyped'
      BY <2>2 DEF FlagsTyped, Devices, CaptureInv, TypeInv
    <3>2. CallInv(place)'
      BY <1>2, <2>1, <2>2 DEF CallInv, Starting, Unchanged
    <3> QED BY <3>1, <3>2
  <2>4. place \in Places /\ place \in Locked
    BY DEF Starting, Places, OnListener, Locked
  <2> QED BY <1>1, <1>2, <2>1, <2>2, <2>3, <2>4, Inside, AudioAssumption
<1>4. CASE InitSetTid(c)
  <2>1. call' = [call EXCEPT ![c] = "insert"] /\ encode_tid' /\ Devices(TRUE)'
        /\ UNCHANGED <<mtx, arg>> /\ encode_tid' \in BOOLEAN
    BY <1>1, <1>4 DEF InitSetTid, CallGoto, Devices, Starting
  <2>2. CallInv("insert")' /\ FlagsTyped'
    BY <2>1 DEF CallInv, Starting, Unchanged, Devices, FlagsTyped
  <2>3. "insert" \in Places /\ "insert" \in Locked
    BY DEF Places, OnListener, Locked
  <2> QED BY <1>1, <1>2, <2>1, <2>2, <2>3, Inside, AudioAssumption
<1>5. CASE InitFails(c)
  <2>1. call' = [call EXCEPT ![c] = "idle"] /\ arg' = [arg EXCEPT ![c] = Nobody]
        /\ mtx' = Nobody /\ ~encode_tid' /\ Devices(FALSE)' /\ UNCHANGED encode_tid
    BY <1>1, <1>5 DEF InitFails, Return, CallGoto, Devices
  <2>2. "idle" \in Places /\ "idle" \notin OnListener /\ "idle" \notin Locked
    BY DEF Places, OnListener, Locked, Unchanged, Starting
  <2>3. FlagsTyped'
    BY <2>1 DEF FlagsTyped, Devices, CaptureInv, TypeInv
  <2>4. CallInv("idle")'
    BY DEF CallInv, Unchanged, Starting
  <2>5. Steady'
    BY <1>2, <2>1, <2>3 DEF Steady, Devices, FlagsTyped
  <2> QED BY <1>1, <1>2, <2>1, <2>2, <2>3, <2>4, <2>5, Inside
<1> QED BY <1>3, <1>4, <1>5

\* The listener is in the list, and the thread runs.
LEMMA InsertStep == ASSUME CaptureInv, NEW c \in Callers, Insert(c) PROVE CaptureInv'
<1> USE DEF deviceVars, listVars, threadVars
<1>1. mtx = c /\ arg[c] \in Listeners /\ encode_tid /\ Devices(TRUE)
  BY DEF Insert, CaptureInv, TypeInv, CallsTyped, Exclusive, Progress, CallInv, OnListener,
         Locked
<1>2. call' = [call EXCEPT ![c] = "idle"] /\ arg' = [arg EXCEPT ![c] = Nobody]
      /\ mtx' = Nobody /\ UNCHANGED <<encode_tid, deviceVars>>
  BY DEF Insert, Return, CallGoto
<1>3. ListenersTyped' /\ FlagsTyped' /\ listed'[arg[c]] > 0
  BY <1>1, <1>2 DEF Insert, CaptureInv, TypeInv, ListenersTyped, FlagsTyped
<1>4. Steady'
  <2>1. ~NoneListed(Listeners)'
    BY <1>1, <1>3 DEF NoneListed
  <2> QED BY <1>1, <1>2, <1>3, <2>1 DEF Steady, Devices, FlagsTyped
<1>5. "idle" \in Places /\ "idle" \notin OnListener /\ "idle" \notin Locked
  BY DEF Places, OnListener, Locked, Unchanged, Starting
<1>6. CallInv("idle")'
  BY DEF CallInv, Unchanged, Starting
<1> QED BY <1>1, <1>2, <1>3, <1>4, <1>5, <1>6, Inside

\* The listener leaves: either somebody is still in a list, or nobody is and
\* Deinit follows.
LEMMA RemoveStep ==
  ASSUME CaptureInv, NEW c \in Callers, Remove(c) \/ RemoveUnknown(c)
  PROVE  CaptureInv'
<1> USE DEF deviceVars, listVars, threadVars
<1> DEFINE x == arg[c]
<1>1. mtx = c /\ x \in Listeners /\ Steady /\ call[c] \in OnListener
  BY DEF Remove, RemoveUnknown, CaptureInv, TypeInv, CallsTyped, Exclusive, Progress, CallInv,
         OnListener, Locked, Unchanged
<1>2. FlagsTyped'
  BY DEF Remove, RemoveUnknown, CaptureInv, TypeInv, FlagsTyped
<1>3. "idle" \in Places /\ "idle" \notin OnListener /\ "idle" \notin Locked
      /\ "deinit" \in Places /\ "deinit" \in Locked
  BY DEF Places, OnListener, Locked, Unchanged, Starting
<1>4. CallInv("idle")'
  BY DEF CallInv, Unchanged, Starting
<1>5. CASE Remove(c)
  <2>1. Left(x) \in Nat /\ (Left(x) # 0 => listed[x] # 0)
    BY <1>1, <1>5 DEF Remove, Left, CaptureInv, TypeInv, ListenersTyped
  <2>2. ListenersTyped' /\ listed' = [listed EXCEPT ![x] = Left(x)]
    BY <2>1, <1>5 DEF Remove, CaptureInv, TypeInv, ListenersTyped
  <2>3. listed'[x] = Left(x) /\ \A y \in Listeners \ {x} : listed'[y] = listed[y]
    BY <1>1, <2>2 DEF CaptureInv, TypeInv, ListenersTyped
  <2>4. CASE LastGone(x)
    <3>1. call' = [call EXCEPT ![c] = "deinit"] /\ mtx' = c /\ UNCHANGED arg
      BY <1>1, <1>5, <2>4 DEF Remove, CallGoto
    <3>2. NoneListed(Listeners)'
      BY <2>3, <2>4 DEF LastGone, NoneListed
    <3>3. Devices(encode_tid)'
      BY <1>1, <1>5 DEF Remove, Steady, Devices
    <3>4. CallInv("deinit")'
      BY <3>2, <3>3 DEF CallInv, Unchanged, Starting
    <3> QED BY <1>1, <1>2, <1>3, <2>2, <3>1, <3>4, Inside, AudioAssumption
  <2>5. CASE ~LastGone(x)
    <3>1. call' = [call EXCEPT ![c] = "idle"] /\ arg' = [arg EXCEPT ![c] = Nobody]
          /\ mtx' = Nobody
      BY <1>5, <2>5 DEF Remove, Return, CallGoto
    <3>2. ~NoneListed(Listeners) /\ ~NoneListed(Listeners)'
      BY <1>1, <2>1, <2>3, <2>5 DEF LastGone, NoneListed
    <3>3. Steady'
      BY <1>1, <1>5, <3>2 DEF Remove, Steady, Devices
    <3> QED BY <1>1, <1>2, <1>3, <1>4, <2>2, <3>1, <3>3, Inside
  <2> QED BY <2>4, <2>5
<1>6. CASE RemoveUnknown(c)
  <2>1. call' = [call EXCEPT ![c] = "idle"] /\ arg' = [arg EXCEPT ![c] = Nobody]
        /\ mtx' = Nobody /\ UNCHANGED <<listed, encode_tid, deviceVars>>
    BY <1>6 DEF RemoveUnknown, Return, CallGoto
  <2>2. ListenersTyped' /\ Steady'
    BY <1>1, <2>1 DEF CaptureInv, TypeInv, ListenersTyped, Steady, Devices, NoneListed
  <2> QED BY <1>1, <1>2, <1>3, <1>4, <2>1, <2>2, Inside
<1> QED BY <1>5, <1>6

\* Deinit: the thread is stopped and joined, the devices are freed.
LEMMA DeinitStep ==
  ASSUME CaptureInv, NEW c \in Callers, DeinitStop(c) \/ DeinitJoin(c) \/ DeinitFree(c)
  PROVE  CaptureInv'
<1> USE DEF deviceVars, listVars, threadVars
<1>1. NoneListed(Listeners) /\ mtx = c /\ call[c] \in OnListener /\ UNCHANGED listed
  BY DEF DeinitStop, DeinitJoin, DeinitFree, CaptureInv, OnListener, Exclusive, Progress,
         CallInv, Locked
<1>2. ListenersTyped' /\ NoneListed(Listeners)' /\ FlagsTyped'
  BY <1>1 DEF DeinitStop, DeinitJoin, DeinitFree, CaptureInv, TypeInv, ListenersTyped,
              NoneListed, FlagsTyped
<1>3. CASE DeinitStop(c) \/ DeinitJoin(c)
  <2>1. PICK place \in {"join", "free"} :
          /\ call' = [call EXCEPT ![c] = place]
          /\ (encode_tid' <=> place = "join") /\ UNCHANGED <<mtx, arg>>
    BY <1>3 DEF DeinitStop, DeinitJoin, CallGoto
  <2>2. CallInv(place)'
    BY <1>2, <2>1 DEF CallInv, Unchanged, Starting
  <2>3. place \in Places /\ place \in Locked
    BY DEF Places, OnListener, Locked
  <2> QED BY <1>1, <1>2, <2>1, <2>2, <2>3, Inside, AudioAssumption
<1>4. CASE DeinitFree(c)
  <2>1. call' = [call EXCEPT ![c] = "idle"] /\ arg' = [arg EXCEPT ![c] = Nobody]
        /\ mtx' = Nobody /\ ~encode_tid' /\ Devices(FALSE)'
    BY <1>4 DEF DeinitFree, Return, CallGoto, CaptureInv, Progress, CallInv, Devices
  <2>2. Steady'
    BY <1>2, <2>1 DEF Steady, Devices, FlagsTyped
  <2>3. "idle" \in Places /\ "idle" \notin OnListener /\ "idle" \notin Locked
    BY DEF Places, OnListener, Locked, Unchanged, Starting
  <2>4. CallInv("idle")'
    BY DEF CallInv, Unchanged, Starting
  <2> QED BY <1>1, <1>2, <2>1, <2>2, <2>3, <2>4, Inside
<1> QED BY <1>3, <1>4

-----------------------------------------------------------------------------
LEMMA NextCapture == CaptureInv /\ [Next]_vars => CaptureInv'
<1> SUFFICES ASSUME CaptureInv, [Next]_vars PROVE CaptureInv'
  OBVIOUS
<1>1. ASSUME NEW c \in Callers, Begin(c) \/ GoOn(c) PROVE CaptureInv'
  <2>1. Begin(c) \/ CallStep(c) \/ MarkSpecial(c) \/ FlagRecheck(c)
    BY <1>1, Zenon DEF GoOn
  <2>2. CallStep(c) => CaptureInv'
    BY LockStep, InitStep, InsertStep, RemoveStep, DeinitStep, Zenon DEF CallStep
  <2> QED BY <2>1, <2>2, BeginStep, CacheStep, Zenon
<1>2. CASE CaptureStep \/ CaptureFails \/ SetMute
  BY <1>2, OthersStep
<1>3. CASE UNCHANGED vars
  BY <1>3 DEF vars, audioVars, listVars, threadVars, deviceVars, callVars, CaptureInv, TypeInv,
              ListenersTyped, FlagsTyped, CallsTyped, Exclusive, Progress, CallInv, Steady,
              Devices, NoneListed, SteadyUnlocked
<1> QED BY <1>1, <1>2, <1>3, Zenon DEF Next, Stuck

\* For any callers, dispatchers and receivers, and wherever opening the
\* microphone, the encoder or the thread fails: whenever mtx_ is not held by a
\* caller, AudioEncodeHandler has a capture thread, an encoder and a microphone
\* exactly if a dispatcher or a receiver is listed (audio_encode_handler.cpp,
\* Init, Deinit and their four callers).
THEOREM CaptureCorrect == Spec => []CaptureWhileListed
<1>1. CaptureInv => CaptureWhileListed
  BY DEF CaptureInv, TypeInv, FlagsTyped, SteadyUnlocked, Steady, Devices, CaptureWhileListed
<1> QED BY <1>1, InitCapture, NextCapture, PTL DEF Spec
=============================================================================
