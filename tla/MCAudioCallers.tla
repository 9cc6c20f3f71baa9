--------------------------- MODULE MCAudioCallers ---------------------------
(***************************************************************************)
(* Instance of AudioCallers for TLC.                                       *)
(***************************************************************************)
EXTENDS AudioCallers

CONSTANTS cacher, recorder, front, pcm

\* One caller caches; the other records and listens to the raw samples.
TwoCallers == {cacher, recorder}
OneDispatcher == {front}
OneReceiver == {pcm}
AllAdds == [c \in TwoCallers |-> IF c = cacher THEN {front} ELSE {front, pcm}]
OneCaches == [c \in TwoCallers |-> IF c = cacher THEN {front} ELSE {}]
=============================================================================
