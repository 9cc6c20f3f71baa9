----------------------------- MODULE PacketLists -----------------------------
(***************************************************************************)
(* Lists of encoded packets and what the overflow loop of                  *)
(* CameraMuxer::push_packet (camera_muxer.cpp) drops from them.  A packet  *)
(* is a record with a field kind.                                          *)
(***************************************************************************)
EXTENDS Integers, Sequences, FiniteSets

IsVideo(p) == p.kind \in {"key", "delta"}
VideoCount(s) == Cardinality({i \in DOMAIN s : IsVideo(s[i])})

KeyPositions(s) == {i \in DOMAIN s : s[i].kind = "key"}
IsSecondKey(s, i) ==
  i \in KeyPositions(s) /\ Cardinality({k \in KeyPositions(s) : k < i}) = 1
\* Mutant of DropTo: only the oldest packet is dropped.
DropToNext(s) == Tail(s)
\* What the overflow loop leaves: it drops from the front until it meets a
\* second key frame, which is everything when there is none.
DropTo(s) == IF \E i \in DOMAIN s : IsSecondKey(s, i)
             THEN SubSeq(s, CHOOSE i \in DOMAIN s : IsSecondKey(s, i), Len(s))
             ELSE <<>>
Dropped(s) == SubSeq(s, 1, Len(s) - Len(DropTo(s)))
=============================================================================
