---------------------------- MODULE RecordingJob ----------------------------
(***************************************************************************)
(* What a muxer promises to its users (camera_muxer.h): the packets pushed *)
(* during a job go to the file of that job, in their order.  An overflow   *)
(* may lose a run of them, from somewhere up to a key frame; a job that is *)
(* ended by NORMAL or FLUSH has written all the others when its file is    *)
(* closed, one ended by IMMEDIATE may leave the end out.  A job may be     *)
(* closed while the next one records.  After a writer has failed nothing   *)
(* is promised any more.  No thread, list or message appears here:         *)
(* CameraMuxer implements it.                                              *)
(***************************************************************************)
EXTENDS Naturals, Sequences

CONSTANTS Jobs, Packets, IsKey(_)

VARIABLES
  state,    \* of each job
  current,  \* the job that accepts packets, or 0
  pending,  \* accepted packets of each job that are not yet written
  file,     \* what each file holds
  broken    \* a writer has failed

vars == <<state, current, pending, file, broken>>

Init ==
  /\ state = [j \in Jobs |-> "new"] /\ current = 0
  /\ pending = [j \in Jobs |-> <<>>] /\ file = [j \in Jobs |-> <<>>]
  /\ broken = FALSE

Open(j) ==
  /\ current = 0 /\ state[j] = "new"
  /\ state' = [state EXCEPT ![j] = "open"]
  /\ UNCHANGED <<current, pending, file, broken>>

Accepting(j) ==
  /\ current = 0 /\ state[j] = "open" /\ pending[j] = <<>> /\ file[j] = <<>>
  /\ current' = j
  /\ UNCHANGED <<state, pending, file, broken>>

\* A packet is accepted, the last of those then pending.  For it a run of the
\* others may be lost: the first `kept' ones stay, and those from a key frame on.
Accept ==
  /\ current # 0 /\ pending'[current] # <<>>
  /\ LET old  == pending[current]
         new  == pending'[current]
         last == Len(new)
     IN /\ new[last] \in Packets
        /\ \E kept \in 0..(last - 1) :
             LET next == Len(old) - (last - 1 - kept) + 1
             IN /\ next \in (kept + 1)..(Len(old) + 1)
                /\ next \in {kept + 1, Len(old) + 1} \/ IsKey(old[next])
                /\ SubSeq(new, 1, last - 1) =
                     SubSeq(old, 1, kept) \o SubSeq(old, next, Len(old))
        /\ pending' = [pending EXCEPT ![current] = new]
  /\ UNCHANGED <<state, current, file, broken>>

StopAccepting ==
  /\ current # 0 /\ current' = 0
  /\ UNCHANGED <<state, pending, file, broken>>

Write(j) ==
  /\ pending[j] # <<>>
  /\ file' = [file EXCEPT ![j] = Append(@, Head(pending[j]))]
  /\ pending' = [pending EXCEPT ![j] = Tail(@)]
  /\ UNCHANGED <<state, current, broken>>

\* NORMAL and FLUSH close a file once everything is written ...
Complete(j) ==
  /\ state[j] = "open" /\ current # j /\ pending[j] = <<>>
  /\ state' = [state EXCEPT ![j] = "complete"]
  /\ UNCHANGED <<current, pending, file, broken>>

\* ... IMMEDIATE gives up what is left.
Cut(j) ==
  /\ state[j] = "open" /\ current # j
  /\ state' = [state EXCEPT ![j] = "cut"]
  /\ pending' = [pending EXCEPT ![j] = <<>>]
  /\ UNCHANGED <<current, file, broken>>

Next ==
  \/ broken'
  \/ \E j \in Jobs : Open(j) \/ Accepting(j) \/ Write(j) \/ Complete(j) \/ Cut(j)
  \/ Accept \/ StopAccepting

Spec == Init /\ [][Next]_vars
=============================================================================
