----------------------------- MODULE SoundStream -----------------------------
(***************************************************************************)
(* What the sound of the player promises.  The core makes sample frames,   *)
(* numbered from 0; each is heard at most once, in the order it was made,  *)
(* or is dropped, and no more than Backlog of them ever wait.              *)
(***************************************************************************)
EXTENDS Integers

CONSTANT Backlog   \* a natural number

VARIABLES
  made,  \* frames made
  next,  \* the first frame that may still be heard
  heard  \* the frames the last request of the device was given: from, up to but without to

streamVars == <<made, next, heard>>

Init == made = 0 /\ next = 0 /\ heard = [from |-> 0, to |-> 0]

\* Frames are made; some of those that wait may be dropped.
Produce ==
  /\ made' \in Nat /\ made' >= made
  /\ next' \in next .. made' /\ made' - next' <= Backlog
  /\ UNCHANGED heard
\* The device takes frames where it left off.
Hear ==
  /\ next' \in next .. made
  /\ heard' = [from |-> next, to |-> next']
  /\ UNCHANGED made
\* A pause, a stop and fast forward drop what waits.
Drop == next' = made /\ UNCHANGED <<made, heard>>

Next == Produce \/ Hear \/ Drop
Spec == Init /\ [][Next]_streamVars
=============================================================================
