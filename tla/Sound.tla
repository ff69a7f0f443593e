-------------------------------- MODULE Sound --------------------------------
(***************************************************************************)
(* The way of a sample frame: the player runs the core, which writes its   *)
(* ring; a tick reads the ring and queues what it got; the device empties  *)
(* the queue from its own callback, at its own pace.                       *)
(***************************************************************************)
EXTENDS AudioRing, AudioOutput

CONSTANTS
  FrameSizes, \* sample frames one emulated frame may make
  MaxFrames   \* bound: sample frames made

ASSUME SoundAssumption == FrameSizes \subseteq Nat \ {0} /\ MaxFrames \in Nat

vars == <<ringVars, audioVars>>

Init == RingInit /\ AudioInit

\* runFrame, one or more in a tick: drain_audio fills the ring.
RunFrame(n) == written + n <= MaxFrames /\ RingWrite(n) /\ UNCHANGED audioVars
\* The end of a tick at normal speed: readAudio, push.  A muted tick does neither.
Queue == RingRead(MaxChunk) /\ Push(Smaller(queued_frames, MaxChunk))
\* The end of a tick of fast forward: the ring is not read.
FastForward == Clear /\ UNCHANGED ringVars
\* reset, loadState: the ring alone is emptied.
ResetCore == RingClear /\ UNCHANGED audioVars
Device == (Start \/ Pause \/ Stop \/ Fill) /\ UNCHANGED ringVars

Next == (\E n \in FrameSizes : RunFrame(n)) \/ Queue \/ FastForward \/ ResetCore \/ Device
Spec == Init /\ [][Next]_vars

------------------------------------------------------------------------------
(* Properties. *)

\* The shape of the ring and of the queue.
TypeOK ==
  /\ samples \in [Slots -> 0 .. written] /\ written \in Nat
  /\ chunks \in Seq([from : Nat, to : Nat]) /\ Len(chunks) <= Maximum
  /\ \A i \in DOMAIN chunks : chunks[i].from < chunks[i].to /\ chunks[i].to <= made
  /\ offset \in Nat /\ made \in 0 .. written /\ heard.from <= heard.to /\ heard.to <= made
  /\ context \in {"none", "running", "suspended"} /\ starved \in BOOLEAN /\ dropped \in BOOLEAN
=============================================================================
