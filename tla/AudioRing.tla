------------------------------ MODULE AudioRing ------------------------------
(***************************************************************************)
(* audio_ring.c: the ring in the core between the sound channels and the   *)
(* player, which reads it once a tick, or not at all while it is muted or  *)
(* runs fast.  Sample frames are numbered as the core makes them; a slot   *)
(* holds the number of its frame.                                          *)
(***************************************************************************)
EXTENDS Integers

CONSTANT Capacity   \* capacity_frames, 4096
ASSUME RingAssumption == Capacity \in Nat \ {0}

VARIABLES
  samples,       \* the slots
  read_frame,    \* the slot of the oldest frame
  queued_frames, \* frames in the ring
  written        \* frames the core has made

ringVars == <<samples, read_frame, queued_frames, written>>

Slots == 0 .. Capacity - 1
Smaller(i, j) == IF i < j THEN i ELSE j

RingInit ==
  /\ samples = [s \in Slots |-> 0]
  /\ read_frame = 0 /\ queued_frames = 0
  /\ written = 0

\* The slots after the frames from number first on were copied to slot at and those after it.
Copied(at, first, frames) ==
  [s \in Slots |-> LET i == (s - at) % Capacity IN
                   IF i < frames THEN first + i ELSE samples[s]]

RingWriteM(n) == \* a full ring forgets its newest frames
  LET frames == Smaller(n, Capacity - queued_frames)
      at == (read_frame + queued_frames) % Capacity IN
  /\ samples' = Copied(at, written, frames)
  /\ queued_frames' = queued_frames + frames
  /\ written' = written + n
  /\ UNCHANGED read_frame
\* mgba_wx_audio_ring_write: more than fits overwrites the oldest, and of more than the whole
\* ring holds only the end is kept.
RingWrite(n) ==
  LET whole == n >= Capacity
      frames == Smaller(n, Capacity)
      start == IF whole THEN 0 ELSE read_frame
      queued == IF whole THEN 0 ELSE queued_frames
      free == Capacity - queued
      lost == IF frames > free THEN frames - free ELSE 0
      first == (start + lost) % Capacity IN
  /\ read_frame' = first
  /\ samples' = Copied((first + queued - lost) % Capacity, written + n - frames, frames)
  /\ queued_frames' = queued - lost + frames
  /\ written' = written + n

\* mgba_wx_audio_ring_read: the frames that RingHoldsLatest names, from the oldest on.
RingRead(max) ==
  LET frames == Smaller(queued_frames, max) IN
  /\ read_frame' = (read_frame + frames) % Capacity
  /\ queued_frames' = queued_frames - frames
  /\ UNCHANGED <<samples, written>>

\* mgba_wx_audio_ring_clear, after a reset and a loaded state.
RingClear ==
  /\ read_frame' = 0 /\ queued_frames' = 0
  /\ UNCHANGED <<samples, written>>

------------------------------------------------------------------------------
(* Properties. *)

\* The ring holds the frames made last, in order, however it has wrapped and overflowed.
RingHoldsLatest ==
  /\ queued_frames \in 0 .. Capacity /\ read_frame \in Slots
  /\ \A i \in 0 .. queued_frames - 1 :
       samples[(read_frame + i) % Capacity] = written - queued_frames + i
=============================================================================
