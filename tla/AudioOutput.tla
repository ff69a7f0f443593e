----------------------------- MODULE AudioOutput -----------------------------
(***************************************************************************)
(* AudioOutput: the queue of sound between the core, which is read once a  *)
(* frame, and the device, which asks for a fixed number of sample frames   *)
(* whenever it likes.  Sample frames are numbered as they are queued, and  *)
(* a chunk is the numbers it holds, from .. to - 1, so that which frame    *)
(* was heard when can be told; their values and the volume are left out.   *)
(***************************************************************************)
EXTENDS Integers, Sequences

CONSTANTS
  Maximum,   \* chunks that may wait: 8, or 24 in the stable mode
  Request,   \* frames the device asks for: 1024, or 4096
  MaxChunk   \* frames one read of the core returns at most: audioCapacity, 4096

ASSUME AudioAssumption ==
  Maximum \in Nat \ {0} /\ Request \in Nat \ {0} /\ MaxChunk \in Nat \ {0}

VARIABLES
  context, \* the audio device: "none", "running" or "suspended"
  chunks,  \* the queue
  offset,  \* chunkOffset: the frames of its head that have been heard
  made,    \* frames queued so far
  heard,   \* history: the frames the last request was given
  starved, \* stats: an underrun has been counted
  dropped  \* stats: an overflow has been counted

queueVars == <<chunks, offset, made, heard, starved, dropped>>
audioVars == <<context, queueVars>>

AudioInit ==
  /\ context = "none" /\ chunks = <<>> /\ offset = 0 /\ made = 0 /\ heard = [from |-> 0, to |-> 0]
  /\ starved = FALSE /\ dropped = FALSE

\* The first frame that may still be heard.
Position == IF chunks = <<>> THEN made ELSE chunks[1].from + offset

PushM(n) == \* one chunk too many
  IF n = 0 THEN UNCHANGED audioVars
  ELSE LET queued == Append(chunks, [from |-> made, to |-> made + n])
           full == Len(queued) > Maximum + 1 IN
       /\ made' = made + n
       /\ chunks' = IF full THEN Tail(queued) ELSE queued
       /\ offset' = IF full THEN 0 ELSE offset
       /\ dropped' = (dropped \/ full)
       /\ UNCHANGED <<context, heard, starved>>
\* push: an overflow drops the oldest chunk, heard in part or not.
Push(n) ==
  IF n = 0 THEN UNCHANGED audioVars
  ELSE LET queued == Append(chunks, [from |-> made, to |-> made + n])
           full == Len(queued) > Maximum IN
       /\ made' = made + n
       /\ chunks' = IF full THEN Tail(queued) ELSE queued
       /\ offset' = IF full THEN 0 ELSE offset
       /\ dropped' = (dropped \/ full)
       /\ UNCHANGED <<context, heard, starved>>

\* clear
Empty == chunks' = <<>> /\ offset' = 0 /\ UNCHANGED <<made, heard, starved, dropped>>
Clear == Empty /\ UNCHANGED context

\* start: the device is made, or resumed.  Without one, or when that fails, nothing changes.
Start == context' = "running" /\ UNCHANGED queueVars
\* pause and stop empty the queue first.
Pause == Empty /\ context' = IF context = "none" THEN "none" ELSE "suspended"
Stop == Empty /\ context' = "none"

FillM == \* the offset is not moved past what was heard
  /\ context = "running" /\ chunks # <<>>
  /\ heard' = [from |-> Position, to |-> IF Position + Request > made THEN made ELSE Position + Request]
  /\ UNCHANGED <<context, chunks, offset, made, starved, dropped>>
\* fill with too few frames: all are heard, and silence.
FillStarved ==
  /\ Position + Request > made
  /\ heard' = [from |-> Position, to |-> made]
  /\ chunks' = <<>> /\ offset' = 0 /\ starved' = TRUE
  /\ UNCHANGED <<context, made, dropped>>
\* fill with enough of them.  A chunk heard to its end stays until the next request.
FillEnough ==
  /\ Position + Request <= made
  /\ \E i \in DOMAIN chunks :
       /\ chunks[i].from < Position + Request /\ Position + Request <= chunks[i].to
       /\ chunks' = SubSeq(chunks, i, Len(chunks))
       /\ offset' = Position + Request - chunks[i].from
  /\ heard' = [from |-> Position, to |-> Position + Request]
  /\ UNCHANGED <<context, made, starved, dropped>>
Fill == context = "running" /\ (FillStarved \/ FillEnough)

AudioNext == (\E n \in 0 .. MaxChunk : Push(n)) \/ Clear \/ Start \/ Pause \/ Stop \/ Fill
AudioSpec == AudioInit /\ [][AudioNext]_audioVars

------------------------------------------------------------------------------
(* Properties. *)

\* Every sample frame is heard at most once and in order, and the queue is bounded, also
\* when it overflows in the middle of a chunk, runs dry or is cleared.
Stream == INSTANCE SoundStream WITH next <- Position, Backlog <- Maximum * MaxChunk
EachFrameOnce == Stream!Spec
=============================================================================
