----------------------------- MODULE SoundProofs -----------------------------
(***************************************************************************)
(* Proofs about Sound, for every size of the ring, of the queue and of the *)
(* chunks: the ring holds the frames made last, and the queue implements   *)
(* SoundStream.  Both arguments are about one inductive invariant, Inv.    *)
(***************************************************************************)
EXTENDS Sound, TLAPS

------------------------------------------------------------------------------
(* Arithmetic: the slots of a ring, and the frames of a number of chunks. *)

\* One step around the ring: a sum of a slot and at most a whole ring wraps once.
LEMMA WrapForward ==
  ASSUME NEW C \in Nat \ {0}, NEW a \in 0 .. C - 1, NEW b \in 0 .. C
  PROVE  /\ (a + b) % C = IF a + b < C THEN a + b ELSE a + b - C
         /\ (a + b) % C \in 0 .. C - 1
  <1>1. CASE a + b < C
    <2>1. a + b \in 0 .. C - 1  BY <1>1
    <2>2. (a + b) % C = a + b  BY <2>1, SMT
    <2> QED BY <1>1, <2>1, <2>2
  <1>2. CASE ~(a + b < C)
    <2>1. a + b \in C .. 2 * C - 1  BY <1>2
    <2>2. (a + b) % C = a + b - C  BY <2>1, SMT
    <2> QED BY <1>2, <2>1, <2>2
  <1> QED BY <1>1, <1>2

\* The distance from one slot to another wraps at most once.
LEMMA WrapBack ==
  ASSUME NEW C \in Nat \ {0}, NEW a \in 0 .. C - 1, NEW b \in 0 .. C - 1
  PROVE  /\ (a - b) % C = IF b <= a THEN a - b ELSE a - b + C
         /\ (a - b) % C \in 0 .. C - 1
  <1>1. CASE b <= a
    <2>1. a - b \in 0 .. C - 1  BY <1>1
    <2>2. (a - b) % C = a - b  BY <2>1, SMT
    <2> QED BY <1>1, <2>1, <2>2
  <1>2. CASE ~(b <= a)
    <2>1. a - b \in Int /\ 0 - C <= a - b /\ a - b < 0  BY <1>2
    <2>2. (a - b) % C = a - b + C  BY <2>1, SMT
    <2> QED BY <1>2, <2>1, <2>2
  <1> QED BY <1>1, <1>2

\* Where the frame number i from a slot on lies from the slot of the frame number k.
LEMMA Distance ==
  ASSUME NEW C \in Nat \ {0}, NEW first \in 0 .. C - 1, NEW i \in 0 .. C - 1, NEW k \in 0 .. C
  PROVE  (((first + i) % C) - ((first + k) % C)) % C = IF k <= i THEN i - k ELSE i - k + C
  <1> DEFINE s == (first + i) % C
             t == (first + k) % C
  <1>0. i \in 0 .. C
    OBVIOUS
  <1>1. s = (IF first + i < C THEN first + i ELSE first + i - C) /\ s \in 0 .. C - 1
    BY <1>0, WrapForward
  <1>2. t = (IF first + k < C THEN first + k ELSE first + k - C) /\ t \in 0 .. C - 1
    BY WrapForward
  <1> HIDE DEF s, t
  <1>3. (s - t) % C = IF t <= s THEN s - t ELSE s - t + C
    BY <1>1, <1>2, WrapBack
  <1>4. (s - t) % C = IF k <= i THEN i - k ELSE i - k + C
    BY <1>1, <1>2, <1>3
  <1> QED BY <1>4 DEF s, t

\* The frames k chunks hold at most.
Hold(k) == k * MaxChunk

\* One chunk more holds MaxChunk frames more.
LEMMA HoldOneMore == ASSUME NEW k \in Nat PROVE Hold(k) \in Nat /\ Hold(k + 1) = Hold(k) + MaxChunk
  <1>1. MaxChunk \in Nat  BY AudioAssumption
  <1> QED BY <1>1, SMT DEF Hold

\* More chunks hold more frames.
LEMMA HoldMonotone == ASSUME NEW k \in Nat, NEW j \in 0 .. k PROVE Hold(j) <= Hold(k)
  <1>1. MaxChunk \in Nat  BY AudioAssumption
  <1> QED BY <1>1, SMT DEF Hold

\* More made than is queued and in the ring, also after n more frames.
LEMMA MoreMade ==
  ASSUME NEW a \in Nat, NEW q \in Nat, NEW w \in Nat, NEW q1 \in Nat, NEW n \in Nat,
         a + q <= w, q1 <= q + n
  PROVE  a + q1 <= w + n
  OBVIOUS

------------------------------------------------------------------------------
(* The inductive invariant. *)

RingInv ==
  /\ written \in Nat
  /\ samples \in [Slots -> 0 .. written]
  /\ RingHoldsLatest

Chunk == [from : Nat, to : Nat]

\* The queue is bounded and without a gap; what waits fits the chunks it is in.
QueueInv ==
  /\ made \in Nat /\ offset \in Nat
  /\ chunks \in Seq(Chunk) /\ Len(chunks) <= Maximum
  /\ \A i \in 1 .. Len(chunks) :
       /\ chunks[i].from < chunks[i].to /\ chunks[i].to <= made
       /\ made - chunks[i].from <= Hold(Len(chunks) - i + 1)
  /\ \A i \in 1 .. Len(chunks) - 1 : chunks[i].to = chunks[i + 1].from
  /\ Len(chunks) > 0 => /\ chunks[1].from + offset <= chunks[1].to
                        /\ chunks[Len(chunks)].to = made
  /\ chunks = <<>> => offset = 0

HeardInv ==
  /\ heard \in Chunk /\ heard.from <= heard.to /\ heard.to <= made
  /\ context \in {"none", "running", "suspended"} /\ starved \in BOOLEAN /\ dropped \in BOOLEAN

\* What is queued has been read from the ring.
Inv == RingInv /\ QueueInv /\ HeardInv /\ made + queued_frames <= written

------------------------------------------------------------------------------
(* The ring. *)

\* mgba_wx_audio_ring_write: what stays is moved to the front, what comes follows it.
LEMMA RingWriteStep ==
  ASSUME RingInv, NEW n \in Nat \ {0}, RingWrite(n)
  PROVE  RingInv' /\ written' = written + n /\ queued_frames' <= queued_frames + n
  <1> DEFINE whole == n >= Capacity
             frames == Smaller(n, Capacity)
             start == IF whole THEN 0 ELSE read_frame
             queued == IF whole THEN 0 ELSE queued_frames
             free == Capacity - queued
             lost == IF frames > free THEN frames - free ELSE 0
             first == (start + lost) % Capacity
             kept == queued - lost
             at == (first + kept) % Capacity
  <1>1. Capacity \in Nat \ {0} /\ written \in Nat /\ queued_frames \in 0 .. Capacity
        /\ read_frame \in 0 .. Capacity - 1 /\ samples \in [Slots -> 0 .. written]
    BY RingAssumption DEF RingInv, RingHoldsLatest, Slots
  <1>2. /\ frames \in 1 .. Capacity /\ frames <= n
        /\ start \in 0 .. Capacity - 1 /\ queued \in 0 .. Capacity
        /\ lost \in 0 .. queued /\ lost \in 0 .. Capacity /\ kept <= queued_frames
        /\ kept \in 0 .. Capacity /\ kept + frames <= Capacity
        /\ whole => kept = 0
        /\ ~whole => frames = n /\ start = read_frame /\ queued = queued_frames
    BY <1>1 DEF Smaller
  <1>3. first \in 0 .. Capacity - 1
    BY <1>1, <1>2, WrapForward
  <1>4. at \in 0 .. Capacity - 1
    BY <1>1, <1>2, <1>3, WrapForward
  <1>5. /\ read_frame' = first /\ samples' = Copied(at, written + n - frames, frames)
        /\ queued_frames' = kept + frames /\ written' = written + n
    <2>1. first + queued - lost = first + kept
      BY <1>2, <1>3
    <2> QED BY <2>1 DEF RingWrite
  <1> HIDE DEF whole, frames, start, queued, free, lost, first, kept, at
  <1>6. samples' \in [Slots -> 0 .. written']
    <2>1. \A s \in Slots : (s - at) % Capacity \in 0 .. Capacity - 1
      BY <1>1, <1>4, WrapBack DEF Slots
    <2>2. \A s \in Slots : IF (s - at) % Capacity < frames
                           THEN written + n - frames + ((s - at) % Capacity) \in 0 .. written + n
                           ELSE samples[s] \in 0 .. written + n
      BY <1>1, <1>2, <2>1
    <2> QED BY <1>5, <2>2 DEF Copied
  <1>7. ASSUME NEW i \in 0 .. queued_frames' - 1
        PROVE  samples'[(read_frame' + i) % Capacity] = written' - queued_frames' + i
    <2> DEFINE s == (first + i) % Capacity
               d == (s - at) % Capacity
    <2>1. i \in 0 .. Capacity - 1 /\ i \in 0 .. Capacity /\ i < kept + frames
      BY <1>1, <1>2, <1>5
    <2>2. s \in Slots
      BY <1>1, <1>3, <2>1, WrapForward DEF Slots
    <2>3. d = IF kept <= i THEN i - kept ELSE i - kept + Capacity
      BY <1>1, <1>2, <1>3, <2>1, Distance DEF at
    <2>4. samples'[s] = IF d < frames THEN written + n - frames + d ELSE samples[s]
      BY <1>5, <2>2 DEF Copied
    <2> HIDE DEF s, d
    <2>5. CASE kept <= i
      <3>1. d = i - kept /\ d < frames
        BY <1>1, <1>2, <2>1, <2>3, <2>5
      <3>2. samples'[s] = written + n - frames + (i - kept)
        BY <2>4, <3>1
      <3> QED BY <1>1, <1>2, <1>5, <2>1, <3>2 DEF s
    <2>6. CASE ~(kept <= i)
      <3>1. ~whole /\ d >= frames
        BY <1>1, <1>2, <2>1, <2>3, <2>6
      <3>2. frames = n /\ start = read_frame /\ queued = queued_frames
        BY <1>2, <3>1
      <3>3. kept = queued - lost /\ first = (start + lost) % Capacity
        BY DEF kept, first
      <3>4. lost + i \in 0 .. queued_frames - 1 /\ lost + i \in 0 .. Capacity
        BY <1>1, <1>2, <2>1, <2>6, <3>2, <3>3
      <3>5. samples[(read_frame + (lost + i)) % Capacity] = written - queued_frames + (lost + i)
        BY <3>4 DEF RingInv, RingHoldsLatest
      <3>6. s = (read_frame + (lost + i)) % Capacity
        <4>1. first = IF start + lost < Capacity THEN start + lost ELSE start + lost - Capacity
          BY <1>1, <1>2, <3>3, WrapForward
        <4>2. s = IF first + i < Capacity THEN first + i ELSE first + i - Capacity
          BY <1>1, <1>3, <2>1, WrapForward DEF s
        <4>3. (read_frame + (lost + i)) % Capacity
                = IF read_frame + (lost + i) < Capacity THEN read_frame + (lost + i)
                  ELSE read_frame + (lost + i) - Capacity
          BY <1>1, <3>4, WrapForward
        <4> QED BY <1>1, <1>2, <1>3, <2>1, <3>2, <3>4, <4>1, <4>2, <4>3
      <3>7. samples'[s] = samples[s]
        BY <1>2, <1>1, <2>1, <2>3, <2>4, <2>6, <3>1
      <3>8. written - queued_frames + (lost + i) = (written + n) - (kept + frames) + i
        BY <1>1, <1>2, <2>1, <3>2, <3>3
      <3> QED BY <1>5, <3>5, <3>6, <3>7, <3>8 DEF s
    <2> QED BY <2>5, <2>6
  <1>8. queued_frames' \in 0 .. Capacity /\ read_frame' \in Slots /\ written' \in Nat
    BY <1>1, <1>2, <1>3, <1>5 DEF Slots
  <1>9. queued_frames' <= queued_frames + n
    BY <1>1, <1>2, <1>5, <1>8
  <1> QED BY <1>5, <1>6, <1>7, <1>8, <1>9 DEF RingInv, RingHoldsLatest

\* mgba_wx_audio_ring_read takes the oldest frames.
LEMMA RingReadStep ==
  ASSUME RingInv, NEW n \in Nat, RingRead(n)
  PROVE  RingInv' /\ written' = written /\ queued_frames' = queued_frames - Smaller(queued_frames, n)
         /\ Smaller(queued_frames, n) \in 0 .. n
  <1> DEFINE frames == Smaller(queued_frames, n)
  <1>1. Capacity \in Nat \ {0} /\ written \in Nat /\ queued_frames \in 0 .. Capacity
        /\ read_frame \in 0 .. Capacity - 1 /\ samples \in [Slots -> 0 .. written]
    BY RingAssumption DEF RingInv, RingHoldsLatest, Slots
  <1>2. frames \in 0 .. queued_frames /\ frames \in 0 .. Capacity /\ frames \in 0 .. n
    BY <1>1 DEF Smaller
  <1>3. /\ read_frame' = (read_frame + frames) % Capacity
        /\ queued_frames' = queued_frames - frames
        /\ samples' = samples /\ written' = written
    BY DEF RingRead
  <1> HIDE DEF frames
  <1>4. read_frame' = (IF read_frame + frames < Capacity THEN read_frame + frames
                       ELSE read_frame + frames - Capacity) /\ read_frame' \in 0 .. Capacity - 1
    BY <1>1, <1>2, <1>3, WrapForward
  <1>5. ASSUME NEW i \in 0 .. queued_frames' - 1
        PROVE  samples'[(read_frame' + i) % Capacity] = written' - queued_frames' + i
    <2>1. i \in 0 .. Capacity /\ frames + i \in 0 .. queued_frames - 1 /\ frames + i \in 0 .. Capacity
      BY <1>1, <1>2, <1>3
    <2>2. (read_frame' + i) % Capacity = IF read_frame' + i < Capacity THEN read_frame' + i
                                         ELSE read_frame' + i - Capacity
      BY <1>1, <1>4, <2>1, WrapForward
    <2>3. (read_frame + (frames + i)) % Capacity
            = IF read_frame + (frames + i) < Capacity THEN read_frame + (frames + i)
              ELSE read_frame + (frames + i) - Capacity
      BY <1>1, <2>1, WrapForward
    <2>4. (read_frame' + i) % Capacity = (read_frame + (frames + i)) % Capacity
      BY <1>1, <1>2, <1>4, <2>1, <2>2, <2>3
    <2>5. samples[(read_frame + (frames + i)) % Capacity] = written - queued_frames + (frames + i)
      BY <2>1 DEF RingInv, RingHoldsLatest
    <2>6. written - queued_frames + (frames + i) = written' - queued_frames' + i
      BY <1>1, <1>2, <1>3, <2>1
    <2> QED BY <1>3, <2>4, <2>5, <2>6
  <1>6. queued_frames' \in 0 .. Capacity /\ read_frame' \in Slots
    BY <1>1, <1>2, <1>3, <1>4 DEF Slots
  <1>7. RingInv'
    BY <1>1, <1>3, <1>5, <1>6 DEF RingInv, RingHoldsLatest
  <1> QED BY <1>2, <1>3, <1>7 DEF frames

\* mgba_wx_audio_ring_clear leaves an empty ring.
LEMMA RingClearStep ==
  ASSUME RingInv, RingClear
  PROVE  RingInv' /\ written' = written /\ queued_frames' = 0
  <1>1. Capacity \in Nat \ {0}
    BY RingAssumption
  <1> QED BY <1>1 DEF RingInv, RingHoldsLatest, RingClear, Slots

------------------------------------------------------------------------------
(* The queue. *)

\* What the queue's invariant says of the first frame that may still be heard.
Bounds ==
  /\ Position \in Nat /\ Position <= made
  /\ made - Position <= Maximum * MaxChunk

\* The frames that wait fit the chunks they are in.
LEMMA PositionBounds ==
  QueueInv => Bounds /\ (Len(chunks) > 0 => Position = chunks[1].from + offset)
  <1> SUFFICES ASSUME QueueInv
               PROVE  Bounds /\ (Len(chunks) > 0 => Position = chunks[1].from + offset)
    OBVIOUS
  <1>1. Maximum \in Nat /\ Len(chunks) \in 0 .. Maximum /\ made \in Nat /\ offset \in Nat
        /\ chunks \in Seq(Chunk)
    BY AudioAssumption DEF QueueInv
  <1>2. Hold(Len(chunks)) <= Maximum * MaxChunk /\ 0 <= Maximum * MaxChunk
    <2>1. Hold(Len(chunks)) <= Hold(Maximum)
      BY <1>1, HoldMonotone
    <2>2. Hold(Maximum) \in Nat
      BY <1>1, HoldOneMore
    <2>3. Hold(Maximum) = Maximum * MaxChunk
      BY DEF Hold
    <2>4. Hold(Maximum) >= 0
      BY <2>2
    <2> QED BY <2>1, <2>3, <2>4
  <1>3. CASE chunks = <<>>
    <2>1. Position = made /\ Len(chunks) = 0
      BY <1>3 DEF Position
    <2>2. made - made = 0
      BY <1>1
    <2> QED BY <1>1, <1>2, <2>1, <2>2 DEF Bounds
  <1>4. CASE chunks # <<>>
    <2>1. Position = chunks[1].from + offset
      BY <1>4 DEF Position
    <2>2. Len(chunks) > 0 /\ 1 \in 1 .. Len(chunks) /\ Len(chunks) - 1 + 1 = Len(chunks)
      BY <1>1, <1>4
    <2>3. chunks[1] \in Chunk
      BY <1>1, <2>2
    <2>4. chunks[1].from \in Nat /\ chunks[1].to \in Nat
      BY <2>3 DEF Chunk
    <2>5. chunks[1].from + offset <= chunks[1].to /\ chunks[1].to <= made
          /\ made - chunks[1].from <= Hold(Len(chunks))
      BY <2>2 DEF QueueInv
    <2>6. Hold(Len(chunks)) \in Nat
      BY <1>1, HoldOneMore
    <2>7. Position \in Nat /\ Position <= made
      BY <1>1, <2>1, <2>4, <2>5
    <2>8. made - Position <= Hold(Len(chunks))
      BY <1>1, <2>1, <2>4, <2>5, <2>6
    <2>9. Maximum * MaxChunk \in Nat
      BY AudioAssumption, SMT
    <2> DEFINE B == Maximum * MaxChunk
    <2>10. made - Position <= B
      <3>1. Hold(Len(chunks)) <= B /\ B \in Nat
        BY <1>2, <2>9
      <3> HIDE DEF B
      <3> QED BY <1>1, <2>6, <2>7, <2>8, <3>1
    <2> QED BY <2>1, <2>7, <2>10 DEF Bounds
  <1> QED BY <1>3, <1>4

\* clear drops all that waits.
LEMMA EmptyStep ==
  ASSUME QueueInv, Empty
  PROVE  QueueInv' /\ made' = made /\ heard' = heard /\ Position' = made
  BY AudioAssumption DEF QueueInv, Empty, Position

\* fill with enough frames moves on by as many as the device asked for.
LEMMA FillEnoughStep ==
  ASSUME QueueInv, FillEnough
  PROVE  QueueInv' /\ made' = made /\ Position' = Position + Request
         /\ Position + Request <= made /\ heard' = [from |-> Position, to |-> Position + Request]
  <1>1. PICK i \in DOMAIN chunks :
          /\ chunks[i].from < Position + Request /\ Position + Request <= chunks[i].to
          /\ chunks' = SubSeq(chunks, i, Len(chunks))
          /\ offset' = Position + Request - chunks[i].from
    BY DEF FillEnough
  <1>2. chunks \in Seq(Chunk) /\ made \in Nat /\ Maximum \in Nat /\ Len(chunks) <= Maximum
    BY AudioAssumption DEF QueueInv
  <1>3. i \in 1 .. Len(chunks) /\ Len(chunks) \in Nat
    BY <1>2
  <1>4. /\ chunks' \in Seq(Chunk) /\ Len(chunks') = Len(chunks) - i + 1
        /\ \A j \in 1 .. Len(chunks) - i + 1 : chunks'[j] = chunks[i + j - 1]
    BY <1>1, <1>2, <1>3
  <1>5. \A j \in 1 .. Len(chunks) : chunks[j].from \in Nat /\ chunks[j].to \in Nat
    <2>1. \A j \in 1 .. Len(chunks) : chunks[j] \in Chunk
      BY <1>2
    <2> QED BY <2>1 DEF Chunk
  <1>6. Position \in Nat /\ Request \in Nat
    BY PositionBounds, AudioAssumption DEF Bounds
  <1>7. offset' \in Nat /\ made' = made
    BY <1>1, <1>3, <1>5, <1>6 DEF FillEnough
  <1>8. ASSUME NEW j \in 1 .. Len(chunks')
        PROVE  /\ chunks'[j].from < chunks'[j].to /\ chunks'[j].to <= made'
               /\ made' - chunks'[j].from <= Hold(Len(chunks') - j + 1)
    <2>1. i + j - 1 \in 1 .. Len(chunks) /\ Len(chunks') - j + 1 = Len(chunks) - (i + j - 1) + 1
          /\ chunks'[j] = chunks[i + j - 1]
      <3>1. PICK m \in Nat : m = Len(chunks) /\ i \in 1 .. m /\ Len(chunks') = m - i + 1
        BY <1>3, <1>4
      <3>2. j \in 1 .. m - i + 1
        BY <3>1
      <3>3. i + j - 1 \in 1 .. m /\ (m - i + 1) - j + 1 = m - (i + j - 1) + 1
        BY <3>1, <3>2
      <3>4. chunks'[j] = chunks[i + j - 1]
        BY <1>4, <3>1, <3>2
      <3> QED BY <3>1, <3>3, <3>4
    <2> QED BY <1>7, <2>1 DEF QueueInv
  <1>9. ASSUME NEW j \in 1 .. Len(chunks') - 1
        PROVE  chunks'[j].to = chunks'[j + 1].from
    <2>1. i + j - 1 \in 1 .. Len(chunks) - 1 /\ i + (j + 1) - 1 = (i + j - 1) + 1
          /\ chunks'[j] = chunks[i + j - 1] /\ chunks'[j + 1] = chunks[i + (j + 1) - 1]
      <3>1. PICK m \in Nat : m = Len(chunks) /\ i \in 1 .. m /\ Len(chunks') = m - i + 1
        BY <1>3, <1>4
      <3>2. j \in 1 .. m - i + 1 /\ j + 1 \in 1 .. m - i + 1
        BY <3>1
      <3>3. i + j - 1 \in 1 .. m - 1 /\ i + (j + 1) - 1 = (i + j - 1) + 1
        BY <3>1, <3>2
      <3>4. chunks'[j] = chunks[i + j - 1] /\ chunks'[j + 1] = chunks[i + (j + 1) - 1]
        BY <1>4, <3>1, <3>2
      <3> QED BY <3>1, <3>3, <3>4
    <2> QED BY <2>1 DEF QueueInv
  <1>10. /\ Len(chunks') > 0 /\ chunks'[1] = chunks[i] /\ chunks'[Len(chunks')] = chunks[Len(chunks)]
         /\ Len(chunks') <= Maximum
    <2> DEFINE m == Len(chunks)
    <2>1. m \in Nat /\ i \in 1 .. m
      BY <1>3
    <2> HIDE DEF m
    <2>2. m - i + 1 \in Nat /\ m - i + 1 >= 1 /\ m - i + 1 <= m
      BY <2>1
    <2>3. 1 \in 1 .. m - i + 1 /\ m - i + 1 \in 1 .. m - i + 1
          /\ i + 1 - 1 = i /\ i + (m - i + 1) - 1 = m
      BY <2>1, <2>2
    <2>4. chunks'[1] = chunks[i] /\ chunks'[m - i + 1] = chunks[m]
      BY <1>4, <2>3 DEF m
    <2>5. Len(chunks') = m - i + 1
      BY <1>4 DEF m
    <2>6. m <= Maximum
      BY <1>2 DEF m
    <2>7. Len(chunks') > 0 /\ Len(chunks') <= Maximum
      BY <1>2, <2>1, <2>2, <2>5, <2>6
    <2> QED BY <2>4, <2>5, <2>7 DEF m
  <1>11. chunks'[1].from + offset' = Position + Request /\ Position + Request <= chunks'[1].to
    BY <1>1, <1>3, <1>5, <1>6, <1>10
  <1>12. chunks'[Len(chunks')].to = made'
    BY <1>3, <1>7, <1>10 DEF QueueInv
  <1>13. QueueInv'
    <2>1. chunks' # <<>>
      BY <1>4, <1>10
    <2>2. chunks'[1].from + offset' <= chunks'[1].to
      BY <1>11
    <2> QED BY <1>4, <1>7, <1>8, <1>9, <1>10, <1>12, <2>1, <2>2 DEF QueueInv
  <1>14. Position' = Position + Request
    <2>1. chunks' # <<>>
      BY <1>4, <1>10
    <2> QED BY <1>11, <2>1 DEF Position
  <1> QED BY <1>7, <1>13, <1>14 DEF FillEnough

\* push adds a chunk at the end, and drops the head of a full queue.
LEMMA PushStep ==
  ASSUME QueueInv, NEW n \in 1 .. MaxChunk, Push(n)
  PROVE  QueueInv' /\ made' = made + n /\ heard' = heard /\ Position <= Position'
  <1> DEFINE m == Len(chunks)
             queued == Append(chunks, [from |-> made, to |-> made + n])
             full == Len(queued) > Maximum
  <1>1. chunks \in Seq(Chunk) /\ made \in Nat /\ offset \in Nat /\ Maximum \in Nat \ {0}
        /\ m \in Nat /\ m <= Maximum /\ n \in Nat /\ n > 0 /\ n <= MaxChunk /\ MaxChunk \in Nat
    BY AudioAssumption DEF QueueInv
  <1>2. /\ made' = made + n /\ heard' = heard
        /\ chunks' = IF full THEN Tail(queued) ELSE queued
        /\ offset' = IF full THEN 0 ELSE offset
    BY <1>1 DEF Push
  <1>3. /\ queued \in Seq(Chunk) /\ Len(queued) = m + 1
        /\ \A j \in 1 .. m : queued[j] = chunks[j]
        /\ queued[m + 1] = [from |-> made, to |-> made + n]
    <2>1. [from |-> made, to |-> made + n] \in Chunk
      BY <1>1 DEF Chunk
    <2> QED BY <1>1, <2>1
  <1>4. \A j \in 1 .. m : /\ chunks[j].from \in Nat /\ chunks[j].to \in Nat
                          /\ chunks[j].from < chunks[j].to /\ chunks[j].to <= made
                          /\ made - chunks[j].from <= Hold(m - j + 1)
    <2>1. \A j \in 1 .. m : chunks[j] \in Chunk
      BY <1>1
    <2> QED BY <2>1 DEF QueueInv, Chunk
  <1> HIDE DEF m, queued, full
  \* The queue before a chunk is dropped, from the chunk at place first on.
  <1>5. \A j \in 1 .. m + 1 : /\ queued[j].from \in Nat /\ queued[j].to \in Nat
                              /\ queued[j].from < queued[j].to /\ queued[j].to <= made'
                              /\ made' - queued[j].from <= Hold((m + 1) - j + 1)
    <2> SUFFICES ASSUME NEW j \in 1 .. m + 1
                 PROVE  /\ queued[j].from \in Nat /\ queued[j].to \in Nat
                        /\ queued[j].from < queued[j].to /\ queued[j].to <= made'
                        /\ made' - queued[j].from <= Hold((m + 1) - j + 1)
      OBVIOUS
    <2>1. CASE j \in 1 .. m
      <3>1. m - j + 1 \in Nat /\ (m - j + 1) + 1 = (m + 1) - j + 1
        BY <1>1, <2>1
      <3>2. Hold(m - j + 1) \in Nat /\ Hold((m + 1) - j + 1) = Hold(m - j + 1) + MaxChunk
        BY <3>1, HoldOneMore
      <3>3. /\ queued[j] = chunks[j] /\ chunks[j].from \in Nat /\ chunks[j].to \in Nat
            /\ chunks[j].from < chunks[j].to /\ chunks[j].to <= made
            /\ made - chunks[j].from <= Hold(m - j + 1)
        BY <1>3, <1>4, <2>1
      <3>4. chunks[j].to <= made'
        BY <1>1, <1>2, <3>3
      <3>5. made' - chunks[j].from <= Hold(m - j + 1) + MaxChunk
        BY <1>1, <1>2, <3>2, <3>3
      <3> QED BY <3>2, <3>3, <3>4, <3>5
    <2>2. CASE j = m + 1
      <3>1. (m + 1) - j + 1 = 0 + 1
        BY <1>1, <2>2
      <3>2. Hold(0) \in Nat /\ Hold(0 + 1) = Hold(0) + MaxChunk
        BY HoldOneMore
      <3>3. queued[j].from = made /\ queued[j].to = made + n
        BY <1>3, <2>2
      <3>4. made' - made = n /\ n <= Hold(0 + 1)
        BY <1>1, <1>2, <3>2
      <3>5. made < made' /\ made' \in Nat /\ made' = made + n
        BY <1>1, <1>2
      <3>6. made' - made <= Hold((m + 1) - j + 1)
        BY <3>1, <3>2, <3>4, <1>1
      <3> QED BY <1>1, <3>3, <3>5, <3>6
    <2> QED BY <1>1, <2>1, <2>2
  <1>6. \A j \in 1 .. m : queued[j].to = queued[j + 1].from
    <2> SUFFICES ASSUME NEW j \in 1 .. m PROVE queued[j].to = queued[j + 1].from
      OBVIOUS
    <2>1. CASE j \in 1 .. m - 1
      <3>1. j + 1 \in 1 .. m /\ queued[j] = chunks[j] /\ queued[j + 1] = chunks[j + 1]
        BY <1>1, <1>3, <2>1
      <3>2. chunks[j].to = chunks[j + 1].from
        BY <2>1 DEF QueueInv, m
      <3> QED BY <3>1, <3>2
    <2>2. CASE j = m
      <3>1. m > 0 /\ queued[j] = chunks[m] /\ queued[j + 1].from = made
        BY <1>1, <1>3, <2>2
      <3>2. chunks[m].to = made
        BY <3>1 DEF QueueInv, m
      <3> QED BY <3>1, <3>2
    <2> QED BY <1>1, <2>1, <2>2
  <1>7. queued[m + 1].to = made'
    BY <1>2, <1>3
  <1>8. m > 0 => /\ Position = queued[1].from + offset /\ queued[1].from + offset <= queued[1].to
    <2>1. m > 0 => 1 \in 1 .. m /\ queued[1] = chunks[1]
      BY <1>1, <1>3
    <2> QED BY <2>1, PositionBounds DEF QueueInv, m
  <1>9. m = 0 => /\ Position = made /\ offset = 0 /\ queued[1].from = made
                 /\ queued[1].from + offset <= queued[1].to
    <2> SUFFICES ASSUME m = 0
                 PROVE  /\ Position = made /\ offset = 0 /\ queued[1].from = made
                        /\ queued[1].from + offset <= queued[1].to
      OBVIOUS
    <2>1. chunks = <<>> /\ m + 1 = 1
      BY <1>1 DEF m
    <2>2. Position = made /\ offset = 0
      BY <2>1 DEF Position, QueueInv
    <2>3. queued[1].from = made /\ queued[1].to = made + n
      BY <1>3, <2>1
    <2> QED BY <1>1, <2>2, <2>3
  <1>10. /\ Position = queued[1].from + offset /\ Position <= queued[1].to
         /\ Position \in Nat /\ queued[1].from \in Nat /\ queued[1].to \in Nat
    <2>1. queued[1].from \in Nat /\ queued[1].to \in Nat /\ 1 \in 1 .. m + 1
      BY <1>1, <1>5
    <2>2. m = 0 \/ m > 0
      BY <1>1
    <2>3. Position = queued[1].from + offset /\ Position <= queued[1].to
      BY <1>1, <1>8, <1>9, <2>1, <2>2
    <2> QED BY <2>1, <2>3, PositionBounds DEF Bounds
  <1>11. CASE ~full
    <2>1. chunks' = queued /\ offset' = offset
      BY <1>2, <1>11
    <2>2. Len(chunks') = m + 1 /\ m + 1 <= Maximum /\ chunks' # <<>>
      BY <1>1, <1>3, <1>11, <2>1 DEF full
    <2>3. Position' = Position
      BY <1>10, <2>1, <2>2 DEF Position
    <2>4. /\ \A j \in 1 .. Len(chunks') :
               /\ chunks'[j].from < chunks'[j].to /\ chunks'[j].to <= made'
               /\ made' - chunks'[j].from <= Hold(Len(chunks') - j + 1)
          /\ \A j \in 1 .. Len(chunks') - 1 : chunks'[j].to = chunks'[j + 1].from
          /\ chunks'[Len(chunks')].to = made'
          /\ chunks'[1].from + offset' <= chunks'[1].to
      <3>1. (m + 1) - 1 = m
        BY <1>1
      <3> QED BY <1>5, <1>6, <1>7, <1>10, <2>1, <2>2, <3>1
    <2>5. made' \in Nat /\ offset' \in Nat /\ chunks' \in Seq(Chunk)
      BY <1>1, <1>2, <1>3, <2>1
    <2>6. QueueInv'
      BY <2>2, <2>4, <2>5 DEF QueueInv
    <2> QED BY <1>2, <1>10, <2>3, <2>6
  <1>12. CASE full
    <2>1. chunks' = Tail(queued) /\ offset' = 0
      BY <1>2, <1>12
    <2>2. /\ chunks' \in Seq(Chunk) /\ Len(chunks') = m /\ m >= 1 /\ m <= Maximum
          /\ \A j \in 1 .. m : chunks'[j] = queued[j + 1]
      <3>1. m + 1 > Maximum /\ m >= 1
        BY <1>1, <1>3, <1>12 DEF full
      <3>2. queued \in Seq(Chunk) /\ queued # <<>> /\ Len(queued) = m + 1
        BY <1>1, <1>3
      <3>3. Tail(queued) \in Seq(Chunk) /\ Len(Tail(queued)) = m
            /\ \A j \in 1 .. m : Tail(queued)[j] = queued[j + 1]
        BY <1>1, <3>2
      <3> QED BY <1>1, <2>1, <3>1, <3>3
    <2>3. ASSUME NEW j \in 1 .. Len(chunks')
          PROVE  /\ chunks'[j].from < chunks'[j].to /\ chunks'[j].to <= made'
                 /\ made' - chunks'[j].from <= Hold(Len(chunks') - j + 1)
      <3>1. j + 1 \in 1 .. m + 1 /\ (m + 1) - (j + 1) + 1 = m - j + 1
        BY <1>1, <2>2
      <3> QED BY <1>5, <2>2, <3>1
    <2>4. ASSUME NEW j \in 1 .. Len(chunks') - 1
          PROVE  chunks'[j].to = chunks'[j + 1].from
      <3>1. j + 1 \in 1 .. m /\ j \in 1 .. m
        BY <1>1, <2>2
      <3>2. queued[j + 1].to = queued[(j + 1) + 1].from
        BY <1>6, <3>1
      <3> QED BY <2>2, <3>1, <3>2
    <2>5. /\ chunks'[1] = queued[2] /\ chunks'[m] = queued[m + 1]
          /\ queued[1].to = queued[2].from /\ queued[2].from \in Nat /\ queued[2].from < queued[2].to
          /\ queued[2].to \in Nat
      <3>1. 1 \in 1 .. m /\ m \in 1 .. m /\ 1 + 1 = 2 /\ 2 \in 1 .. m + 1
        BY <1>1, <2>2
      <3> QED BY <1>5, <1>6, <2>2, <3>1
    <2>6. Position' = queued[2].from
      <3>1. chunks' # <<>>
        BY <2>2
      <3>2. Position' = chunks'[1].from + offset'
        BY <3>1 DEF Position
      <3> QED BY <2>1, <2>5, <3>2
    <2>7. made' \in Nat /\ offset' \in Nat
      BY <1>1, <1>2, <2>1
    <2>8. chunks'[1].from + offset' <= chunks'[1].to /\ chunks'[Len(chunks')].to = made'
      BY <1>7, <2>1, <2>2, <2>5
    <2>9. chunks' # <<>>
      BY <2>2
    <2>10. QueueInv'
      BY <2>2, <2>3, <2>4, <2>7, <2>8, <2>9 DEF QueueInv
    <2> QED BY <1>2, <1>10, <2>5, <2>6, <2>10
  <1> QED BY <1>11, <1>12

------------------------------------------------------------------------------
(* The steps of the whole, and the theorems. *)

\* The player starts with an empty ring and an empty queue.
LEMMA InitInv == Init => Inv
  <1>1. RingInit => RingInv /\ written = 0 /\ queued_frames = 0
    BY RingAssumption DEF RingInit, RingInv, RingHoldsLatest, Slots
  <1>2. AudioInit => QueueInv /\ HeardInv /\ made = 0
    <2> SUFFICES ASSUME AudioInit PROVE QueueInv /\ HeardInv /\ made = 0
      OBVIOUS
    <2>1. made = 0 /\ offset = 0 /\ chunks = <<>> /\ chunks \in Seq(Chunk) /\ Len(chunks) = 0
          /\ heard = [from |-> 0, to |-> 0] /\ context = "none" /\ starved = FALSE /\ dropped = FALSE
      BY DEF AudioInit
    <2>2. QueueInv
      BY <2>1, AudioAssumption DEF QueueInv
    <2>3. heard \in Chunk /\ heard.from = 0 /\ heard.to = 0
      BY <2>1 DEF Chunk
    <2>4. heard.from <= heard.to /\ heard.to <= made
      BY <2>1, <2>3
    <2>5. HeardInv
      BY <2>1, <2>3, <2>4 DEF HeardInv
    <2> QED BY <2>1, <2>2, <2>5
  <1> QED BY <1>1, <1>2 DEF Init, Inv

\* What a step does to the sound, in the terms of SoundStream.
Heard(to) == heard' = [from |-> Position, to |-> to]
StreamStep ==
  \/ made' >= made /\ Position <= Position' /\ heard' = heard
  \/ made' = made /\ Position' \in Position .. made /\ Heard(Position')

\* The device, and fast forward, hear or drop what waits.
LEMMA DeviceStep ==
  ASSUME Inv, Clear \/ Start \/ Pause \/ Stop \/ Fill
  PROVE  QueueInv' /\ HeardInv' /\ made' = made /\ StreamStep
  <1>0. /\ QueueInv /\ HeardInv /\ made \in Nat
        /\ Position \in Nat /\ Position <= made /\ Request \in Nat \ {0}
    BY PositionBounds, AudioAssumption DEF Inv, QueueInv, Bounds
  <1>1. CASE Empty /\ context' \in {"none", "running", "suspended"}
    <2>1. QueueInv' /\ made' = made /\ heard' = heard /\ Position' = made
      BY <1>0, <1>1, EmptyStep
    <2>2. HeardInv'
      BY <1>0, <1>1, <2>1 DEF HeardInv, Empty
    <2> QED BY <1>0, <2>1, <2>2 DEF StreamStep
  <1>2. CASE Start
    <2>1. chunks' = chunks /\ offset' = offset /\ made' = made /\ heard' = heard
          /\ starved' = starved /\ dropped' = dropped /\ context' = "running"
      BY <1>2 DEF Start, queueVars
    <2>2. QueueInv' /\ HeardInv' /\ Position' = Position
      BY <1>0, <2>1 DEF QueueInv, HeardInv, Position
    <2> QED BY <1>0, <2>1, <2>2 DEF StreamStep
  <1>3. CASE Fill /\ FillStarved
    <2>1. heard' = [from |-> Position, to |-> made] /\ chunks' = <<>> /\ offset' = 0
          /\ starved' = TRUE /\ context' = context /\ made' = made /\ dropped' = dropped
      BY <1>3 DEF FillStarved
    <2>2. QueueInv' /\ Position' = made
      BY <1>0, <2>1, AudioAssumption DEF QueueInv, Position
    <2>3. HeardInv'
      BY <1>0, <2>1 DEF HeardInv, Chunk
    <2> QED BY <1>0, <2>1, <2>2, <2>3 DEF StreamStep, Heard
  <1>4. CASE Fill /\ FillEnough
    <2>1. /\ QueueInv' /\ made' = made /\ Position' = Position + Request
          /\ Position + Request <= made /\ heard' = [from |-> Position, to |-> Position + Request]
      BY <1>0, <1>4, FillEnoughStep
    <2>2. context' = context /\ starved' = starved /\ dropped' = dropped
      BY <1>4 DEF FillEnough
    <2>3. HeardInv'
      BY <1>0, <2>1, <2>2 DEF HeardInv, Chunk
    <2>4. Position' \in Position .. made
      BY <1>0, <2>1
    <2> QED BY <2>1, <2>3, <2>4 DEF StreamStep, Heard
  <1>5. Clear \/ Pause \/ Stop => Empty /\ context' \in {"none", "running", "suspended"}
    BY <1>0 DEF Clear, Pause, Stop, HeardInv
  <1>6. Fill => FillStarved \/ FillEnough
    BY DEF Fill
  <1> QED BY <1>1, <1>2, <1>3, <1>4, <1>5, <1>6

\* The end of a tick moves frames from the ring to the queue.
LEMMA QueueStep ==
  ASSUME Inv, Queue
  PROVE  Inv' /\ StreamStep
  <1> DEFINE n == Smaller(queued_frames, MaxChunk)
  <1>1. MaxChunk \in Nat \ {0} /\ RingInv /\ QueueInv /\ HeardInv /\ made + queued_frames <= written
        /\ made \in Nat /\ written \in Nat /\ queued_frames \in Nat /\ Position \in Nat
    BY AudioAssumption, PositionBounds DEF Bounds, Inv, QueueInv, RingInv, RingHoldsLatest
  <1>2. RingInv' /\ written' = written /\ queued_frames' = queued_frames - n /\ n \in 0 .. MaxChunk
    BY <1>1, RingReadStep DEF Queue
  <1>3. Push(n)
    BY DEF Queue
  <1> HIDE DEF n
  <1>4. CASE n = 0
    <2>1. audioVars' = audioVars
      BY <1>3, <1>4 DEF Push
    <2>2. chunks' = chunks /\ offset' = offset /\ made' = made /\ heard' = heard
          /\ starved' = starved /\ dropped' = dropped /\ context' = context
      BY <2>1 DEF audioVars, queueVars
    <2>3. QueueInv' /\ HeardInv' /\ Position' = Position
      BY <1>1, <2>2 DEF QueueInv, HeardInv, Position
    <2>4. made' + queued_frames' <= written'
      BY <1>1, <1>2, <1>4, <2>2
    <2> QED BY <1>1, <1>2, <2>2, <2>3, <2>4 DEF Inv, StreamStep
  <1>5. CASE n # 0
    <2>1. n \in 1 .. MaxChunk
      BY <1>2, <1>5
    <2>2. QueueInv' /\ made' = made + n /\ heard' = heard /\ Position <= Position'
      BY <1>1, <1>3, <2>1, PushStep
    <2>3. context' = context /\ starved' = starved /\ dropped' \in BOOLEAN
      BY <1>1, <1>3, <1>5 DEF Push, HeardInv
    <2>4. heard.to \in Nat
      BY <1>1 DEF HeardInv, Chunk
    <2>5. heard.to <= made'
      BY <1>1, <2>1, <2>2, <2>4 DEF HeardInv
    <2>6. HeardInv'
      BY <1>1, <2>2, <2>3, <2>5 DEF HeardInv
    <2>7. made' + queued_frames' <= written' /\ made' >= made
      BY <1>1, <1>2, <2>1, <2>2
    <2> QED BY <1>2, <2>2, <2>6, <2>7 DEF Inv, StreamStep
  <1> QED BY <1>4, <1>5

\* Every step keeps the invariant, and is a step of the stream or leaves it alone.
LEMMA NextInv == Inv /\ [Next]_vars => Inv' /\ (StreamStep \/ UNCHANGED <<made, Position, heard>>)
  <1> SUFFICES ASSUME Inv, [Next]_vars
               PROVE  Inv' /\ (StreamStep \/ UNCHANGED <<made, Position, heard>>)
    OBVIOUS
  <1>0. RingInv /\ QueueInv /\ HeardInv /\ made + queued_frames <= written
        /\ made \in Nat /\ written \in Nat /\ queued_frames \in Nat
    BY DEF Inv, QueueInv, RingInv, RingHoldsLatest
  <1>1. UNCHANGED audioVars => QueueInv' /\ HeardInv' /\ made' = made /\ UNCHANGED <<made, Position, heard>>
    BY <1>0 DEF audioVars, queueVars, QueueInv, HeardInv, Position
  <1>2. UNCHANGED ringVars => RingInv' /\ written' = written /\ queued_frames' = queued_frames
    BY <1>0 DEF ringVars, RingInv, RingHoldsLatest
  <1>3. ASSUME NEW n \in FrameSizes, RunFrame(n)
        PROVE  Inv' /\ UNCHANGED <<made, Position, heard>>
    <2>1. n \in Nat \ {0}
      BY SoundAssumption
    <2>2. RingInv' /\ written' = written + n /\ queued_frames' <= queued_frames + n
      BY <1>0, <1>3, <2>1, RingWriteStep DEF RunFrame
    <2>3. QueueInv' /\ HeardInv' /\ made' = made /\ UNCHANGED <<made, Position, heard>>
      BY <1>1, <1>3 DEF RunFrame
    <2>4. queued_frames' \in Nat
      BY <2>2, RingAssumption DEF RingInv, RingHoldsLatest
    <2>5. made' + queued_frames' <= written'
      <3>0. n \in Nat
        BY <2>1
      <3>1. made' = made
        BY <2>3
      <3>2. made \in Nat /\ written \in Nat /\ queued_frames \in Nat /\ made + queued_frames <= written
        BY <1>0
      <3>3. queued_frames' <= queued_frames + n
        BY <2>2
      <3>4. made + queued_frames' <= written + n
        BY <2>4, <3>0, <3>2, <3>3, MoreMade
      <3> QED BY <2>2, <3>1, <3>4
    <2> QED BY <2>2, <2>3, <2>5 DEF Inv
  <1>4. CASE Queue
    BY <1>4, QueueStep
  <1>5. CASE FastForward
    <2>1. QueueInv' /\ HeardInv' /\ made' = made /\ StreamStep
      BY <1>5, DeviceStep DEF FastForward
    <2> QED BY <1>0, <1>2, <1>5, <2>1 DEF Inv, FastForward
  <1>6. CASE ResetCore
    <2>1. RingInv' /\ written' = written /\ queued_frames' = 0
      BY <1>0, <1>6, RingClearStep DEF ResetCore
    <2>2. QueueInv' /\ HeardInv' /\ made' = made /\ UNCHANGED <<made, Position, heard>>
      BY <1>1, <1>6 DEF ResetCore
    <2>3. made' + queued_frames' <= written'
      BY <1>0, <2>1, <2>2
    <2> QED BY <2>1, <2>2, <2>3 DEF Inv
  <1>7. CASE Device
    <2>1. QueueInv' /\ HeardInv' /\ made' = made /\ StreamStep
      BY <1>7, DeviceStep DEF Device
    <2> QED BY <1>0, <1>2, <1>7, <2>1 DEF Inv, Device
  <1>8. CASE UNCHANGED vars
    <2>1. UNCHANGED ringVars /\ UNCHANGED audioVars
      BY <1>8 DEF vars
    <2> QED BY <1>0, <1>1, <1>2, <2>1 DEF Inv
  <1> QED BY <1>3, <1>4, <1>5, <1>6, <1>7, <1>8 DEF Next

\* The samples of the ring and the shape of the queue, for rings and queues of every size.
THEOREM SoundTypes == Spec => []TypeOK
  <1>1. Inv => TypeOK
    <2> SUFFICES ASSUME Inv PROVE TypeOK
      OBVIOUS
    <2>1. RingInv /\ QueueInv /\ HeardInv /\ made + queued_frames <= written /\ queued_frames \in Nat
          /\ made \in Nat /\ written \in Nat
      BY RingAssumption DEF Inv, RingInv, QueueInv, RingHoldsLatest
    <2>2. made \in 0 .. written
      BY <2>1
    <2>3. chunks \in Seq([from : Nat, to : Nat]) /\ DOMAIN chunks = 1 .. Len(chunks)
      BY <2>1 DEF QueueInv, Chunk
    <2> QED BY <2>1, <2>2, <2>3 DEF TypeOK, RingInv, QueueInv, HeardInv
  <1> QED BY <1>1, InitInv, NextInv, PTL DEF Spec

\* However the ring has wrapped, overflowed, been read in part or been emptied, it holds the
\* frames the core made last, in order.
THEOREM RingCorrect == Spec => []RingHoldsLatest
  <1>1. Inv => RingHoldsLatest
    BY DEF Inv, RingInv
  <1> QED BY <1>1, InitInv, NextInv, PTL DEF Spec

\* The ring, the queue and the device implement SoundStream: each frame is heard at most once
\* and in order, and no more than Maximum chunks wait.
THEOREM SoundRefines == Spec => EachFrameOnce
  <1>1. Init => Stream!Init
    BY DEF Init, AudioInit, Position, Stream!Init
  <1>2. (QueueInv => Bounds)'
    BY PositionBounds, PTL
  <1>3. Inv /\ [Next]_vars => [Stream!Next]_(Stream!streamVars)
    <2> SUFFICES ASSUME Inv, [Next]_vars
                 PROVE  [Stream!Next]_(Stream!streamVars)
      OBVIOUS
    <2>1. Inv' /\ (StreamStep \/ UNCHANGED <<made, Position, heard>>)
      BY NextInv
    <2>2. made' \in Nat /\ Position \in Nat /\ Position' \in Nat /\ Position' <= made'
          /\ made' - Position' <= Maximum * MaxChunk
      <3>1. QueueInv /\ QueueInv'
        BY <2>1 DEF Inv
      <3>2. Bounds /\ Bounds'
        BY <3>1, <1>2, PositionBounds
      <3> QED BY <3>1, <3>2 DEF QueueInv, Bounds
    <2>3. CASE made' >= made /\ Position <= Position' /\ heard' = heard
      <3>1. Position' \in Position .. made'
        BY <2>2, <2>3
      <3> QED BY <2>2, <2>3, <3>1 DEF Stream!Next, Stream!Produce
    <2>4. CASE made' = made /\ Position' \in Position .. made /\ Heard(Position')
      BY <2>4 DEF Heard, Stream!Next, Stream!Hear
    <2>5. CASE UNCHANGED <<made, Position, heard>>
      BY <2>5 DEF Stream!streamVars
    <2> QED BY <2>1, <2>3, <2>4, <2>5 DEF StreamStep
  <1> QED BY <1>1, <1>3, InitInv, NextInv, PTL DEF Spec, EachFrameOnce, Stream!Spec
=============================================================================
