---------------------------- MODULE PlaybackProofs ----------------------------
(***************************************************************************)
(* Proofs about the PCM path, for every capacity, stream, size of call,      *)
(* prefill and packet.  Of the ring: with the steps of the two tasks         *)
(* interleaved in any way, no unread frame is written over and every read    *)
(* hands out the oldest frames in order; and so too in the hands of the two   *)
(* tasks that use it.  Of the tasks: what the playback task decides on an old *)
(* snapshot is right when it acts on it, and the stream it plays has no gap   *)
(* but the frames it sheds.                                                  *)
(***************************************************************************)
EXTENDS Playback, TLAPS

-----------------------------------------------------------------------------
(* Arithmetic of the ring.                                                  *)

LEMMA StepType ==
  \A i \in Cell, k \in 0 .. Capacity : Step(i, k) \in Cell
BY RingAssumption DEF Step, Cell

LEMMA AvailableType ==
  ASSUME head \in Cell, tail \in Cell
  PROVE  /\ Available \in 0 .. Capacity - 1
         /\ FreeSpace \in 0 .. Capacity - 1
         /\ Available + FreeSpace = Capacity - 1
BY RingAssumption DEF Available, FreeSpace, Cell

LEMMA RunType ==
  ASSUME NEW i \in Cell, NEW k \in Nat
  PROVE  Run(i, k) \in 0 .. k /\ Run(i, k) <= Capacity - i
BY RingAssumption DEF Run, Smaller, Cell

(* A cell within the grant of a write is not an unread one. *)
LEMMA GrantIsFree ==
  ASSUME head \in Cell, tail \in Cell,
         NEW k \in 0 .. Available - 1, NEW j \in 0 .. FreeSpace - 1
  PROVE  Step(tail, k) # Step(head, j)
BY RingAssumption DEF Available, FreeSpace, Step, Cell

LEMMA InitRingIInv == RingInit => RingIInv
<1> SUFFICES ASSUME RingInit PROVE RingIInv
  OBVIOUS
<1>1. RingTypeOK
  BY RingAssumption DEF RingInit, RingTypeOK, Cell, NoFrame
<1>2. Available = 0 /\ CopiedIn = 0 /\ CopiedOut = 0 /\ FreeSpace = Capacity - 1
  BY RingAssumption DEF RingInit, Available, FreeSpace, CopiedIn, CopiedOut
<1>3. IndicesExact /\ GrantsBounded
  BY <1>2, RingAssumption DEF RingInit, IndicesExact, GrantsBounded
<1>4. UnreadIntact /\ CopiedAhead /\ ReadInOrder
  BY <1>2 DEF UnreadIntact, CopiedAhead, ReadInOrder
<1> QED BY <1>1, <1>3, <1>4 DEF RingIInv

-----------------------------------------------------------------------------
(* The producer's steps.                                                    *)

LEMMA WriteBeginStep ==
  ASSUME RingIInv, NEW n \in 1 .. WriteMax, WriteBegin(n)
  PROVE  RingIInv'
<1>1. /\ RingTypeOK /\ IndicesExact /\ GrantsBounded
      /\ UnreadIntact /\ ReadInOrder
  BY DEF RingIInv
<1>2. FreeSpace \in Nat /\ Available \in Nat
  BY <1>1, AvailableType DEF RingTypeOK
<1>3. /\ UNCHANGED <<storage, head, tail, rpc, rn, out, written, consumed>>
      /\ wn' \in Nat /\ wn' <= FreeSpace /\ wpc' = "copy"
  BY <1>2, RingAssumption DEF WriteBegin, consumer, Smaller
<1>4. RingTypeOK'
  BY <1>1, <1>3 DEF RingTypeOK
<1>5. IndicesExact' /\ GrantsBounded'
  BY <1>1, <1>3 DEF IndicesExact, GrantsBounded, Available, FreeSpace
<1>6. UnreadIntact' /\ ReadInOrder'
  BY <1>1, <1>3 DEF UnreadIntact, ReadInOrder, Available, CopiedOut, Run, Step
<1>7. CopiedAhead'
  BY <1>3 DEF CopiedAhead, CopiedIn
<1> QED BY <1>4, <1>5, <1>6, <1>7 DEF RingIInv

(* A copy step leaves every unread frame alone and adds to those ahead. *)
LEMMA CopyInStep ==
  ASSUME RingIInv, WriteCopy \/ WriteWrap
  PROVE  RingIInv'
<1> DEFINE r == Run(head, wn)
<1>1. /\ RingTypeOK /\ IndicesExact /\ GrantsBounded
      /\ UnreadIntact /\ ReadInOrder /\ CopiedAhead
  BY DEF RingIInv
<1>2. /\ head \in Cell /\ tail \in Cell /\ wn \in Nat /\ written \in Nat
      /\ wn <= FreeSpace /\ storage \in [Cell -> Int]
      /\ Available \in 0 .. Capacity - 1 /\ FreeSpace \in 0 .. Capacity - 1
      /\ wn < Capacity
  BY <1>1, AvailableType, RingAssumption DEF RingTypeOK, IndicesExact
<1>r. /\ r \in Nat /\ r <= wn /\ r <= Capacity - head
      /\ r = wn \/ r = Capacity - head
  BY <1>2, RingAssumption DEF Run, Smaller, Cell
<1>3. /\ UNCHANGED <<head, tail, wn, rpc, rn, out, written, consumed>>
      /\ \/ wpc = "copy" /\ wpc' = "wrap" /\ wn > r
         \/ wpc = "copy" /\ wpc' = "publish" /\ ~(wn > r)
         \/ wpc = "wrap" /\ wpc' = "publish"
  BY DEF WriteCopy, WriteWrap, consumer
<1>4. /\ WriteCopy => storage' = [c \in Cell |->
             IF head <= c /\ c < head + r THEN written + (c - head) ELSE storage[c]]
      /\ WriteWrap => storage' = [c \in Cell |->
             IF c < wn - r THEN written + r + c ELSE storage[c]]
      /\ WriteCopy <=> wpc = "copy"
      /\ WriteWrap <=> wpc = "wrap"
  BY DEF WriteCopy, WriteWrap
<1>5. CopiedIn' = IF wpc' = "wrap" THEN r ELSE wn
  BY <1>3 DEF CopiedIn, Run, Smaller
<1>6. CopiedIn = IF wpc = "wrap" THEN r ELSE 0
  BY <1>3 DEF CopiedIn
<1> HIDE DEF r
<1>7. storage' \in [Cell -> Int]
  <2>1. CASE WriteCopy
    BY <1>2, <1>4, <1>r, <2>1 DEF Cell
  <2>2. CASE WriteWrap
    BY <1>2, <1>4, <1>r, <2>2 DEF Cell
  <2> QED BY <2>1, <2>2
<1>8. ASSUME NEW k \in 0 .. Available - 1
      PROVE  storage'[Step(tail, k)] = storage[Step(tail, k)]
  <2> DEFINE c == Step(tail, k)
  <2>1. c \in Cell
    BY <1>2, StepType, RingAssumption
  <2>2. \A j \in 0 .. wn - 1 : c # Step(head, j)
    BY <1>2, GrantIsFree
  <2> HIDE DEF c
  <2>3. ~(head <= c /\ c < head + r)
    <3> SUFFICES ASSUME head <= c, c < head + r PROVE FALSE
      OBVIOUS
    <3>1. c - head \in 0 .. wn - 1
      BY <1>2, <1>r, <2>1, RingAssumption DEF Cell
    <3>2. Step(head, c - head) = c
      BY <1>2, <2>1, RingAssumption DEF Step, Cell
    <3> QED BY <3>1, <3>2, <2>2
  <2>4. ~(c < wn - r)
    <3> SUFFICES ASSUME c < wn - r PROVE FALSE
      OBVIOUS
    <3>1. r = Capacity - head
      BY <1>2, <1>r, <2>1, RingAssumption DEF Cell
    <3>2. c + Capacity - head \in 0 .. wn - 1
      BY <1>2, <2>1, <3>1, RingAssumption DEF Cell
    <3>3. Step(head, c + Capacity - head) = c
      BY <1>2, <2>1, RingAssumption DEF Step, Cell
    <3> QED BY <3>2, <3>3, <2>2
  <2>5. storage'[c] = storage[c]
    <3>1. CASE WriteCopy  BY <3>1, <1>4, <2>1, <2>3
    <3>2. CASE WriteWrap  BY <3>2, <1>4, <2>1, <2>4
    <3> QED BY <3>1, <3>2
  <2> QED BY <2>5 DEF c
<1>9. ASSUME NEW k \in 0 .. CopiedIn' - 1
      PROVE  storage'[Step(head, k)] = written + k
  <2>1. k \in 0 .. wn - 1 /\ Step(head, k) \in Cell
    BY <1>2, <1>r, <1>5, RingAssumption DEF Step, Cell
  <2>2. CASE k < r
    <3>1. Step(head, k) = head + k
      BY <1>2, <1>r, <2>1, <2>2, RingAssumption DEF Step, Cell
    <3>2. CASE WriteCopy
      <4>1. head <= head + k /\ head + k < head + r /\ (head + k) - head = k
        BY <1>2, <1>r, <2>1, <2>2 DEF Cell
      <4> QED BY <1>4, <2>1, <3>1, <3>2, <4>1
    <3>3. CASE WriteWrap
      <4>1. storage[Step(head, k)] = written + k
        BY <1>1, <1>4, <1>6, <1>r, <2>1, <2>2, <3>3 DEF CopiedAhead
      <4>2. ~(head + k < wn - r)
        BY <1>2, <1>r, <2>1, <2>2, RingAssumption DEF Cell
      <4> QED BY <1>4, <2>1, <3>1, <3>3, <4>1, <4>2
    <3> QED BY <3>2, <3>3
  <2>3. CASE ~(k < r)
    <3>1. r = Capacity - head /\ wn > r
      BY <1>r, <1>2, <2>1, <2>3
    <3>2. Step(head, k) = k - r /\ k - r < wn - r
      BY <1>2, <1>r, <2>1, <2>3, <3>1, RingAssumption DEF Step, Cell
    <3>3. WriteWrap
      BY <1>3, <1>4, <1>5, <1>r, <2>3, <3>1
    <3>4. written + r + (k - r) = written + k
      BY <1>2, <1>r, <2>1
    <3> QED BY <1>4, <2>1, <3>2, <3>3, <3>4
  <2> QED BY <2>2, <2>3
<1>10. RingTypeOK'
  BY <1>1, <1>3, <1>7 DEF RingTypeOK
<1>11. IndicesExact' /\ GrantsBounded'
  BY <1>1, <1>3 DEF IndicesExact, GrantsBounded, Available, FreeSpace
<1>12. UnreadIntact' /\ ReadInOrder'
  BY <1>1, <1>3, <1>8 DEF UnreadIntact, ReadInOrder, Available, CopiedOut, Run, Step
<1>13. CopiedAhead'
  BY <1>3, <1>9 DEF CopiedAhead, Step
<1> QED BY <1>10, <1>11, <1>12, <1>13 DEF RingIInv

(* Publishing turns the frames ahead into unread ones. *)
LEMMA WritePublishStep ==
  ASSUME RingIInv, WritePublish
  PROVE  RingIInv'
<1>1. /\ RingTypeOK /\ IndicesExact /\ GrantsBounded
      /\ UnreadIntact /\ ReadInOrder /\ CopiedAhead
  BY DEF RingIInv
<1>2. /\ head \in Cell /\ tail \in Cell /\ wn \in Nat /\ written \in Nat
      /\ consumed \in Nat /\ rn \in Nat
      /\ wn <= FreeSpace /\ Available = written - consumed /\ rn <= Available
      /\ Available \in 0 .. Capacity - 1 /\ FreeSpace = Capacity - 1 - Available
  BY <1>1, AvailableType DEF RingTypeOK, IndicesExact, FreeSpace
<1>3. /\ UNCHANGED <<storage, tail, rpc, rn, out, consumed>>
      /\ head' = Step(head, wn) /\ written' = written + wn
      /\ wpc = "publish" /\ wpc' = "idle" /\ wn' = 0
  BY DEF WritePublish, consumer
<1>4. head' \in Cell /\ Available' = Available + wn
      /\ Available' \in Nat /\ FreeSpace' \in Nat
  BY <1>2, <1>3, RingAssumption DEF Step, Cell, Available, FreeSpace
<1>5. RingTypeOK'
  BY <1>1, <1>2, <1>3, <1>4 DEF RingTypeOK
<1>6. IndicesExact' /\ GrantsBounded'
  BY <1>1, <1>2, <1>3, <1>4 DEF IndicesExact, GrantsBounded
<1>7. UnreadIntact'
  <2> SUFFICES ASSUME NEW k \in 0 .. (Available + wn) - 1
               PROVE  storage[Step(tail, k)] = consumed + k
    BY <1>3, <1>4 DEF UnreadIntact, Step
  <2>1. CASE k < Available
    BY <1>1, <1>2, <2>1 DEF UnreadIntact
  <2>2. CASE ~(k < Available)
    <3>1. k - Available \in 0 .. wn - 1
      BY <1>2, <2>2
    <3>2. Step(tail, k) = Step(head, k - Available)
      BY <1>2, <2>2, RingAssumption DEF Step, Cell, Available
    <3>3. storage[Step(head, k - Available)] = written + (k - Available)
      BY <1>1, <1>3, <3>1 DEF CopiedAhead, CopiedIn
    <3> QED BY <1>2, <3>2, <3>3
  <2> QED BY <2>1, <2>2
<1>8. CopiedAhead' /\ ReadInOrder'
  BY <1>1, <1>3 DEF CopiedAhead, CopiedIn, ReadInOrder, CopiedOut, Run
<1> QED BY <1>5, <1>6, <1>7, <1>8 DEF RingIInv

-----------------------------------------------------------------------------
(* The consumer's steps.                                                    *)

LEMMA ReadBeginStep ==
  ASSUME RingIInv, NEW n \in 1 .. ReadMax, ReadBegin(n)
  PROVE  RingIInv'
<1>1. /\ RingTypeOK /\ IndicesExact /\ GrantsBounded
      /\ UnreadIntact /\ CopiedAhead
  BY DEF RingIInv
<1>2. Available \in Nat
  BY <1>1, AvailableType DEF RingTypeOK
<1>3. /\ UNCHANGED <<storage, head, tail, wpc, wn, out, written, consumed>>
      /\ rn' \in Nat /\ rn' <= Available /\ rn' <= ReadMax /\ rpc' = "copy"
  BY <1>2, RingAssumption DEF ReadBegin, producer, Smaller
<1>4. RingTypeOK'
  BY <1>1, <1>3 DEF RingTypeOK
<1>5. IndicesExact' /\ GrantsBounded'
  BY <1>1, <1>3 DEF IndicesExact, GrantsBounded, Available, FreeSpace
<1>6. UnreadIntact' /\ CopiedAhead'
  BY <1>1, <1>3 DEF UnreadIntact, CopiedAhead, Available, CopiedIn, Run, Step
<1>7. ReadInOrder'
  BY <1>3 DEF ReadInOrder, CopiedOut
<1> QED BY <1>4, <1>5, <1>6, <1>7 DEF RingIInv

(* A copy step hands out unread frames, which are intact. *)
LEMMA CopyOutStep ==
  ASSUME RingIInv, ReadCopy \/ ReadWrap
  PROVE  RingIInv'
<1> DEFINE r == Run(tail, rn)
           Offset == 0 .. ReadMax - 1
<1>1. /\ RingTypeOK /\ IndicesExact /\ GrantsBounded
      /\ UnreadIntact /\ ReadInOrder /\ CopiedAhead
  BY DEF RingIInv
<1>2. /\ head \in Cell /\ tail \in Cell /\ rn \in Nat /\ consumed \in Nat
      /\ rn <= Available /\ rn <= ReadMax
      /\ storage \in [Cell -> Int] /\ out \in [Offset -> Int]
      /\ Available \in 0 .. Capacity - 1
  BY <1>1, AvailableType DEF RingTypeOK, IndicesExact, GrantsBounded
<1>r. /\ r \in Nat /\ r <= rn /\ r <= Capacity - tail
      /\ r = rn \/ r = Capacity - tail
  BY <1>2, RingAssumption DEF Run, Smaller, Cell
<1>3. /\ UNCHANGED <<storage, head, tail, wpc, wn, rn, written, consumed>>
      /\ \/ rpc = "copy" /\ rpc' = "wrap" /\ rn > r
         \/ rpc = "copy" /\ rpc' = "publish" /\ ~(rn > r)
         \/ rpc = "wrap" /\ rpc' = "publish"
  BY DEF ReadCopy, ReadWrap, producer
<1>4. /\ ReadCopy => out' = [k \in Offset |->
             IF k < r THEN storage[tail + k] ELSE out[k]]
      /\ ReadWrap => out' = [k \in Offset |->
             IF r <= k /\ k < rn THEN storage[k - r] ELSE out[k]]
      /\ ReadCopy <=> rpc = "copy"
      /\ ReadWrap <=> rpc = "wrap"
  BY DEF ReadCopy, ReadWrap
<1>5. CopiedOut' = IF rpc' = "wrap" THEN r ELSE rn
  BY <1>3 DEF CopiedOut, Run, Smaller
<1>6. CopiedOut = IF rpc = "wrap" THEN r ELSE 0
  BY <1>3 DEF CopiedOut
<1> HIDE DEF r, Offset
<1>7. ASSUME NEW k \in 0 .. rn - 1
      PROVE  /\ k \in Offset /\ storage[Step(tail, k)] = consumed + k
             /\ k < r => Step(tail, k) = tail + k
             /\ ~(k < r) => Step(tail, k) = k - r
  <2>1. k \in Offset  BY <1>2, RingAssumption DEF Offset
  <2>2. storage[Step(tail, k)] = consumed + k
    BY <1>1, <1>2 DEF UnreadIntact
  <2>3. /\ k < r => Step(tail, k) = tail + k
        /\ ~(k < r) => Step(tail, k) = k - r
    BY <1>2, <1>r, RingAssumption DEF Step, Cell
  <2> QED BY <2>1, <2>2, <2>3
<1>8. out' \in [Offset -> Int]
  <2>1. CASE ReadCopy
    <3>1. \A k \in Offset : k < r => tail + k \in Cell
      BY <1>2, <1>r, RingAssumption DEF Cell, Offset
    <3> QED BY <1>2, <1>4, <2>1, <3>1
  <2>2. CASE ReadWrap
    <3>1. \A k \in Offset : r <= k /\ k < rn => k - r \in Cell
      BY <1>2, <1>r, RingAssumption DEF Cell, Offset
    <3> QED BY <1>2, <1>4, <2>2, <3>1
  <2> QED BY <2>1, <2>2
<1>9. ASSUME NEW k \in 0 .. CopiedOut' - 1
      PROVE  out'[k] = consumed + k
  <2>1. k \in 0 .. rn - 1
    BY <1>2, <1>5, <1>r
  <2>a. /\ k \in Offset /\ storage[Step(tail, k)] = consumed + k
        /\ k < r => Step(tail, k) = tail + k
        /\ ~(k < r) => Step(tail, k) = k - r
    BY <1>7, <2>1
  <2>2. CASE ReadCopy
    <3>1. k < r
      BY <1>3, <1>4, <1>5, <1>r, <1>2, <2>1, <2>2
    <3> QED BY <1>4, <2>a, <2>2, <3>1
  <2>3. CASE ReadWrap
    <3>1. CASE k < r
      <4>1. out[k] = consumed + k
        BY <1>1, <1>4, <1>6, <1>r, <2>1, <2>3, <3>1 DEF ReadInOrder
      <4>2. ~(r <= k)  BY <1>r, <2>1, <3>1
      <4> QED BY <1>4, <2>a, <2>3, <4>1, <4>2
    <3>2. CASE ~(k < r)
      <4>1. r <= k /\ k < rn  BY <1>2, <1>r, <2>1, <3>2
      <4> QED BY <1>4, <2>a, <2>3, <3>2, <4>1
    <3> QED BY <3>1, <3>2
  <2> QED BY <2>2, <2>3
<1>10. RingTypeOK'
  BY <1>1, <1>3, <1>8 DEF RingTypeOK, Offset
<1>11. IndicesExact' /\ GrantsBounded'
  BY <1>1, <1>3 DEF IndicesExact, GrantsBounded, Available, FreeSpace
<1>12. UnreadIntact' /\ CopiedAhead'
  BY <1>1, <1>3 DEF UnreadIntact, CopiedAhead, Available, CopiedIn, Run, Step
<1>13. ReadInOrder'
  BY <1>3, <1>9 DEF ReadInOrder
<1> QED BY <1>10, <1>11, <1>12, <1>13 DEF RingIInv

(* Giving m of the oldest frames back. *)
LEMMA AdvanceTail ==
  ASSUME RingIInv, NEW m \in Nat, m <= Available,
         tail' = Step(tail, m), consumed' = consumed + m,
         UNCHANGED <<storage, head, wpc, wn, written>>
  PROVE  /\ tail' \in Cell /\ consumed' \in Nat
         /\ Available' = Available - m
         /\ Available' = written' - consumed' /\ wn' <= FreeSpace'
         /\ UnreadIntact' /\ CopiedAhead'
<1>1. /\ head \in Cell /\ tail \in Cell /\ wn \in Nat /\ written \in Nat
      /\ consumed \in Nat /\ Available = written - consumed /\ wn <= FreeSpace
      /\ Available \in 0 .. Capacity - 1 /\ FreeSpace = Capacity - 1 - Available
  BY AvailableType DEF RingIInv, RingTypeOK, IndicesExact, FreeSpace
<1>2. tail' \in Cell /\ Available' = Available - m
  BY <1>1, RingAssumption DEF Step, Cell, Available
<1>3. FreeSpace' = FreeSpace + m
  BY <1>1, <1>2, RingAssumption DEF FreeSpace
<1>4. UnreadIntact'
  <2> SUFFICES ASSUME NEW k \in 0 .. (Available - m) - 1
               PROVE  storage[Step(tail', k)] = (consumed + m) + k
    BY <1>2 DEF UnreadIntact, Step
  <2>1. k + m \in 0 .. Available - 1 /\ k \in Nat
    BY <1>1
  <2>2. Step(tail', k) = Step(tail, k + m)
    BY <1>1, <2>1, RingAssumption DEF Step, Cell
  <2>3. storage[Step(tail, k + m)] = consumed + (k + m)
    BY <2>1 DEF RingIInv, UnreadIntact
  <2> QED BY <1>1, <2>1, <2>2, <2>3
<1>5. CopiedAhead'
  BY DEF RingIInv, CopiedAhead, CopiedIn, Run, Step
<1> QED BY <1>1, <1>2, <1>3, <1>4, <1>5

LEMMA ReadPublishStep ==
  ASSUME RingIInv, ReadPublish
  PROVE  RingIInv'
<1>1. /\ RingTypeOK /\ IndicesExact /\ GrantsBounded /\ rn \in Nat /\ rn <= Available
  BY DEF RingIInv, RingTypeOK, IndicesExact
<1>2. /\ UNCHANGED <<storage, head, wpc, wn, written>>
      /\ tail' = Step(tail, rn) /\ consumed' = consumed + rn
      /\ rpc' = "idle" /\ rn' = 0 /\ out' = [k \in 0 .. ReadMax - 1 |-> NoFrame]
  BY DEF ReadPublish, producer
<1>3. /\ tail' \in Cell /\ consumed' \in Nat
      /\ Available' = Available - rn
      /\ Available' = written' - consumed' /\ wn' <= FreeSpace'
      /\ UnreadIntact' /\ CopiedAhead'
  BY <1>1, <1>2, AdvanceTail
<1>4. RingTypeOK'
  BY <1>1, <1>2, <1>3 DEF RingTypeOK, NoFrame
<1>5. Available \in Nat
  BY <1>1, AvailableType DEF RingTypeOK
<1>6. IndicesExact' /\ GrantsBounded'
  BY <1>1, <1>2, <1>3, <1>5, RingAssumption DEF IndicesExact, GrantsBounded
<1>7. ReadInOrder'
  BY <1>2 DEF ReadInOrder, CopiedOut
<1> QED BY <1>3, <1>4, <1>6, <1>7 DEF RingIInv

LEMMA DropStep ==
  ASSUME RingIInv, Drop
  PROVE  RingIInv'
<1>1. /\ RingTypeOK /\ IndicesExact /\ GrantsBounded /\ ReadInOrder
  BY DEF RingIInv
<1>2. /\ UNCHANGED <<storage, head, wpc, wn, rpc, rn, out, written>>
      /\ tail' = Step(tail, 1) /\ consumed' = consumed + 1
      /\ rpc = "idle" /\ Available > 0
  BY DEF Drop, producer, consumer
<1>3. Available \in Nat
  BY <1>1, AvailableType DEF RingTypeOK
<1>4. 1 <= Available
  BY <1>2, <1>3
<1>5. /\ tail' \in Cell /\ consumed' \in Nat
      /\ Available' = Available - 1
      /\ Available' = written' - consumed' /\ wn' <= FreeSpace'
      /\ UnreadIntact' /\ CopiedAhead'
  BY <1>2, <1>4, AdvanceTail
<1>6. RingTypeOK'
  BY <1>1, <1>2, <1>5 DEF RingTypeOK
<1>7. rn = 0
  BY <1>1, <1>2 DEF GrantsBounded
<1>8. IndicesExact' /\ GrantsBounded'
  BY <1>1, <1>2, <1>3, <1>4, <1>5, <1>7 DEF IndicesExact, GrantsBounded
<1>9. ReadInOrder'
  BY <1>2 DEF ReadInOrder, CopiedOut
<1> QED BY <1>5, <1>6, <1>8, <1>9 DEF RingIInv

-----------------------------------------------------------------------------
LEMMA NextRingIInv == RingIInv /\ [RingNext]_ringVars => RingIInv'
<1> SUFFICES ASSUME RingIInv, [RingNext]_ringVars PROVE RingIInv'
  OBVIOUS
<1>1. ASSUME NEW n \in 1 .. WriteMax, WriteBegin(n) PROVE RingIInv'
  BY <1>1, WriteBeginStep
<1>2. CASE WriteCopy \/ WriteWrap
  BY <1>2, CopyInStep
<1>3. CASE WritePublish
  BY <1>3, WritePublishStep
<1>4. ASSUME NEW n \in 1 .. ReadMax, ReadBegin(n) PROVE RingIInv'
  BY <1>4, ReadBeginStep
<1>5. CASE ReadCopy \/ ReadWrap
  BY <1>5, CopyOutStep
<1>6. CASE ReadPublish
  BY <1>6, ReadPublishStep
<1>7. CASE Drop
  BY <1>7, DropStep
<1>8. CASE UNCHANGED ringVars
  BY <1>8 DEF ringVars, producer, consumer, RingIInv, RingTypeOK, IndicesExact,
              GrantsBounded, UnreadIntact, CopiedAhead, ReadInOrder, Available,
              FreeSpace, CopiedIn, CopiedOut, Run, Step
<1> QED
  BY <1>1, <1>2, <1>3, <1>4, <1>5, <1>6, <1>7, <1>8 DEF RingNext

(* The inductive invariant of the ring (audio_ringbuf.c:11-67). *)
THEOREM RingInvariant == RingSpec => []RingIInv
BY InitRingIInv, NextRingIInv, PTL DEF RingSpec

(* The ring's fields keep their types: the indices stay inside the storage. *)
THEOREM RingTypes == RingSpec => []RingTypeOK
<1>1. RingIInv => RingTypeOK  BY DEF RingIInv
<1> QED BY <1>1, RingInvariant, PTL

(***************************************************************************)
(* audio_ringbuf_write "never overwrites unread data" (audio_ringbuf.h),     *)
(* in every interleaving with the reader.                                   *)
(***************************************************************************)
THEOREM RingKeepsUnread == RingSpec => []UnreadIntact
<1>1. RingIInv => UnreadIntact  BY DEF RingIInv
<1> QED BY <1>1, RingInvariant, PTL

(* What audio_ringbuf_read hands out is the oldest frames, in order, whole. *)
THEOREM RingReadsInOrder == RingSpec => []ReadInOrder
<1>1. RingIInv => ReadInOrder  BY DEF RingIInv
<1> QED BY <1>1, RingInvariant, PTL

(***************************************************************************)
(* The cells a write is copying to are never cells the reader may look at:  *)
(* the plain memory accesses of the two tasks do not race.                  *)
(***************************************************************************)
THEOREM RingNoDataRace == RingSpec => []NoDataRace
<1>1. RingIInv => NoDataRace
  <2> SUFFICES ASSUME RingIInv, NEW j \in 0 .. wn - 1, NEW k \in 0 .. Available - 1
               PROVE  Step(tail, k) # Step(head, j)
    BY DEF NoDataRace, Writing, Reading
  <2>1. head \in Cell /\ tail \in Cell /\ wn \in Nat /\ wn <= FreeSpace
    BY DEF RingIInv, RingTypeOK, IndicesExact
  <2>2. j \in 0 .. FreeSpace - 1
    BY <2>1, AvailableType, RingAssumption
  <2> QED BY <2>1, <2>2, GrantIsFree
<1> QED BY <1>1, RingInvariant, PTL
-----------------------------------------------------------------------------
(* The two tasks on the ring.                                               *)

LEMMA PrefillType ==
  /\ Prefill \in Nat \ {0} /\ Packet \in Nat \ {0} /\ Packet <= WriteMax
  /\ ReadMax \in Nat \ {0} /\ WriteMax \in Nat /\ Frames \in Nat
BY PrefillAssumption, RingAssumption

(* The ring's invariant, in the terms used here. *)
LEMMA RingCounts ==
  ASSUME RingIInv
  PROVE  /\ Available \in 0 .. Capacity - 1 /\ Available = written - consumed
         /\ written \in Nat /\ consumed \in Nat /\ wn \in Nat /\ rn \in Nat
         /\ wpc = "idle" => wn = 0
BY AvailableType DEF RingIInv, RingTypeOK, IndicesExact, GrantsBounded

LEMMA FeederUsesRing ==
  ASSUME PlaybackIInv, Feeder
  PROVE  [RingNext]_ringVars
<1>1. ASSUME FeedCall PROVE RingNext
  <2>1. left \in 1 .. WriteMax /\ written + left <= Frames /\ WriteBegin(left)
    BY <1>1, PrefillType DEF FeedCall, PlaybackIInv, FeederBounded
  <2> QED BY <2>1 DEF RingNext
<1>2. ASSUME FeedCopy PROVE RingNext
  BY <1>2 DEF FeedCopy, RingNext
<1>3. ASSUME FeedReturn PROVE RingNext
  BY <1>3 DEF FeedReturn, RingNext
<1>4. ASSUME NextPacket \/ FeedAbandon PROVE UNCHANGED ringVars
  BY <1>4 DEF NextPacket, FeedAbandon
<1> QED BY <1>1, <1>2, <1>3, <1>4 DEF Feeder

LEMMA DrainUsesRing ==
  ASSUME Drain
  PROVE  [RingNext]_ringVars
<1>1. ASSUME ReadCall PROVE RingNext
  <2>1. ReadMax \in 1 .. ReadMax  BY PrefillType
  <2> QED BY <1>1, <2>1 DEF ReadCall, RingNext
<1>2. ASSUME ReadOn \/ ReadReturn \/ DriftDrop PROVE RingNext
  BY <1>2 DEF ReadOn, ReadReturn, DriftDrop, RingNext
<1>3. ASSUME CycleSilent \/ CycleStart \/ DriftPad \/ DriftNone \/ Underrun
      PROVE  UNCHANGED ringVars
  BY <1>3 DEF CycleSilent, CycleStart, DriftPad, DriftNone, Underrun, vars
<1> QED BY <1>1, <1>2, <1>3 DEF Drain

LEMMA StepUsesRing ==
  ASSUME PlaybackIInv, [Next]_vars
  PROVE  [RingNext]_ringVars
BY FeederUsesRing, DrainUsesRing DEF Next, StopSession, StartSession, Flush, vars
-----------------------------------------------------------------------------
LEMMA InitPlayback == Init => PlaybackIInv
<1> SUFFICES ASSUME Init PROVE PlaybackIInv
  OBVIOUS
<1>1. RingIInv  BY InitRingIInv DEF Init
<1>2. wpc = "idle" /\ rpc = "idle"  BY DEF Init, RingInit
<1>3. FeederBounded  BY <1>2, PrefillType DEF Init, FeederBounded
<1>4. DrainBounded
  BY <1>2 DEF Init, RingInit, DrainBounded, NoFrame
<1> QED BY <1>1, <1>3, <1>4 DEF PlaybackIInv

(* The feeding task adds to the ring and leaves the playback task alone.     *)
LEMMA FeederStep ==
  ASSUME PlaybackIInv, RingIInv', Feeder
  PROVE  PlaybackIInv'
<1>1. /\ UNCHANGED <<primed, cpc, snap, pad, played, silent, rpc, rn, consumed>>
      /\ written' >= written
  BY RingCounts
  DEF PlaybackIInv, Feeder, NextPacket, FeedCall, FeedCopy, FeedReturn, FeedAbandon,
      WriteBegin, WriteCopy, WriteWrap, WritePublish, drain, consumer, ringVars
<1>2. Available \in Nat /\ Available' \in Nat /\ Available' >= Available
  <2>1. /\ written' \in Nat /\ consumed' \in Nat /\ Available' = written' - consumed'
        /\ head' \in Cell /\ tail' \in Cell
    BY DEF RingIInv, RingTypeOK, IndicesExact
  <2>2. Available' \in Nat
    <3>1. ASSUME NEW h \in Cell, NEW t \in Cell
          PROVE  (IF h >= t THEN h - t ELSE Capacity - t + h) \in Nat
      BY RingAssumption DEF Cell
    <3> QED BY <2>1, <3>1 DEF Available
  <2>3. /\ Available \in Nat /\ Available = written - consumed
        /\ written \in Nat /\ consumed \in Nat
    BY RingCounts DEF PlaybackIInv
  <2>4. \A w, v, c \in Nat : v >= w => v - c >= w - c
    OBVIOUS
  <2>5. consumed' = consumed /\ written' >= written
    BY <1>1
  <2>6. written' - consumed >= written - consumed
    BY <2>1, <2>3, <2>4, <2>5
  <2> QED BY <2>1, <2>2, <2>3, <2>5, <2>6
<1>3. DrainBounded'
  BY <1>1, <1>2, PrefillType, RingAssumption DEF PlaybackIInv, DrainBounded
<1>4. FeederBounded'
  <2>0. /\ left \in 0 .. Packet /\ (left > 0 => written + left <= Frames)
        /\ (wpc # "idle" => wn <= left) /\ written \in Nat /\ wn \in Nat
        /\ (wpc = "idle" => wn = 0)
    BY RingCounts DEF PlaybackIInv, FeederBounded
  <2>1. CASE NextPacket
    BY <2>0, <2>1, PrefillType DEF NextPacket, FeederBounded, ringVars, producer
  <2>2. CASE FeedCall
    <3>1. FreeSpace \in Nat
      BY AvailableType, RingAssumption DEF PlaybackIInv, RingIInv, RingTypeOK
    <3> QED BY <2>0, <2>2, <3>1, PrefillType
        DEF FeedCall, WriteBegin, FeederBounded, feeder, Smaller
  <2>3. CASE FeedCopy
    BY <2>0, <2>3 DEF FeedCopy, WriteCopy, WriteWrap, FeederBounded, feeder
  <2>4. CASE FeedReturn
    BY <2>0, <2>4, PrefillType DEF FeedReturn, WritePublish, FeederBounded
  <2>5. CASE FeedAbandon
    BY <2>0, <2>5, PrefillType DEF FeedAbandon, FeederBounded, ringVars, producer
  <2> QED BY <2>1, <2>2, <2>3, <2>4, <2>5 DEF Feeder
<1> QED BY <1>3, <1>4 DEF PlaybackIInv

LEMMA DrainStep ==
  ASSUME PlaybackIInv, RingIInv', Drain
  PROVE  PlaybackIInv'
<1>0. /\ Available \in 0 .. Capacity - 1 /\ RingIInv /\ DrainBounded /\ FeederBounded
      /\ consumed \in Nat /\ Capacity \in Nat /\ Capacity > 2
      /\ Available > 0 => FirstFrame = consumed
  <2>1. Available > 0 => FirstFrame = consumed
    <3>1. tail \in Cell /\ Step(tail, 0) = tail
      BY RingAssumption DEF PlaybackIInv, RingIInv, RingTypeOK, Step, Cell
    <3>2. Available \in Nat /\ consumed \in Nat  BY RingCounts DEF PlaybackIInv
    <3>3. \A k \in 0 .. Available - 1 : storage[Step(tail, k)] = consumed + k
      BY DEF PlaybackIInv, RingIInv, UnreadIntact
    <3>4. Available > 0 => storage[Step(tail, 0)] = consumed + 0
      BY <3>2, <3>3
    <3> QED BY <3>1, <3>2, <3>4 DEF FirstFrame
  <2> QED BY <2>1, RingCounts, RingAssumption, PrefillAssumption DEF PlaybackIInv
<1>1. FeederBounded'
  <2>1. UNCHANGED <<wpc, wn, written, left>>
    BY DEF Drain, CycleSilent, CycleStart, DriftDrop, DriftPad, DriftNone, ReadCall, ReadOn,
           ReadReturn, Underrun, Drop, ReadBegin, ReadCopy, ReadWrap, ReadPublish,
           vars, ringVars, feeder, producer
  <2> QED BY <1>0, <2>1 DEF FeederBounded
<1>2. DrainBounded'
  <2> USE <1>0 DEF DrainBounded, ringVars, feeder, producer, consumer, drain
  <2>1. CASE CycleSilent
    BY <2>1 DEF CycleSilent, vars, Available
  <2>2. CASE CycleStart
    <3>1. Available' = Available  BY <2>2 DEF CycleStart, Available
    <3> QED BY <2>2, <3>1 DEF CycleStart, Gate
  <2>3. CASE DriftDrop
    <3>1. consumed' = consumed + 1 /\ UNCHANGED <<rpc, rn, head, played>>
      BY <2>3 DEF DriftDrop, Drop
    <3>2. Available = Capacity - 1
      BY <2>3 DEF DriftDrop, Drops
    <3>3. Available' = Capacity - 2
      <4>1. consumed' \in Nat /\ Available' = Available - 1
        BY <2>3, <3>2, AdvanceTail DEF DriftDrop, Drop
      <4> QED BY <3>2, <4>1
    <3> QED BY <2>3, <3>1, <3>3 DEF DriftDrop
  <2>4. CASE DriftPad
    <3>1. Available > 0 /\ Available' = Available  BY <2>4 DEF DriftPad, Pads, Available
    <3> QED BY <2>4, <3>1 DEF DriftPad
  <2>5. CASE DriftNone
    BY <2>5 DEF DriftNone
  <2>6. CASE ReadCall
    <3>1. rn' > 0 /\ Available' = Available
      BY <2>6, RingAssumption DEF ReadCall, ReadBegin, Smaller, Available
    <3> QED BY <2>6, <3>1 DEF ReadCall, ReadBegin
  <2>7. CASE ReadOn
    <3>1. Available' = Available /\ rpc # "idle"
      BY <2>7 DEF ReadOn, ReadCopy, ReadWrap, Available
    <3> QED BY <2>7, <3>1 DEF ReadOn, ReadCopy, ReadWrap
  <2>8. CASE ReadReturn
    <3>1. rpc = "publish" /\ rn \in Nat /\ rn > 0 /\ rn <= ReadMax
      BY <2>8 DEF ReadReturn, ReadPublish, RingIInv, RingTypeOK, GrantsBounded
    <3>2. played' = consumed + (rn - 1)
      <4>1. rn - 1 \in 0 .. rn - 1  BY <3>1
      <4> QED BY <2>8, <3>1, <4>1 DEF ReadReturn, RingIInv, ReadInOrder, CopiedOut
    <3>3. consumed' = consumed + rn /\ rpc' = "idle"
      BY <2>8 DEF ReadReturn, ReadPublish
    <3> QED BY <2>8, <3>1, <3>2, <3>3 DEF ReadReturn
  <2>9. CASE Underrun
    BY <2>9 DEF Underrun
  <2> QED BY <2>1, <2>2, <2>3, <2>4, <2>5, <2>6, <2>7, <2>8, <2>9 DEF Drain
<1> QED BY <1>1, <1>2 DEF PlaybackIInv

LEMMA OtherStep ==
  ASSUME PlaybackIInv, StopSession \/ StartSession \/ Flush \/ UNCHANGED vars
  PROVE  PlaybackIInv'
<1>1. UNCHANGED <<storage, head, tail, wpc, wn, rpc, rn, out, written, consumed, left, drain>>
  BY DEF StopSession, StartSession, Flush, vars, ringVars, producer, consumer, feeder
<1>2. RingIInv'
  <2>1. UNCHANGED ringVars  BY <1>1 DEF ringVars, producer, consumer
  <2> QED BY <2>1, NextRingIInv DEF PlaybackIInv
<1>3. Available' = Available  BY <1>1 DEF Available
<1> QED BY <1>1, <1>2, <1>3 DEF PlaybackIInv, FeederBounded, DrainBounded, drain
-----------------------------------------------------------------------------
(***************************************************************************)
(* The inductive invariant of the PCM path (feed_pcm, audio_playback_task).  *)
(***************************************************************************)
THEOREM PlaybackInvariant == Spec => []PlaybackIInv
<1>1. Init => PlaybackIInv
  BY InitPlayback
<1>2. PlaybackIInv /\ [Next]_vars => PlaybackIInv'
  <2> SUFFICES ASSUME PlaybackIInv, [Next]_vars PROVE PlaybackIInv'
    OBVIOUS
  <2>1. RingIInv'
    BY StepUsesRing, NextRingIInv DEF PlaybackIInv
  <2> QED BY <2>1, FeederStep, DrainStep, OtherStep DEF Next
<1> QED BY <1>1, <1>2, PTL DEF Spec

(* So nothing unread is overwritten by the tasks that use the ring either.   *)
THEOREM PlaybackKeepsUnread == Spec => []UnreadIntact
<1>1. PlaybackIInv => UnreadIntact  BY DEF PlaybackIInv, RingIInv
<1> QED BY <1>1, PlaybackInvariant, PTL

(***************************************************************************)
(* The frame repeated to slow down is the next one played                   *)
(* (audio_playback.c:99-104), for every ring and however many frames arrive  *)
(* between the snapshot and the read.                                       *)
(***************************************************************************)
THEOREM PlaybackPad == Spec => []PadIsNextFrame
<1>1. PlaybackIInv => PadIsNextFrame
  <2> SUFFICES ASSUME PlaybackIInv, pad # NoFrame, CopiedOut > 0
               PROVE  out[0] = pad
    BY DEF PadIsNextFrame
  <2>1. rpc # "idle" /\ cpc = "reading" /\ pad = consumed
    BY DEF CopiedOut, PlaybackIInv, DrainBounded
  <2>2. consumed \in Nat /\ CopiedOut \in Int
    <3>1. tail \in Cell /\ rn \in Nat /\ consumed \in Nat
      BY DEF PlaybackIInv, RingIInv, RingTypeOK
    <3>2. Run(tail, rn) \in Int  BY <3>1, RunType
    <3> QED BY <3>1, <3>2 DEF CopiedOut
  <2>3. out[0] = consumed + 0
    BY <2>2 DEF PlaybackIInv, RingIInv, ReadInOrder
  <2> QED BY <2>1, <2>2, <2>3
<1> QED BY <1>1, PlaybackInvariant, PTL

(***************************************************************************)
(* A cycle plays on where the last one ended, or one frame further on off a  *)
(* ring that was full (audio_playback.c:46-61, 92-112).                     *)
(***************************************************************************)
THEOREM PlaybackSheds == Spec => PlaysAllButTheShed
<1> DEFINE GoesOn ==
      ReadReturn => \/ out[0] = played + 1
                    \/ out[0] = played + 2 /\ Available >= Capacity - 2
<1>1. PlaybackIInv => [GoesOn]_vars
  <2> SUFFICES ASSUME PlaybackIInv, ReadReturn PROVE GoesOn
    OBVIOUS
  <2>1. rpc = "publish" /\ rn \in Nat /\ rn > 0 /\ consumed \in Nat
    BY DEF ReadReturn, ReadPublish, PlaybackIInv, DrainBounded, RingIInv, RingTypeOK
  <2>2. out[0] = consumed + 0
    <3>1. 0 \in 0 .. CopiedOut - 1  BY <2>1 DEF CopiedOut
    <3>2. \A k \in 0 .. CopiedOut - 1 : out[k] = consumed + k
      BY DEF PlaybackIInv, RingIInv, ReadInOrder
    <3> QED BY <3>1, <3>2
  <2>3. /\ played \in Int
        /\ \/ consumed = played + 1
           \/ consumed = played + 2 /\ Available >= Capacity - 2
    BY DEF PlaybackIInv, DrainBounded
  <2>4. out[0] = consumed
    BY <2>1, <2>2
  <2> QED BY <2>3, <2>4
<1> QED BY <1>1, PlaybackInvariant, PTL DEF PlaysAllButTheShed

(* After silence, sound waits for a full prefill (audio_playback.c:78-90).   *)
THEOREM PlaybackPrefilled == Spec => ResumesPrefilled
<1>1. PlaybackIInv /\ [Next]_vars => [silent /\ cpc' = "drift" => Available >= Prefill]_vars
  <2> SUFFICES ASSUME PlaybackIInv, Next, silent, cpc' = "drift"
               PROVE  Available >= Prefill
    BY DEF vars
  <2>1. CASE cpc = "drift"
    BY <2>1 DEF PlaybackIInv, DrainBounded
  <2>2. CASE cpc # "drift"
    <3>1. CycleStart
      BY <2>2 DEF Next, Feeder, NextPacket, FeedCall, FeedCopy, FeedReturn, FeedAbandon,
                  StopSession, StartSession, Flush, Drain, CycleSilent, DriftDrop, DriftPad,
                  DriftNone, ReadCall, ReadOn, ReadReturn, Underrun, drain, vars
    <3> QED BY <3>1 DEF CycleStart, Gate, PlaybackIInv, DrainBounded
  <2> QED BY <2>1, <2>2
<1> QED BY <1>1, PlaybackInvariant, PTL DEF Spec, ResumesPrefilled
=============================================================================
