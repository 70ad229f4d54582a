------------------------------ MODULE AudioRing -------------------------------
(***************************************************************************)
(* The single-producer single-consumer ring of PCM frames                   *)
(* (components/audio/src/audio_ringbuf.c).  Producer and consumer are two    *)
(* tasks on one core: each may be preempted between any two steps, and       *)
(* neither takes a lock.  Each side moves its own index only, after the      *)
(* copy.  One cell stays free so that head = tail means empty.              *)
(*                                                                         *)
(* A frame is represented by its number in the stream of frames written.    *)
(***************************************************************************)
EXTENDS Integers, FiniteSets

CONSTANTS
  Capacity,   \* rb->capacity, in frames (88200)
  WriteMax,   \* the most frames one call of audio_ringbuf_write asks for
  ReadMax,    \* the most frames one call of audio_ringbuf_read asks for
  Frames      \* length of the stream (bounds the model only)

ASSUME RingAssumption ==
  /\ Capacity \in Nat /\ Capacity >= 2
  /\ WriteMax \in Nat \ {0} /\ ReadMax \in Nat \ {0} /\ Frames \in Nat

VARIABLES
  storage,   \* rb->storage
  head,      \* rb->head: the producer publishes here
  tail,      \* rb->tail: the consumer publishes here
  wpc, wn,   \* the producer inside audio_ringbuf_write; frames granted
  rpc, rn,   \* the consumer inside audio_ringbuf_read; frames granted
  out,       \* the frames copied out by this read, by offset
  written,   \* history: frames published by the producer
  consumed   \* history: frames given back by the consumer

producer == <<wpc, wn>>
consumer == <<rpc, rn, out>>
ringVars == <<storage, head, tail, producer, consumer, written, consumed>>

Cell == 0 .. Capacity - 1
NoFrame == -1
Smaller(a, b) == IF a <= b THEN a ELSE b

(* audio_ringbuf_available and audio_ringbuf_free_space: each caller reads   *)
(* its own index and takes one snapshot of the other side's.                *)
Available == IF head >= tail THEN head - tail ELSE Capacity - tail + head
FreeSpaceMutant == Capacity - Available
FreeSpace == Capacity - 1 - Available

(* An index k cells on, k at most one lap. *)
Step(i, k) == IF i + k >= Capacity THEN i + k - Capacity ELSE i + k

(* The part of a copy of k frames from cell i that comes before the wrap. *)
Run(i, k) == Smaller(Capacity - i, k)

RingInit ==
  /\ storage = [c \in Cell |-> NoFrame]
  /\ head = 0 /\ tail = 0
  /\ wpc = "idle" /\ wn = 0
  /\ rpc = "idle" /\ rn = 0 /\ out = [k \in 0 .. ReadMax - 1 |-> NoFrame]
  /\ written = 0 /\ consumed = 0
-----------------------------------------------------------------------------
(* audio_ringbuf_write(n): grant, copy up to the wrap, copy the rest, publish. *)
WriteBegin(n) ==
  /\ wpc = "idle" /\ FreeSpace > 0
  /\ wn' = Smaller(n, FreeSpace) /\ wpc' = "copy"
  /\ UNCHANGED <<storage, head, tail, consumer, written, consumed>>

WriteCopy ==
  /\ wpc = "copy"
  /\ storage' = [c \in Cell |->
       IF head <= c /\ c < head + Run(head, wn) THEN written + (c - head) ELSE storage[c]]
  /\ wpc' = IF wn > Run(head, wn) THEN "wrap" ELSE "publish"
  /\ UNCHANGED <<head, tail, wn, consumer, written, consumed>>

WriteWrap ==
  /\ wpc = "wrap"
  /\ storage' = [c \in Cell |->
       IF c < wn - Run(head, wn) THEN written + Run(head, wn) + c ELSE storage[c]]
  /\ wpc' = "publish"
  /\ UNCHANGED <<head, tail, wn, consumer, written, consumed>>

WritePublish ==
  /\ wpc = "publish"
  /\ head' = Step(head, wn) /\ written' = written + wn
  /\ wpc' = "idle" /\ wn' = 0
  /\ UNCHANGED <<storage, tail, consumer, consumed>>
-----------------------------------------------------------------------------
(* audio_ringbuf_read(n), in the same four steps; its calls of a full or an  *)
(* empty ring change nothing.                                               *)
ReadBegin(n) ==
  /\ rpc = "idle" /\ Available > 0
  /\ rn' = Smaller(n, Available) /\ rpc' = "copy"
  /\ UNCHANGED <<storage, head, tail, producer, out, written, consumed>>

ReadCopy ==
  /\ rpc = "copy"
  /\ out' = [k \in 0 .. ReadMax - 1 |->
       IF k < Run(tail, rn) THEN storage[tail + k] ELSE out[k]]
  /\ rpc' = IF rn > Run(tail, rn) THEN "wrap" ELSE "publish"
  /\ UNCHANGED <<storage, head, tail, producer, rn, written, consumed>>

ReadWrapMutant ==
  /\ rpc = "wrap"
  /\ out' = [k \in 0 .. ReadMax - 1 |->
       IF Run(tail, rn) <= k /\ k < rn THEN storage[k] ELSE out[k]]
  /\ rpc' = "publish"
  /\ UNCHANGED <<storage, head, tail, producer, rn, written, consumed>>
ReadWrap ==
  /\ rpc = "wrap"
  /\ out' = [k \in 0 .. ReadMax - 1 |->
       IF Run(tail, rn) <= k /\ k < rn THEN storage[k - Run(tail, rn)] ELSE out[k]]
  /\ rpc' = "publish"
  /\ UNCHANGED <<storage, head, tail, producer, rn, written, consumed>>

ReadPublish ==
  /\ rpc = "publish"
  /\ tail' = Step(tail, rn) /\ consumed' = consumed + rn
  /\ rpc' = "idle" /\ rn' = 0 /\ out' = [k \in 0 .. ReadMax - 1 |-> NoFrame]
  /\ UNCHANGED <<storage, head, producer, written>>

(* audio_ringbuf_drop(1): the consumer discards the oldest frame. *)
Drop ==
  /\ rpc = "idle" /\ Available > 0
  /\ tail' = Step(tail, 1) /\ consumed' = consumed + 1
  /\ UNCHANGED <<storage, head, producer, consumer, written>>

(* audio_ringbuf_first_frame: the oldest unread frame. *)
FirstFrameMutant == storage[Step(tail, Capacity - 1)]
FirstFrame == storage[tail]
-----------------------------------------------------------------------------
RingNext ==
  \/ \E n \in 1 .. WriteMax : written + n <= Frames /\ WriteBegin(n)
  \/ WriteCopy \/ WriteWrap \/ WritePublish
  \/ \E n \in 1 .. ReadMax : ReadBegin(n)
  \/ ReadCopy \/ ReadWrap \/ ReadPublish
  \/ Drop

RingSpec == RingInit /\ [][RingNext]_ringVars
-----------------------------------------------------------------------------
RingTypeOK ==
  /\ storage \in [Cell -> Int]
  /\ head \in Cell /\ tail \in Cell
  /\ wpc \in {"idle", "copy", "wrap", "publish"} /\ wn \in Nat
  /\ rpc \in {"idle", "copy", "wrap", "publish"} /\ rn \in Nat
  /\ out \in [0 .. ReadMax - 1 -> Int]
  /\ written \in Nat /\ consumed \in Nat

(***************************************************************************)
(* The indices agree with the frames exchanged, although each side computes *)
(* from a snapshot of the other's index that may be stale when it is used;  *)
(* both sides stay within what they were granted.                           *)
(***************************************************************************)
IndicesExact ==
  /\ Available = written - consumed
  /\ wn <= FreeSpace
  /\ rn <= Available

(***************************************************************************)
(* Every unread frame is intact in its cell until it is consumed: "never     *)
(* overwrites unread data" (audio_ringbuf.h, audio_ringbuf_write).          *)
(***************************************************************************)
UnreadIntact == \A k \in 0 .. Available - 1 : storage[Step(tail, k)] = consumed + k

(* How much of the copy in progress is done, on either side. *)
CopiedIn == IF wpc = "wrap" THEN Run(head, wn) ELSE IF wpc = "publish" THEN wn ELSE 0
CopiedOut == IF rpc = "wrap" THEN Run(tail, rn) ELSE IF rpc = "publish" THEN rn ELSE 0

(***************************************************************************)
(* The frames a read hands to its caller are the oldest ones, in order and  *)
(* without tearing, across the wrap too.                                    *)
(***************************************************************************)
ReadInOrder == \A k \in 0 .. CopiedOut - 1 : out[k] = consumed + k

(***************************************************************************)
(* The frames a write has copied in but not published are the next ones of  *)
(* the stream, in order, whatever the consumer does meanwhile: the head may *)
(* be published at any time after the copy.                                 *)
(***************************************************************************)
CopiedAhead == \A k \in 0 .. CopiedIn - 1 : storage[Step(head, k)] = written + k

(* What the inductive invariant adds: a grant does not outlive its call. *)
GrantsBounded ==
  /\ rn <= ReadMax
  /\ wpc = "idle" => wn = 0
  /\ rpc = "idle" => rn = 0
RingIInv ==
  /\ RingTypeOK /\ IndicesExact /\ GrantsBounded
  /\ UnreadIntact /\ CopiedAhead /\ ReadInOrder

(***************************************************************************)
(* No memory is written by the producer while the consumer may read it: the *)
(* cells of a copy in progress never overlap an unread or a being-read one. *)
(***************************************************************************)
Writing == IF wpc \in {"copy", "wrap"} THEN {Step(head, k) : k \in 0 .. wn - 1} ELSE {}
Reading == {Step(tail, k) : k \in 0 .. Available - 1}
NoDataRace == Writing \cap Reading = {}
=============================================================================
