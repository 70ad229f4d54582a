------------------------------ MODULE RtpReorder ------------------------------
(***************************************************************************)
(* The sequence-indexed reorder buffer of the RAOP receiver                *)
(* (components/raop/src/rtp_reorder.c).  RTP packets are put in the slot    *)
(* seq % Window and taken out in sequence order; a hole at the play cursor  *)
(* is held while the write head is at most Hold ahead, and given up then.   *)
(*                                                                         *)
(* Sequence numbers are 16-bit in the code; here they are counted modulo    *)
(* SeqMod, and all comparisons are the modular ones of the code.            *)
(***************************************************************************)
EXTENDS Integers, FiniteSets

CONSTANTS
  Window,    \* slots of the ring (REORDER_WINDOW: 128 or 256)
  HoldArg,   \* the "hold" handed to rtp_reorder_init (REORDER_HOLD)
  SeqMod,    \* 2^16 in the code
  Payload,   \* payloads of an acceptable length
  BadPayload \* any payload of length 0 or above RTP_REORDER_MAX_PKT

(***************************************************************************)
(* Both production windows are powers of two no larger than 2^15: a whole   *)
(* number of rings fits in the sequence space, and the int16_t comparison   *)
(* tells "before" from "after" across a full window.                        *)
(***************************************************************************)
ASSUME SizesAssumption ==
  /\ Window \in Nat \ {0}
  /\ SeqMod \in Nat
  /\ 2 * Window <= SeqMod
  /\ SeqMod % Window = 0
ASSUME HoldAssumption == HoldArg \in Nat
ASSUME PayloadAssumption == BadPayload \notin Payload

VARIABLES
  slots,   \* rb->slots
  next,    \* rb->next: the play cursor
  head,    \* rb->head: highest sequence number stored, plus one
  count,   \* rb->count
  started  \* rb->started: has the cursor been anchored?

rbVars == <<slots, next, head, count, started>>

SeqNo == 0 .. SeqMod - 1
Index == 0 .. Window - 1

(***************************************************************************)
(* The sequence number and the payload of a slot that is not valid are      *)
(* never read, so such a slot has one representation.                       *)
(***************************************************************************)
Free == [valid |-> FALSE, seq |-> 0, data |-> BadPayload]
Holding(s, d) == [valid |-> TRUE, seq |-> s, data |-> d]
Slot == {Free} \cup [valid : {TRUE}, seq : SeqNo, data : Payload]

(* (uint16_t)(s + 1), (uint16_t)(a - b) and (int16_t)(a - b) < 0 *)
Succ(s) == IF s = SeqMod - 1 THEN 0 ELSE s + 1
SeqDiff(a, b) == IF a >= b THEN a - b ELSE a - b + SeqMod
SeqLt(a, b) == 2 * SeqDiff(a, b) >= SeqMod

Hold == IF HoldArg # 0 /\ HoldArg < Window THEN HoldArg ELSE Window - 1

SlotOf(s) == s % Window

(* Is s in its slot, unread? *)
Holds(s) == slots[SlotOf(s)].valid /\ slots[SlotOf(s)].seq = s
-----------------------------------------------------------------------------
RbInit ==
  /\ slots = [i \in Index |-> Free]
  /\ next = 0 /\ head = 0 /\ count = 0
  /\ started = FALSE

(* rtp_reorder_anchor; the receiver calls it only before the first insert. *)
Anchor(s) ==
  /\ next' = s /\ head' = s
  /\ started' = TRUE
  /\ UNCHANGED <<slots, count>>

(***************************************************************************)
(* rtp_reorder_insert classifies a packet by these tests, in this order.    *)
(* An insert that is not anchored yet anchors itself, and then nothing of   *)
(* an acceptable length can be refused.                                     *)
(***************************************************************************)
TooOldMutant(s) == s < next
TooOld(s) == SeqLt(s, next)
TooNewMutant(s) == SeqDiff(s, next) > Window
TooNew(s) == SeqDiff(s, next) >= Window
Refused(s, d) ==
  \/ d \notin Payload
  \/ started /\ (TooOld(s) \/ TooNew(s) \/ Holds(s))

Store(s, d) ==
  LET i == SlotOf(s)
      h == IF started THEN head ELSE s
  IN
  /\ ~Refused(s, d)
  /\ next' = IF started THEN next ELSE s
  /\ started' = TRUE
  /\ slots' = [slots EXCEPT ![i] = Holding(s, d)]
  /\ count' = IF slots[i].valid THEN count ELSE count + 1
  /\ head' = IF SeqLt(h, Succ(s)) THEN Succ(s) ELSE h

(* BADLEN, TOO_OLD, TOO_NEW and DUP leave the buffer as it is. *)
Refuse(s, d) == Refused(s, d) /\ UNCHANGED rbVars

Insert(s, d) == Store(s, d) \/ Refuse(s, d)
-----------------------------------------------------------------------------
(* The four answers of rtp_reorder_pop. *)
Nonempty == started /\ count # 0
PopsOk == Nonempty /\ Holds(next)
PopsConcealNever == Nonempty /\ ~Holds(next) /\ SeqDiff(head, next) > Window
PopsConcealMutant == Nonempty /\ ~Holds(next) /\ SeqDiff(head, next) >= Hold
PopsConceal == Nonempty /\ ~Holds(next) /\ SeqDiff(head, next) > Hold
PopsWait == Nonempty /\ ~Holds(next) /\ ~PopsConceal
PopsEmpty == ~Nonempty

PopOk ==
  /\ PopsOk
  /\ slots' = [slots EXCEPT ![SlotOf(next)] = Free]
  /\ count' = count - 1
  /\ next' = Succ(next)
  /\ UNCHANGED <<head, started>>

PopConceal ==
  /\ PopsConceal
  /\ next' = Succ(next)
  /\ UNCHANGED <<slots, head, count, started>>
-----------------------------------------------------------------------------
(***************************************************************************)
(* rtp_reorder_gap: the run of packets missing from the cursor on, up to    *)
(* the first one buffered; nothing when the front is present.               *)
(***************************************************************************)
After(s, k) == IF s + k >= SeqMod THEN s + k - SeqMod ELSE s + k
GapLengthsMutant ==
  {k \in 1 .. Window :
     /\ k <= SeqDiff(head, next)
     /\ \A j \in 0 .. k - 2 : ~Holds(After(next, j))}
GapLengths ==
  {k \in 1 .. Window :
     /\ k <= SeqDiff(head, next)
     /\ \A j \in 0 .. k - 1 : ~Holds(After(next, j))}
HasGap == Nonempty /\ ~Holds(next) /\ GapLengths # {}
GapLength == CHOOSE k \in GapLengths : \A j \in GapLengths : j <= k
-----------------------------------------------------------------------------
(* The buffer under every sequence of calls its one client may make. *)
Next ==
  \/ \E s \in SeqNo, d \in Payload \cup {BadPayload} : Insert(s, d)
  \/ \E s \in SeqNo : ~started /\ Anchor(s)
  \/ PopOk
  \/ PopConceal

Spec == RbInit /\ [][Next]_rbVars
-----------------------------------------------------------------------------
TypeOK ==
  /\ slots \in [Index -> Slot]
  /\ next \in SeqNo
  /\ head \in SeqNo
  /\ count \in Nat
  /\ started \in BOOLEAN

Unread == {i \in Index : slots[i].valid}
Ahead(s) == SeqDiff(s, next)

(***************************************************************************)
(* Every unread packet is in its own slot and lies from the play cursor up  *)
(* to the write head, which is at most one ring ahead: the premise of each  *)
(* modular comparison in rtp_reorder.c:18-51, across the wrap of the        *)
(* sequence numbers too.                                                    *)
(***************************************************************************)
UnreadInWindow ==
  /\ Ahead(head) <= Window
  /\ \A i \in Unread : /\ SlotOf(slots[i].seq) = i
                        /\ Ahead(slots[i].seq) < Ahead(head)

(***************************************************************************)
(* The newest packet stored is still unread unless everything is: pop's     *)
(* test for EMPTY (line 35) then never hides a hole, and a cursor that      *)
(* conceals (line 47) cannot run past the write head.                       *)
(***************************************************************************)
NewestUnread ==
  /\ head # next => \E i \in Unread : Succ(slots[i].seq) = head
  /\ ~started => Unread = {} /\ head = next

(* rb->count, kept by increments (line 26) and decrements (line 42), is the *)
(* number of unread packets, although a slot may be stored over.            *)
CountExact == count = Cardinality(Unread)

IInv == TypeOK /\ UnreadInWindow /\ NewestUnread /\ CountExact

(***************************************************************************)
(* A packet, once stored, leaves its slot only by being popped at its turn: *)
(* no other sequence number is ever stored over it (line 24 indexes by the  *)
(* remainder only) and a concealed hole never skips it.                     *)
(***************************************************************************)
KeepsUnread ==
  \A i \in Unread : \/ slots'[i] = slots[i] /\ slots[i].seq # next
                    \/ slots'[i] = slots[i] /\ next' = next
                    \/ slots[i].seq = next /\ next' = Succ(next)
UnreadKeptUntilPlayed == [][KeepsUnread]_rbVars

(***************************************************************************)
(* Whenever pop says WAIT, gap (line 53) names a run that starts at the     *)
(* cursor, holds no packet we have, and stops at one we do have: the resend *)
(* request is never empty and never asks for what is buffered.              *)
(***************************************************************************)
GapIsTheMissingRun ==
  /\ PopsWait => HasGap
  /\ HasGap => /\ GapLength < Window
               /\ Holds(After(next, GapLength))
               /\ \A j \in 0 .. GapLength - 1 : ~Holds(After(next, j))
-----------------------------------------------------------------------------
(***************************************************************************)
(* The ring of slots implements a window of places counted from the play    *)
(* cursor: place o is the slot of sequence number next + o.  This is the    *)
(* whole contract of rtp_reorder.h:34-49 - in-order, each packet once, a    *)
(* hole given up only when a packet Hold places behind it has arrived.      *)
(***************************************************************************)
Place == [o \in Index |->
            IF Holds(After(next, o)) THEN slots[SlotOf(After(next, o))].data ELSE BadPayload]
Abstract == INSTANCE JitterBuffer WITH
              Patience <- Hold, Vacant <- BadPayload, open <- started, place <- Place
ImplementsJitterBuffer == Abstract!Spec
=============================================================================
