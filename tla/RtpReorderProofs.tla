--------------------------- MODULE RtpReorderProofs ---------------------------
(***************************************************************************)
(* Proofs about the reorder buffer for every Window, HoldArg, SeqMod and    *)
(* Payload that satisfy the assumptions of RtpReorder.                      *)
(***************************************************************************)
EXTENDS RtpReorder, TLAPS, FiniteSetTheorems, WellFoundedInduction

-----------------------------------------------------------------------------
(* Arithmetic of the ring: remainders.                                      *)

(* Division with remainder, in the form the next lemmas use. *)
LEMMA ModDef ==
  ASSUME NEW a \in Nat, NEW w \in Nat \ {0}
  PROVE  /\ a % w \in 0 .. w - 1
         /\ a \div w \in Int
         /\ a = (w * (a \div w)) + (a % w)
BY SMT

(* A multiple of w strictly between -w and w is zero. *)
LEMMA MultipleInsideIsZero ==
  ASSUME NEW w \in Nat \ {0}, NEW k \in Int, -w < w * k, w * k < w
  PROVE  k = 0
<1>1. CASE k >= 1
  <2>1. w * k >= w  BY <1>1, SMT
  <2> QED BY <2>1
<1>2. CASE k <= -1
  <2>1. w * k <= -w  BY <1>2, SMT
  <2> QED BY <2>1
<1> QED BY <1>1, <1>2

LEMMA SlotOfType == \A s \in SeqNo : SlotOf(s) \in Index
BY ModDef, SizesAssumption DEF SlotOf, SeqNo, Index

(***************************************************************************)
(* Two sequence numbers less than a ring ahead of the same cursor do not    *)
(* share a slot, also when the window wraps past SeqMod - 1: this is where   *)
(* Window must divide SeqMod (rtp_reorder.c:24).                            *)
(***************************************************************************)
LEMMA SlotInjective ==
  ASSUME NEW c \in SeqNo, NEW a \in SeqNo, NEW b \in SeqNo,
         SeqDiff(a, c) < Window, SeqDiff(b, c) < Window,
         SlotOf(a) = SlotOf(b)
  PROVE  a = b
<1> DEFINE ka == a \div Window
           kb == b \div Window
           m  == SeqMod \div Window
<1>1. /\ a = (Window * ka) + (a % Window)
      /\ b = (Window * kb) + (b % Window)
      /\ SeqMod = (Window * m)
      /\ ka \in Int /\ kb \in Int /\ m \in Int
      /\ a % Window \in Int
  BY ModDef, SizesAssumption DEF SeqNo
<1> HIDE DEF ka, kb, m
<1>2. a - b = Window * (ka - kb)
  BY <1>1, SizesAssumption DEF SlotOf, SeqNo
<1>3. \/ -Window < a - b /\ a - b < Window
      \/ -Window < a - b - SeqMod /\ a - b - SeqMod < Window
      \/ -Window < a - b + SeqMod /\ a - b + SeqMod < Window
  BY SizesAssumption DEF SeqDiff, SeqNo
<1>4. CASE -Window < a - b /\ a - b < Window
  <2>1. ka - kb = 0
    <3> DEFINE k == ka - kb
    <3>1. k \in Int /\ -Window < Window * k /\ Window * k < Window
      BY <1>1, <1>2, <1>4
    <3> HIDE DEF k
    <3> QED BY <3>1, MultipleInsideIsZero, SizesAssumption DEF k
  <2> QED BY <2>1, <1>1, <1>2, SizesAssumption DEF SeqNo
<1>5. CASE -Window < a - b - SeqMod /\ a - b - SeqMod < Window
  <2> DEFINE k == ka - kb - m
  <2>1. a - b - SeqMod = Window * k
    BY <1>1, <1>2, SizesAssumption DEF SeqNo
  <2>2. k \in Int  BY <1>1
  <2> HIDE DEF k
  <2>3. k = 0  BY <1>5, <2>1, <2>2, MultipleInsideIsZero, SizesAssumption
  <2> QED BY <2>1, <2>3, SizesAssumption DEF SeqNo
<1>6. CASE -Window < a - b + SeqMod /\ a - b + SeqMod < Window
  <2> DEFINE k == ka - kb + m
  <2>1. a - b + SeqMod = Window * k
    BY <1>1, <1>2, SizesAssumption DEF SeqNo
  <2>2. k \in Int  BY <1>1
  <2> HIDE DEF k
  <2>3. k = 0  BY <1>6, <2>1, <2>2, MultipleInsideIsZero, SizesAssumption
  <2> QED BY <2>1, <2>3, SizesAssumption DEF SeqNo
<1> QED BY <1>3, <1>4, <1>5, <1>6

-----------------------------------------------------------------------------
(* Arithmetic of sequence numbers.                                          *)

LEMMA SuccType == \A s \in SeqNo : Succ(s) \in SeqNo
BY SizesAssumption DEF Succ, SeqNo

LEMMA SeqDiffType ==
  ASSUME NEW a \in SeqNo, NEW c \in SeqNo
  PROVE  /\ SeqDiff(a, c) \in 0 .. SeqMod - 1
         /\ SeqDiff(a, c) = 0 <=> a = c
BY SizesAssumption DEF SeqDiff, SeqNo

(* Moving the cursor on brings every other sequence number one step nearer. *)
LEMMA SeqDiffAdvance ==
  ASSUME NEW a \in SeqNo, NEW c \in SeqNo, a # c
  PROVE  SeqDiff(a, Succ(c)) = SeqDiff(a, c) - 1
BY SizesAssumption DEF SeqDiff, Succ, SeqNo

LEMMA SeqDiffSucc ==
  ASSUME NEW a \in SeqNo, NEW c \in SeqNo, SeqDiff(a, c) < Window
  PROVE  SeqDiff(Succ(a), c) = SeqDiff(a, c) + 1
BY SizesAssumption DEF SeqDiff, Succ, SeqNo

LEMMA SeqDiffInjective ==
  ASSUME NEW a \in SeqNo, NEW b \in SeqNo, NEW c \in SeqNo,
         SeqDiff(a, c) = SeqDiff(b, c)
  PROVE  a = b
BY SizesAssumption DEF SeqDiff, SeqNo

(* Up to a ring ahead of the cursor, the int16_t comparison is the order of *)
(* the distances (the second one positive, or 2^15 would count as negative).*)
LEMMA SeqLtIsOrder ==
  ASSUME NEW a \in SeqNo, NEW b \in SeqNo, NEW c \in SeqNo,
         SeqDiff(a, c) <= Window, SeqDiff(b, c) \in 1 .. Window
  PROVE  SeqLt(a, b) <=> SeqDiff(a, c) < SeqDiff(b, c)
BY SizesAssumption DEF SeqLt, SeqDiff, SeqNo

-----------------------------------------------------------------------------
(***************************************************************************)
(* Type correctness and the inductive invariant.  UnreadInWindow is not      *)
(* inductive alone: that a store keeps the newest packet in its slot needs   *)
(* SlotInjective, and that concealing stays below the head needs             *)
(* NewestUnread and, to exclude an empty buffer, CountExact.                 *)
(***************************************************************************)
LEMMA IndexFinite == IsFiniteSet(Index) /\ IsFiniteSet(Unread)
<1>1. IsFiniteSet(Index)
  BY FS_Interval, SizesAssumption DEF Index
<1> QED BY <1>1, FS_Subset DEF Unread

LEMMA HoldType == Hold \in Nat /\ Hold < Window
BY SizesAssumption, HoldAssumption DEF Hold

(* An occupied slot holds an acceptable packet. *)
LEMMA UnreadPacket ==
  ASSUME TypeOK, NEW i \in Unread
  PROVE  /\ i \in Index /\ slots[i].valid = TRUE
         /\ slots[i].seq \in SeqNo
         /\ slots[i].data \in Payload
         /\ slots[i] \in Slot
<1>1. i \in Index /\ slots[i] \in Slot /\ slots[i].valid
  BY DEF TypeOK, Unread
<1>2. slots[i] # Free
  BY <1>1 DEF Free
<1>3. slots[i] \in [valid : {TRUE}, seq : SeqNo, data : Payload]
  BY <1>1, <1>2 DEF Slot
<1> QED BY <1>1, <1>3

(* ... which is in its own slot, from the cursor up to the head. *)
LEMMA UnreadAhead ==
  ASSUME IInv, NEW i \in Unread
  PROVE  /\ SlotOf(slots[i].seq) = i
         /\ SeqDiff(slots[i].seq, next) < SeqDiff(head, next)
         /\ SeqDiff(head, next) \in 0 .. Window
         /\ SeqDiff(slots[i].seq, next) \in 0 .. Window - 1
<1>1. /\ SlotOf(slots[i].seq) = i
      /\ SeqDiff(slots[i].seq, next) < SeqDiff(head, next)
      /\ SeqDiff(head, next) <= Window
  BY DEF IInv, UnreadInWindow, Ahead
<1>2. slots[i].seq \in SeqNo /\ next \in SeqNo /\ head \in SeqNo
  BY UnreadPacket DEF IInv, TypeOK
<1>3. SeqDiff(slots[i].seq, next) \in Nat /\ SeqDiff(head, next) \in Nat
  BY <1>2, SeqDiffType, SizesAssumption
<1> QED BY <1>1, <1>3, SizesAssumption

LEMMA InitIInv == RbInit => IInv
<1> SUFFICES ASSUME RbInit PROVE IInv
  OBVIOUS
<1>1. TypeOK
  <2>1. slots \in [Index -> Slot]
    BY DEF RbInit, Slot
  <2>2. next \in SeqNo /\ head \in SeqNo /\ count \in Nat
    BY SizesAssumption DEF RbInit, SeqNo
  <2>3. started \in BOOLEAN
    BY DEF RbInit
  <2> QED BY <2>1, <2>2, <2>3 DEF TypeOK
<1>2. Unread = {}
  BY DEF RbInit, Unread, Free
<1>3. UnreadInWindow /\ NewestUnread
  BY <1>2, SizesAssumption DEF RbInit, UnreadInWindow, NewestUnread, Ahead, SeqDiff
<1>4. CountExact
  BY <1>2, FS_EmptySet DEF RbInit, CountExact
<1> QED BY <1>1, <1>3, <1>4 DEF IInv

LEMMA AnchorStep ==
  ASSUME IInv, NEW s \in SeqNo, ~started, Anchor(s)
  PROVE  IInv'
<1>1. Unread = {} /\ Unread' = Unread
  BY DEF IInv, NewestUnread, Anchor, Unread
<1>2. TypeOK'
  BY DEF IInv, TypeOK, Anchor
<1>3. UnreadInWindow' /\ NewestUnread'
  BY <1>1, SizesAssumption
     DEF Anchor, UnreadInWindow, NewestUnread, Ahead, SeqDiff, SeqNo
<1>4. CountExact'
  BY <1>1 DEF IInv, CountExact, Anchor
<1> QED BY <1>2, <1>3, <1>4 DEF IInv

(* A stored packet: the cursor stays (or is set to it), the head is at least *)
(* its successor, and its slot was free.                                    *)
LEMMA StoreStep ==
  ASSUME IInv, NEW s \in SeqNo, NEW d \in Payload \cup {BadPayload}, Store(s, d)
  PROVE  IInv' /\ ~slots[SlotOf(s)].valid
<1> DEFINE i == SlotOf(s)
<1>1. d \in Payload /\ i \in Index /\ Succ(s) \in SeqNo
  BY SlotOfType, SuccType DEF Store, Refused
<1>2. TypeOK /\ UnreadInWindow /\ NewestUnread /\ CountExact
  BY DEF IInv
<1>3. next' \in SeqNo /\ SeqDiff(s, next') < Window
  BY <1>2, SeqDiffType, SizesAssumption DEF Store, Refused, TooNew, TypeOK
<1>4. /\ started => next' = next
      /\ ~started => Unread = {} /\ next' = s
  BY <1>2 DEF Store, NewestUnread
<1>5. ~slots[i].valid
  <2> SUFFICES ASSUME slots[i].valid PROVE FALSE
    OBVIOUS
  <2>1. i \in Unread  BY <1>1 DEF Unread
  <2>2. started  BY <2>1, <1>4
  <2>3. slots[i].seq \in SeqNo /\ next \in SeqNo
    BY <2>1, <1>2, UnreadPacket DEF TypeOK
  <2>4. SlotOf(slots[i].seq) = i /\ SeqDiff(slots[i].seq, next) < Window
    BY <2>1, UnreadAhead, SizesAssumption
  <2>5. slots[i].seq = s
    BY <2>2, <2>3, <2>4, <1>3, <1>4, SlotInjective
  <2> QED BY <2>1, <2>2, <2>5 DEF Store, Refused, Holds, Unread
<1>6. /\ slots' = [slots EXCEPT ![i] = Holding(s, d)]
      /\ count' = count + 1
      /\ started' = TRUE
  BY <1>5 DEF Store
<1>7. Unread' = Unread \cup {i} /\ i \notin Unread
  BY <1>1, <1>2, <1>5, <1>6 DEF Unread, TypeOK, Holding
<1>8. TypeOK'
  <2>1. slots' \in [Index -> Slot]
    BY <1>1, <1>2, <1>6 DEF TypeOK, Slot, Holding
  <2>2. head' \in SeqNo
    BY <1>1, <1>2 DEF Store, TypeOK
  <2> QED BY <2>1, <2>2, <1>2, <1>3, <1>6 DEF TypeOK
<1>9. /\ SeqDiff(s, next') \in 0 .. Window - 1
      /\ SeqDiff(Succ(s), next') = SeqDiff(s, next') + 1
      /\ SeqDiff(head', next') \in 1 .. Window
      /\ head' = Succ(s) \/ (started /\ head' = head)
      /\ SeqDiff(s, next') < SeqDiff(head', next')
      /\ started => SeqDiff(head, next) <= SeqDiff(head', next')
  <2> DEFINE h == IF started THEN head ELSE s
  <2>1. h \in SeqNo /\ SeqDiff(h, next') \in 0 .. Window
    BY <1>2, <1>3, <1>4, SeqDiffType, SizesAssumption
       DEF TypeOK, UnreadInWindow, Ahead
  <2>2. /\ SeqDiff(s, next') \in 0 .. Window - 1
        /\ SeqDiff(Succ(s), next') = SeqDiff(s, next') + 1
    BY <1>3, SeqDiffType, SeqDiffSucc, SizesAssumption
  <2>3. head' = IF SeqLt(h, Succ(s)) THEN Succ(s) ELSE h
    BY DEF Store
  <2>4. SeqLt(h, Succ(s)) <=> SeqDiff(h, next') < SeqDiff(Succ(s), next')
    BY <1>1, <1>3, <2>1, <2>2, SeqLtIsOrder, SizesAssumption
  <2>5. ~started => SeqLt(h, Succ(s))
    BY <1>4, <2>2, <2>4
  <2> HIDE DEF h
  <2>6. SeqDiff(head', next') \in 1 .. Window /\ SeqDiff(s, next') < SeqDiff(head', next')
        /\ SeqDiff(h, next') <= SeqDiff(head', next')
    BY <2>1, <2>2, <2>3, <2>4, SizesAssumption
  <2>7. started => h = head /\ next' = next
    BY <1>4 DEF h
  <2>8. head' = Succ(s) \/ (started /\ head' = head)
    BY <2>3, <2>5, <2>7
  <2> QED BY <2>2, <2>6, <2>7, <2>8
<1>10. slots'[i].seq = s /\ \A j \in Unread : slots'[j] = slots[j]
  BY <1>1, <1>2, <1>6, <1>7 DEF TypeOK, Holding, Unread
<1>11. UnreadInWindow'
  <2>1. ASSUME NEW j \in Unread
        PROVE  /\ SlotOf(slots'[j].seq) = j
               /\ SeqDiff(slots'[j].seq, next') < SeqDiff(head', next')
    <3>1. started /\ next' = next  BY <1>4
    <3>2. slots[j].seq \in SeqNo /\ next \in SeqNo /\ head \in SeqNo
      BY <1>2, UnreadPacket DEF TypeOK
    <3>3. SeqDiff(slots[j].seq, next) \in Int /\ SeqDiff(head, next) \in Int
      BY <3>2, SeqDiffType
    <3> QED BY <3>1, <3>3, <1>9, <1>10, UnreadAhead
  <2>2. /\ SlotOf(slots'[i].seq) = i
        /\ SeqDiff(slots'[i].seq, next') < SeqDiff(head', next')
    BY <1>9, <1>10
  <2> QED BY <2>1, <2>2, <1>7, <1>9 DEF UnreadInWindow, Ahead
<1>12. NewestUnread'
  <2>1. \E j \in Unread' : Succ(slots'[j].seq) = head'
    <3>1. CASE head' = Succ(s)  BY <3>1, <1>7, <1>10
    <3>2. CASE started /\ head' = head
      <4>1. head # next
        BY <3>2, <1>2, <1>4, <1>9, SeqDiffType DEF TypeOK
      <4> QED BY <4>1, <3>2, <1>2, <1>7, <1>10 DEF NewestUnread
    <3> QED BY <1>9, <3>1, <3>2
  <2> QED BY <2>1, <1>6 DEF NewestUnread
<1>13. CountExact'
  BY <1>2, <1>6, <1>7, IndexFinite, FS_AddElement DEF CountExact
<1> QED BY <1>5, <1>8, <1>11, <1>12, <1>13 DEF IInv

(* The front packet is played: it was the only one at distance 0. *)
LEMMA PopOkStep ==
  ASSUME IInv, PopOk
  PROVE  IInv'
<1> DEFINE i == SlotOf(next)
<1>1. TypeOK /\ UnreadInWindow /\ NewestUnread /\ CountExact
  BY DEF IInv
<1>2. /\ next \in SeqNo /\ next' = Succ(next) /\ next' \in SeqNo
      /\ i \in Index /\ i \in Unread /\ slots[i].seq = next
      /\ head' = head /\ started' = started /\ started
      /\ slots' = [slots EXCEPT ![i] = Free] /\ count' = count - 1
  BY <1>1, SuccType, SlotOfType DEF PopOk, PopsOk, Nonempty, Holds, TypeOK, Unread
<1>3. Unread' = Unread \ {i}
  BY <1>1, <1>2 DEF Unread, TypeOK, Free
<1>4. \A j \in Unread' : slots'[j] = slots[j] /\ j \in Unread /\ slots[j].seq # next
  <2> TAKE j \in Unread'
  <2>1. j \in Unread /\ j # i  BY <1>3
  <2>2. SlotOf(slots[j].seq) = j  BY <2>1, UnreadAhead
  <2> QED BY <2>1, <2>2, <1>1, <1>2 DEF TypeOK, Unread
<1>5. head \in SeqNo /\ head # next /\ SeqDiff(head, next') = SeqDiff(head, next) - 1
      /\ SeqDiff(head, next) \in 0 .. Window
  <2>1. head \in SeqNo  BY <1>1 DEF TypeOK
  <2>2. SeqDiff(next, next) = 0  BY <1>2, SeqDiffType
  <2>3. SeqDiff(head, next) > 0 /\ SeqDiff(head, next) \in 0 .. Window
    BY <1>2, <2>2, UnreadAhead
  <2> QED BY <1>2, <2>1, <2>2, <2>3, SeqDiffAdvance
<1>6. TypeOK'
  <2>1. slots' \in [Index -> Slot]
    BY <1>1, <1>2 DEF TypeOK, Slot
  <2>2. count' \in Nat
    <3>1. IsFiniteSet(Unread') /\ Cardinality(Unread') = count - 1
      BY <1>1, <1>2, <1>3, IndexFinite, FS_RemoveElement DEF CountExact
    <3> QED BY <3>1, <1>2, FS_CardinalityType
  <2> QED BY <1>1, <1>2, <2>1, <2>2 DEF TypeOK
<1>7. UnreadInWindow'
  <2>1. ASSUME NEW j \in Unread'
        PROVE  /\ SlotOf(slots'[j].seq) = j
               /\ SeqDiff(slots'[j].seq, next') < SeqDiff(head', next')
    <3>1. slots'[j] = slots[j] /\ j \in Unread /\ slots[j].seq # next
      BY <1>4
    <3>2. slots[j].seq \in SeqNo  BY <3>1, <1>1, UnreadPacket
    <3>3. SeqDiff(slots[j].seq, next') = SeqDiff(slots[j].seq, next) - 1
      BY <3>1, <3>2, <1>2, SeqDiffAdvance
    <3>4. SeqDiff(slots[j].seq, next) \in Int
      BY <3>2, <1>2, SeqDiffType
    <3> QED BY <3>1, <3>3, <3>4, <1>2, <1>5, UnreadAhead
  <2>2. SeqDiff(head', next') <= Window
    BY <1>2, <1>5, SizesAssumption
  <2> QED BY <2>1, <2>2 DEF UnreadInWindow, Ahead
<1>8. NewestUnread'
  <2>1. ASSUME head # Succ(next)
        PROVE  \E j \in Unread' : Succ(slots'[j].seq) = head
    <3>1. PICK j \in Unread : Succ(slots[j].seq) = head
      BY <1>1, <1>5 DEF NewestUnread
    <3>2. j # i  BY <2>1, <3>1, <1>2
    <3> QED BY <3>1, <3>2, <1>3, <1>4
  <2> QED BY <2>1, <1>2 DEF NewestUnread
<1>9. CountExact'
  BY <1>1, <1>2, <1>3, IndexFinite, FS_RemoveElement DEF CountExact
<1> QED BY <1>6, <1>7, <1>8, <1>9 DEF IInv

(* A hole is given up: no unread packet is at distance 0, so all stay ahead. *)
LEMMA PopConcealStep ==
  ASSUME IInv, PopConceal
  PROVE  IInv'
<1>1. TypeOK /\ UnreadInWindow /\ NewestUnread /\ CountExact
  BY DEF IInv
<1>2. /\ next \in SeqNo /\ next' = Succ(next) /\ next' \in SeqNo
      /\ head \in SeqNo /\ head' = head /\ started' = started /\ started
      /\ slots' = slots /\ count' = count /\ ~Holds(next)
      /\ SeqDiff(head, next) > Hold
  BY <1>1, SuccType DEF PopConceal, PopsConceal, Nonempty, TypeOK
<1>3. Unread' = Unread
  BY <1>2 DEF Unread
<1>4. \A j \in Unread : slots[j].seq \in SeqNo /\ slots[j].seq # next
  <2> TAKE j \in Unread
  <2>1. SlotOf(slots[j].seq) = j /\ slots[j].seq \in SeqNo
    BY <1>1, UnreadAhead, UnreadPacket
  <2> QED BY <2>1, <1>2 DEF Holds, Unread
<1>5. head # next /\ SeqDiff(head, next') = SeqDiff(head, next) - 1
      /\ SeqDiff(head, next) \in 0 .. Window
  <2>1. SeqDiff(head, next) \in Nat /\ SeqDiff(head, next) # 0
    BY <1>2, HoldType, SeqDiffType, SizesAssumption
  <2>2. head # next
    BY <1>2, <2>1, SeqDiffType
  <2>3. SeqDiff(head, next) <= Window
    BY <1>1 DEF UnreadInWindow, Ahead
  <2> QED BY <1>2, <2>1, <2>2, <2>3, SeqDiffAdvance, SizesAssumption
<1>6. TypeOK'
  BY <1>1, <1>2 DEF TypeOK
<1>7. UnreadInWindow'
  <2>1. ASSUME NEW j \in Unread
        PROVE  /\ SlotOf(slots[j].seq) = j
               /\ SeqDiff(slots[j].seq, next') < SeqDiff(head, next')
    <3>1. SeqDiff(slots[j].seq, next') = SeqDiff(slots[j].seq, next) - 1
      BY <1>2, <1>4, SeqDiffAdvance
    <3>2. SeqDiff(slots[j].seq, next) \in Int
      BY <1>2, <1>4, SeqDiffType
    <3> QED BY <3>1, <3>2, <1>5, UnreadAhead
  <2>2. SeqDiff(head, next') <= Window
    BY <1>5, SizesAssumption
  <2> QED BY <2>1, <2>2, <1>2, <1>3 DEF UnreadInWindow, Ahead
<1>8. NewestUnread'
  BY <1>1, <1>2, <1>3, <1>5 DEF NewestUnread
<1>9. CountExact'
  BY <1>1, <1>2, <1>3 DEF CountExact
<1> QED BY <1>6, <1>7, <1>8, <1>9 DEF IInv

LEMMA NextIInv == IInv /\ [Next]_rbVars => IInv'
<1> SUFFICES ASSUME IInv, [Next]_rbVars PROVE IInv'
  OBVIOUS
<1>1. ASSUME NEW s \in SeqNo, NEW d \in Payload \cup {BadPayload}, Store(s, d)
      PROVE  IInv'
  BY <1>1, StoreStep
<1>2. ASSUME NEW s \in SeqNo, ~started, Anchor(s)
      PROVE  IInv'
  BY <1>2, AnchorStep
<1>3. CASE PopOk
  BY <1>3, PopOkStep
<1>4. CASE PopConceal
  BY <1>4, PopConcealStep
<1>5. CASE UNCHANGED rbVars
  BY <1>5 DEF rbVars, IInv, TypeOK, UnreadInWindow, NewestUnread, CountExact,
              Unread, Ahead
<1> QED
  BY <1>1, <1>2, <1>3, <1>4, <1>5 DEF Next, Insert, Refuse

(***************************************************************************)
(* For every ring size that divides the sequence space: the buffer's fields  *)
(* keep their types, unread packets stay in their own slots inside the       *)
(* window, the newest one is unread, and rb->count is exact                  *)
(* (rtp_reorder.c:14-51).                                                    *)
(***************************************************************************)
THEOREM ReorderInvariant == Spec => []IInv
BY InitIInv, NextIInv, PTL DEF Spec

(* The buffer's fields keep their types (rtp_reorder.h:24-32). *)
THEOREM ReorderTypeOK == Spec => []TypeOK
<1>1. IInv => TypeOK  BY DEF IInv
<1> QED BY <1>1, ReorderInvariant, PTL

(* Every unread packet lies in its slot, from the cursor up to the head.    *)
THEOREM ReorderWindow == Spec => []UnreadInWindow
<1>1. IInv => UnreadInWindow  BY DEF IInv
<1> QED BY <1>1, ReorderInvariant, PTL

(* The counter that decides EMPTY is the number of unread packets.          *)
THEOREM ReorderCount == Spec => []CountExact
<1>1. IInv => CountExact  BY DEF IInv
<1> QED BY <1>1, ReorderInvariant, PTL

(***************************************************************************)
(* A stored packet leaves its slot only when it is played at its turn: no    *)
(* later packet is stored over it and no concealment skips it                *)
(* (rtp_reorder.c:24-28 and 42-48).                                          *)
(***************************************************************************)
LEMMA UnreadKeptStep ==
  ASSUME IInv, [Next]_rbVars, NEW i \in Unread
  PROVE  \/ slots'[i] = slots[i] /\ slots[i].seq # next
         \/ slots'[i] = slots[i] /\ next' = next
         \/ slots[i].seq = next /\ next' = Succ(next)
<1>0. i \in Index /\ slots[i].valid /\ slots \in [Index -> Slot] /\ Unread # {}
  BY UnreadPacket DEF IInv, TypeOK
<1>1. ASSUME NEW s \in SeqNo, NEW d \in Payload \cup {BadPayload}, Store(s, d)
      PROVE  slots'[i] = slots[i] /\ next' = next
  <2>1. ~slots[SlotOf(s)].valid  BY <1>1, StoreStep
  <2>2. started  BY <1>0 DEF IInv, NewestUnread
  <2>3. slots' = [slots EXCEPT ![SlotOf(s)] = Holding(s, d)] /\ next' = next
    BY <1>1, <2>2 DEF Store
  <2>4. i # SlotOf(s)  BY <1>0, <2>1
  <2> QED BY <1>0, <2>3, <2>4
<1>2. ASSUME NEW s \in SeqNo, ~started, Anchor(s)
      PROVE  FALSE
  BY <1>0, <1>2 DEF IInv, NewestUnread
<1>3. CASE PopOk
  <2>1. slots' = [slots EXCEPT ![SlotOf(next)] = Free] /\ next' = Succ(next)
        /\ slots[SlotOf(next)].seq = next
    BY <1>3 DEF PopOk, PopsOk, Holds
  <2>2. CASE i = SlotOf(next)  BY <2>1, <2>2
  <2>3. CASE i # SlotOf(next)
    <3>1. SlotOf(slots[i].seq) = i  BY UnreadAhead
    <3> QED BY <1>0, <2>1, <2>3, <3>1
  <2> QED BY <2>2, <2>3
<1>4. CASE PopConceal
  <2>1. slots' = slots /\ ~Holds(next)  BY <1>4 DEF PopConceal, PopsConceal
  <2>2. SlotOf(slots[i].seq) = i  BY UnreadAhead
  <2> QED BY <1>0, <2>1, <2>2 DEF Holds
<1>5. CASE UNCHANGED rbVars
  BY <1>5 DEF rbVars
<1> QED
  BY <1>1, <1>2, <1>3, <1>4, <1>5 DEF Next, Insert, Refuse

THEOREM ReorderKeepsUnread == Spec => UnreadKeptUntilPlayed
<1>1. IInv /\ [Next]_rbVars => [KeepsUnread]_rbVars
  BY UnreadKeptStep DEF KeepsUnread
<1> QED BY <1>1, ReorderInvariant, PTL DEF Spec, UnreadKeptUntilPlayed

-----------------------------------------------------------------------------
(* Places counted from the cursor.                                          *)

(* Place o is the sequence number o steps after the cursor, and conversely. *)
LEMMA AfterIsPlace ==
  ASSUME NEW c \in SeqNo
  PROVE  /\ \A o \in 0 .. Window : /\ After(c, o) \in SeqNo
                                  /\ After(Succ(c), o) = After(c, o + 1)
         /\ \A o \in Index : SeqDiff(After(c, o), c) = o
         /\ \A s \in SeqNo : SeqDiff(s, c) \in Index => After(c, SeqDiff(s, c)) = s
         /\ After(c, 0) = c
BY SizesAssumption DEF After, SeqDiff, Succ, SeqNo, Index

LEMMA HoldsUnread ==
  ASSUME TypeOK, NEW s \in SeqNo
  PROVE  Holds(s) <=> \E i \in Unread : i = SlotOf(s) /\ slots[i].seq = s
BY SlotOfType DEF Holds, Unread, TypeOK

-----------------------------------------------------------------------------
(* The gap.                                                                 *)

(* A set of naturals has a least element. *)
LEMMA LeastNatural ==
  ASSUME NEW S, S \subseteq Nat, S # {}
  PROVE  \E m \in S : \A n \in S : m <= n
<1>1. PICK m \in S : \A n \in S : <<n, m>> \notin OpToRel(<, Nat)
  BY NatLessThanWellFounded, WFMin
<1>2. ASSUME NEW n \in S
      PROVE  m <= n
  <2>1. <<n, m>> \notin {ss \in Nat \X Nat : ss[1] < ss[2]}
    BY <1>1 DEF OpToRel
  <2> QED BY <2>1
<1> QED BY <1>2

(***************************************************************************)
(* With a hole at the cursor, the run of missing packets ends at the nearest *)
(* unread one, and its length is what gap finds.                            *)
(***************************************************************************)
LEMMA GapEndsAtNearest ==
  ASSUME IInv, Nonempty, ~Holds(next)
  PROVE  /\ GapLengths # {} /\ GapLength \in 1 .. Window - 1
         /\ Holds(After(next, GapLength))
         /\ \A j \in 0 .. GapLength - 1 : ~Holds(After(next, j))
<1> DEFINE S == {Ahead(slots[i].seq) : i \in Unread}
<1>1. TypeOK /\ next \in SeqNo /\ head \in SeqNo
  BY DEF IInv, TypeOK
<1>2. Unread # {}
  BY FS_EmptySet DEF IInv, CountExact, Nonempty
<1>3. ASSUME NEW j \in Index
      PROVE  Holds(After(next, j)) <=> j \in S
  <2>1. After(next, j) \in SeqNo /\ SeqDiff(After(next, j), next) = j
    BY <1>1, AfterIsPlace, SizesAssumption DEF Index
  <2>2. ASSUME Holds(After(next, j))
        PROVE  j \in S
    <3>1. PICK i \in Unread : slots[i].seq = After(next, j)
      BY <1>1, <2>1, <2>2, HoldsUnread
    <3> QED BY <2>1, <3>1 DEF Ahead
  <2>3. ASSUME NEW i \in Unread, Ahead(slots[i].seq) = j
        PROVE  Holds(After(next, j))
    <3>1. slots[i].seq \in SeqNo /\ SlotOf(slots[i].seq) = i
      BY <1>1, UnreadPacket, UnreadAhead
    <3>2. slots[i].seq = After(next, j)
      BY <1>1, <2>1, <2>3, <3>1, SeqDiffInjective DEF Ahead
    <3> QED BY <1>1, <3>1, <3>2, HoldsUnread
  <2> QED BY <2>2, <2>3
<1>4. \A o \in S : o \in 0 .. Window - 1 /\ o < SeqDiff(head, next)
  BY UnreadAhead DEF Ahead
<1>5. SeqDiff(head, next) \in 0 .. Window
  BY <1>2, UnreadAhead
<1>6. PICK m \in S : \A o \in S : m <= o
  <2>1. S \subseteq Nat /\ S # {}  BY <1>2, <1>4, SizesAssumption
  <2> HIDE DEF S
  <2> QED BY <2>1, LeastNatural
<1> HIDE DEF S
<1>7. m \in Index /\ Holds(After(next, m)) /\ m < SeqDiff(head, next)
  BY <1>3, <1>4, <1>6 DEF Index
<1>8. \A j \in 0 .. m - 1 : ~Holds(After(next, j))
  <2> SUFFICES ASSUME NEW j \in 0 .. m - 1 PROVE ~Holds(After(next, j))
    OBVIOUS
  <2>1. j \in Index /\ j < m  BY <1>7, SizesAssumption DEF Index
  <2>2. j \notin S  BY <1>4, <1>6, <2>1, <1>7, SizesAssumption DEF Index
  <2> QED BY <1>3, <2>1, <2>2
<1>9. m >= 1
  <2>1. m # 0  BY <1>1, <1>7, AfterIsPlace
  <2> QED BY <2>1, <1>7 DEF Index
<1>10. GapLengths = 1 .. m
  <2>1. ASSUME NEW k \in GapLengths
        PROVE  k \in 1 .. m
    <3>1. k \in 1 .. Window /\ \A j \in 0 .. k - 1 : ~Holds(After(next, j))
      BY DEF GapLengths
    <3>2. ~(m \in 0 .. k - 1)  BY <1>7, <3>1
    <3> QED BY <1>7, <3>1, <3>2, SizesAssumption DEF Index
  <2>2. ASSUME NEW k \in 1 .. m
        PROVE  k \in GapLengths
    <3>1. k \in 1 .. Window /\ k <= SeqDiff(head, next)
      BY <1>5, <1>7, SizesAssumption DEF Index
    <3>2. \A j \in 0 .. k - 1 : ~Holds(After(next, j))
      BY <1>7, <1>8, SizesAssumption DEF Index
    <3> QED BY <3>1, <3>2 DEF GapLengths
  <2> QED BY <2>1, <2>2
<1>11. GapLength = m
  <2>1. m \in GapLengths /\ \A j \in GapLengths : j <= m
    BY <1>7, <1>9, <1>10 DEF Index
  <2>2. ASSUME NEW k \in GapLengths, \A j \in GapLengths : j <= k
        PROVE  k = m
    BY <2>1, <2>2, <1>7, <1>10 DEF Index
  <2> QED BY <2>1, <2>2 DEF GapLength
<1> QED BY <1>7, <1>8, <1>9, <1>10, <1>11, SizesAssumption DEF Index

(***************************************************************************)
(* Whenever pop says WAIT the gap is not empty, starts at the cursor, holds  *)
(* nothing that is buffered and ends at a packet that is (rtp_reorder.c:53): *)
(* for every ring size, a resend request asks for the missing run.          *)
(***************************************************************************)
THEOREM ReorderGap == Spec => []GapIsTheMissingRun
<1>1. IInv => GapIsTheMissingRun
  <2> SUFFICES ASSUME IInv PROVE GapIsTheMissingRun
    OBVIOUS
  <2>1. PopsWait => HasGap
    BY GapEndsAtNearest DEF PopsWait, HasGap
  <2>2. ASSUME HasGap
        PROVE  /\ GapLength < Window
               /\ Holds(After(next, GapLength))
               /\ \A j \in 0 .. GapLength - 1 : ~Holds(After(next, j))
    BY <2>2, GapEndsAtNearest, SizesAssumption DEF HasGap
  <2> QED BY <2>1, <2>2 DEF GapIsTheMissingRun
<1> QED BY <1>1, ReorderInvariant, PTL

-----------------------------------------------------------------------------
(* The refinement.                                                          *)

(* With nothing unread every place is vacant. *)
LEMMA NothingUnread ==
  ASSUME TypeOK, Unread = {}
  PROVE  Place = [o \in Index |-> BadPayload]
<1>1. \A o \in Index : ~Holds(After(next, o))
  <2> TAKE o \in Index
  <2>1. After(next, o) \in SeqNo
    BY AfterIsPlace, SizesAssumption DEF TypeOK, Index
  <2> QED BY <2>1, HoldsUnread
<1> QED BY <1>1 DEF Place

LEMMA FilledPlace ==
  ASSUME TypeOK, NEW o \in Index
  PROVE  Place[o] # BadPayload <=> Holds(After(next, o))
<1>1. After(next, o) \in SeqNo
  BY AfterIsPlace, SizesAssumption DEF TypeOK, Index
<1>2. ASSUME Holds(After(next, o))
      PROVE  slots[SlotOf(After(next, o))].data # BadPayload
  BY <1>1, <1>2, HoldsUnread, UnreadPacket, PayloadAssumption
<1> QED BY <1>2 DEF Place

LEMMA InitImplements == RbInit => Abstract!Init
<1> SUFFICES ASSUME RbInit PROVE Abstract!Init
  OBVIOUS
<1>1. TypeOK /\ Unread = {}
  BY InitIInv DEF IInv, RbInit, Unread, Free
<1> QED BY <1>1, NothingUnread DEF RbInit, Abstract!Init, Abstract!Places, Index

LEMMA AnchorImplements ==
  ASSUME IInv, IInv', NEW s \in SeqNo, ~started, Anchor(s)
  PROVE  Abstract!Open
<1>1. Unread = {} /\ Unread' = {} /\ started' = TRUE /\ TypeOK /\ TypeOK'
  BY DEF IInv, NewestUnread, Anchor, Unread
<1>2. Place = [o \in Index |-> BadPayload]
  BY <1>1, NothingUnread
<1>3. Place' = [o \in Index |-> BadPayload]
  <2>1. s \in SeqNo /\ next' = s  BY DEF Anchor
  <2>2. \A o \in Index : ~Holds(After(next, o))'
    <3> TAKE o \in Index
    <3>1. After(s, o) \in SeqNo
      BY AfterIsPlace, SizesAssumption DEF Index
    <3>2. SlotOf(After(s, o)) \in Index  BY <3>1, SlotOfType
    <3> QED BY <1>1, <2>1, <3>2 DEF Holds, Unread, SlotOf
  <2> QED BY <2>2 DEF Place
<1> QED BY <1>1, <1>2, <1>3 DEF Abstract!Open

(* Storing fills the vacant place at the packet's distance from the cursor. *)
LEMMA StoreImplements ==
  ASSUME IInv, IInv', NEW s \in SeqNo, NEW d \in Payload \cup {BadPayload}, Store(s, d)
  PROVE  \E o \in Index, e \in Payload : Abstract!Put(o, e)
<1> DEFINE o == SeqDiff(s, next')
<1>1. /\ TypeOK /\ TypeOK' /\ d \in Payload /\ ~slots[SlotOf(s)].valid
      /\ started' = TRUE /\ slots' = [slots EXCEPT ![SlotOf(s)] = Holding(s, d)]
      /\ SlotOf(s) \in Index /\ next \in SeqNo /\ next' \in SeqNo
  BY StoreStep, SlotOfType DEF Store, Refused, IInv, TypeOK
<1>2. /\ started => next' = next
      /\ ~started => Unread = {} /\ next' = s
  BY DEF IInv, Store, NewestUnread
<1>3. o \in Index /\ After(next', o) = s
  <2>1. SeqDiff(s, next') < Window
    BY <1>1, <1>2, SeqDiffType, SizesAssumption DEF Store, Refused, TooNew
  <2>2. o \in Index
    BY <2>1, <1>1, SeqDiffType, SizesAssumption DEF Index
  <2> QED BY <2>2, <1>1, AfterIsPlace
<1>4. started \/ o = 0
  BY <1>1, <1>2, SeqDiffType
<1>5. ~Holds(s)
  BY <1>1 DEF Holds
<1>6. Place = [p \in Index |-> IF Holds(After(next', p))
                               THEN slots[SlotOf(After(next', p))].data ELSE BadPayload]
  <2>1. CASE started
    BY <2>1, <1>2 DEF Place
  <2>2. CASE ~started
    <3>1. \A p \in Index : ~Holds(After(next', p))
      <4> TAKE p \in Index
      <4>1. After(next', p) \in SeqNo
        BY <1>1, AfterIsPlace, SizesAssumption DEF Index
      <4> QED BY <4>1, <1>1, <1>2, <2>2, HoldsUnread
    <3> QED BY <3>1, <2>2, <1>1, <1>2, NothingUnread
  <2> QED BY <2>1, <2>2
<1> HIDE DEF o
<1>7. Place[o] = BadPayload
  BY <1>3, <1>5, <1>6
<1>8. Place' = [Place EXCEPT ![o] = d]
  <2>1. ASSUME NEW p \in Index
        PROVE  Place'[p] = IF p = o THEN d ELSE Place[p]
    <3> DEFINE t == After(next', p)
    <3>0. p \in 0 .. Window  BY SizesAssumption DEF Index
    <3>1. t \in SeqNo /\ SlotOf(t) \in Index /\ SeqDiff(t, next') = p
      BY <3>0, <1>1, AfterIsPlace, SlotOfType
    <3>2. Place'[p] = IF slots'[SlotOf(t)].valid /\ slots'[SlotOf(t)].seq = t
                      THEN slots'[SlotOf(t)].data ELSE BadPayload
      BY DEF Place, Holds, SlotOf
    <3>3. slots \in [Index -> Slot]  BY <1>1 DEF TypeOK
    <3> HIDE DEF t
    <3>4. CASE p = o
      <4>1. t = s  BY <3>4, <1>3 DEF t
      <4> QED BY <3>2, <3>3, <3>4, <4>1, <1>1 DEF Holding
    <3>5. CASE p # o
      <4>1. t # s
        BY <3>1, <3>5 DEF o
      <4>2. SlotOf(t) # SlotOf(s)
        <5>1. SeqDiff(t, next') < Window /\ SeqDiff(s, next') < Window
          BY <3>1, <1>3, SizesAssumption DEF Index, o
        <5> QED BY <5>1, <4>1, <3>1, <1>1, SlotInjective
      <4>3. slots'[SlotOf(t)] = slots[SlotOf(t)]
        BY <4>2, <3>1, <3>3, <1>1
      <4> QED BY <3>2, <3>5, <4>3, <1>6 DEF Holds, t
    <3> QED BY <3>4, <3>5
  <2>2. /\ Place' = [p \in Index |-> Place'[p]]
        /\ Place = [p \in Index |-> Place[p]]
    BY DEF Place
  <2> QED BY <2>1, <2>2, <1>3
<1> QED BY <1>1, <1>3, <1>4, <1>7, <1>8 DEF Abstract!Put

(* Moving the cursor on shifts every place by one; the last becomes vacant. *)
LEMMA ShiftPlaces ==
  ASSUME IInv, next' = Succ(next), started' = started, NEW f, f \in [Index -> Slot],
         slots' = f,
         \A s \in SeqNo : s # next => (f[SlotOf(s)].valid /\ f[SlotOf(s)].seq = s
                                         <=> Holds(s)),
         \A s \in SeqNo : s # next /\ Holds(s) => f[SlotOf(s)] = slots[SlotOf(s)]
  PROVE  Abstract!Advance
<1>1. TypeOK /\ next \in SeqNo
  BY DEF IInv, TypeOK
<1>2. ASSUME NEW p \in Index
      PROVE  Place'[p] = IF p + 1 \in Index THEN Place[p + 1] ELSE BadPayload
  <2> DEFINE t == After(next, p + 1)
  <2>1. t \in SeqNo /\ After(Succ(next), p) = t
    BY <1>1, AfterIsPlace, SizesAssumption DEF Index
  <2>2. Place'[p] = IF f[SlotOf(t)].valid /\ f[SlotOf(t)].seq = t
                    THEN f[SlotOf(t)].data ELSE BadPayload
    BY <2>1 DEF Place, Holds, SlotOf
  <2>3. SeqDiff(t, next) = p + 1 /\ t # next
    <3>1. p + 1 \in 1 .. Window  BY SizesAssumption DEF Index
    <3>2. SeqDiff(t, next) = p + 1
      BY <3>1, <1>1, SizesAssumption DEF SeqDiff, After, SeqNo
    <3> QED BY <3>1, <3>2, <2>1, <1>1, SeqDiffType
  <2>4. CASE p + 1 \in Index
    BY <2>1, <2>2, <2>3, <2>4 DEF Place
  <2>5. CASE p + 1 \notin Index
    <3>1. SeqDiff(t, next) = Window
      BY <2>3, <2>5, SizesAssumption DEF Index
    <3>2. ~Holds(t)
      <4> SUFFICES ASSUME Holds(t) PROVE FALSE
        OBVIOUS
      <4>1. PICK i \in Unread : slots[i].seq = t
        BY <2>1, <1>1, HoldsUnread
      <4> QED BY <4>1, <3>1, UnreadAhead, SizesAssumption
    <3> QED BY <2>1, <2>2, <2>3, <2>5, <3>2
  <2> QED BY <2>4, <2>5
<1>3. Place' = [p \in Index |-> Place'[p]]
  BY DEF Place
<1> QED BY <1>2, <1>3 DEF Abstract!Advance, Abstract!Places, Index

LEMMA PopOkImplements ==
  ASSUME IInv, PopOk
  PROVE  Abstract!Play
<1>1. /\ next \in SeqNo /\ next' = Succ(next) /\ started' = started /\ started = TRUE
      /\ slots' = [slots EXCEPT ![SlotOf(next)] = Free]
      /\ Holds(next) /\ slots \in [Index -> Slot] /\ TypeOK
  BY DEF IInv, TypeOK, PopOk, PopsOk, Nonempty
<1>2. Place[0] # BadPayload
  BY <1>1, FilledPlace, AfterIsPlace, SizesAssumption DEF Index
<1> DEFINE f == [slots EXCEPT ![SlotOf(next)] = Free]
<1>3. f \in [Index -> Slot] /\ slots' = f
  BY <1>1 DEF Slot
<1>4. ASSUME NEW s \in SeqNo, s # next
      PROVE  /\ f[SlotOf(s)].valid /\ f[SlotOf(s)].seq = s <=> Holds(s)
             /\ Holds(s) => f[SlotOf(s)] = slots[SlotOf(s)]
  <2>1. SlotOf(s) \in Index  BY SlotOfType
  <2>2. CASE SlotOf(s) = SlotOf(next)
    BY <1>1, <1>4, <2>1, <2>2 DEF Holds, Free
  <2>3. CASE SlotOf(s) # SlotOf(next)
    BY <1>1, <2>1, <2>3 DEF Holds
  <2> QED BY <2>2, <2>3
<1> HIDE DEF f
<1>5. Abstract!Advance
  BY <1>1, <1>3, <1>4, ShiftPlaces
<1> QED BY <1>1, <1>2, <1>5 DEF Abstract!Play

LEMMA PopConcealImplements ==
  ASSUME IInv, PopConceal
  PROVE  Abstract!Skip
<1>1. /\ next \in SeqNo /\ head \in SeqNo
      /\ next' = Succ(next) /\ started' = started /\ started = TRUE
      /\ slots' = slots /\ slots \in [Index -> Slot] /\ TypeOK
      /\ ~Holds(next) /\ SeqDiff(head, next) > Hold
  BY DEF IInv, TypeOK, PopConceal, PopsConceal, Nonempty
<1>2. Place[0] = BadPayload
  BY <1>1, FilledPlace, AfterIsPlace, SizesAssumption DEF Index
<1>3. \E o \in Index : o >= Hold /\ Place[o] # BadPayload
  <2>1. head # next
    BY <1>1, HoldType, SeqDiffType
  <2>2. PICK i \in Unread : Succ(slots[i].seq) = head
    BY <2>1 DEF IInv, NewestUnread
  <2> DEFINE s == slots[i].seq
             o == SeqDiff(s, next)
  <2>3. s \in SeqNo /\ SlotOf(s) = i
    BY <1>1, UnreadPacket, UnreadAhead
  <2>4. o \in Index
    BY UnreadAhead DEF Index
  <2>5. SeqDiff(head, next) = o + 1
    BY <1>1, <2>2, <2>3, <2>4, SeqDiffSucc, SizesAssumption DEF Index
  <2>6. After(next, o) = s
    BY <1>1, <2>3, <2>4, AfterIsPlace
  <2>7. Holds(s)
    BY <1>1, <2>3, HoldsUnread
  <2>8. Place[o] # BadPayload
    BY <1>1, <2>4, <2>6, <2>7, FilledPlace
  <2>9. o >= Hold
    BY <1>1, <2>4, <2>5, HoldType, SizesAssumption DEF Index
  <2> QED BY <2>4, <2>8, <2>9
<1>4. Abstract!Advance
  BY <1>1, ShiftPlaces DEF Holds
<1> QED BY <1>1, <1>2, <1>3, <1>4 DEF Abstract!Skip, Abstract!Places, Index

LEMMA NextImplements ==
  IInv /\ IInv' /\ [Next]_rbVars => [Abstract!Next]_<<started, Place>>
<1> SUFFICES ASSUME IInv, IInv', [Next]_rbVars
             PROVE  [Abstract!Next]_<<started, Place>>
  OBVIOUS
<1>1. ASSUME NEW s \in SeqNo, NEW d \in Payload \cup {BadPayload}, Store(s, d)
      PROVE  Abstract!Next
  BY <1>1, StoreImplements DEF Abstract!Next, Abstract!Places, Index
<1>2. ASSUME NEW s \in SeqNo, ~started, Anchor(s)
      PROVE  Abstract!Next
  BY <1>2, AnchorImplements DEF Abstract!Next
<1>3. CASE PopOk
  BY <1>3, PopOkImplements DEF Abstract!Next
<1>4. CASE PopConceal
  BY <1>4, PopConcealImplements DEF Abstract!Next
<1>5. CASE UNCHANGED rbVars
  BY <1>5 DEF rbVars, Place, Holds
<1> QED
  BY <1>1, <1>2, <1>3, <1>4, <1>5 DEF Next, Insert, Refuse

(***************************************************************************)
(* The reorder buffer implements the jitter buffer it documents             *)
(* (rtp_reorder.h:34-49), for every ring size, hold and payload set.        *)
(***************************************************************************)
THEOREM ReorderImplementsJitterBuffer == Spec => ImplementsJitterBuffer
<1>1. RbInit => Abstract!Init
  BY InitImplements
<1>2. IInv /\ IInv' /\ [Next]_rbVars => [Abstract!Next]_<<started, Place>>
  BY NextImplements
<1> QED
  BY <1>1, <1>2, ReorderInvariant, PTL DEF Spec, ImplementsJitterBuffer, Abstract!Spec
=============================================================================
