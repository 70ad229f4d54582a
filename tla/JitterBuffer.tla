----------------------------- MODULE JitterBuffer -----------------------------
(***************************************************************************)
(* What a jitter buffer promises its reader, without sequence numbers,      *)
(* slots or a write head: a window of places counted from the play cursor.  *)
(* A packet is put in a vacant place, the front place is played when it is  *)
(* filled, and a vacant front is skipped only when a packet waits at least  *)
(* Patience places behind it.  Nothing else ever moves or loses a packet.   *)
(***************************************************************************)
EXTENDS Integers

CONSTANTS Window, Patience, Payload, Vacant

VARIABLES open, place

Places == 0 .. Window - 1

Init == open = FALSE /\ place = [o \in Places |-> Vacant]

Open == ~open /\ open' = TRUE /\ UNCHANGED place

Put(o, d) ==
  /\ open \/ o = 0
  /\ open' = TRUE
  /\ place[o] = Vacant
  /\ place' = [place EXCEPT ![o] = d]

Advance ==
  /\ place' = [o \in Places |-> IF o + 1 \in Places THEN place[o + 1] ELSE Vacant]
  /\ UNCHANGED open

Play == open /\ place[0] # Vacant /\ Advance

Skip ==
  /\ open /\ place[0] = Vacant
  /\ \E o \in Places : o >= Patience /\ place[o] # Vacant
  /\ Advance

Next ==
  \/ Open
  \/ \E o \in Places, d \in Payload : Put(o, d)
  \/ Play
  \/ Skip

Spec == Init /\ [][Next]_<<open, place>>
=============================================================================
