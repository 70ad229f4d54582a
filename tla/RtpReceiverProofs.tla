--------------------------- MODULE RtpReceiverProofs --------------------------
(***************************************************************************)
(* Proofs about the RTP task over its reorder buffer, for every stream,      *)
(* window and hold: the session keeps its duration, and, on the assumptions  *)
(* on the network named below, packets are played in the order of the       *)
(* stream although their numbers wrap.                                      *)
(***************************************************************************)
EXTENDS RtpReceiver, RtpReorderProofs

LEMMA StreamTypes ==
  /\ N \in Nat /\ Outage \in Nat \ {0} /\ Lifetime \in Nat \ {0} /\ FirstSeq \in SeqNo
  /\ Window \in Nat \ {0} /\ SeqMod \in Nat \ {0} /\ 2 * Window <= SeqMod
  /\ Hold \in Nat /\ Hold < Window
BY StreamAssumption, SizesAssumption, HoldType

-----------------------------------------------------------------------------
(* The steps by what they leave alone.                                      *)

(* Neither the buffer nor the network nor a history variable but fed.        *)
Aside ==
  /\ UNCHANGED <<rbVars, net, cursor, duds, anchor, newest>>
  /\ \/ UNCHANGED fed /\ (run' => run) /\ (run' /\ pc = "feed" <=> run' /\ pc' = "feed")
        /\ (pc' \in {"drain", "feed"} \/ pc \notin {"drain", "feed"})
     \/ fed' = fed + 1 /\ run /\ pc = "feed" /\ pc' = "drain"

LEMMA AsideSteps ==
  ASSUME Clock \/ TimePasses \/ TimingChannel \/ Stop \/ Rest \/ Begin \/ Remind
         \/ HandleTiming \/ Exit \/ ControlNothing \/ Feed \/ FeedGivenUp \/ NoRequest
         \/ UNCHANGED vars
  PROVE  Aside
<1>1. ASSUME Clock \/ TimePasses \/ TimingChannel \/ Rest \/ Remind \/ HandleTiming
             \/ UNCHANGED vars
      PROVE  Aside
  BY <1>1 DEF Aside, Clock, TimePasses, TimingChannel, Poll, HearTiming, LoseTiming, Leave,
              Rest, Remind, HandleTiming, vars, rbVars, net, task, channel, history
<1>2. ASSUME Stop \/ Begin \/ Exit \/ ControlNothing \/ NoRequest
      PROVE  Aside
  BY <1>2 DEF Aside, Stop, Begin, Exit, ControlNothing, NoRequest, AfterAudio, rbVars, net,
              channel, history
<1>3. ASSUME Feed \/ FeedGivenUp
      PROVE  Aside
  BY <1>3 DEF Aside, Feed, FeedGivenUp, rbVars, net, channel, history
<1> QED BY <1>1, <1>2, <1>3

(* Only the network: what is under way gets less, or more is sent.           *)
LEMMA RNextSteps ==
  ASSUME [RNext]_vars
  PROVE  \/ Aside \/ Send \/ Lose \/ Answer \/ HandleAudio \/ HandleControl
         \/ DrainPlay \/ DrainConceal \/ DrainStop \/ Request
BY AsideSteps DEF RNext, Task

-----------------------------------------------------------------------------
(* The duration.                                                            *)

LEMMA AirPositions ==
  ASSUME ReceiverTypes
  PROVE  /\ sent \in 0 .. N /\ newest \in -1 .. sent - 1
         /\ cursor \in Nat /\ anchor \in Nat /\ fed \in Nat /\ duds \in Nat
         /\ \A p \in air : p \in Position /\ p < sent
         /\ \A p \in back : p \in Position /\ p < sent
BY StreamTypes DEF ReceiverTypes, Position

(* What the task puts in the buffer anchors it, if nothing did before.      *)
LEMMA FirstAudioAnchors ==
  ASSUME HandleAudio
  PROVE  started' = TRUE \/ started
BY DEF HandleAudio, Anchor, Insert, Store, Refuse, Refused

LEMMA InitDuration == Init => DurationIInv
<1> SUFFICES ASSUME Init PROVE DurationIInv
  OBVIOUS
<1>1. ReceiverTypes  BY StreamTypes DEF Init, ReceiverTypes
<1>2. NothingEarly  BY DEF Init, NothingEarly
<1>3. StepsAccounted  BY DEF Init, StepsAccounted
<1> QED BY <1>1, <1>2, <1>3 DEF DurationIInv

LEMMA NextDuration == DurationIInv /\ [RNext]_vars => DurationIInv'
<1> SUFFICES ASSUME DurationIInv, [RNext]_vars PROVE DurationIInv'
  OBVIOUS
<1>0. ReceiverTypes /\ NothingEarly /\ StepsAccounted
  BY DEF DurationIInv
<1> USE DEF net, task, channel, history
<1>1. CASE Aside
  <2>1. ReceiverTypes'  BY <1>0, <1>1 DEF Aside, ReceiverTypes
  <2>2. NothingEarly'
    BY <1>0, <1>1, AirPositions DEF Aside, NothingEarly, StepsAccounted, rbVars
  <2>3. StepsAccounted'
    BY <1>0, <1>1, AirPositions DEF Aside, StepsAccounted
  <2> QED BY <2>1, <2>2, <2>3 DEF DurationIInv
<1>2. CASE Send
  <2>1. ReceiverTypes'
    <3>1. sent' = sent + 1 /\ sent < N /\ air' \subseteq air \cup {sent} /\ back' \subseteq back
          /\ UNCHANGED <<newest, cursor, anchor, fed, duds>>
      BY <1>2 DEF Send
    <3> QED BY <1>0, <3>1, StreamTypes DEF ReceiverTypes
  <2>2. NothingEarly'
    BY <1>0, <1>2 DEF Send, NothingEarly, rbVars
  <2>3. StepsAccounted'
    BY <1>0, <1>2 DEF Send, StepsAccounted
  <2> QED BY <2>1, <2>2, <2>3 DEF DurationIInv
<1>3. CASE Lose
  <2>1. ReceiverTypes'  BY <1>0, <1>3 DEF Lose, ReceiverTypes
  <2>2. NothingEarly'  BY <1>0, <1>3 DEF Lose, NothingEarly, rbVars
  <2>3. StepsAccounted'  BY <1>0, <1>3 DEF Lose, StepsAccounted
  <2> QED BY <2>1, <2>2, <2>3 DEF DurationIInv
<1>4. CASE Answer
  <2>1. ReceiverTypes'
    BY <1>0, <1>4, StreamTypes DEF Answer, ReceiverTypes, Position
  <2>2. NothingEarly'  BY <1>0, <1>4 DEF Answer, NothingEarly, rbVars
  <2>3. StepsAccounted'  BY <1>0, <1>4 DEF Answer, StepsAccounted
  <2> QED BY <2>1, <2>2, <2>3 DEF DurationIInv
<1>5. CASE HandleAudio
  <2>1. PICK p \in air :
          /\ air' = air \ {p}
          /\ newest' = IF started /\ p \in BadLen THEN newest ELSE Later(newest, p)
          /\ cursor' = IF started THEN cursor ELSE p
          /\ anchor' = IF started THEN anchor ELSE p
    BY <1>5 DEF HandleAudio
  <2>2. pc = "select" /\ pc' = "drain" /\ UNCHANGED <<sent, back, run, fed, duds>>
    BY <1>5 DEF HandleAudio
  <2>3. p \in Nat /\ p <= sent - 1 /\ sent \in Nat
    BY <1>0, AirPositions DEF Position
  <2>4. ReceiverTypes'
    BY <1>0, <2>1, <2>2, <2>3 DEF ReceiverTypes, Later
  <2>5. NothingEarly'
    <3>1. started' = TRUE \/ (started /\ started' = started)
      BY <1>5, FirstAudioAnchors DEF HandleAudio, Anchor, Insert, Store, Refuse, rbVars
    <3> QED BY <3>1 DEF NothingEarly
  <2>6. StepsAccounted'
    BY <1>0, <2>1, <2>2, <2>3, AirPositions DEF StepsAccounted, NothingEarly
  <2> QED BY <2>4, <2>5, <2>6 DEF DurationIInv
<1>6. CASE HandleControl
  <2>1. PICK p \in back : back' = back \ {p}
    BY <1>6 DEF HandleControl
  <2>2. pc \in {"select", "control"} /\ pc' = "drain" /\ UNCHANGED <<sent, air, wanted, run, history>>
    BY <1>6 DEF HandleControl
  <2>3. started' = TRUE
    <3>1. started  BY <1>0, <2>1 DEF NothingEarly
    <3>2. started' = started \/ started' = TRUE
      BY <1>6 DEF HandleControl, Insert, Store, Refuse, rbVars
    <3>3. started' = TRUE \/ started'
      BY <3>1, <3>2
    <3> QED BY <1>6, <3>1 DEF HandleControl, Insert, Store, Refuse, rbVars
  <2>4. ReceiverTypes'  BY <1>0, <2>1, <2>2 DEF ReceiverTypes
  <2>5. NothingEarly'  BY <2>3 DEF NothingEarly
  <2>6. StepsAccounted'  BY <1>0, <2>2 DEF StepsAccounted
  <2> QED BY <2>4, <2>5, <2>6 DEF DurationIInv
<1>7. CASE DrainPlay \/ DrainConceal
  <2>1. /\ UNCHANGED <<net, run, started, fed, anchor, newest>> /\ started
        /\ cursor' = cursor + 1 /\ pc = "drain"
        /\ \/ duds' = duds /\ pc' = "feed"
           \/ duds' = duds + 1 /\ pc' = "drain"
    BY <1>7 DEF DrainPlay, DrainConceal, PopOk, PopConceal, PopsOk, PopsConceal, Nonempty
  <2>2. ReceiverTypes'  BY <1>0, <2>1 DEF ReceiverTypes
  <2>3. NothingEarly'  BY <2>1 DEF NothingEarly
  <2>4. StepsAccounted'  BY <1>0, <2>1, AirPositions DEF StepsAccounted
  <2> QED BY <2>2, <2>3, <2>4 DEF DurationIInv
<1>8. CASE DrainStop
  <2>1. ReceiverTypes'  BY <1>0, <1>8 DEF DrainStop, ReceiverTypes
  <2>2. NothingEarly'  BY <1>0, <1>8 DEF DrainStop, NothingEarly, rbVars
  <2>3. StepsAccounted'  BY <1>0, <1>8 DEF DrainStop, StepsAccounted
  <2> QED BY <2>1, <2>2, <2>3 DEF DurationIInv
<1>9. CASE Request
  <2>1. ReceiverTypes'  BY <1>0, <1>9 DEF Request, ReceiverTypes
  <2>2. NothingEarly'  BY <1>0, <1>9 DEF Request, NothingEarly, HasGap, Nonempty, rbVars
  <2>3. StepsAccounted'  BY <1>0, <1>9 DEF Request, StepsAccounted, AfterAudio
  <2> QED BY <2>1, <2>2, <2>3 DEF DurationIInv
<1> QED
  BY RNextSteps, <1>1, <1>2, <1>3, <1>4, <1>5, <1>6, <1>7, <1>8, <1>9

(***************************************************************************)
(* While the session runs, every step of the play cursor has fed one frame,  *)
(* sound or silence, or was a packet that does not decode (raop_rtp.c:163-   *)
(* 164, 225): for every stream and whatever the network does.               *)
(***************************************************************************)
THEOREM ReceiverDuration == RSpec => []DurationKept
<1>1. DurationIInv => DurationKept
  BY AirPositions DEF DurationIInv, StepsAccounted, DurationKept
<1> QED BY <1>1, InitDuration, NextDuration, PTL DEF RSpec

-----------------------------------------------------------------------------
(* Positions in the stream and their numbers.                               *)

(* A quotient and a remainder are the only ones. *)
LEMMA ModUnique ==
  ASSUME NEW a \in Nat, NEW w \in Nat \ {0}, NEW k \in Int, NEW r \in 0 .. w - 1,
         a = (w * k) + r
  PROVE  a % w = r
<1> DEFINE q == a \div w
           e == a % w
           m == q - k
<1>1. e \in 0 .. w - 1 /\ q \in Int /\ a = (w * q) + e
  BY ModDef
<1> HIDE DEF q, e
<1>2. m \in Int /\ w * m = r - e
  BY <1>1
<1>3. -w < w * m /\ w * m < w
  BY <1>1, <1>2
<1> HIDE DEF m
<1>4. m = 0
  BY <1>2, <1>3, MultipleInsideIsZero
<1> QED BY <1>1, <1>2, <1>4 DEF e

LEMMA SeqOfType == \A p \in Nat : SeqOf(p) \in SeqNo
BY ModDef, StreamTypes DEF SeqOf, SeqNo

(* Less than a round apart, the numbers of two positions are as far apart    *)
(* as the positions.                                                        *)
LEMMA SeqOfDistance ==
  ASSUME NEW p \in Nat, NEW c \in Nat, c <= p, p - c < SeqMod
  PROVE  SeqDiff(SeqOf(p), SeqOf(c)) = p - c
<1> DEFINE k == (FirstSeq + c) \div SeqMod
           r == SeqOf(c)
<1>1. FirstSeq \in Nat /\ SeqMod \in Nat \ {0}
  BY StreamTypes DEF SeqNo
<1>2. k \in Int /\ r \in 0 .. SeqMod - 1 /\ FirstSeq + c = (SeqMod * k) + r
  BY <1>1, ModDef DEF SeqOf
<1> HIDE DEF k
<1>3. CASE r + (p - c) < SeqMod
  <2>1. FirstSeq + p = (SeqMod * k) + (r + (p - c)) /\ r + (p - c) \in 0 .. SeqMod - 1
        /\ FirstSeq + p \in Nat
    BY <1>1, <1>2, <1>3
  <2>2. SeqOf(p) = r + (p - c)
    BY <1>1, <1>2, <2>1, ModUnique DEF SeqOf
  <2> QED BY <1>1, <1>2, <2>2 DEF SeqDiff
<1>4. CASE r + (p - c) >= SeqMod
  <2> DEFINE t == r + (p - c) - SeqMod
  <2>1. t \in 0 .. SeqMod - 1 /\ t < r
    BY <1>1, <1>2, <1>4
  <2>2. FirstSeq + p = (SeqMod * (k + 1)) + t /\ FirstSeq + p \in Nat /\ k + 1 \in Int
    BY <1>1, <1>2
  <2>3. SeqOf(p) = t
    BY <1>1, <2>1, <2>2, ModUnique DEF SeqOf
  <2> QED BY <1>1, <1>2, <2>1, <2>3 DEF SeqDiff
<1> QED BY <1>1, <1>2, <1>3, <1>4

LEMMA SeqOfBehind ==
  ASSUME NEW p \in Nat, NEW c \in Nat, p < c, c - p < SeqMod
  PROVE  SeqDiff(SeqOf(p), SeqOf(c)) = SeqMod - (c - p)
<1>1. SeqDiff(SeqOf(c), SeqOf(p)) = c - p
  BY SeqOfDistance
<1> QED BY <1>1, SeqOfType, StreamTypes DEF SeqDiff, SeqNo

LEMMA SeqOfUnique ==
  ASSUME NEW p \in Nat, NEW q \in Nat, SeqOf(p) = SeqOf(q),
         p - q < SeqMod, q - p < SeqMod
  PROVE  p = q
<1>1. SeqDiff(SeqOf(p), SeqOf(p)) = 0
  BY SeqOfType, SeqDiffType
<1>2. CASE q <= p
  BY <1>1, <1>2, SeqOfDistance
<1>3. CASE p < q
  BY <1>1, <1>3, SeqOfDistance
<1> QED BY <1>2, <1>3

LEMMA SeqOfAfter ==
  ASSUME NEW c \in Nat, NEW j \in Index
  PROVE  SeqOf(c + j) = After(SeqOf(c), j)
<1>1. j \in Nat /\ c + j \in Nat /\ j < SeqMod /\ j \in 0 .. Window
  BY StreamTypes DEF Index
<1>2. SeqDiff(SeqOf(c + j), SeqOf(c)) = j
  BY <1>1, SeqOfDistance
<1>3. SeqDiff(After(SeqOf(c), j), SeqOf(c)) = j /\ After(SeqOf(c), j) \in SeqNo
  BY <1>1, SeqOfType, AfterIsPlace
<1> QED BY <1>1, <1>2, <1>3, SeqOfType, SeqDiffInjective

LEMMA SeqOfSucc ==
  ASSUME NEW c \in Nat
  PROVE  SeqOf(c + 1) = Succ(SeqOf(c))
<1>1. SeqDiff(SeqOf(c + 1), SeqOf(c)) = 1
  BY StreamTypes, SeqOfDistance
<1>2. SeqDiff(Succ(SeqOf(c)), SeqOf(c)) = 1
  BY StreamTypes, SeqOfType DEF SeqDiff, Succ, SeqNo
<1> QED BY <1>1, <1>2, SeqOfType, SuccType, SeqDiffInjective
(* (uint16_t)(n + j) *)
LEMMA AfterIsRemainder ==
  ASSUME NEW n \in SeqNo, NEW j \in Index
  PROVE  After(n, j) = (n + j) % SeqMod
<1>1. n \in 0 .. SeqMod - 1 /\ SeqMod \in Nat \ {0} /\ j < SeqMod /\ j \in Nat
  BY StreamTypes DEF SeqNo, Index
<1>2. CASE n + j < SeqMod
  <2>1. n + j = (SeqMod * 0) + (n + j) /\ n + j \in 0 .. SeqMod - 1
    BY <1>1, <1>2
  <2>2. (n + j) % SeqMod = n + j  BY <1>1, <2>1, ModUnique
  <2> QED BY <1>1, <1>2, <2>2 DEF After
<1>3. CASE n + j >= SeqMod
  <2> DEFINE t == n + j - SeqMod
  <2>1. n + j = (SeqMod * 1) + t /\ t \in 0 .. SeqMod - 1 /\ n + j \in Nat
    BY <1>1, <1>3
  <2>2. (n + j) % SeqMod = t  BY <1>1, <2>1, ModUnique
  <2> QED BY <1>1, <1>3, <2>2 DEF After
<1> QED BY <1>1, <1>2, <1>3
-----------------------------------------------------------------------------
(* The packets as bytes.                                                    *)

LEMMA TwoBytes ==
  ASSUME NEW s \in Nat
  PROVE  /\ Byte * (s \div Byte) + (s % Byte) = s
         /\ s \div Byte \in Int /\ s % Byte \in Int
<1>1. Byte \in Nat \ {0}  BY StreamAssumption
<1>2. s = (Byte * (s \div Byte)) + (s % Byte) /\ s % Byte \in 0 .. Byte - 1
      /\ s \div Byte \in Int
  BY <1>1, ModDef
<1> QED BY <1>1, <1>2

(* Both packets give back the number and the payload of their position.     *)
LEMMA ParseGivesBack ==
  ASSUME NEW p \in Nat
  PROVE  /\ Parse(AudioPacket(p)).seq = SeqOf(p) /\ Parse(AudioPacket(p)).data = Data(p)
         /\ Parse(Unwrap(ResentPacket(p))).seq = SeqOf(p)
         /\ Parse(Unwrap(ResentPacket(p))).data = Data(p)
<1>1. Byte * (SeqOf(p) \div Byte) + (SeqOf(p) % Byte) = SeqOf(p)
  BY SeqOfType, TwoBytes DEF SeqNo
<1> DEFINE x == SeqOf(p) \div Byte
           y == SeqOf(p) % Byte
           d == Data(p)
           b == IF p = 0 THEN 128 + AudioType ELSE AudioType
<1>2. AudioPacket(p) = <<128, b, x, y, d>>
  BY DEF AudioPacket
<1>3. Unwrap(ResentPacket(p)) = SubSeq(<<128, 128 + ResendType, 0, 1, 128, b, x, y, d>>, 5, 9)
  BY <1>2 DEF Unwrap, ResentPacket
<1> HIDE DEF x, y, d, b
<1>4. Unwrap(ResentPacket(p))[3] = x /\ Unwrap(ResentPacket(p))[4] = y
      /\ Unwrap(ResentPacket(p))[5] = d
  BY <1>3
<1>5. (Byte * x) + y = SeqOf(p)
  BY <1>1 DEF x, y
<1>6. d = Data(p)
  BY DEF d
<1>7. Parse(AudioPacket(p)) = [seq |-> Byte * x + y, data |-> d]
  BY <1>2 DEF Parse
<1>8. Parse(Unwrap(ResentPacket(p))) = [seq |-> Byte * x + y, data |-> d]
  BY <1>4 DEF Parse
<1> QED BY <1>5, <1>6, <1>7, <1>8

(* A request, as the sender reads it, names the run it was built for.       *)
LEMMA RequestedRun ==
  ASSUME NEW n \in Nat, NEW g \in Nat
  PROVE  Requested(ResendBuild(n, g)) = {(n + j) % SeqMod : j \in 0 .. g - 1}
<1> DEFINE req == ResendBuild(n, g)
           first == Byte * req[5] + req[6]
           last == Byte * req[7] + (req[8] - 1)
<1>1. req[5] = n \div Byte /\ req[6] = n % Byte /\ req[7] = g \div Byte /\ req[8] = g % Byte
  BY DEF ResendBuild
<1> HIDE DEF req
<1>2. first = n /\ last = g - 1
  BY <1>1, TwoBytes, StreamAssumption
<1>3. Requested(req) = {(first + j) % SeqMod : j \in 0 .. last}
  BY DEF Requested
<1> HIDE DEF first, last
<1> QED BY <1>2, <1>3 DEF req
-----------------------------------------------------------------------------
(* The order.  Receiver is the invariant with what it is about.             *)

LEMMA DataType ==
  ASSUME NEW p \in Position
  PROVE  /\ Data(p) \in Payload \cup {BadPayload}
         /\ Data(p) \in Payload <=> p \notin BadLen
         /\ p \notin BadLen => Data(p) = p
BY StreamAssumption, PayloadAssumption DEF Data

(* The handlers, in terms of the position received. *)
LEMMA AudioIsInsert ==
  ASSUME ReceiverTypes, HandleAudio
  PROVE  \E p \in air :
           /\ \/ ~started /\ p \in BadLen /\ Anchor(SeqOf(p))
              \/ (started \/ p \notin BadLen) /\ Insert(SeqOf(p), Data(p))
           /\ air' = air \ {p}
           /\ newest' = IF started /\ p \in BadLen THEN newest ELSE Later(newest, p)
           /\ cursor' = IF started THEN cursor ELSE p
<1>1. PICK p \in air :
        LET h == Parse(AudioPacket(p)) IN
          /\ IF ~started /\ h.data \notin Payload
             THEN Anchor(h.seq)
             ELSE Insert(h.seq, h.data)
          /\ air' = air \ {p}
          /\ newest' = IF started /\ p \in BadLen THEN newest ELSE Later(newest, p)
          /\ cursor' = IF started THEN cursor ELSE p
  BY DEF HandleAudio
<1>2. p \in Position /\ p \in Nat
  BY AirPositions DEF Position
<1>3. Parse(AudioPacket(p)).seq = SeqOf(p) /\ Parse(AudioPacket(p)).data = Data(p)
  BY <1>2, ParseGivesBack
<1> QED BY <1>1, <1>2, <1>3, DataType

LEMMA ControlIsInsert ==
  ASSUME ReceiverTypes, HandleControl
  PROVE  \E p \in back : Insert(SeqOf(p), Data(p)) /\ back' = back \ {p}
<1>1. PICK p \in back :
        LET h == Parse(Unwrap(ResentPacket(p))) IN
          Insert(h.seq, h.data) /\ back' = back \ {p}
  BY DEF HandleControl
<1>2. p \in Nat
  BY AirPositions DEF Position
<1> QED BY <1>1, <1>2, ParseGivesBack

(* The task uses the buffer as its module says. *)
LEMMA ReceiverUsesBuffer ==
  ASSUME ReceiverTypes, [RNext]_vars
  PROVE  [Next]_rbVars
<1>1. CASE HandleAudio
  <2>1. PICK p \in air :
          \/ ~started /\ Anchor(SeqOf(p))
          \/ Insert(SeqOf(p), Data(p))
    BY <1>1, AudioIsInsert
  <2>2. SeqOf(p) \in SeqNo /\ Data(p) \in Payload \cup {BadPayload}
    BY AirPositions, DataType, SeqOfType DEF Position
  <2> QED BY <2>1, <2>2 DEF Next
<1>2. CASE HandleControl
  <2>1. PICK p \in back : Insert(SeqOf(p), Data(p))
    BY <1>2, ControlIsInsert
  <2>2. SeqOf(p) \in SeqNo /\ Data(p) \in Payload \cup {BadPayload}
    BY AirPositions, DataType, SeqOfType DEF Position
  <2> QED BY <2>1, <2>2 DEF Next
<1>3. CASE DrainPlay \/ DrainConceal
  BY <1>3 DEF DrainPlay, DrainConceal, Next
<1>4. CASE Aside \/ Send \/ Lose \/ Answer \/ DrainStop \/ Request
  BY <1>4 DEF Aside, Send, Lose, Answer, DrainStop, Request
<1> QED BY RNextSteps, <1>1, <1>2, <1>3, <1>4

(* What the types of the invariant give. *)
LEMMA ReceiverFacts ==
  ASSUME ReceiverIInv
  PROVE  /\ IInv /\ ReceiverTypes /\ NothingEarly /\ NothingStale /\ CursorInStream
         /\ PlayedInStreamOrder
         /\ next \in SeqNo /\ head \in SeqNo /\ Ahead(head) \in 0 .. Window
         /\ sent \in 0 .. N /\ newest \in -1 .. sent - 1 /\ cursor \in Nat
         /\ cursor <= newest + 1 /\ sent <= newest + Outage + 1
         /\ \A i \in Unread :
              /\ slots[i].seq \in SeqNo /\ Ahead(slots[i].seq) \in 0 .. Window - 1
              /\ Ahead(slots[i].seq) < Ahead(head)
              /\ slots[i].data = cursor + Ahead(slots[i].seq)
              /\ started
<1>1. IInv /\ ReceiverTypes /\ NothingEarly /\ NothingStale /\ CursorInStream
      /\ PlayedInStreamOrder
  BY DEF ReceiverIInv
<1>2. next \in SeqNo /\ head \in SeqNo
  BY <1>1 DEF IInv, TypeOK
<1>3. Ahead(head) \in 0 .. Window
  BY <1>1, <1>2, SeqDiffType, StreamTypes DEF IInv, UnreadInWindow, Ahead
<1>4. ASSUME NEW i \in Unread
      PROVE  /\ slots[i].seq \in SeqNo /\ Ahead(slots[i].seq) \in 0 .. Window - 1
             /\ Ahead(slots[i].seq) < Ahead(head)
             /\ slots[i].data = cursor + Ahead(slots[i].seq)
             /\ started
  <2>1. slots[i].seq \in SeqNo  BY <1>1, UnreadPacket DEF IInv
  <2>2. Ahead(slots[i].seq) \in 0 .. Window - 1 /\ Ahead(slots[i].seq) < Ahead(head)
    BY <1>1, UnreadAhead DEF Ahead
  <2>3. slots[i].data = cursor + Ahead(slots[i].seq)
    BY <1>1 DEF PlayedInStreamOrder
  <2>4. started  BY <1>1 DEF IInv, NewestUnread
  <2> QED BY <2>1, <2>2, <2>3, <2>4
<1>5. sent \in 0 .. N /\ newest \in -1 .. sent - 1 /\ cursor \in Nat
  BY <1>1, AirPositions
<1>6. cursor <= newest + 1 /\ sent <= newest + Outage + 1
  BY <1>1 DEF PlayedInStreamOrder, NothingStale
<1> QED BY <1>1, <1>2, <1>3, <1>4, <1>5, <1>6

(***************************************************************************)
(* The heart of it: outside a drain, an insert tells a packet that is still  *)
(* to be played from one that was played by its number alone, and what is   *)
(* newer than all before is never refused for its number.                   *)
(***************************************************************************)
LEMMA NumberTellsPosition ==
  ASSUME NetworkBounds, ReceiverIInv, started, pc \notin {"drain", "feed"},
         NEW p \in Nat, p < sent, sent - p <= Lifetime
  PROVE  /\ p >= cursor => /\ Ahead(SeqOf(p)) = p - cursor /\ p - cursor < Window
                           /\ ~TooOld(SeqOf(p)) /\ ~TooNew(SeqOf(p))
         /\ p < cursor => TooNew(SeqOf(p))
         /\ Holds(SeqOf(p)) => p <= newest
<1>1. next = SeqOf(cursor) /\ Ahead(head) <= Hold
      /\ (newest <= cursor \/ newest < cursor + Ahead(head))
  BY ReceiverFacts DEF CursorInStream
<1>2. /\ sent \in Nat /\ newest \in Int /\ cursor \in Nat /\ Ahead(head) \in Nat
      /\ cursor <= newest + 1 /\ sent <= newest + Outage + 1 /\ newest < sent
      /\ next \in SeqNo
  BY ReceiverFacts, StreamTypes
<1>3. /\ Window \in Nat \ {0} /\ SeqMod \in Nat /\ 2 * Window <= SeqMod /\ Hold \in Nat
      /\ Outage \in Nat /\ Lifetime \in Nat
      /\ Outage < Window /\ Outage + Hold <= Window /\ Lifetime + Window <= SeqMod
  BY StreamTypes DEF NetworkBounds
<1>4. ASSUME p >= cursor
      PROVE  /\ Ahead(SeqOf(p)) = p - cursor /\ p - cursor < Window
             /\ ~TooOld(SeqOf(p)) /\ ~TooNew(SeqOf(p))
  <2>1. p - cursor < Window
    BY <1>1, <1>2, <1>3
  <2>2. SeqDiff(SeqOf(p), SeqOf(cursor)) = p - cursor
    BY <1>2, <1>3, <1>4, <2>1, SeqOfDistance
  <2>3. Ahead(SeqOf(p)) = p - cursor
    BY <1>1, <2>2 DEF Ahead
  <2>4. ~TooOld(SeqOf(p)) /\ ~TooNew(SeqOf(p))
    BY <1>2, <1>3, <1>4, <2>1, <2>3 DEF Ahead, TooOld, TooNew, SeqLt
  <2> QED BY <2>1, <2>3, <2>4
<1>5. ASSUME p < cursor
      PROVE  TooNew(SeqOf(p))
  <2>1. cursor - p <= SeqMod - Window /\ cursor - p < SeqMod
    BY <1>2, <1>3
  <2>2. SeqDiff(SeqOf(p), SeqOf(cursor)) = SeqMod - (cursor - p)
    BY <1>2, <1>5, <2>1, SeqOfBehind
  <2> QED BY <1>1, <1>2, <1>3, <2>1, <2>2 DEF TooNew
<1>6. ASSUME Holds(SeqOf(p))
      PROVE  p <= newest
  <2>1. CASE p >= cursor
    <3>1. PICK i \in Unread : slots[i].seq = SeqOf(p)
      BY <1>6, HoldsUnread, SeqOfType, ReceiverFacts DEF IInv
    <3>2. slots[i].data = cursor + (p - cursor)
      BY <1>4, <2>1, <3>1, ReceiverFacts
    <3>3. slots[i].data <= newest
      BY <3>1, ReceiverFacts DEF CursorInStream
    <3> QED BY <1>2, <3>2, <3>3
  <2>2. CASE p < cursor
    BY <1>2, <2>2
  <2> QED BY <1>2, <2>1, <2>2
<1> QED BY <1>4, <1>5, <1>6

(* Stored, a packet is as far ahead as its number says, and everything else  *)
(* stays where it was; refused, it was not newer than what was received.    *)
LEMMA InsertInStream ==
  ASSUME NetworkBounds, ReceiverIInv, started, pc \notin {"drain", "feed"},
         NEW p \in Position, p < sent, sent - p <= Lifetime, Insert(SeqOf(p), Data(p)),
         cursor' = cursor, pc' = "drain",
         \/ newest' = newest /\ (p \in BadLen \/ p <= newest)
         \/ newest' = Later(newest, p) /\ p \notin BadLen
  PROVE  CursorInStream' /\ PlayedInStreamOrder'
<1> DEFINE s == SeqOf(p)
<1>0. p \in Nat  BY DEF Position
<1>1. s \in SeqNo /\ SlotOf(s) \in Index  BY <1>0, SeqOfType, SlotOfType
<1>2. /\ next \in SeqNo /\ head \in SeqNo /\ Ahead(head) \in 0 .. Window
      /\ newest \in Int /\ cursor \in Nat /\ cursor <= newest + 1
  BY ReceiverFacts, StreamTypes
<1>3. next = SeqOf(cursor) /\ (newest <= cursor \/ newest < cursor + Ahead(head))
      /\ \A i \in Unread : slots[i].data <= newest
  BY ReceiverFacts DEF CursorInStream
<1>4. newest' \in Int /\ newest <= newest' /\ (p \notin BadLen => p <= newest')
      /\ (newest' = newest \/ (newest' = p /\ newest < p /\ p \notin BadLen))
  BY <1>0, <1>2 DEF Later
<1>5. CASE Refuse(s, Data(p))
  <2>1. UNCHANGED rbVars /\ Refused(s, Data(p))  BY <1>5 DEF Refuse
  <2>2. newest' = newest
    <3>1. ASSUME newest' = p, newest < p, p \notin BadLen
          PROVE  FALSE
      <4>1. TooOld(s) \/ TooNew(s) \/ Holds(s)
        BY <2>1, <3>1, DataType DEF Refused
      <4>2. p >= cursor  BY <1>0, <1>2, <3>1
      <4> QED BY <1>0, <1>2, <3>1, <4>1, <4>2, NumberTellsPosition
    <3> QED BY <3>1, <1>4
  <2>3. UNCHANGED <<slots, next, head, started>>  BY <2>1 DEF rbVars
  <2> QED
    BY <2>2, <2>3, ReceiverFacts
       DEF CursorInStream, PlayedInStreamOrder, Unread, Ahead
<1>6. CASE Store(s, Data(p))
  <2>1. /\ ~TooOld(s) /\ ~TooNew(s) /\ p \notin BadLen /\ Data(p) = p
        /\ slots' = [slots EXCEPT ![SlotOf(s)] = Holding(s, p)]
        /\ next' = next /\ started' = TRUE
        /\ head' = IF SeqLt(head, Succ(s)) THEN Succ(s) ELSE head
    BY <1>6, DataType DEF Store, Refused
  <2>2. p >= cursor /\ Ahead(s) = p - cursor /\ p - cursor < Window
    BY <1>0, <1>2, <2>1, NumberTellsPosition
  <2>3. Unread' = Unread \cup {SlotOf(s)}
        /\ slots'[SlotOf(s)] = Holding(s, p)
        /\ \A i \in Unread \ {SlotOf(s)} : slots'[i] = slots[i]
    BY <1>1, <2>1, ReceiverFacts DEF Unread, Holding, IInv, TypeOK
  <2>4. PlayedInStreamOrder'
    <3>1. ASSUME NEW i \in Unread'
          PROVE  slots'[i].data = cursor + SeqDiff(slots'[i].seq, next)
      <4>1. CASE i = SlotOf(s)
        BY <4>1, <1>0, <1>2, <2>2, <2>3 DEF Holding, Ahead
      <4>2. CASE i # SlotOf(s)
        BY <4>2, <2>3, ReceiverFacts DEF Ahead
      <4> QED BY <4>1, <4>2
    <3>2. ASSUME NEW n \in Int, newest <= n PROVE cursor <= n + 1
      BY <1>2, <3>2
    <3>3. cursor <= newest' + 1  BY <1>4, <3>2
    <3> QED BY <3>1, <3>3, <2>1 DEF PlayedInStreamOrder, Ahead
  <2>5. Ahead(Succ(s)) = Ahead(s) + 1 /\ Succ(s) \in SeqNo
    BY <1>1, <1>2, <2>2, SeqDiffSucc, SuccType DEF Ahead
  <2>6. /\ SeqDiff(head', next) >= Ahead(head)
        /\ SeqDiff(head', next) >= p - cursor + 1
    <3>1. SeqLt(head, Succ(s)) <=> Ahead(head) < Ahead(Succ(s))
      <4>1. SeqDiff(Succ(s), next) \in 1 .. Window /\ SeqDiff(head, next) <= Window
        BY <1>0, <1>2, <2>2, <2>5, StreamTypes DEF Ahead
      <4> QED BY <4>1, <1>2, <2>5, SeqLtIsOrder DEF Ahead
    <3>2. CASE SeqLt(head, Succ(s))
      BY <3>1, <3>2, <1>0, <1>2, <2>1, <2>2, <2>5 DEF Ahead
    <3>3. CASE ~SeqLt(head, Succ(s))
      BY <3>1, <3>3, <1>0, <1>2, <2>1, <2>2, <2>5 DEF Ahead
    <3> QED BY <3>2, <3>3
  <2>7. newest' <= cursor \/ newest' < cursor + SeqDiff(head', next)
    <3>1. SeqDiff(head', next) \in Int
      BY <1>2, <2>1, <2>5, SeqDiffType
    <3> QED BY <3>1, <1>0, <1>2, <1>3, <1>4, <2>6
  <2>8. ASSUME NEW i \in Unread'
        PROVE  slots'[i].data <= newest'
    <3>1. CASE i = SlotOf(s)
      BY <3>1, <1>4, <2>1, <2>3 DEF Holding
    <3>2. CASE i # SlotOf(s)
      <4>1. i \in Unread /\ slots'[i] = slots[i]  BY <3>2, <2>3
      <4>2. slots[i].data \in Int /\ slots[i].data <= newest
        BY <4>1, <1>2, <1>3, ReceiverFacts
      <4> QED BY <4>1, <4>2, <1>2, <1>4
    <3> QED BY <3>1, <3>2
  <2> QED BY <1>3, <2>1, <2>4, <2>7, <2>8 DEF CursorInStream, Ahead
<1> QED BY <1>5, <1>6 DEF Insert

(* A step that leaves the buffer and the positions alone. *)
LEMMA StillInStream ==
  ASSUME ReceiverIInv, UNCHANGED <<rbVars, cursor, newest>>,
         pc' \in {"drain", "feed"} \/ pc \notin {"drain", "feed"}
         \/ Ahead(head) <= Hold
  PROVE  CursorInStream' /\ PlayedInStreamOrder'
<1>1. UNCHANGED <<slots, next, head, started>>  BY DEF rbVars
<1>2. CursorInStream /\ PlayedInStreamOrder  BY ReceiverFacts
<1>3. PlayedInStreamOrder'
  BY <1>1, <1>2 DEF PlayedInStreamOrder, Unread, Ahead
<1>4. CursorInStream'
  BY <1>1, <1>2 DEF CursorInStream, Unread, Ahead
<1> QED BY <1>3, <1>4

LEMMA DrainPlayInStream ==
  ASSUME ReceiverIInv, DrainPlay
  PROVE  CursorInStream' /\ PlayedInStreamOrder'
<1> DEFINE i == SlotOf(next)
<1>1. /\ started /\ next' = Succ(next) /\ UNCHANGED <<head, started, newest>>
      /\ slots' = [slots EXCEPT ![i] = Free] /\ Holds(next)
      /\ cursor' = cursor + 1 /\ pc' \in {"drain", "feed"}
  BY DEF DrainPlay, PopOk, PopsOk, Nonempty
<1>2. /\ next \in SeqNo /\ head \in SeqNo /\ Ahead(head) \in 0 .. Window
      /\ newest \in Int /\ cursor \in Nat /\ next = SeqOf(cursor)
      /\ newest <= cursor \/ newest < cursor + Ahead(head)
      /\ \A j \in Unread : slots[j].data <= newest
      /\ TypeOK /\ IInv
  BY <1>1, ReceiverFacts, StreamTypes DEF CursorInStream, IInv
<1>3. i \in Unread /\ slots[i].seq = next /\ Ahead(next) = 0
  BY <1>1, <1>2, SlotOfType, SeqDiffType DEF Holds, Unread, Ahead
<1>4. cursor <= newest /\ Ahead(head) > 0 /\ head # next
  <2>1. slots[i].data = cursor /\ Ahead(next) < Ahead(head)
    BY <1>2, <1>3, ReceiverFacts
  <2> QED BY <2>1, <1>2, <1>3
<1>5. \A j \in Unread' : /\ j \in Unread /\ slots'[j] = slots[j]
                         /\ slots[j].seq \in SeqNo /\ slots[j].seq # next
  <2> TAKE j \in Unread'
  <2>1. j \in Unread /\ j # i /\ slots'[j] = slots[j]
    BY <1>1, <1>2 DEF Unread, TypeOK, Free
  <2>2. SlotOf(slots[j].seq) = j /\ slots[j].seq \in SeqNo
    BY <1>2, <2>1, UnreadAhead, UnreadPacket
  <2> QED BY <2>1, <2>2
<1>6. PlayedInStreamOrder'
  <2>1. ASSUME NEW j \in Unread'
        PROVE  slots'[j].data = cursor + 1 + SeqDiff(slots'[j].seq, Succ(next))
    <3>1. SeqDiff(slots[j].seq, Succ(next)) = SeqDiff(slots[j].seq, next) - 1
      BY <1>2, <1>5, SeqDiffAdvance
    <3>2. slots[j].data = cursor + SeqDiff(slots[j].seq, next)
          /\ SeqDiff(slots[j].seq, next) \in Int
      BY <1>5, ReceiverFacts DEF Ahead
    <3> QED BY <3>1, <3>2, <1>2, <1>5
  <2>2. cursor + 1 <= newest + 1  BY <1>2, <1>4
  <2> QED BY <2>1, <2>2, <1>1 DEF PlayedInStreamOrder, Ahead
<1>7. CursorInStream'
  <2>1. Succ(next) = SeqOf(cursor + 1)  BY <1>2, SeqOfSucc
  <2>2. SeqDiff(head, Succ(next)) = Ahead(head) - 1
    BY <1>2, <1>4, SeqDiffAdvance DEF Ahead
  <2>3. newest <= cursor + 1 \/ newest < cursor + 1 + SeqDiff(head, Succ(next))
    BY <1>2, <2>2
  <2>4. \A j \in Unread' : slots'[j].data <= newest
    BY <1>2, <1>5
  <2> QED BY <1>1, <2>1, <2>3, <2>4 DEF CursorInStream, Ahead
<1> QED BY <1>6, <1>7

LEMMA DrainConcealInStream ==
  ASSUME ReceiverIInv, DrainConceal
  PROVE  CursorInStream' /\ PlayedInStreamOrder'
<1>1. /\ started /\ next' = Succ(next) /\ UNCHANGED <<slots, head, started, newest>>
      /\ ~Holds(next) /\ SeqDiff(head, next) > Hold /\ count # 0
      /\ cursor' = cursor + 1 /\ pc' = "feed"
  BY DEF DrainConceal, PopConceal, PopsConceal, Nonempty
<1>2. /\ next \in SeqNo /\ head \in SeqNo /\ Ahead(head) \in 0 .. Window
      /\ newest \in Int /\ cursor \in Nat /\ next = SeqOf(cursor)
      /\ newest <= cursor \/ newest < cursor + Ahead(head)
      /\ \A j \in Unread : slots[j].data <= newest
      /\ TypeOK /\ IInv
  BY <1>1, ReceiverFacts, StreamTypes DEF CursorInStream, IInv
<1>3. \A j \in Unread : /\ slots[j].seq \in SeqNo /\ slots[j].seq # next
                        /\ SeqDiff(slots[j].seq, next) \in Nat \ {0}
                        /\ slots[j].data = cursor + SeqDiff(slots[j].seq, next)
  <2> TAKE j \in Unread
  <2>1. slots[j].seq \in SeqNo /\ slots[j].seq # next
    BY <1>1, <1>2, HoldsUnread, UnreadAhead, UnreadPacket
  <2>2. SeqDiff(slots[j].seq, next) \in Nat \ {0}
    BY <1>2, <2>1, SeqDiffType
  <2> QED BY <2>1, <2>2, ReceiverFacts DEF Ahead
<1>4. cursor < newest /\ head # next
  <2>1. PICK j : j \in Unread
    BY <1>1, <1>2, FS_EmptySet DEF IInv, CountExact
  <2>2. cursor < newest  BY <1>2, <1>3, <2>1
  <2>3. SeqDiff(head, next) # 0  BY <1>1, <1>2, StreamTypes DEF Ahead
  <2> QED BY <1>2, <2>2, <2>3, SeqDiffType
<1>5. PlayedInStreamOrder'
  <2>1. ASSUME NEW j \in Unread
        PROVE  slots[j].data = cursor + 1 + SeqDiff(slots[j].seq, Succ(next))
    <3>1. SeqDiff(slots[j].seq, Succ(next)) = SeqDiff(slots[j].seq, next) - 1
      BY <1>2, <1>3, SeqDiffAdvance
    <3> QED BY <3>1, <1>2, <1>3
  <2>2. cursor + 1 <= newest + 1  BY <1>2, <1>4
  <2> QED BY <2>1, <2>2, <1>1 DEF PlayedInStreamOrder, Ahead, Unread
<1>6. CursorInStream'
  <2>1. Succ(next) = SeqOf(cursor + 1)  BY <1>2, SeqOfSucc
  <2>2. SeqDiff(head, Succ(next)) = Ahead(head) - 1
    BY <1>2, <1>4, SeqDiffAdvance DEF Ahead
  <2>3. newest <= cursor + 1 \/ newest < cursor + 1 + SeqDiff(head, Succ(next))
    BY <1>2, <2>2
  <2> QED BY <1>1, <1>2, <2>1, <2>3 DEF CursorInStream, Ahead, Unread
<1> QED BY <1>5, <1>6

(* A drain leaves the newest packet at most Hold ahead. *)
LEMMA DrainStopInStream ==
  ASSUME ReceiverIInv, DrainStop
  PROVE  CursorInStream' /\ PlayedInStreamOrder'
<1>1. UNCHANGED <<rbVars, cursor, newest>> /\ (PopsWait \/ PopsEmpty)
  BY DEF DrainStop, history
<1>2. next \in SeqNo /\ head \in SeqNo /\ IInv /\ Ahead(head) \in Nat
  BY ReceiverFacts
<1>3. CASE PopsWait
  <2>1. Ahead(head) <= Hold
    BY <1>2, <1>3, StreamTypes DEF PopsWait, PopsConceal, Ahead
  <2> QED BY <2>1, <1>1, StillInStream
<1>4. CASE PopsEmpty /\ started
  <2>1. Unread = {}
    BY <1>2, <1>4, IndexFinite, FS_EmptySet DEF PopsEmpty, Nonempty, IInv, CountExact
  <2>2. head = next  BY <1>2, <2>1 DEF IInv, NewestUnread
  <2>3. Ahead(head) <= Hold
    BY <1>2, <2>2, SeqDiffType, StreamTypes DEF Ahead
  <2> QED BY <2>3, <1>1, StillInStream
<1>5. CASE ~started
  <2>1. head = next  BY <1>2, <1>5 DEF IInv, NewestUnread
  <2>2. Ahead(head) <= Hold
    BY <1>2, <2>1, SeqDiffType, StreamTypes DEF Ahead
  <2> QED BY <2>2, <1>1, StillInStream
<1> QED BY <1>1, <1>3, <1>4, <1>5

(***************************************************************************)
(* Nothing stale is under way: what the numbers asked for meant when they    *)
(* were asked for, they mean until they are forgotten.                      *)
(***************************************************************************)
LEMMA SendNotStale ==
  ASSUME NetworkBounds, ReceiverIInv, Send
  PROVE  NothingStale'
<1>1. /\ sent' = sent + 1 /\ sent <= newest + Outage /\ newest' = newest
      /\ air' = {p \in air : Fresh(p)} \cup {sent}
      /\ back' = {p \in back : Fresh(p)}
      /\ wanted' = {s \in wanted : \E p \in 0 .. sent - 1 : SeqOf(p) = s /\ Fresh(p)}
  BY DEF Send, history
<1>2. /\ sent \in Nat /\ newest \in Int /\ newest < sent /\ ReceiverTypes /\ NothingStale
      /\ Outage \in Nat /\ Lifetime \in Nat \ {0} /\ SeqMod \in Nat /\ Lifetime <= SeqMod
  BY ReceiverFacts, StreamTypes DEF NetworkBounds
<1>3. sent + 1 <= newest + Outage + 1
  BY <1>1, <1>2
<1>4. \A p \in air' : (sent + 1) - p <= Lifetime
  BY <1>1, <1>2, AirPositions DEF Fresh, Position
<1>5. \A p \in back' : (sent + 1) - p <= Lifetime /\ p <= newest
  BY <1>1, <1>2, AirPositions DEF Fresh, Position, NothingStale
<1>6. ASSUME NEW s \in wanted'
      PROVE  \E q \in 0 .. newest : SeqOf(q) = s /\ (sent + 1) - q <= SeqMod
  <2>1. PICK p \in 0 .. sent - 1 : SeqOf(p) = s /\ sent - p < Lifetime
    BY <1>1 DEF Fresh
  <2>2. PICK q \in 0 .. newest : SeqOf(q) = s /\ sent - q <= SeqMod
    BY <1>1, <1>2 DEF NothingStale
  <2>3. p \in Nat /\ q \in Nat /\ p - q < SeqMod /\ q - p < SeqMod
    BY <1>2, <2>1, <2>2
  <2>4. p = q  BY <2>1, <2>2, <2>3, SeqOfUnique
  <2> QED BY <1>2, <2>1, <2>2, <2>4
<1> QED BY <1>1, <1>3, <1>4, <1>5, <1>6 DEF NothingStale

LEMMA AnswerNotStale ==
  ASSUME NetworkBounds, ReceiverIInv, Answer
  PROVE  NothingStale'
<1>1. PICK s \in wanted, p \in Position :
        /\ SeqOf(p) = s /\ p < sent /\ sent - p <= Lifetime
        /\ wanted' = wanted \ {s} /\ back' = back \cup {p}
  BY DEF Answer
<1>2. /\ sent \in Nat /\ newest \in Int /\ newest < sent /\ NothingStale
      /\ Lifetime \in Nat \ {0} /\ SeqMod \in Nat /\ Lifetime < SeqMod
  BY ReceiverFacts, StreamTypes DEF NetworkBounds
<1>3. PICK q \in 0 .. newest : SeqOf(q) = s /\ sent - q <= SeqMod
  BY <1>1, <1>2 DEF NothingStale
<1>4. p \in Nat /\ q \in Nat /\ p - q < SeqMod /\ q - p < SeqMod
  BY <1>1, <1>2, <1>3 DEF Position
<1>5. p = q  BY <1>1, <1>3, <1>4, SeqOfUnique
<1>6. p <= newest  BY <1>2, <1>3, <1>5
<1>7. UNCHANGED <<sent, air, newest>>  BY DEF Answer, history
<1> QED BY <1>1, <1>2, <1>6, <1>7 DEF NothingStale

LEMMA RequestNotStale ==
  ASSUME NetworkBounds, ReceiverIInv, Request
  PROVE  NothingStale'
<1>1. /\ UNCHANGED <<sent, air, back, newest>> /\ HasGap /\ pc = "resend"
      /\ wanted' = wanted \cup Requested(ResendBuild(next, GapLength))
  BY DEF Request, history
<1>2. /\ sent \in Nat /\ newest \in Int /\ cursor \in Nat /\ IInv /\ NothingStale
      /\ next \in SeqNo /\ Ahead(head) \in Nat /\ sent <= newest + Outage + 1
  BY ReceiverFacts
<1>3. /\ started /\ next = SeqOf(cursor) /\ Ahead(head) <= Hold
      /\ newest <= cursor \/ newest < cursor + Ahead(head)
  BY <1>1, ReceiverFacts DEF CursorInStream, HasGap, Nonempty
<1>4. GapLength \in 1 .. Window - 1 /\ Holds(After(next, GapLength))
  BY <1>1, <1>2, GapEndsAtNearest DEF HasGap
<1>5. cursor + GapLength <= newest
  <2> DEFINE s == After(next, GapLength)
  <2>1. GapLength \in Index /\ GapLength \in 0 .. Window
    BY <1>4, StreamTypes DEF Index
  <2>2. s \in SeqNo /\ SeqDiff(s, next) = GapLength
    BY <1>2, <2>1, AfterIsPlace
  <2>3. PICK i \in Unread : slots[i].seq = s
    BY <1>2, <1>4, <2>2, HoldsUnread DEF IInv
  <2>4. slots[i].data = cursor + GapLength
    BY <2>2, <2>3, ReceiverFacts DEF Ahead
  <2> QED BY <1>3, <2>3, <2>4, ReceiverFacts DEF CursorInStream
<1>6. sent - cursor <= SeqMod
  BY <1>2, <1>3, <1>4, <1>5, StreamTypes DEF NetworkBounds
<1>7. ASSUME NEW s \in Requested(ResendBuild(next, GapLength))
      PROVE  \E p \in 0 .. newest : SeqOf(p) = s /\ sent - p <= SeqMod
  <2>1. next \in Nat /\ GapLength \in Nat  BY <1>2, <1>4, StreamTypes DEF SeqNo
  <2>2. PICK j \in 0 .. GapLength - 1 : s = (next + j) % SeqMod
    <3>1. Requested(ResendBuild(next, GapLength))
            = {(next + j) % SeqMod : j \in 0 .. GapLength - 1}
      BY <2>1, RequestedRun
    <3> QED BY <3>1
  <2>3. j \in Index /\ j \in Nat  BY <1>4, <2>2, StreamTypes DEF Index
  <2>4. s = After(next, j)
    BY <1>2, <2>2, <2>3, AfterIsRemainder
  <2>5. SeqOf(cursor + j) = s
    BY <1>2, <1>3, <2>3, <2>4, SeqOfAfter
  <2>6. cursor + j \in 0 .. newest /\ sent - (cursor + j) <= SeqMod
    BY <1>2, <1>4, <1>5, <1>6, <2>2, StreamTypes
  <2> QED BY <2>5, <2>6
<1> QED BY <1>1, <1>2, <1>7 DEF NothingStale

-----------------------------------------------------------------------------
LEMMA AudioInStream ==
  ASSUME NetworkBounds, ReceiverIInv, HandleAudio
  PROVE  CursorInStream' /\ PlayedInStreamOrder' /\ NothingStale'
<1>1. PICK p \in air :
        /\ \/ ~started /\ p \in BadLen /\ Anchor(SeqOf(p))
           \/ (started \/ p \notin BadLen) /\ Insert(SeqOf(p), Data(p))
        /\ air' = air \ {p}
        /\ newest' = IF started /\ p \in BadLen THEN newest ELSE Later(newest, p)
        /\ cursor' = IF started THEN cursor ELSE p
  BY ReceiverFacts, AudioIsInsert
<1>2. pc = "select" /\ pc' = "drain" /\ UNCHANGED <<sent, wanted, back>>
  BY DEF HandleAudio
<1>3. /\ p \in Position /\ p \in Nat /\ p < sent /\ sent - p <= Lifetime
      /\ newest \in Int /\ sent \in Nat /\ IInv /\ NothingStale /\ NothingEarly
      /\ SeqOf(p) \in SeqNo /\ sent <= newest + Outage + 1 /\ Outage \in Nat
  BY ReceiverFacts, AirPositions, SeqOfType, StreamTypes DEF NothingStale, Position
<1>4. newest' \in Int /\ newest <= newest'
  BY <1>1, <1>3 DEF Later
<1>5. NothingStale'
  <2>1. ASSUME NEW n \in Int, newest <= n
        PROVE  /\ sent <= n + Outage + 1
               /\ \A q \in back : sent - q <= Lifetime /\ q <= n
               /\ \A s \in wanted : \E q \in 0 .. n : SeqOf(q) = s /\ sent - q <= SeqMod
    <3>1. sent <= n + Outage + 1  BY <1>3, <2>1
    <3>2. \A q \in back : sent - q <= Lifetime /\ q <= n
      BY <1>3, <2>1, ReceiverFacts, AirPositions DEF NothingStale, Position
    <3>3. ASSUME NEW s \in wanted
          PROVE  \E q \in 0 .. n : SeqOf(q) = s /\ sent - q <= SeqMod
      <4>1. PICK q \in 0 .. newest : SeqOf(q) = s /\ sent - q <= SeqMod
        BY <1>3 DEF NothingStale
      <4>2. q \in 0 .. n  BY <1>3, <2>1
      <4> QED BY <4>1, <4>2
    <3> QED BY <3>1, <3>2, <3>3
  <2>2. \A q \in air' : sent - q <= Lifetime
    BY <1>1, <1>3 DEF NothingStale
  <2> QED BY <1>2, <1>4, <2>1, <2>2 DEF NothingStale
<1>6. CASE started
  <2>1. \/ newest' = newest /\ (p \in BadLen \/ p <= newest)
        \/ newest' = Later(newest, p) /\ p \notin BadLen
    BY <1>1, <1>6
  <2>2. Insert(SeqOf(p), Data(p)) /\ cursor' = cursor
    BY <1>1, <1>6
  <2>3. CursorInStream' /\ PlayedInStreamOrder'
    BY <1>2, <1>3, <1>6, <2>1, <2>2, InsertInStream
  <2> QED BY <1>5, <2>3
<1>7. CASE ~started
  <2>1. newest = -1 /\ newest' = p /\ cursor' = p /\ Unread = {}
    BY <1>1, <1>3, <1>7 DEF NothingEarly, Later, IInv, NewestUnread
  <2>2. next' = SeqOf(p) /\ next' \in SeqNo
    BY <1>1, <1>3, <1>7, DataType DEF Anchor, Insert, Store, Refuse, Refused
  <2>3. CASE p \in BadLen
    <3>1. Unread' = {}
      BY <1>1, <1>7, <2>1, <2>3 DEF Anchor, Unread
    <3>2. p <= p + 1  BY <1>3
    <3>3. PlayedInStreamOrder'
      BY <2>1, <3>1, <3>2 DEF PlayedInStreamOrder
    <3>4. CursorInStream'
      BY <1>2, <1>3, <2>1, <2>2, <3>1 DEF CursorInStream
    <3> QED BY <1>5, <3>3, <3>4
  <2>4. CASE p \notin BadLen
    <3>1. slots' = [slots EXCEPT ![SlotOf(SeqOf(p))] = Holding(SeqOf(p), p)]
      BY <1>1, <1>3, <1>7, <2>4, DataType DEF Insert, Refuse, Refused, Store
    <3>2. \A i \in Unread' : slots'[i] = Holding(SeqOf(p), p)
      BY <2>1, <3>1, <1>3 DEF Unread, IInv, TypeOK
    <3>3. SeqDiff(SeqOf(p), SeqOf(p)) = 0  BY <1>3, SeqDiffType
    <3>4. \A i \in Unread' : slots'[i].data = p /\ slots'[i].seq = SeqOf(p)
      BY <3>2 DEF Holding
    <3>5. p = p + 0 /\ p <= p + 1 /\ p <= p  BY <1>3
    <3>6. PlayedInStreamOrder'
      BY <2>1, <2>2, <3>3, <3>4, <3>5 DEF PlayedInStreamOrder, Ahead
    <3>7. CursorInStream'
      BY <1>2, <2>1, <2>2, <3>4, <3>5 DEF CursorInStream
    <3> QED BY <1>5, <3>6, <3>7
  <2> QED BY <2>3, <2>4
<1> QED BY <1>6, <1>7

LEMMA ControlInStream ==
  ASSUME NetworkBounds, ReceiverIInv, HandleControl
  PROVE  CursorInStream' /\ PlayedInStreamOrder' /\ NothingStale'
<1>1. PICK p \in back : Insert(SeqOf(p), Data(p)) /\ back' = back \ {p}
  BY ReceiverFacts, ControlIsInsert
<1>2. /\ pc \notin {"drain", "feed"} /\ pc' = "drain"
      /\ UNCHANGED <<sent, air, wanted, cursor, newest>>
  BY DEF HandleControl, history
<1>3. /\ p \in Position /\ p < sent /\ sent - p <= Lifetime /\ p <= newest /\ started
  BY ReceiverFacts, AirPositions DEF NothingStale, NothingEarly
<1>4. CursorInStream' /\ PlayedInStreamOrder'
  BY <1>1, <1>2, <1>3, InsertInStream
<1>5. NothingStale'
  BY <1>1, <1>2, ReceiverFacts DEF NothingStale
<1> QED BY <1>4, <1>5

LEMMA InitReceiver == Init => ReceiverIInv
<1> SUFFICES ASSUME Init PROVE ReceiverIInv
  OBVIOUS
<1>1. ReceiverTypes /\ NothingEarly  BY InitDuration DEF DurationIInv
<1>2. IInv  BY InitIInv DEF Init
<1>3. Unread = {}  BY DEF Init, RbInit, Unread, Free
<1>4. NothingStale  BY StreamTypes DEF Init, NothingStale
<1>5. CursorInStream  BY DEF Init, RbInit, CursorInStream
<1>6. PlayedInStreamOrder  BY <1>3 DEF Init, PlayedInStreamOrder
<1> QED BY <1>1, <1>2, <1>4, <1>5, <1>6 DEF ReceiverIInv

(* StepsAccounted rides along: only ReceiverTypes and NothingEarly need it.  *)
LEMMA NextReceiver ==
  NetworkBounds /\ ReceiverIInv /\ DurationIInv /\ [RNext]_vars => ReceiverIInv'
<1> SUFFICES ASSUME NetworkBounds, ReceiverIInv, DurationIInv, [RNext]_vars
             PROVE  ReceiverIInv'
  OBVIOUS
<1>1. IInv'
  BY ReceiverFacts, ReceiverUsesBuffer, NextIInv
<1>2. ReceiverTypes' /\ NothingEarly'
  BY NextDuration DEF DurationIInv
<1>3. NothingStale' /\ CursorInStream' /\ PlayedInStreamOrder'
  <2>1. CASE Aside
    <3>1. UNCHANGED <<rbVars, cursor, newest, sent, air, wanted, back>>
          /\ (pc' \in {"drain", "feed"} \/ pc \notin {"drain", "feed"})
      BY <2>1 DEF Aside, net
    <3>2. NothingStale'  BY <3>1, ReceiverFacts DEF NothingStale
    <3> QED BY <3>1, <3>2, StillInStream
  <2>2. CASE Send
    <3>1. UNCHANGED <<rbVars, cursor, newest, pc>>
      BY <2>2 DEF Send, task, history
    <3> QED BY <2>2, <3>1, SendNotStale, StillInStream
  <2>3. CASE Lose
    <3>1. /\ UNCHANGED <<rbVars, cursor, newest, pc, sent>>
          /\ air' \subseteq air /\ wanted' \subseteq wanted /\ back' \subseteq back
      BY <2>3 DEF Lose, task, history
    <3>2. NothingStale'  BY <3>1, ReceiverFacts DEF NothingStale
    <3> QED BY <3>1, <3>2, StillInStream
  <2>4. CASE Answer
    <3>1. UNCHANGED <<rbVars, cursor, newest, pc>>
      BY <2>4 DEF Answer, task, history
    <3> QED BY <2>4, <3>1, AnswerNotStale, StillInStream
  <2>5. CASE HandleAudio
    BY <2>5, AudioInStream
  <2>6. CASE HandleControl
    BY <2>6, ControlInStream
  <2>7. CASE DrainPlay \/ DrainConceal
    <3>1. UNCHANGED <<net, newest>>
      BY <2>7 DEF DrainPlay, DrainConceal
    <3>2. NothingStale'  BY <3>1, ReceiverFacts DEF NothingStale, net
    <3> QED BY <2>7, <3>2, DrainPlayInStream, DrainConcealInStream
  <2>8. CASE DrainStop
    <3>1. UNCHANGED <<net, newest>>  BY <2>8 DEF DrainStop, history
    <3>2. NothingStale'  BY <3>1, ReceiverFacts DEF NothingStale, net
    <3> QED BY <2>8, <3>2, DrainStopInStream
  <2>9. CASE Request
    <3>1. UNCHANGED <<rbVars, cursor, newest>> /\ pc = "resend"
      BY <2>9 DEF Request, history
    <3> QED BY <2>9, <3>1, RequestNotStale, StillInStream
  <2> QED BY RNextSteps, <2>1, <2>2, <2>3, <2>4, <2>5, <2>6, <2>7, <2>8, <2>9
<1> QED BY <1>1, <1>2, <1>3 DEF ReceiverIInv

(***************************************************************************)
(* For every stream, ring, hold and first number: packets are played in the  *)
(* order of the stream, each at most once, whatever is lost, reordered or     *)
(* resent and however often the numbers wrap, as long as no outage is longer *)
(* than the ring beyond the hold and nothing under way is a round old        *)
(* (insert_audio, drain_decode, rtp_reorder.c:14-51).                        *)
(***************************************************************************)
THEOREM ReceiverInOrder ==
  ASSUME NetworkBounds
  PROVE  RSpec => []PlayedInStreamOrder
<1>1. Init => ReceiverIInv /\ DurationIInv
  BY InitReceiver, InitDuration
<1>2. (ReceiverIInv /\ DurationIInv) /\ [RNext]_vars => (ReceiverIInv /\ DurationIInv)'
  BY NextReceiver, NextDuration
<1>3. ReceiverIInv /\ DurationIInv => PlayedInStreamOrder
  BY DEF ReceiverIInv
<1> QED BY <1>1, <1>2, <1>3, PTL DEF RSpec

-----------------------------------------------------------------------------
(* What is newest is buffered.                                              *)

LEMMA NewestStep ==
  ASSUME NetworkBounds, ReceiverIInv, [RNext]_vars, newest' # newest
  PROVE  NewestHeld'
<1>1. HandleAudio
  BY RNextSteps DEF Aside, Send, Lose, Answer, HandleControl, DrainPlay, DrainConceal,
                    DrainStop, Request, history
<1>2. PICK p \in air :
        /\ \/ ~started /\ p \in BadLen /\ Anchor(SeqOf(p))
           \/ (started \/ p \notin BadLen) /\ Insert(SeqOf(p), Data(p))
        /\ newest' = IF started /\ p \in BadLen THEN newest ELSE Later(newest, p)
  BY <1>1, ReceiverFacts, AudioIsInsert
<1>3. /\ p \in Position /\ p \in Nat /\ p < sent /\ sent - p <= Lifetime /\ pc = "select"
      /\ newest \in Int /\ cursor \in Nat /\ cursor <= newest + 1 /\ TypeOK
      /\ SeqOf(p) \in SeqNo
  BY <1>1, ReceiverFacts, AirPositions, SeqOfType, StreamTypes
     DEF NothingStale, Position, HandleAudio, IInv
<1>4. newest' = p /\ newest < p
  BY <1>2, <1>3 DEF Later
<1>5. CASE p \in BadLen
  BY <1>4, <1>5 DEF NewestHeld
<1>6. CASE p \notin BadLen
  <2>1. ~Refused(SeqOf(p), Data(p))
    <3>1. CASE started
      <4>1. p >= cursor /\ ~(p <= newest)  BY <1>3, <1>4
      <4>2. ~TooOld(SeqOf(p)) /\ ~TooNew(SeqOf(p)) /\ ~Holds(SeqOf(p))
        BY <1>3, <3>1, <4>1, NumberTellsPosition
      <4> QED BY <1>3, <1>6, <4>2, DataType DEF Refused
    <3>2. CASE ~started
      BY <1>3, <1>6, <3>2, DataType DEF Refused
    <3> QED BY <3>1, <3>2
  <2>2. slots' = [slots EXCEPT ![SlotOf(SeqOf(p))] = Holding(SeqOf(p), p)]
    BY <1>2, <1>3, <1>6, <2>1, DataType DEF Insert, Refuse, Store
  <2>3. SlotOf(SeqOf(p)) \in Unread' /\ slots'[SlotOf(SeqOf(p))].data = p
    BY <1>3, <2>2, SlotOfType DEF Unread, TypeOK, Holding
  <2> QED BY <1>4, <2>3 DEF NewestHeld, Buffered
<1> QED BY <1>5, <1>6

(***************************************************************************)
(* A packet newer than all accepted before is buffered, however many were    *)
(* lost before it, within the bounds on the network: the receiver does not   *)
(* have to anchor again (raop_rtp.h:17-18).                                  *)
(***************************************************************************)
THEOREM ReceiverNewest ==
  ASSUME NetworkBounds
  PROVE  RSpec => NewestIsBuffered
<1>1. Init => ReceiverIInv /\ DurationIInv
  BY InitReceiver, InitDuration
<1>2. (ReceiverIInv /\ DurationIInv) /\ [RNext]_vars => (ReceiverIInv /\ DurationIInv)'
  BY NextReceiver, NextDuration
<1>3. ReceiverIInv /\ DurationIInv /\ [RNext]_vars => [newest' # newest => NewestHeld']_vars
  BY NewestStep
<1> QED BY <1>1, <1>2, <1>3, PTL DEF RSpec, NewestIsBuffered

-----------------------------------------------------------------------------
(* What is missing is asked for.                                            *)

LEMMA InitPeer == Init => AudioHasPeer
BY DEF Init, AudioHasPeer

LEMMA NextPeer == AudioHasPeer /\ [RNext]_vars => AudioHasPeer'
<1> SUFFICES ASSUME AudioHasPeer, [RNext]_vars PROVE AudioHasPeer'
  OBVIOUS
<1>1. CASE Send \/ Lose \/ Answer \/ Clock \/ TimePasses \/ TimingChannel \/ Stop \/ Rest
           \/ UNCHANGED vars
  BY <1>1 DEF AudioHasPeer, Send, Lose, Answer, Clock, TimePasses, TimingChannel, Poll,
              HearTiming, LoseTiming, Leave, Stop, Rest, vars, task, channel
<1>2. CASE Begin \/ Remind \/ HandleTiming \/ Exit \/ HandleAudio \/ HandleControl
           \/ ControlNothing
  BY <1>2 DEF AudioHasPeer, Begin, Remind, HandleTiming, Exit, HandleAudio, HandleControl,
              ControlNothing, task, channel
<1>3. CASE DrainPlay \/ DrainConceal \/ DrainStop \/ Feed \/ FeedGivenUp \/ Request
           \/ NoRequest
  BY <1>3 DEF AudioHasPeer, DrainPlay, DrainConceal, DrainStop, Feed, FeedGivenUp, Request,
              NoRequest, AfterAudio, task, channel
<1> QED BY <1>1, <1>2, <1>3 DEF RNext, Task

(* Position and number say the same of what is buffered. *)
LEMMA BufferedIsHeld ==
  ASSUME ReceiverIInv, NEW j \in Index
  PROVE  Buffered(cursor + j) <=> Holds(After(next, j))
<1>1. next \in SeqNo /\ cursor \in Nat /\ TypeOK /\ j \in Nat /\ j \in 0 .. Window
  BY ReceiverFacts, StreamTypes DEF IInv, Index
<1>2. After(next, j) \in SeqNo /\ SeqDiff(After(next, j), next) = j
  BY <1>1, AfterIsPlace
<1>3. ASSUME NEW i \in Unread, slots[i].data = cursor + j
      PROVE  Holds(After(next, j))
  <2>1. slots[i].seq \in SeqNo /\ SeqDiff(slots[i].seq, next) = j
    BY <1>1, <1>3, ReceiverFacts DEF Ahead
  <2>2. slots[i].seq = After(next, j)
    BY <1>1, <1>2, <2>1, SeqDiffInjective
  <2>3. SlotOf(slots[i].seq) = i  BY ReceiverFacts, UnreadAhead
  <2> QED BY <1>1, <1>2, <2>2, <2>3, HoldsUnread
<1>4. ASSUME Holds(After(next, j))
      PROVE  Buffered(cursor + j)
  <2>1. PICK i \in Unread : slots[i].seq = After(next, j)
    BY <1>1, <1>2, <1>4, HoldsUnread
  <2>2. slots[i].data = cursor + j
    BY <1>2, <2>1, ReceiverFacts DEF Ahead
  <2> QED BY <2>1, <2>2 DEF Buffered
<1> QED BY <1>3, <1>4 DEF Buffered

LEMMA RequestedIsHole ==
  ASSUME NetworkBounds, ReceiverIInv, HasGap
  PROVE  Requested(ResendBuild(next, GapLength)) = Hole
<1> DEFINE g == GapLength
<1>1. /\ next \in SeqNo /\ next \in Nat /\ cursor \in Nat /\ newest \in Int /\ IInv
      /\ next = SeqOf(cursor)
  BY ReceiverFacts, StreamTypes DEF CursorInStream, HasGap, Nonempty, SeqNo
<1>2. /\ g \in 1 .. Window - 1 /\ Holds(After(next, g))
      /\ \A j \in 0 .. g - 1 : ~Holds(After(next, j))
  BY <1>1, GapEndsAtNearest DEF HasGap
<1> HIDE DEF g
<1>3. Buffered(cursor + g) /\ \A j \in 0 .. g - 1 : ~Buffered(cursor + j)
  <2>1. g \in Index /\ \A j \in 0 .. g - 1 : j \in Index
    BY <1>2, StreamTypes DEF Index
  <2> QED BY <1>2, <2>1, BufferedIsHeld
<1>4. cursor + g <= newest
  <2>1. PICK i \in Unread : slots[i].data = cursor + g
    BY <1>3 DEF Buffered
  <2> QED BY <2>1, ReceiverFacts DEF CursorInStream
<1>5. {q \in cursor .. newest : \A r \in cursor .. q : ~Buffered(r)}
        = {q \in Nat : cursor <= q /\ q < cursor + g}
  <2>1. ASSUME NEW q \in cursor .. newest, \A r \in cursor .. q : ~Buffered(r)
        PROVE  q \in Nat /\ cursor <= q /\ q < cursor + g
    <3>1. cursor + g \notin cursor .. q  BY <1>3, <2>1
    <3> QED BY <1>1, <1>2, <3>1, StreamTypes
  <2>2. ASSUME NEW q \in Nat, cursor <= q, q < cursor + g
        PROVE  q \in cursor .. newest /\ \A r \in cursor .. q : ~Buffered(r)
    <3>1. q \in cursor .. newest  BY <1>1, <1>2, <1>4, <2>2, StreamTypes
    <3>2. ASSUME NEW r \in cursor .. q
          PROVE  ~Buffered(r)
      <4>1. r - cursor \in 0 .. g - 1 /\ cursor + (r - cursor) = r
        BY <1>1, <1>2, <2>2, StreamTypes
      <4> QED BY <1>3, <4>1
    <3> QED BY <3>1, <3>2
  <2> QED BY <2>1, <2>2
<1>6. \A j \in 0 .. g - 1 : (next + j) % SeqMod = SeqOf(cursor + j)
  <2> TAKE j \in 0 .. g - 1
  <2>1. j \in Index /\ j \in Nat  BY <1>2, StreamTypes DEF Index
  <2>2. SeqOf(cursor + j) = After(next, j)  BY <1>1, <2>1, SeqOfAfter
  <2> QED BY <1>1, <2>1, <2>2, AfterIsRemainder
<1>7. Requested(ResendBuild(next, g)) = {(next + j) % SeqMod : j \in 0 .. g - 1}
  <2>1. next \in Nat /\ g \in Nat  BY <1>1, <1>2, StreamTypes
  <2> QED BY <2>1, RequestedRun
<1>8. {(next + j) % SeqMod : j \in 0 .. g - 1}
        = {SeqOf(p) : p \in {q \in Nat : cursor <= q /\ q < cursor + g}}
  <2>1. ASSUME NEW j \in 0 .. g - 1
        PROVE  \E p \in {q \in Nat : cursor <= q /\ q < cursor + g} :
                 (next + j) % SeqMod = SeqOf(p)
    <3>1. cursor + j \in Nat /\ cursor <= cursor + j /\ cursor + j < cursor + g
      BY <1>1, <1>2
    <3> QED BY <1>6, <3>1
  <2>2. ASSUME NEW p \in Nat, cursor <= p, p < cursor + g
        PROVE  \E j \in 0 .. g - 1 : SeqOf(p) = (next + j) % SeqMod
    <3>1. p - cursor \in 0 .. g - 1 /\ cursor + (p - cursor) = p
      BY <1>1, <1>2, <2>2, StreamTypes
    <3> QED BY <1>6, <3>1
  <2> QED BY <2>1, <2>2
<1> QED BY <1>5, <1>7, <1>8 DEF Hole, g

LEMMA HoleStep ==
  ASSUME NetworkBounds, ReceiverIInv, AudioHasPeer, [RNext]_vars,
         pc = "resend", pc' # "resend", Unread # {}
  PROVE  /\ Hole # {} => asked'.valid /\ asked'.first = SeqOf(cursor)
         /\ wanted' \in {wanted, wanted \cup Hole}
         /\ asked' # asked => wanted' = wanted \cup Hole
<1>1. started /\ next = SeqOf(cursor) /\ cursor \in Nat /\ IInv
  BY ReceiverFacts DEF CursorInStream
<1>2. Request \/ NoRequest
  BY DEF RNext, Task, Send, Lose, Answer, Clock, TimePasses, TimingChannel, Poll,
         HearTiming, LoseTiming, Leave, Stop, Rest, Begin, Remind, HandleTiming, Exit,
         HandleAudio, HandleControl, ControlNothing, DrainPlay, DrainConceal, DrainStop,
         Feed, FeedGivenUp, vars, task
<1>3. CASE Request
  <2>1. /\ HasGap /\ asked' = [valid |-> TRUE, first |-> next]
        /\ wanted' = wanted \cup Requested(ResendBuild(next, GapLength))
    BY <1>3 DEF Request
  <2>2. wanted' = wanted \cup Hole
    BY <2>1, RequestedIsHole
  <2> QED BY <1>1, <2>1, <2>2
<1>4. CASE NoRequest
  <2>1. peer  BY DEF AudioHasPeer
  <2>2. UNCHANGED <<wanted, asked>> /\ (~HasGap \/ Throttled)
    BY <1>4, <2>1 DEF NoRequest, net
  <2>3. CASE Throttled
    BY <1>1, <2>2, <2>3 DEF Throttled
  <2>4. CASE ~HasGap
    <3>1. Nonempty
      BY <1>1, IndexFinite, FS_EmptySet DEF Nonempty, IInv, CountExact
    <3>2. Holds(next)
      BY <1>1, <2>4, <3>1, GapEndsAtNearest DEF HasGap
    <3>3. 0 \in Index /\ After(next, 0) = next /\ cursor + 0 = cursor
      BY <1>1, StreamTypes, AfterIsPlace DEF IInv, TypeOK, Index
    <3>4. Buffered(cursor)
      BY <3>2, <3>3, BufferedIsHeld
    <3>5. Hole = {}
      <4>1. \A q \in cursor .. newest : cursor \in cursor .. q
        BY <1>1, ReceiverFacts
      <4> QED BY <3>4, <4>1 DEF Hole
    <3> QED BY <2>2, <3>5
  <2> QED BY <2>2, <2>3, <2>4
<1> QED BY <1>2, <1>3, <1>4

(***************************************************************************)
(* After an audio packet, the hole the cursor is stopped at has been asked   *)
(* for, and the request as its reader decodes it names that hole and nothing *)
(* else, across the wrap of the numbers (maybe_request_resend, rtp_resend_   *)
(* build): for every stream, ring and hold within the bounds on the network. *)
(***************************************************************************)
THEOREM ReceiverAsks ==
  ASSUME NetworkBounds
  PROVE  RSpec => HoleAskedFor
<1> DEFINE I == ReceiverIInv /\ DurationIInv /\ AudioHasPeer
<1>1. Init => I
  BY InitReceiver, InitDuration, InitPeer
<1>2. I /\ [RNext]_vars => I'
  BY NextReceiver, NextDuration, NextPeer
<1>3. I /\ [RNext]_vars =>
        [pc = "resend" /\ pc' # "resend" /\ Unread # {} =>
           /\ Hole # {} => asked'.valid /\ asked'.first = SeqOf(cursor)
           /\ wanted' \in {wanted, wanted \cup Hole}
           /\ asked' # asked => wanted' = wanted \cup Hole]_vars
  BY HoleStep
<1> HIDE DEF I
<1> QED BY <1>1, <1>2, <1>3, PTL DEF RSpec, HoleAskedFor
=============================================================================
