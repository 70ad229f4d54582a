--------------------------- MODULE RtspFramingProofs --------------------------
(***************************************************************************)
(* The framing of requests, for any buffer, any stream of requests and any   *)
(* way TCP cuts it.                                                         *)
(***************************************************************************)
EXTENDS RtspFraming, Recursion

-----------------------------------------------------------------------------
(* Where the requests start.  That the recursion defines Start is shown by   *)
(* the least length for which it might not.                                 *)

LEMMA SizesNat ==
  ASSUME stream \in [Request -> Sizes], NEW i \in Request
  PROVE  /\ stream[i].hdr \in Nat \ {0} /\ stream[i].body \in Nat /\ Size(i) \in Nat \ {0}
         /\ i \in Nat \ {0} /\ i <= Length /\ Length \in Nat
BY FramingAssumption DEF Size, Request

LEMMA StartExists ==
  ASSUME stream \in [Request -> Sizes]
  PROVE  \E f \in [1 .. Length + 1 -> Nat] :
           f = [i \in 1 .. Length + 1 |-> IF i = 1 THEN 0 ELSE f[i - 1] + Size(i - 1)]
<1> DEFINE Prefix(n) == {f \in [1 .. n -> Nat] :
                           \A i \in 1 .. n : f[i] = IF i = 1 THEN 0 ELSE f[i - 1] + Size(i - 1)}
           Bad == {n \in 0 .. Length + 1 : Prefix(n) = {}}
<1>0. Length \in Nat  BY FramingAssumption
<1>1. Bad = {}
  <2> SUFFICES ASSUME Bad # {} PROVE FALSE
    OBVIOUS
  <2>1. PICK n \in Bad : \A m \in Bad : n <= m
    <3>1. Bad \subseteq Nat  BY <1>0
    <3> HIDE DEF Bad
    <3> QED BY <3>1, LeastNatural
  <2>2. n \in 0 .. Length + 1 /\ Prefix(n) = {}
    OBVIOUS
  <2>3. CASE n = 0
    <3>1. [i \in 1 .. n |-> 0] \in Prefix(n)
      BY <2>3
    <3> QED BY <2>2, <3>1
  <2>4. CASE n # 0
    <3>1. n - 1 \in 0 .. Length + 1 /\ n - 1 \notin Bad
      <4> HIDE DEF Bad
      <4> QED BY <1>0, <2>1, <2>2, <2>4
    <3>2. PICK f : f \in Prefix(n - 1)
      <4> HIDE DEF Prefix
      <4> QED BY <3>1
    <3> DEFINE g == [i \in 1 .. n |-> IF i < n THEN f[i]
                                      ELSE IF n = 1 THEN 0 ELSE f[n - 1] + Size(n - 1)]
    <3>3. n = 1 \/ (n - 1 \in Request /\ n - 1 \in 1 .. n - 1)
      BY <1>0, <2>2, <2>4 DEF Request
    <3>4. g \in [1 .. n -> Nat]
      BY <2>2, <2>4, <3>2, <3>3, SizesNat
    <3>5. ASSUME NEW i \in 1 .. n
          PROVE  g[i] = IF i = 1 THEN 0 ELSE g[i - 1] + Size(i - 1)
      <4>1. CASE i < n
        BY <2>2, <3>2, <4>1
      <4>2. CASE i = n
        BY <2>2, <3>2, <4>2
      <4> QED BY <2>2, <4>1, <4>2
    <3> HIDE DEF g
    <3>6. g \in Prefix(n)
      BY <3>4, <3>5
    <3> QED BY <2>2, <3>6
  <2> QED BY <2>3, <2>4
<1>2. PICK f : f \in Prefix(Length + 1)
  <2>1. Length + 1 \in 1 .. Length + 1
    BY <1>0
  <2> HIDE DEF Prefix
  <2> QED BY <1>1, <2>1
<1>3. f = [i \in 1 .. Length + 1 |-> IF i = 1 THEN 0 ELSE f[i - 1] + Size(i - 1)]
  BY <1>2
<1> QED BY <1>2, <1>3

LEMMA StartFacts ==
  ASSUME stream \in [Request -> Sizes]
  PROVE  /\ Start[1] = 0
         /\ \A i \in 1 .. Length + 1 : Start[i] \in Nat
         /\ \A i \in Request : Start[i + 1] = Start[i] + Size(i)
<1> DEFINE Rec(f) == f = [i \in 1 .. Length + 1 |-> IF i = 1 THEN 0 ELSE f[i - 1] + Size(i - 1)]
<1>1. \E f : Rec(f)
  BY StartExists
<1>2. Start = CHOOSE f : Rec(f)
  BY DEF Start
<1>3. Rec(Start)
  BY <1>1, <1>2
<1>4. /\ Length \in Nat /\ DOMAIN Start = 1 .. Length + 1
      /\ Start[1] = 0 /\ \A i \in 2 .. Length + 1 : Start[i] = Start[i - 1] + Size(i - 1)
  BY <1>3, FramingAssumption
<1> HIDE DEF Rec
<1>5. ASSUME NEW i \in 1 .. Length + 1
      PROVE  Start[i] \in Nat
  <2> DEFINE Bad == {j \in 1 .. Length + 1 : Start[j] \notin Nat}
  <2>1. SUFFICES ASSUME Bad # {} PROVE FALSE
    OBVIOUS
  <2>2. PICK n \in Bad : \A m \in Bad : n <= m
    <3>1. Bad \subseteq Nat  BY <1>4
    <3> HIDE DEF Bad
    <3> QED BY <2>1, <3>1, LeastNatural
  <2>3. n \in 2 .. Length + 1 /\ n - 1 \in 1 .. Length + 1 /\ n - 1 \in Request
    BY <1>4 DEF Request
  <2>4. n - 1 \notin Bad
    BY <1>4, <2>2, <2>3
  <2>5. Start[n - 1] \in Nat /\ Size(n - 1) \in Nat
    BY <2>3, <2>4, SizesNat
  <2> QED BY <1>4, <2>3, <2>5
<1>6. ASSUME NEW i \in Request
      PROVE  Start[i + 1] = Start[i] + Size(i)
  <2>1. i + 1 \in 2 .. Length + 1 /\ (i + 1) - 1 = i
    BY <1>4 DEF Request
  <2> QED BY <1>4, <2>1
<1> QED BY <1>4, <1>5, <1>6

LEMMA StartGrows ==
  ASSUME stream \in [Request -> Sizes],
         NEW i \in 1 .. Length + 1, NEW j \in 1 .. Length + 1, i <= j
  PROVE  Start[i] <= Start[j]
<1> DEFINE Bad == {k \in i .. Length + 1 : ~(Start[i] <= Start[k])}
<1>0. Length \in Nat /\ i \in Nat
  BY FramingAssumption
<1>1. SUFFICES ASSUME Bad # {} PROVE FALSE
  BY <1>0
<1>2. PICK n \in Bad : \A m \in Bad : n <= m
  <2>1. Bad \subseteq Nat  BY <1>0
  <2> HIDE DEF Bad
  <2> QED BY <1>1, <2>1, LeastNatural
<1>3. n # i
  BY <1>0, StartFacts
<1>4. n - 1 \in i .. Length + 1 /\ n - 1 \in Request /\ (n - 1) + 1 = n
  BY <1>0, <1>3 DEF Request
<1>5. n - 1 \notin Bad
  BY <1>0, <1>2, <1>4
<1>6. Start[n] = Start[n - 1] + Size(n - 1) /\ Size(n - 1) \in Nat
  BY <1>4, StartFacts, SizesNat
<1>7. Start[i] \in Nat /\ Start[n - 1] \in Nat
  BY <1>0, <1>4, StartFacts DEF Request
<1> QED BY <1>4, <1>5, <1>6, <1>7

(* The terms of a request move only with the sender's stream and rx[0].      *)
LEMMA SameStart ==
  ASSUME UNCHANGED stream
  PROVE  /\ Start' = Start /\ Served' = Served /\ \A i : Size(i)' = Size(i)
BY DEF Start, Size, Served, Fits

LEMMA SameFront ==
  ASSUME UNCHANGED <<stream, base>>
  PROVE  UNCHANGED <<Ends, Front, FrontEnd, BlankLine(Front), stream[Front], Size(Front), Cut>>
BY SameStart DEF Ends, Front, FrontEnd, BlankLine, Cut, Size
-----------------------------------------------------------------------------
(* The request at the front of rx: the first whose blank line is still to    *)
(* come.                                                                    *)
LEMMA FrontFacts ==
  ASSUME FramingTypes, Ends # {}
  PROVE  /\ Front \in Request /\ BlankLine(Front) > base /\ \A i \in Ends : Front <= i
         /\ BlankLine(Front) \in Nat /\ FrontEnd = Start[Front + 1] /\ FrontEnd \in Nat
         /\ stream[Front].hdr \in Nat \ {0} /\ stream[Front].body \in Nat
         /\ FrontEnd = BlankLine(Front) + stream[Front].body
<1>1. Ends \subseteq Nat
  BY FramingAssumption DEF Ends, Request
<1>2. \E i \in Ends : \A j \in Ends : i <= j
  BY <1>1, LeastNatural
<1>3. Front \in Ends /\ \A i \in Ends : Front <= i
  BY <1>2 DEF Front
<1>4. Front \in Request /\ BlankLine(Front) > base
  BY <1>3 DEF Ends
<1>5. stream \in [Request -> Sizes]
  BY DEF FramingTypes
<1>6. /\ stream[Front].hdr \in Nat \ {0} /\ stream[Front].body \in Nat
      /\ Front \in 1 .. Length + 1
  BY <1>4, <1>5, SizesNat, FramingAssumption DEF Request
<1>7. Start[Front] \in Nat /\ Start[Front + 1] = Start[Front] + Size(Front)
  BY <1>4, <1>5, <1>6, StartFacts
<1> QED BY <1>3, <1>4, <1>6, <1>7 DEF BlankLine, FrontEnd, Size

(* In its place, the front is the request to be answered next, if there is   *)
(* one.                                                                     *)
LEMMA FrontIsNext ==
  ASSUME FramingTypes, InPlace
  PROVE  /\ Ends # {} <=> NextRequest \in Request
         /\ Ends # {} => /\ Front = NextRequest /\ Cut = NextRequest
                         /\ FrontEnd = base + Size(NextRequest)
                         /\ BlankLine(Front) = base + stream[NextRequest].hdr
<1> DEFINE k == NextRequest
<1>1. /\ stream \in [Request -> Sizes] /\ k \in 1 .. Length + 1 /\ base = Start[k]
      /\ Length \in Nat /\ base \in Int
  BY FramingAssumption DEF FramingTypes, InPlace
<1> HIDE DEF k
<1>2. ASSUME NEW i \in Request, i < k
      PROVE  i \notin Ends
  <2>1. i \in 1 .. Length + 1 /\ i + 1 \in 1 .. Length + 1 /\ i + 1 <= k
    BY <1>1, <1>2 DEF Request
  <2>2. Start[i + 1] <= Start[k] /\ Start[i + 1] = Start[i] + Size(i)
    BY <1>1, <2>1, StartGrows, StartFacts
  <2>3. /\ Start[i] \in Nat /\ stream[i].hdr \in Nat /\ stream[i].body \in Nat
        /\ Size(i) = stream[i].hdr + stream[i].body
    BY <1>1, <2>1, StartFacts, SizesNat DEF Size
  <2> QED BY <1>1, <2>2, <2>3 DEF Ends, BlankLine
<1>3. ASSUME k \in Request
      PROVE  k \in Ends
  <2>1. stream[k].hdr \in Nat \ {0}
    BY <1>1, <1>3, SizesNat
  <2> QED BY <1>1, <1>3, <2>1 DEF Ends, BlankLine
<1>4. Ends # {} <=> k \in Request
  BY <1>1, <1>2, <1>3 DEF Ends, Request
<1>5. ASSUME Ends # {}
      PROVE  Front = k
  <2>1. Front \in Request /\ Front <= k /\ Front \in Ends
    BY <1>3, <1>4, <1>5, FrontFacts DEF Ends
  <2>2. ~(Front < k)
    BY <1>2, <2>1
  <2> QED BY <1>1, <2>1, <2>2 DEF Request
<1>6. ASSUME Ends # {}
      PROVE  FrontEnd = base + Size(k)
  BY <1>1, <1>4, <1>5, <1>6, FrontFacts, StartFacts
<1> QED BY <1>1, <1>4, <1>5, <1>6 DEF k, Cut, BlankLine

(* What is cut out whole of the buffer fits it; what fills it does not.      *)
LEMMA WholeFits ==
  ASSUME FramingTypes, InPlace, HeaderSeen
  PROVE  /\ NextRequest \in Request /\ Front = NextRequest /\ Cut = NextRequest
         /\ Fits(NextRequest)
         /\ Complete => Size(NextRequest) <= Cap
         /\ ~Complete /\ Full => Size(NextRequest) > Cap
<1>1. /\ Ends # {} /\ BlankLine(Front) <= Received
      /\ base \in Int /\ used \in Nat /\ used <= Cap /\ Cap \in Nat
  BY FramingAssumption DEF HeaderSeen, FramingTypes
<1>2. /\ NextRequest \in Request /\ Front = NextRequest /\ Cut = NextRequest
      /\ FrontEnd = base + Size(NextRequest)
      /\ BlankLine(Front) = base + stream[NextRequest].hdr
  BY <1>1, FrontIsNext
<1>3. Size(NextRequest) \in Nat /\ stream[NextRequest].hdr \in Nat
  BY <1>2, SizesNat DEF FramingTypes
<1>4. Fits(NextRequest)
  BY <1>1, <1>2, <1>3 DEF Fits, Received
<1>5. Complete => Size(NextRequest) <= Cap
  BY <1>1, <1>2, <1>3 DEF Complete, Received
<1>6. ~Complete /\ Full => Size(NextRequest) > Cap
  BY <1>1, <1>2, <1>3 DEF Complete, HeaderSeen, Full, Received
<1> QED BY <1>2, <1>4, <1>5, <1>6
-----------------------------------------------------------------------------
(* One more answer, in its place. *)
LEMMA OneMoreAnswer ==
  ASSUME FramingTypes, InPlace, AnswersFollowTheStream, ~lost,
         NextRequest \in Request, Cut = NextRequest, Fits(NextRequest),
         NEW how \in {"dispatched", "drained"},
         how = IF Size(NextRequest) <= Cap THEN "dispatched" ELSE "drained",
         Answered(how), UNCHANGED stream
  PROVE  /\ AnswersFollowTheStream' /\ NextRequest' = NextRequest + 1
         /\ NextRequest' \in 1 .. Length + 1
<1> DEFINE k == NextRequest
<1>1. /\ answers \in Seq([of : 0 .. Length, how : {"dispatched", "drained"}])
      /\ Len(answers) \in Nat /\ k = Len(answers) + 1 /\ DOMAIN answers = 1 .. Len(answers)
      /\ Length \in Nat
  BY FramingAssumption DEF FramingTypes, NextRequest
<1>2. answers' = Append(answers, [of |-> k, how |-> how])
  BY DEF Answered
<1>3. /\ Len(answers') = k /\ DOMAIN answers' = 1 .. k
      /\ answers'[k] = [of |-> k, how |-> how]
      /\ \A i \in DOMAIN answers : answers'[i] = answers[i]
  BY <1>1, <1>2
<1> HIDE DEF k
<1>4. ASSUME NEW i \in 1 .. k
      PROVE  i \in DOMAIN answers \/ i = k
  BY <1>1, <1>4
<1>5. k \in Served
  <2>1. \A i \in 1 .. k : Fits(i)
    BY <1>4 DEF AnswersFollowTheStream, Served, k
  <2> QED BY <2>1 DEF Served, k
<1>6. AnswersFollowTheStream'
  <2>1. DOMAIN answers' \subseteq Served'
    BY <1>3, <1>4, <1>5, SameStart DEF AnswersFollowTheStream
  <2>2. ASSUME NEW i \in 1 .. k
        PROVE  answers'[i] = [of |-> i, how |-> IF Size(i) <= Cap THEN "dispatched" ELSE "drained"]
    BY <1>3, <1>4 DEF AnswersFollowTheStream, k
  <2>3. \A i : Size(i)' = Size(i)
    BY SameStart
  <2> QED BY <1>3, <2>1, <2>2, <2>3 DEF AnswersFollowTheStream
<1>7. NextRequest' = k + 1
  BY <1>3 DEF NextRequest
<1>8. k + 1 \in 1 .. Length + 1
  BY <1>1 DEF k, Request
<1> QED BY <1>6, <1>7, <1>8 DEF k
-----------------------------------------------------------------------------
(* The steps.                                                               *)

(* A step that answers nothing, leaves rx[0] where it is, and at most sends,  *)
(* receives or drains.                                                      *)
LEMMA QuietStep ==
  ASSUME FramingIInv, UNCHANGED <<stream, base, answers, lost>>,
         wire' = wire \/ (wire' \in Int /\ wire' <= Start[Length + 1]),
         used' \in 0 .. Cap, todrain' \in Int,
         pc' \in {"select", "parse", "drain", "closed"},
         pc' # "drain" => base + used' <= wire',
         pc' = "drain" =>
           /\ Ends # {} /\ todrain' >= 0 /\ FrontEnd - todrain' <= wire'
           /\ ~lost => Size(Front) > Cap /\ Fits(Front),
         pc' = "select" => ~Complete'
  PROVE  FramingIInv'
<1>1. /\ UNCHANGED <<Ends, Front, FrontEnd, stream[Front], Size(Front), Start, Served, Cut>>
      /\ \A i : Size(i)' = Size(i)
  BY SameStart, SameFront
<1>2. FramingTypes'
  BY <1>1 DEF FramingIInv, FramingTypes
<1>3. Fits(Front)' <=> Fits(Front)
  BY <1>1 DEF Fits
<1>4. Draining'
  BY <1>1, <1>3 DEF Draining, Received, Drained
<1>5. ~lost' => InPlace'
  BY <1>1 DEF FramingIInv, InPlace, NextRequest
<1>6. AnswersFollowTheStream'
  BY <1>1 DEF FramingIInv, AnswersFollowTheStream
<1> QED BY <1>2, <1>4, <1>5, <1>6 DEF FramingIInv

LEMMA CompleteStays ==
  ASSUME UNCHANGED <<stream, base, used>>
  PROVE  Complete' <=> Complete
BY SameFront DEF Complete, HeaderSeen, Received

LEMMA SenderSteps ==
  ASSUME FramingIInv, Deliver \/ HangUp \/ UNCHANGED vars
  PROVE  FramingIInv'
<1>1. /\ UNCHANGED <<stream, pc, base, used, todrain, answers, lost>>
      /\ wire' \in Int /\ wire <= wire' /\ wire' <= Start[Length + 1]
  <2>1. Start[Length + 1] \in Nat
    BY StartFacts, FramingAssumption DEF FramingIInv, FramingTypes
  <2> QED BY <2>1 DEF FramingIInv, FramingTypes, Deliver, HangUp, vars, sender, server
<1>2. Complete' <=> Complete
  BY <1>1, CompleteStays
<1>3. /\ base \in Int /\ used \in Int /\ wire \in Int
      /\ pc = "drain" => FrontEnd \in Int
  BY FrontFacts, FramingAssumption DEF FramingIInv, FramingTypes, Draining
<1>4. /\ pc' # "drain" => base + used' <= wire'
      /\ pc' = "drain" =>
           /\ Ends # {} /\ todrain' >= 0 /\ FrontEnd - todrain' <= wire'
           /\ ~lost => Size(Front) > Cap /\ Fits(Front)
  BY <1>1, <1>3 DEF FramingIInv, FramingTypes, Draining, Received, Drained
<1> QED BY <1>1, <1>2, <1>4, QuietStep DEF FramingIInv, FramingTypes

LEMMA ReceiveSteps ==
  ASSUME FramingIInv, Recv \/ RecvEnd \/ NeedsMore \/ HugeHeaders
  PROVE  FramingIInv'
<1>1. /\ UNCHANGED <<stream, wire, base, todrain, answers, lost>>
      /\ pc \in {"select", "parse"} /\ pc' \in {"select", "parse", "closed"}
  BY DEF Recv, RecvEnd, NeedsMore, HugeHeaders, Readable, sender
<1>2. /\ base \in Int /\ wire \in Int /\ wire <= Start[Length + 1] /\ used \in 0 .. Cap
      /\ todrain \in Int /\ base + used <= wire /\ Cap \in Nat
  BY <1>1, FramingAssumption DEF FramingIInv, FramingTypes, Draining, Received
<1>3. used' \in 0 .. Cap /\ base + used' <= wire
  BY <1>2 DEF Recv, RecvEnd, NeedsMore, HugeHeaders, Least, Received
<1>4. pc' = "select" => ~Complete'
  BY CompleteStays DEF Recv, RecvEnd, NeedsMore, HugeHeaders, sender
<1>5. todrain' \in Int /\ pc' # "drain" /\ base + used' <= wire'
  BY <1>1, <1>2, <1>3
<1> QED BY <1>1, <1>3, <1>4, <1>5, QuietStep

LEMMA OversizedStep ==
  ASSUME FramingIInv, Oversized
  PROVE  FramingIInv'
<1>1. /\ UNCHANGED <<stream, wire, base, used, answers, lost>> /\ pc = "select" /\ pc' = "drain"
      /\ Full /\ HeaderSeen /\ ~Complete /\ Ends # {}
      /\ todrain' = stream[Front].body - (Received - BlankLine(Front))
  BY DEF Oversized, Readable, sender, FramingIInv, HeaderSeen
<1>2. /\ base \in Int /\ wire \in Int /\ wire <= Start[Length + 1] /\ used \in 0 .. Cap
      /\ base + used <= wire /\ Cap \in Nat
  BY <1>1, FramingAssumption DEF FramingIInv, FramingTypes, Draining, Received
<1>3. /\ BlankLine(Front) \in Nat /\ stream[Front].body \in Nat
      /\ FrontEnd = BlankLine(Front) + stream[Front].body
  BY <1>1, FrontFacts DEF FramingIInv
<1>4. BlankLine(Front) <= base + used /\ FrontEnd > base + used
  BY <1>1, <1>2, <1>3 DEF Complete, HeaderSeen, Received
<1>5. todrain' \in Int /\ todrain' >= 0 /\ FrontEnd - todrain' <= wire
  BY <1>1, <1>2, <1>3, <1>4 DEF Received
<1>6. ~lost => Size(Front) > Cap /\ Fits(Front)
  BY <1>1, WholeFits DEF FramingIInv
<1> QED BY <1>1, <1>2, <1>5, <1>6, QuietStep

LEMMA DrainStep ==
  ASSUME FramingIInv, Drain
  PROVE  FramingIInv'
<1>1. /\ UNCHANGED <<stream, wire, base, used, pc, answers, lost>> /\ pc = "drain"
      /\ Ends # {} /\ todrain \in Int /\ todrain > 0 /\ Drained < wire
  BY DEF Drain, sender, FramingIInv, FramingTypes, Draining
<1>2. PICK n \in 1 .. Least(todrain, wire - Drained) : todrain' = todrain - n
  BY DEF Drain
<1>3. FrontEnd \in Nat /\ wire \in Int
  BY <1>1, FrontFacts DEF FramingIInv, FramingTypes
<1>4. /\ n \in Int /\ n >= 1 /\ n <= todrain /\ n <= wire - (FrontEnd - todrain)
  BY <1>1, <1>2, <1>3 DEF Least, Drained
<1>5. todrain' \in Int /\ todrain' >= 0 /\ FrontEnd - todrain' <= wire
  BY <1>1, <1>2, <1>3, <1>4
<1>6. /\ used' \in 0 .. Cap /\ pc' = "drain" /\ FrontEnd - todrain' <= wire'
      /\ ~lost => Size(Front) > Cap /\ Fits(Front)
  BY <1>1, <1>3, <1>5 DEF FramingIInv, FramingTypes, Draining
<1> QED BY <1>1, <1>5, <1>6, QuietStep

LEMMA EmptyBuffer == FramingTypes /\ used = 0 => ~HeaderSeen
<1> SUFFICES ASSUME FramingTypes, used = 0, Ends # {}
             PROVE  ~(BlankLine(Front) <= Received)
  BY DEF HeaderSeen
<1>1. BlankLine(Front) \in Nat /\ BlankLine(Front) > base /\ base \in Int
  BY FrontFacts DEF FramingTypes
<1> QED BY <1>1 DEF Received

(* A new place for rx[0]. *)
LEMMA NewPlace ==
  ASSUME FramingIInv, UNCHANGED <<stream, wire>>,
         base' \in Int, used' \in 0 .. Cap, todrain' \in Int, lost' \in BOOLEAN,
         NEW how \in {"dispatched", "drained"}, Answered(how), Ends # {},
         pc' \in {"select", "parse"}, base' + used' <= wire,
         pc' = "select" => used' = 0,
         ~lost' => InPlace' /\ AnswersFollowTheStream'
  PROVE  FramingIInv'
<1>1. Start' = Start
  BY SameStart
<1>2. Cut \in 0 .. Length
  BY FrontFacts, FramingAssumption DEF FramingIInv, Cut, Request
<1>3. answers' \in Seq([of : 0 .. Length, how : {"dispatched", "drained"}])
  BY <1>2 DEF FramingIInv, FramingTypes, Answered
<1>4. FramingTypes'
  BY <1>1, <1>3 DEF FramingIInv, FramingTypes
<1>5. Draining'
  BY DEF Draining, Received
<1>6. AnswersFollowTheStream'
  BY DEF AnswersFollowTheStream
<1>7. FramingTypes' /\ (used = 0)' => ~HeaderSeen'
  BY EmptyBuffer, PTL
<1>8. pc' = "select" => ~Complete'
  BY <1>4, <1>7 DEF Complete
<1> QED BY <1>4, <1>5, <1>6, <1>8 DEF FramingIInv

LEMMA DispatchStep ==
  ASSUME FramingIInv, Dispatch
  PROVE  FramingIInv'
<1>1. /\ UNCHANGED <<stream, wire, pc, todrain, lost>> /\ pc = "parse" /\ Answered("dispatched")
      /\ Complete /\ HeaderSeen /\ Ends # {} /\ base' = FrontEnd /\ used' = Received - FrontEnd
  BY DEF Dispatch, sender, Complete, HeaderSeen
<1>2. /\ base \in Int /\ used \in 0 .. Cap /\ wire \in Int /\ Received <= wire /\ Cap \in Nat
      /\ todrain \in Int /\ lost \in BOOLEAN
  BY <1>1, FramingAssumption DEF FramingIInv, FramingTypes, Draining
<1>3. /\ FrontEnd \in Nat /\ FrontEnd > base /\ FrontEnd <= Received
      /\ FrontEnd = Start[Front + 1]
  <2>1. /\ BlankLine(Front) \in Nat /\ BlankLine(Front) > base /\ stream[Front].body \in Nat
        /\ FrontEnd = BlankLine(Front) + stream[Front].body /\ FrontEnd = Start[Front + 1]
    BY <1>1, FrontFacts DEF FramingIInv
  <2> QED BY <1>1, <1>2, <2>1 DEF Complete
<1>4. used' \in 0 .. Cap /\ base' \in Int /\ base' + used' <= wire
  BY <1>1, <1>2, <1>3 DEF Received
<1>5. ASSUME ~lost
      PROVE  InPlace' /\ AnswersFollowTheStream'
  <2>1. /\ NextRequest \in Request /\ Front = NextRequest /\ Cut = NextRequest
        /\ Fits(NextRequest) /\ Size(NextRequest) <= Cap
    BY <1>1, <1>5, WholeFits DEF FramingIInv
  <2>2. /\ AnswersFollowTheStream' /\ NextRequest' = NextRequest + 1
        /\ NextRequest' \in 1 .. Length + 1
    BY <1>1, <1>5, <2>1, OneMoreAnswer DEF FramingIInv
  <2> QED BY <1>1, <1>3, <2>1, <2>2, SameStart DEF InPlace
<1> QED BY <1>1, <1>2, <1>4, <1>5, NewPlace

LEMMA AcknowledgeSteps ==
  ASSUME FramingIInv, DrainDone \/ DrainGivesUp
  PROVE  FramingIInv'
<1>1. /\ UNCHANGED <<stream, wire>> /\ pc = "drain" /\ pc' = "select" /\ Answered("drained")
      /\ base' = Drained /\ used' = 0 /\ todrain' = 0
      /\ lost' \in BOOLEAN /\ (~lost' => ~lost /\ todrain = 0)
  BY DEF DrainDone, DrainGivesUp, Acknowledge, sender, FramingIInv, FramingTypes
<1>2. /\ Ends # {} /\ Drained <= wire /\ wire \in Int /\ todrain \in Int /\ Cap \in Nat
      /\ ~lost => Size(Front) > Cap /\ Fits(Front)
  BY <1>1, FramingAssumption DEF FramingIInv, FramingTypes, Draining
<1>3. FrontEnd \in Nat /\ FrontEnd = Start[Front + 1]
  BY <1>2, FrontFacts DEF FramingIInv
<1>4. base' \in Int /\ used' \in 0 .. Cap /\ base' + used' <= wire /\ todrain' \in Int
  BY <1>1, <1>2, <1>3 DEF Drained
<1>5. ASSUME ~lost'
      PROVE  InPlace' /\ AnswersFollowTheStream'
  <2>1. /\ NextRequest \in Request /\ Front = NextRequest /\ Cut = NextRequest /\ ~lost
    BY <1>1, <1>2, <1>5, FrontIsNext DEF FramingIInv
  <2>2. Size(NextRequest) \in Nat
    BY <2>1, SizesNat DEF FramingIInv, FramingTypes
  <2>3. Fits(NextRequest) /\ ~(Size(NextRequest) <= Cap)
    BY <1>2, <2>1, <2>2
  <2>4. /\ AnswersFollowTheStream' /\ NextRequest' = NextRequest + 1
        /\ NextRequest' \in 1 .. Length + 1
    BY <1>1, <2>1, <2>3, OneMoreAnswer DEF FramingIInv
  <2>5. base' = Start[NextRequest + 1]
    BY <1>1, <1>3, <1>5, <2>1 DEF Drained
  <2> QED BY <1>1, <2>4, <2>5, SameStart DEF InPlace
<1> QED BY <1>1, <1>2, <1>4, <1>5, NewPlace

LEMMA InitHolds == Init => FramingIInv
<1> SUFFICES ASSUME Init PROVE FramingIInv
  OBVIOUS
<1> USE FramingAssumption DEF Init
<1>1. Start[1] = 0 /\ Start[Length + 1] \in Nat
  BY StartFacts
<1>2. FramingTypes
  <2>1. wire \in Int /\ wire <= Start[Length + 1] /\ used \in 0 .. Cap
    BY <1>1
  <2>2. answers \in Seq([of : 0 .. Length, how : {"dispatched", "drained"}])
    OBVIOUS
  <2> QED BY <2>1, <2>2 DEF FramingTypes
<1>3. Draining           BY DEF Draining, Received
<1>4. InPlace            BY <1>1 DEF InPlace, NextRequest
<1>5. ~Complete          BY <1>2, EmptyBuffer DEF Complete
<1>6. AnswersFollowTheStream  BY DEF AnswersFollowTheStream
<1> QED BY <1>2, <1>3, <1>4, <1>5, <1>6 DEF FramingIInv
-----------------------------------------------------------------------------
(***************************************************************************)
(* The inductive invariant: rx[0] is the first byte of the request to be     *)
(* answered next (raop.c:474-527).                                          *)
(***************************************************************************)
THEOREM FramingInvariant == Spec => []FramingIInv
<1>1. FramingIInv /\ [Next]_vars => FramingIInv'
  BY SenderSteps, ReceiveSteps, OversizedStep, DrainStep, DispatchStep, AcknowledgeSteps
  DEF Next, Server
<1> QED BY <1>1, InitHolds, PTL DEF Spec

(***************************************************************************)
(* The requests answered are the requests sent, each once and in order,      *)
(* however TCP cuts the stream (raop.c:474-527).                            *)
(***************************************************************************)
THEOREM FramingFollowsTheStream == Spec => []AnswersFollowTheStream
<1>1. FramingIInv => AnswersFollowTheStream  BY DEF FramingIInv
<1> QED BY <1>1, FramingInvariant, PTL

(***************************************************************************)
(* The server never waits for more of a request that it has whole, and its   *)
(* buffer is full only with one that does not fit (raop.c:517).             *)
(***************************************************************************)
THEOREM FramingNothingWaits == Spec => []NothingCompleteWaits
<1>1. FramingIInv => NothingCompleteWaits
  <2> SUFFICES ASSUME FramingIInv, pc = "select", Full, ~lost
               PROVE  Size(Front) > Cap
    BY DEF FramingIInv, NothingCompleteWaits
  <2>1. FramingTypes /\ InPlace /\ ~Complete
    BY DEF FramingIInv
  <2>2. /\ base \in Int /\ used = Cap /\ Cap \in Nat \ {0} /\ wire \in Int
        /\ base + used <= wire /\ wire <= Start[Length + 1] /\ Length \in Nat
    BY <2>1, FramingAssumption DEF FramingIInv, FramingTypes, Draining, Received, Full
  <2>3. Ends # {}
    <3>1. Start[Length + 1] \in Nat
      BY <2>1, <2>2, StartFacts DEF FramingTypes
    <3>2. NextRequest # Length + 1
      BY <2>1, <2>2, <3>1 DEF InPlace
    <3>3. NextRequest \in Request
      BY <2>1, <2>2, <3>2 DEF InPlace, Request
    <3> QED BY <2>1, <3>3, FrontIsNext
  <2>4. /\ NextRequest \in Request /\ Front = NextRequest
        /\ FrontEnd = base + Size(NextRequest)
        /\ BlankLine(Front) = base + stream[NextRequest].hdr
    BY <2>1, <2>3, FrontIsNext
  <2>5. /\ stream[NextRequest].hdr \in Nat /\ stream[NextRequest].body \in Nat
        /\ Size(NextRequest) = stream[NextRequest].hdr + stream[NextRequest].body
    BY <2>1, <2>4, SizesNat DEF FramingTypes, Size
  <2> QED BY <2>1, <2>2, <2>3, <2>4, <2>5 DEF Complete, HeaderSeen, Received
<1> QED BY <1>1, FramingInvariant, PTL
=============================================================================
