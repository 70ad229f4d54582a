--------------------------- MODULE ControlMessagesProofs ----------------------
(***************************************************************************)
(* Proofs about what requests say and leave behind, for every key length,     *)
(* buffer, bound and set of messages that the constants allow: the stream     *)
(* that RECORD would start is the agreed one, a challenge is met, the gain    *)
(* follows the slider, and the track shown is the newest.  Most of it is      *)
(* about base64 (base64_decode, six bits at a time in a word that wraps, and  *)
(* base64_encode, three bytes at a time, against the bits of RFC 4648) and    *)
(* about the walk of dmap_parse through the items of a body.                *)
(***************************************************************************)
EXTENDS ControlMessages, Recursion, SequenceTheorems, FiniteSetTheorems

-----------------------------------------------------------------------------
(* Extremes, and the lists that requests are made of. *)
LEMMA MaxOf ==
  ASSUME NEW N \in Nat, NEW S, S \subseteq 0 .. N, S # {}
  PROVE  Max(S) \in S /\ \A n \in S : n <= Max(S)
<1> DEFINE T == {N - n : n \in S}
<1>1. T \subseteq Nat /\ T # {}
  <2>1. \A n \in S : N - n \in Nat
    OBVIOUS
  <2> QED BY <2>1
<1>2. PICK m \in T : \A n \in T : m <= n
  <2> HIDE DEF T
  <2> QED BY <1>1, LeastNatural
<1>3. PICK s \in S : m = N - s
  OBVIOUS
<1>4. \A n \in S : n <= s
  <2>1. \A n \in S : N - n \in T /\ n \in Int
    OBVIOUS
  <2> QED BY <1>2, <1>3, <2>1
<1> QED BY <1>4 DEF Max

LEMMA MaxOfTwo ==
  ASSUME NEW a \in Int, NEW b \in Int
  PROVE  Max({a, b}) = (IF a <= b THEN b ELSE a) /\ Min({a, b}) = (IF a <= b THEN a ELSE b)
BY DEF Max, Min

LEMMA ListIs ==
  ASSUME NEW list, NEW max, IsList(list, max)
  PROVE  Len(list) \in Nat /\ DOMAIN list = 1 .. Len(list) /\ list \in Seq(Range(list))
BY DEF IsList

LEMMA Uncut ==
  ASSUME NEW list, NEW max \in Nat, IsList(list, max)
  PROVE  Bounded(list, max) = list
<1>1. Min({Len(list), max}) = Len(list)
  <2>1. Len(list) \in Int /\ Len(list) <= max
    BY ListIs DEF IsList
  <2>2. \A a, b \in Int : a <= b => Min({a, b}) = a
    BY MaxOfTwo
  <2> QED BY <2>1, <2>2
<1>2. SubSeq(list, 1, Len(list)) = list
  BY ListIs
<1> QED BY <1>1, <1>2 DEF Bounded

LEMMA FirstIs ==
  ASSUME NEW list, NEW max, IsList(list, max), NEW name
  PROVE  \/ FirstOf(list, name) = <<>> /\ \A i \in DOMAIN list : list[i].name # name
         \/ \E i \in DOMAIN list :
              /\ list[i].name = name /\ FirstOf(list, name) = <<list[i]>>
              /\ \A j \in 1 .. i - 1 : list[j].name # name
<1> DEFINE at == {i \in DOMAIN list : list[i].name = name}
<1>1. at \subseteq Nat
  BY ListIs
<1>2. CASE at = {}
  BY <1>2 DEF FirstOf
<1>3. CASE at # {}
  <2>1. Min(at) \in at /\ \A n \in at : Min(at) <= n
    <3> HIDE DEF at
    <3> QED BY <1>1, <1>3, MinOf
  <2>2. FirstOf(list, name) = <<list[Min(at)]>>
    BY <1>3 DEF FirstOf
  <2>3. Min(at) \in 1 .. Len(list) /\ DOMAIN list = 1 .. Len(list) /\ Len(list) \in Nat
    BY <2>1, ListIs
  <2>4. ASSUME NEW j \in 1 .. Min(at) - 1
        PROVE  list[j].name # name
    <3>1. j \notin at
      <4> HIDE DEF at
      <4> QED BY <2>1, <2>3
    <3> QED BY <2>3, <3>1
  <2> QED BY <2>1, <2>2, <2>4
<1> QED BY <1>2, <1>3

LEMMA HeaderIs ==
  ASSUME NEW headers, IsList(headers, MaxHeaders), NEW name
  PROVE  HeaderGet(headers, name) = FirstOf(headers, name)
BY Uncut, ControlAssumption DEF HeaderGet
-----------------------------------------------------------------------------
(* The volume. *)
LEMMA Scaled ==
  ASSUME NEW s \in Nat, NEW fix \in 0 .. Unity
  PROVE  (s * fix + Half) \div Unity \in 0 .. s
<1>1. Unity \in Nat \ {0} /\ Half \in Nat /\ Half < Unity
  BY ControlAssumption DEF Half
<1>2. s * fix \in Nat /\ s * fix <= s * Unity
  BY <1>1
<1>3. s * fix + Half \in Nat /\ s * fix + Half < s * Unity + Unity
  BY <1>1, <1>2
<1> DEFINE q == (s * fix + Half) \div Unity
<1>4. q \in Nat /\ q * Unity <= s * fix + Half
  BY <1>1, <1>3
<1>5. q * Unity < (s + 1) * Unity
  BY <1>1, <1>2, <1>3, <1>4
<1> HIDE DEF q
<1>6. q < s + 1
  BY <1>1, <1>4, <1>5
<1> QED BY <1>4, <1>6 DEF q

LEMMA ScaleIs ==
  ASSUME NEW s \in Int, NEW fix \in 0 .. Unity
  PROVE  /\ Magnitude(Scale(s, fix)) <= Magnitude(s)
         /\ Scale(-s, fix) = -Scale(s, fix)
<1>1. Unity \in Nat \ {0}
  BY ControlAssumption
<1> DEFINE m == Magnitude(s)
           q == (m * fix + Half) \div Unity
<1>2. m \in Nat /\ Magnitude(-s) = m
  BY DEF Magnitude
<1>3. q \in 0 .. m
  BY <1>2, Scaled
<1>4. Magnitude(s * fix) = m * fix /\ Magnitude((-s) * fix) = m * fix
  BY <1>1 DEF Magnitude
<1>5. Scale(s, fix) = IF s < 0 THEN -q ELSE q
  BY <1>4 DEF Scale
<1>6. Scale(-s, fix) = IF -s < 0 THEN -q ELSE q
  BY <1>4 DEF Scale
<1>7. s = 0 => q = 0
  BY <1>3 DEF Magnitude
<1>8. Magnitude(Scale(s, fix)) = q
  BY <1>3, <1>5 DEF Magnitude
<1> HIDE DEF q, m
<1> QED BY <1>2, <1>3, <1>5, <1>6, <1>7, <1>8 DEF m

LEMMA Q16Is ==
  ASSUME NEW db \in Int
  PROVE  /\ Q16(db) \in 0 .. Unity /\ (Q16(db) = 0 <=> db <= MuteDb)
         /\ db >= 0 => Q16(db) = Unity
<1>1. Max({MinDb, Min({db, 0})}) = IF db <= MinDb THEN MinDb ELSE IF db <= 0 THEN db ELSE 0
  BY MaxOfTwo DEF MinDb
<1> QED BY <1>1, ControlAssumption DEF Q16, MinDb, MuteDb

VolumeIInv == slider \in Int /\ gain = Q16(slider)

LEMMA VolumeFollows ==
  ASSUME VolumeIInv
  PROVE  VolumeFollowsSlider
<1>1. gain \in 0 .. Unity /\ (gain = 0 <=> slider <= MuteDb) /\ (slider >= 0 => gain = Unity)
  BY Q16Is DEF VolumeIInv
<1>2. ASSUME NEW sample \in -Unity .. Unity
      PROVE  /\ slider >= 0 => Played(sample) = sample
             /\ Magnitude(Played(sample)) <= Magnitude(sample)
             /\ Played(-sample) = -Played(sample)
  <2>1. sample \in Int /\ Magnitude(sample) \in Nat
    BY ControlAssumption DEF Magnitude
  <2> QED BY <1>1, <2>1, ScaleIs DEF Played
<1> QED BY <1>1, <1>2 DEF VolumeFollowsSlider
-----------------------------------------------------------------------------
(* Ports, media types and codecs. *)
LEMMA PortIs ==
  ASSUME NEW text, IsList(text, Len(text)), NEW name, NEW p \in Int, GivesPort(text, name, p)
  PROVE  TransportPort(text, name) = p
<1>1. Len(text) \in Nat /\ DOMAIN text = 1 .. Len(text)
  BY ListIs
<1> DEFINE at == {i \in 1 .. Len(text) - 1 : GivenAt(text, name, i)}
<1>2. {i \in NamedBy(text, name) : i = 1 \/ text[i - 1].word \in {";", " "}} = at
  <2>1. ASSUME NEW i \in 1 .. Len(text) - 1
        PROVE  GivenAt(text, name, i) <=> /\ text[i].word = name /\ text[i + 1].word = "="
                                          /\ i = 1 \/ text[i - 1].word \in {";", " "}
    <3>1. i > 1 <=> i # 1
      BY <1>1
    <3> QED BY <3>1 DEF GivenAt
  <2> QED BY <2>1 DEF NamedBy
<1>3. TransportPort(text, name) = PortAfter(text, at)
  BY <1>2 DEF TransportPort
<1>4. CASE at = {}
  BY <1>3, <1>4 DEF PortAfter, GivesPort
<1>5. CASE at # {}
  <2>1. PICK i \in 1 .. Len(text) - 2 : /\ GivenAt(text, name, i) /\ p = text[i + 2].number
                                        /\ \A j \in 1 .. i - 1 : ~GivenAt(text, name, j)
    BY <1>5 DEF GivesPort
  <2>2. at \subseteq Nat
    BY <1>1
  <2>3. Min(at) \in at /\ \A n \in at : Min(at) <= n
    <3> HIDE DEF at
    <3> QED BY <1>5, <2>2, MinOf
  <2>4. Min(at) = i
    BY <1>1, <2>1, <2>3
  <2> QED BY <1>3, <1>5, <2>1, <2>4 DEF PortAfter
<1> QED BY <1>4, <1>5

LEMMA ClassIs ==
  ASSUME NEW text, IsList(text, Len(text)), NEW m \in MediaTypes
  PROVE  Classify(text) = m <=> HasType(text, m)
<1>1. Len(text) \in Nat /\ DOMAIN text = 1 .. Len(text)
  BY ListIs
<1>2. m # " " /\ m # "other"
  BY DEF MediaTypes
<1> DEFINE from == {i \in DOMAIN text : text[i].word # " "}
<1>3. CASE from = {}
  BY <1>1, <1>2, <1>3 DEF Classify, HasType
<1>4. CASE from # {}
  <2>1. from \subseteq Nat
    <3>1. \A i \in DOMAIN text : i \in Nat
      BY <1>1
    <3> QED BY <3>1
  <2>2. Min(from) \in from /\ \A n \in from : Min(from) <= n
    <3> HIDE DEF from
    <3> QED BY <1>4, <2>1, MinOf
  <2> DEFINE f == Min(from)
  <2>3. f \in 1 .. Len(text)
    BY <1>1, <2>2
  <2>9. text[f].word # " "
    BY <2>2
  <2>4. \A j \in 1 .. f - 1 : text[j].word = " "
    <3>1. \A j \in 1 .. f - 1 : j \in 1 .. Len(text) /\ ~(f <= j)
      <4> HIDE DEF f
      <4> QED BY <1>1, <2>3
    <3>2. ASSUME NEW j \in 1 .. f - 1
          PROVE  text[j].word = " "
      <4>1. j \notin from
        <5> HIDE DEF from
        <5> QED BY <2>2, <3>1
      <4> QED BY <1>1, <3>1, <4>1
    <3> QED BY <3>2
  <2>5. Classify(text) = IF f = Len(text) \/ text[f + 1].word \in {";", " "}
                         THEN text[f].word ELSE "other"
    BY <1>4 DEF Classify
  <2> HIDE DEF f, from
  <2>6. ASSUME NEW i \in 1 .. Len(text), text[i].word = m,
               \A j \in 1 .. i - 1 : text[j].word = " "
        PROVE  i = f
    <3>1. ~(i < f)
      <4>1. i < f => i \in 1 .. f - 1
        BY <1>1, <2>3
      <4> QED BY <1>2, <2>4, <2>6, <4>1
    <3>2. ~(f < i)
      <4>1. f < i => f \in 1 .. i - 1
        BY <1>1, <2>3
      <4> QED BY <2>6, <2>9, <4>1
    <3> QED BY <1>1, <2>3, <3>1, <3>2
  <2>7. f < Len(text) <=> f # Len(text)
    <3>1. \A n \in Nat : \A k \in 1 .. n : k < n <=> k # n
      OBVIOUS
    <3> QED BY <1>1, <2>3, <3>1, Zenon
  <2>8. HasType(text, m) <=> /\ text[f].word = m
                             /\ f < Len(text) => text[f + 1].word \in {";", " "}
    <3>1. f \in DOMAIN text
      BY <1>1, <2>3
    <3>2. \A i \in DOMAIN text : text[i].word = m /\ (\A j \in 1 .. i - 1 : text[j].word = " ")
          => i = f
      BY <1>1, <2>6
    <3> QED BY <2>4, <3>1, <3>2 DEF HasType
  <2> QED BY <1>2, <2>5, <2>7, <2>8
<1> QED BY <1>3, <1>4

LEMMA KindIs ==
  ASSUME NEW t \in Types, NEW m \in MediaTypes
  PROVE  Kind(t) = m <=> t.means = m
<1> DEFINE text == FirstOf(t.headers, "Content-Type")
<1>1. /\ IsList(t.headers, MaxHeaders)
      /\ text # <<>> => IsList(text[1].value, Len(text[1].value))
      /\ t.means = m <=> (text # <<>> /\ HasType(text[1].value, m))
  BY TypesMean
<1>2. HeaderGet(t.headers, "Content-Type") = text
  BY <1>1, HeaderIs
<1>3. m # "other"
  BY DEF MediaTypes
<1> HIDE DEF text
<1> QED BY <1>1, <1>2, <1>3, ClassIs DEF Kind

LEMMA WithinIs ==
  ASSUME NEW S, NEW v \in [1 .. 12 -> S]
  PROVE  /\ \A i \in 2 .. 12 : v[i] \in 0 .. FieldMax[i - 1]
         /\ v[4] = 16 /\ v[8] = 2 /\ v[2] \in 1 .. PcmMax \div v[8]
         <=> /\ v[4] = 16 /\ v[8] = 2 /\ v[2] \in 1 .. FrameMax
             /\ v[3] \in 0 .. UInt8 /\ v[5] \in 0 .. UInt8 /\ v[6] \in 0 .. UInt8
             /\ v[7] \in 0 .. UInt8 /\ v[9] \in 0 .. UInt16
             /\ v[10] \in 0 .. Word /\ v[11] \in 0 .. Word /\ v[12] \in 0 .. Word
<1>1. (\A i \in 2 .. 12 : v[i] \in 0 .. FieldMax[i - 1])
      <=> /\ v[2] \in 0 .. Word /\ v[3] \in 0 .. UInt8 /\ v[4] \in 0 .. UInt8
          /\ v[5] \in 0 .. UInt8 /\ v[6] \in 0 .. UInt8 /\ v[7] \in 0 .. UInt8
          /\ v[8] \in 0 .. UInt8 /\ v[9] \in 0 .. UInt16
          /\ v[10] \in 0 .. Word /\ v[11] \in 0 .. Word /\ v[12] \in 0 .. Word
  <2>1. \A i \in 2 .. 12 : \/ i = 2 \/ i = 3 \/ i = 4 \/ i = 5 \/ i = 6 \/ i = 7 \/ i = 8
                           \/ i = 9 \/ i = 10 \/ i = 11 \/ i = 12
    OBVIOUS
  <2> QED BY <2>1 DEF FieldMax
<1>2. Word \in Nat /\ Word >= FrameMax /\ FrameMax = 4096 /\ UInt8 = 255
  BY ControlAssumption DEF FrameMax, UInt8
<1>3. v[4] = 16 /\ v[8] = 2 /\ v[2] \in 1 .. FrameMax
      => v[4] \in 0 .. UInt8 /\ v[8] \in 0 .. UInt8 /\ v[2] \in 0 .. Word
  <2>1. 16 \in 0 .. UInt8 /\ 2 \in 0 .. UInt8 /\ \A x \in 1 .. FrameMax : x \in 0 .. Word
    BY <1>2
  <2> QED BY <2>1
<1>4. v[8] = 2 => PcmMax \div v[8] = FrameMax
  BY <1>2 DEF PcmMax
<1> QED BY <1>1, <1>3, <1>4

LEMMA DecoderIs ==
  ASSUME NEW body \in Announcements, Has(body.lines, "fmtp")
  PROVE  BuildDecoder(Attr(body.lines, "fmtp")) = body.format
<1> DEFINE text == Attr(body.lines, "fmtp")
           v == [i \in 1 .. 12 |-> text[i][1]]
           Bounds == \A i \in 2 .. 12 : v[i] \in 0 .. FieldMax[i - 1]
<1>2. AlacCfg(text) = IF Numbers(text) /\ Bounds THEN {Codec(v)} ELSE {}
  BY DEF AlacCfg, Numbers
<1>4. Bounds /\ Codec(v).sample_size = 16 /\ Codec(v).c7f = 2
        /\ Codec(v).max_samples_per_frame \in 1 .. PcmMax \div Codec(v).c7f
      <=> Playable(Codec(v))
  <2> DEFINE c == Codec(v)
  <2>0. v \in [1 .. 12 -> {text[i][1] : i \in 1 .. 12}]
    BY Zenon
  <2> HIDE DEF v
  <2>1. /\ c.max_samples_per_frame = v[2] /\ c.c7a = v[3] /\ c.sample_size = v[4]
        /\ c.rice_historymult = v[5] /\ c.rice_initialhistory = v[6]
        /\ c.rice_kmodifier = v[7] /\ c.c7f = v[8] /\ c.c80 = v[9] /\ c.c82 = v[10]
        /\ c.c86 = v[11] /\ c.rate = v[12]
    BY DEF Codec
  <2> HIDE DEF c
  <2>2. Playable(c) <=>
          /\ v[4] = 16 /\ v[8] = 2 /\ v[2] \in 1 .. FrameMax
          /\ v[3] \in 0 .. UInt8 /\ v[5] \in 0 .. UInt8 /\ v[6] \in 0 .. UInt8 /\ v[7] \in 0 .. UInt8
          /\ v[9] \in 0 .. UInt16
          /\ v[10] \in 0 .. Word /\ v[11] \in 0 .. Word /\ v[12] \in 0 .. Word
    BY <2>1 DEF Playable
  <2>3. Playable(c) <=> /\ Bounds /\ v[4] = 16 /\ v[8] = 2 /\ v[2] \in 1 .. PcmMax \div v[8]
    BY <2>0, <2>2, WithinIs
  <2>4. /\ c.sample_size = 16 /\ c.c7f = 2
        /\ c.max_samples_per_frame \in 1 .. PcmMax \div c.c7f
        <=> /\ v[4] = 16 /\ v[8] = 2 /\ v[2] \in 1 .. PcmMax \div v[8]
    <3>1. CASE v[8] = 2
      BY <2>1, <3>1
    <3> QED BY <2>1, <3>1
  <2> HIDE DEF Bounds
  <2>5. /\ Bounds /\ c.sample_size = 16 /\ c.c7f = 2
        /\ c.max_samples_per_frame \in 1 .. PcmMax \div c.c7f
        <=> Playable(c)
    BY <2>3, <2>4, Zenon
  <2> QED BY <2>5 DEF c
<1>5. BuildDecoder(text) = IF Numbers(text) /\ Playable(Codec(v)) THEN {Codec(v)} ELSE {}
  <2> HIDE DEF v, Bounds, text
  <2> QED BY <1>2, <1>4 DEF BuildDecoder
<1>6. \/ \E c \in body.format :
           /\ body.format = {c} /\ Playable(c) /\ c = [f \in CodecFields |-> c[f]]
           /\ text # <<>> /\ text[1] # <<>> /\ text = Written(c, text[1][1])
      \/ body.format = {} /\ ~(Numbers(text) /\ Playable(Codec(v)))
  BY AnnouncementsMean
<1>7. ASSUME NEW c \in body.format, body.format = {c}, Playable(c),
             c = [f \in CodecFields |-> c[f]], text[1] # <<>>, text = Written(c, text[1][1])
      PROVE  Numbers(text) /\ Codec(v) = c
  <2>1. PICK w : w = Written(c, text[1][1]) /\ w = text
    BY <1>7
  <2> HIDE DEF text
  <2>2. Len(w) = 12 /\ \A i \in 1 .. 12 : w[i] # <<>>
    <3>1. \A i \in 1 .. 12 : i \in {1, 2, 3, 4, 5, 6, 7, 8, 9, 10, 11, 12}
      OBVIOUS
    <3> QED BY <2>1, <3>1 DEF Written
  <2>3. /\ v[2] = c.max_samples_per_frame /\ v[3] = c.c7a /\ v[4] = c.sample_size
        /\ v[5] = c.rice_historymult /\ v[6] = c.rice_initialhistory
        /\ v[7] = c.rice_kmodifier /\ v[8] = c.c7f /\ v[9] = c.c80 /\ v[10] = c.c82
        /\ v[11] = c.c86 /\ v[12] = c.rate
    BY <2>1 DEF Written
  <2> HIDE DEF v
  <2>4. Codec(v) = [f \in CodecFields |-> c[f]]
    BY <2>3 DEF Codec, CodecFields
  <2> QED BY <1>7, <2>1, <2>2, <2>4 DEF Numbers
<1> HIDE DEF v, text
<1> QED BY <1>5, <1>6, <1>7 DEF text
-----------------------------------------------------------------------------
(* Base64: what the bits of sextets and of bytes are. *)
LEMMA Powers ==
  2^0 = 1 /\ 2^1 = 2 /\ 2^2 = 4 /\ 2^3 = 8 /\ 2^4 = 16 /\ 2^5 = 32 /\ 2^6 = 64 /\ 2^7 = 128
OBVIOUS

LEMMA BitOfSextet ==
  ASSUME NEW S, NEW seq \in Seq(S), NEW j \in 1 .. Len(seq), NEW t \in 0 .. 5
  PROVE  Bit(seq, 6, 6 * (j - 1) + t) = (seq[j] \div 2^(5 - t)) % 2
<1> DEFINE n == 6 * (j - 1) + t
<1>1. n \in Nat /\ n < 6 * Len(seq) /\ n \div 6 = j - 1 /\ n % 6 = t
  OBVIOUS
<1>2. 1 + (n \div 6) = j /\ 6 - 1 - (n % 6) = 5 - t
  BY <1>1
<1> HIDE DEF n
<1> QED BY <1>1, <1>2 DEF Bit, n

LEMMA BitOfByte ==
  ASSUME NEW S, NEW seq \in Seq(S), NEW j \in 1 .. Len(seq), NEW t \in 0 .. 7
  PROVE  Bit(seq, 8, 8 * (j - 1) + t) = (seq[j] \div 2^(7 - t)) % 2
<1> DEFINE n == 8 * (j - 1) + t
<1>1. n \in Nat /\ n < 8 * Len(seq) /\ n \div 8 = j - 1 /\ n % 8 = t
  OBVIOUS
<1>2. 1 + (n \div 8) = j /\ 8 - 1 - (n % 8) = 7 - t
  BY <1>1
<1> HIDE DEF n
<1> QED BY <1>1, <1>2 DEF Bit, n

LEMMA BitsOfSextet ==
  ASSUME NEW S, NEW seq \in Seq(S), NEW j \in 1 .. Len(seq)
  PROVE  LET n == 6 * (j - 1)  x == seq[j]
         IN  /\ Bit(seq, 6, n) = (x \div 32) % 2 /\ Bit(seq, 6, n + 1) = (x \div 16) % 2
             /\ Bit(seq, 6, n + 2) = (x \div 8) % 2 /\ Bit(seq, 6, n + 3) = (x \div 4) % 2
             /\ Bit(seq, 6, n + 4) = (x \div 2) % 2 /\ Bit(seq, 6, n + 5) = (x \div 1) % 2
<1> DEFINE n == 6 * (j - 1)
<1>1. /\ Bit(seq, 6, n + 0) = (seq[j] \div 2^(5 - 0)) % 2
      /\ Bit(seq, 6, n + 1) = (seq[j] \div 2^(5 - 1)) % 2
      /\ Bit(seq, 6, n + 2) = (seq[j] \div 2^(5 - 2)) % 2
      /\ Bit(seq, 6, n + 3) = (seq[j] \div 2^(5 - 3)) % 2
      /\ Bit(seq, 6, n + 4) = (seq[j] \div 2^(5 - 4)) % 2
      /\ Bit(seq, 6, n + 5) = (seq[j] \div 2^(5 - 5)) % 2
  BY BitOfSextet
<1>2. n + 0 = n /\ 5 - 0 = 5 /\ 5 - 1 = 4 /\ 5 - 2 = 3 /\ 5 - 3 = 2 /\ 5 - 4 = 1 /\ 5 - 5 = 0
  OBVIOUS
<1> HIDE DEF n
<1> QED BY <1>1, <1>2, Powers DEF n

LEMMA BitsOfByte ==
  ASSUME NEW S, NEW seq \in Seq(S), NEW j \in 1 .. Len(seq)
  PROVE  LET n == 8 * (j - 1)  x == seq[j]
         IN  /\ Bit(seq, 8, n) = (x \div 128) % 2 /\ Bit(seq, 8, n + 1) = (x \div 64) % 2
             /\ Bit(seq, 8, n + 2) = (x \div 32) % 2 /\ Bit(seq, 8, n + 3) = (x \div 16) % 2
             /\ Bit(seq, 8, n + 4) = (x \div 8) % 2 /\ Bit(seq, 8, n + 5) = (x \div 4) % 2
             /\ Bit(seq, 8, n + 6) = (x \div 2) % 2 /\ Bit(seq, 8, n + 7) = (x \div 1) % 2
<1> DEFINE n == 8 * (j - 1)
<1>1. /\ Bit(seq, 8, n + 0) = (seq[j] \div 2^(7 - 0)) % 2
      /\ Bit(seq, 8, n + 1) = (seq[j] \div 2^(7 - 1)) % 2
      /\ Bit(seq, 8, n + 2) = (seq[j] \div 2^(7 - 2)) % 2
      /\ Bit(seq, 8, n + 3) = (seq[j] \div 2^(7 - 3)) % 2
      /\ Bit(seq, 8, n + 4) = (seq[j] \div 2^(7 - 4)) % 2
      /\ Bit(seq, 8, n + 5) = (seq[j] \div 2^(7 - 5)) % 2
      /\ Bit(seq, 8, n + 6) = (seq[j] \div 2^(7 - 6)) % 2
      /\ Bit(seq, 8, n + 7) = (seq[j] \div 2^(7 - 7)) % 2
  BY BitOfByte
<1>2. n + 0 = n /\ 7 - 0 = 7 /\ 7 - 1 = 6 /\ 7 - 2 = 5 /\ 7 - 3 = 4 /\ 7 - 4 = 3 /\ 7 - 5 = 2
      /\ 7 - 6 = 1 /\ 7 - 7 = 0
  OBVIOUS
<1> HIDE DEF n
<1> QED BY <1>1, <1>2, Powers DEF n

Sextet == 0 .. Pad - 1

(* A byte lies across two sextets, at one of three offsets. *)
LEMMA EightAcross ==
  ASSUME NEW s \in Seq(Sextet), NEW j \in 1 .. Len(s) - 1
  PROVE  /\ Eight(s, 6 * (j - 1)) = 4 * s[j] + (s[j + 1] \div 16)
         /\ Eight(s, 6 * (j - 1) + 2) = 16 * (s[j] % 16) + (s[j + 1] \div 4)
         /\ Eight(s, 6 * (j - 1) + 4) = 64 * (s[j] % 4) + s[j + 1]
<1> DEFINE n == 6 * (j - 1)
           x == s[j]
           y == s[j + 1]
<1>1. x \in Nat /\ x < 64 /\ y \in Nat /\ y < 64
  <2>1. s[j] \in Sextet /\ s[j + 1] \in Sextet
    OBVIOUS
  <2>2. \A z \in Sextet : z \in Nat /\ z < 64
    BY DEF Sextet, Pad
  <2> QED BY <2>1, <2>2
<1>2. j \in 1 .. Len(s) /\ j + 1 \in 1 .. Len(s)
  OBVIOUS
<1>3. 6 * ((j + 1) - 1) = n + 6
  OBVIOUS
<1>4. /\ Bit(s, 6, n) = (x \div 32) % 2 /\ Bit(s, 6, n + 1) = (x \div 16) % 2
      /\ Bit(s, 6, n + 2) = (x \div 8) % 2 /\ Bit(s, 6, n + 3) = (x \div 4) % 2
      /\ Bit(s, 6, n + 4) = (x \div 2) % 2 /\ Bit(s, 6, n + 5) = (x \div 1) % 2
  BY <1>2, BitsOfSextet
<1>5. /\ Bit(s, 6, n + 6) = (y \div 32) % 2 /\ Bit(s, 6, (n + 6) + 1) = (y \div 16) % 2
      /\ Bit(s, 6, (n + 6) + 2) = (y \div 8) % 2 /\ Bit(s, 6, (n + 6) + 3) = (y \div 4) % 2
      /\ Bit(s, 6, (n + 6) + 4) = (y \div 2) % 2 /\ Bit(s, 6, (n + 6) + 5) = (y \div 1) % 2
  <2> HIDE DEF n
  <2> QED BY <1>2, <1>3, BitsOfSextet, ZenonT(60)
<1>6. /\ (n + 6) + 1 = n + 7 /\ (n + 6) + 2 = n + 8 /\ (n + 6) + 3 = n + 9 /\ (n + 6) + 4 = n + 10
      /\ (n + 6) + 5 = n + 11
      /\ (n + 2) + 1 = n + 3 /\ (n + 2) + 2 = n + 4 /\ (n + 2) + 3 = n + 5 /\ (n + 2) + 4 = n + 6
      /\ (n + 2) + 5 = n + 7 /\ (n + 2) + 6 = n + 8 /\ (n + 2) + 7 = n + 9
      /\ (n + 4) + 1 = n + 5 /\ (n + 4) + 2 = n + 6 /\ (n + 4) + 3 = n + 7 /\ (n + 4) + 4 = n + 8
      /\ (n + 4) + 5 = n + 9 /\ (n + 4) + 6 = n + 10 /\ (n + 4) + 7 = n + 11
  OBVIOUS
<1> HIDE DEF n, x, y
<1>7. Eight(s, n) = 128 * ((x \div 32) % 2) + 64 * ((x \div 16) % 2) + 32 * ((x \div 8) % 2)
                    + 16 * ((x \div 4) % 2) + 8 * ((x \div 2) % 2) + 4 * ((x \div 1) % 2)
                    + 2 * ((y \div 32) % 2) + ((y \div 16) % 2)
  BY <1>4, <1>5, <1>6 DEF Eight
<1>8. Eight(s, n + 2) = 128 * ((x \div 8) % 2) + 64 * ((x \div 4) % 2) + 32 * ((x \div 2) % 2)
                        + 16 * ((x \div 1) % 2) + 8 * ((y \div 32) % 2) + 4 * ((y \div 16) % 2)
                        + 2 * ((y \div 8) % 2) + ((y \div 4) % 2)
  BY <1>4, <1>5, <1>6 DEF Eight
<1>9. Eight(s, n + 4) = 128 * ((x \div 2) % 2) + 64 * ((x \div 1) % 2) + 32 * ((y \div 32) % 2)
                        + 16 * ((y \div 16) % 2) + 8 * ((y \div 8) % 2) + 4 * ((y \div 4) % 2)
                        + 2 * ((y \div 2) % 2) + ((y \div 1) % 2)
  BY <1>4, <1>5, <1>6 DEF Eight
<1>10. Eight(s, n) = 4 * x + (y \div 16)
  BY <1>1, <1>7
<1>11. Eight(s, n + 2) = 16 * (x % 16) + (y \div 4)
  BY <1>1, <1>8, SMTT(30)
<1>12. Eight(s, n + 4) = 64 * (x % 4) + y
  BY <1>1, <1>9
<1> QED BY <1>10, <1>11, <1>12 DEF n, x, y

(* What sextets mean does not depend on those that follow. *)
LEMMA EightStays ==
  ASSUME NEW S, NEW s \in Seq(S), NEW c \in S, NEW k \in 1 .. (3 * Len(s)) \div 4
  PROVE  Eight(Append(s, c), 8 * (k - 1)) = Eight(s, 8 * (k - 1))
<1>1. ASSUME NEW n \in Nat, n < 6 * Len(s)
      PROVE  Bit(Append(s, c), 6, n) = Bit(s, 6, n)
  <2>1. 1 + (n \div 6) \in 1 .. Len(s)
    BY <1>1
  <2>2. Append(s, c)[1 + (n \div 6)] = s[1 + (n \div 6)] /\ Len(Append(s, c)) = Len(s) + 1
    BY <2>1
  <2>3. n < 6 * Len(Append(s, c))
    BY <1>1, <2>2
  <2> QED BY <1>1, <2>2, <2>3 DEF Bit
<1> DEFINE n == 8 * (k - 1)
<1>2. n \in Nat /\ n + 7 < 6 * Len(s)
  OBVIOUS
<1>3. /\ n + 1 \in Nat /\ n + 2 \in Nat /\ n + 3 \in Nat /\ n + 4 \in Nat /\ n + 5 \in Nat
      /\ n + 6 \in Nat /\ n + 7 \in Nat
      /\ n < 6 * Len(s) /\ n + 1 < 6 * Len(s) /\ n + 2 < 6 * Len(s) /\ n + 3 < 6 * Len(s)
      /\ n + 4 < 6 * Len(s) /\ n + 5 < 6 * Len(s) /\ n + 6 < 6 * Len(s)
  BY <1>2
<1> HIDE DEF n
<1> QED BY <1>1, <1>2, <1>3 DEF Eight, n
-----------------------------------------------------------------------------
(* base64_decode, a character at a time. *)
States(out) ==
  [acc : 0 .. AccMod - 1, nbits : {0, 2, 4, 6}, o : Nat, out : [DOMAIN out -> Byte],
   end : {"no", "done", "failed"}]
Fresh(out) == [acc |-> 0, nbits |-> 0, o |-> 0, out |-> out, end |-> "no"]

LEMMA IsByte ==
  ASSUME NEW z \in Int
  PROVE  z % 256 \in Byte
<1>1. UInt8 = 255
  BY DEF UInt8
<1> QED BY <1>1 DEF Byte

LEMMA DecoderType ==
  ASSUME NEW m \in Nat, NEW cap \in 0 .. m, NEW out \in [1 .. m -> Byte],
         NEW st \in States(out), NEW c \in Char
  PROVE  DecodeChar(cap, st, c) \in States(out)
<1> DEFINE new == (st.acc * 64 + c) % AccMod
           next == DecodeChar(cap, st, c)
<1>1. /\ st.acc \in 0 .. AccMod - 1 /\ st.nbits \in {0, 2, 4, 6} /\ st.o \in Nat
      /\ st.out \in [1 .. m -> Byte] /\ st.end \in {"no", "done", "failed"}
      /\ st = [acc |-> st.acc, nbits |-> st.nbits, o |-> st.o, out |-> st.out, end |-> st.end]
  BY DEF States
<1>2. new \in 0 .. AccMod - 1 /\ new \in Nat
  <2>1. AccMod \in Nat \ {0} /\ c \in Nat
    BY ControlAssumption DEF Char, Junk
  <2> QED BY <1>1, <2>1
<1> HIDE DEF new, next
<1>3. CASE st.end # "no" \/ c = Space
  BY <1>3 DEF DecodeChar, next
<1>4. CASE ~(st.end # "no" \/ c = Space) /\ c \in {Pad, Junk}
  <2>1. \E e \in {"done", "failed"} : DecodeChar(cap, st, c) = [st EXCEPT !.end = e]
    BY <1>4 DEF DecodeChar
  <2> QED BY <1>1, <2>1 DEF States
<1>5. CASE ~(st.end # "no" \/ c = Space) /\ c \notin {Pad, Junk}
  <2> DEFINE shift == (st.nbits + 6) - 8
             byte == (new \div 2^shift) % 256
  <2>1. next = IF st.nbits + 6 < 8 THEN [st EXCEPT !.acc = new, !.nbits = st.nbits + 6]
               ELSE IF st.o >= cap THEN [st EXCEPT !.end = "failed"]
               ELSE [st EXCEPT !.acc = new, !.nbits = shift, !.o = @ + 1, !.out[st.o + 1] = byte]
    BY <1>5 DEF DecodeChar, new, next
  <2>2. CASE st.nbits + 6 < 8
    <3>1. st.nbits + 6 = 6
      BY <1>1, <2>2
    <3>2. next = [acc |-> new, nbits |-> 6, o |-> st.o, out |-> st.out, end |-> st.end]
      BY <1>1, <2>1, <2>2, <3>1
    <3> QED BY <1>1, <1>2, <3>2 DEF States, next
  <2>3. CASE ~(st.nbits + 6 < 8) /\ st.o >= cap
    <3>1. next = [acc |-> st.acc, nbits |-> st.nbits, o |-> st.o, out |-> st.out,
                  end |-> "failed"]
      BY <1>1, <2>1, <2>3
    <3> QED BY <1>1, <3>1 DEF States, next
  <2>4. CASE ~(st.nbits + 6 < 8) /\ ~(st.o >= cap)
    <3>1. shift \in {0, 2, 4}
      BY <1>1, <2>4
    <3>2. /\ new \div 1 \in Int /\ new \div 4 \in Int /\ new \div 16 \in Int
      BY <1>2
    <3> HIDE DEF shift
    <3>3. byte \in Byte
      <4>1. 2^shift \in {1, 4, 16}
        BY <3>1, Powers
      <4>2. new \div 2^shift \in Int
        BY <3>2, <4>1
      <4>3. \A z \in Int : z % 256 \in Byte
        BY IsByte
      <4> QED BY <4>2, <4>3, Zenon
    <3> HIDE DEF byte
    <3>4. [st.out EXCEPT ![st.o + 1] = byte] \in [1 .. m -> Byte] /\ st.o + 1 \in Nat
      <4>1. \A f \in [1 .. m -> Byte] : \A i : [f EXCEPT ![i] = byte] \in [1 .. m -> Byte]
        BY <3>3
      <4> QED BY <1>1, <4>1
    <3>5. next = [acc |-> new, nbits |-> shift, o |-> st.o + 1,
                  out |-> [st.out EXCEPT ![st.o + 1] = byte], end |-> st.end]
      BY <1>1, <2>1, <2>4
    <3> QED BY <1>1, <1>2, <3>1, <3>4, <3>5 DEF States, next
  <2> QED BY <2>2, <2>3, <2>4
<1> QED BY <1>3, <1>4, <1>5

(* The newest sextet s[Len(s)] is still in acc, and nbits of it are to come. *)
Shift(acc, c) == (acc * 64 + c) % AccMod

Keeps(new, l, c) ==
  /\ new % 64 = c
  /\ (new \div 16) % 256 = 4 * l + (c \div 16)
  /\ (new \div 4) % 256 = 16 * (l % 16) + (c \div 4)
  /\ (new \div 1) % 256 = 64 * (l % 4) + c

LEMMA ModIs ==
  ASSUME NEW x \in Nat, NEW m \in Nat \ {0}
  PROVE  x % m \in 0 .. m - 1 /\ x % m = x - m * (x \div m) /\ x \div m \in Nat
OBVIOUS

LEMMA Shifted ==
  ASSUME NEW acc \in 0 .. AccMod - 1, NEW c \in Sextet
  PROVE  Shift(acc, c) \in 0 .. AccMod - 1 /\ Keeps(Shift(acc, c), acc % 64, c)
<1>1. AccMod \in Nat \ {0} /\ AccMod % 4096 = 0
  BY ControlAssumption
<1>2. c \in Nat /\ c < 64
  BY DEF Sextet, Pad
<1> DEFINE x == acc * 64 + c
           new == x % AccMod
           m == AccMod \div 4096
           a == acc \div 64
           l == acc % 64
           q == x \div AccMod
           z == a - m * q
<1>3. x \in Nat /\ x = 4096 * a + 64 * l + c /\ a \in Nat /\ l \in Nat /\ l < 64
  BY <1>1, <1>2
<1>4. new \in 0 .. AccMod - 1 /\ new = x - AccMod * q /\ q \in Nat
  <2>1. AccMod \in Nat \ {0} /\ x \in Nat
    BY <1>1, <1>3
  <2> HIDE DEF x
  <2> QED BY <2>1, ModIs
<1>5. AccMod = 4096 * m /\ m \in Nat
  BY <1>1
<1>6. AccMod * q = 4096 * (m * q) /\ m * q \in Int
  <2> HIDE DEF q, m
  <2> QED BY <1>4, <1>5
<1> DEFINE mq == m * q
           Aq == AccMod * q
<1>7. new = 4096 * z + 64 * l + c /\ z \in Int
  <2>1. mq \in Int /\ Aq = 4096 * mq /\ new = x - Aq /\ z = a - mq
    BY <1>4, <1>6
  <2> HIDE DEF mq, Aq, x, new, a, z, l
  <2> QED BY <1>2, <1>3, <2>1
<1> HIDE DEF z, new, l
<1>8. /\ new % 64 = c /\ (new \div 16) % 256 = 4 * l + (c \div 16)
      /\ (new \div 4) % 256 = 16 * (l % 16) + (c \div 4) /\ (new \div 1) % 256 = 64 * (l % 4) + c
  BY <1>2, <1>3, <1>7
<1> QED BY <1>4, <1>8 DEF new, l, Shift, Keeps

(* What the text up to a character says: st is the decoder's state there, s   *)
(* the sextets before any Pad.                                              *)
Said(st, s, cap, out) ==
  LET o == (3 * Len(s)) \div 4
  IN  IF st.end = "failed" THEN (\E i \in DOMAIN s : s[i] = Junk) \/ o > cap
      ELSE /\ s \in Seq(Sextet)
           /\ o <= cap /\ st.o = o
           /\ st.out = [k \in DOMAIN out |-> IF k <= o THEN Eight(s, 8 * (k - 1)) ELSE out[k]]
           /\ st.end = "no" => /\ st.nbits = 6 * Len(s) - 8 * o
                               /\ Len(s) > 0 => st.acc % 64 = s[Len(s)]

LEMMA SaysMore ==
  ASSUME NEW m \in Nat, NEW cap \in 0 .. m, NEW out \in [1 .. m -> Byte],
         NEW st \in States(out), st.end = "no", NEW s, Said(st, s, cap, out), NEW c \in Sextet
  PROVE  /\ DecodeChar(cap, st, c) \in States(out)
         /\ DecodeChar(cap, st, c).end \in {"no", "failed"}
         /\ Said(DecodeChar(cap, st, c), Append(s, c), cap, out)
<1> DEFINE L == Len(s)
           o == (3 * L) \div 4
           t == Append(s, c)
           new == Shift(st.acc, c)
           next == DecodeChar(cap, st, c)
<1>1. /\ s \in Seq(Sextet) /\ o <= cap /\ st.o = o
      /\ st.out = [k \in 1 .. m |-> IF k <= o THEN Eight(s, 8 * (k - 1)) ELSE out[k]]
      /\ st.nbits = 6 * L - 8 * o /\ (L > 0 => st.acc % 64 = s[L])
  BY DEF Said
<1>2. /\ st.acc \in 0 .. AccMod - 1 /\ st.nbits \in {0, 2, 4, 6} /\ st.o \in Nat
      /\ st.out \in [1 .. m -> Byte]
  BY DEF States
<1>3. L \in Nat /\ t \in Seq(Sextet) /\ Len(t) = L + 1 /\ t[L + 1] = c
      /\ \A i \in 1 .. L : t[i] = s[i]
  BY <1>1
<1>4. c \in Nat /\ c < 64 /\ c # Space /\ c # Pad /\ c # Junk
  BY DEF Sextet, Pad, Space, Junk
<1>5. AccMod \in Nat \ {0} /\ new \in 0 .. AccMod - 1 /\ new % 64 = c
  <2>1. AccMod \in Nat \ {0} /\ AccMod % 4096 = 0
    BY ControlAssumption
  <2>2. st.acc \in 0 .. AccMod - 1
    BY <1>2
  <2>3. new \in 0 .. AccMod - 1 /\ Keeps(new, st.acc % 64, c)
    BY <2>2, Shifted
  <2> HIDE DEF new
  <2> QED BY <2>1, <2>3 DEF Keeps
<1>6. next = IF st.nbits + 6 < 8 THEN [st EXCEPT !.acc = new, !.nbits = st.nbits + 6]
             ELSE IF st.o >= cap THEN [st EXCEPT !.end = "failed"]
             ELSE [st EXCEPT !.acc = new, !.nbits = (st.nbits + 6) - 8, !.o = @ + 1,
                             !.out[st.o + 1] = (new \div 2^((st.nbits + 6) - 8)) % 256]
  BY <1>4 DEF DecodeChar, Shift
<1> HIDE DEF new, next
<1>7. \A k \in 1 .. o : Eight(t, 8 * (k - 1)) = Eight(s, 8 * (k - 1))
  BY <1>1, EightStays
<1> DEFINE more == (3 * Len(t)) \div 4
<1>8. CASE L % 4 = 0
  <2>1. o = 3 * (L \div 4) /\ L = 4 * (L \div 4) /\ more = o /\ 6 * L - 8 * o = 0
        /\ 6 * Len(t) - 8 * o = 6
    BY <1>3, <1>8
  <2>2. next = [st EXCEPT !.acc = new, !.nbits = 6]
    <3>1. st.nbits + 6 = 6 /\ 6 < 8
      BY <1>1, <2>1
    <3> QED BY <1>6, <3>1, Zenon
  <2>3. next \in States(out)
    BY <1>2, <1>5, <2>2 DEF States
  <2>4. /\ next.end = "no" /\ next.o = o /\ next.nbits = 6 /\ next.acc = new
        /\ next.out = st.out
    BY <1>1, <1>2, <2>2 DEF States
  <2>5. st.out = [k \in 1 .. m |-> IF k <= o THEN Eight(t, 8 * (k - 1)) ELSE out[k]]
    <3>1. \A k \in 1 .. m : k <= o => k \in 1 .. o
      BY <1>3
    <3>2. \A k \in 1 .. m : (IF k <= o THEN Eight(s, 8 * (k - 1)) ELSE out[k])
                            = IF k <= o THEN Eight(t, 8 * (k - 1)) ELSE out[k]
      <4> HIDE DEF o, t
      <4> QED BY <1>7, <3>1
    <3> HIDE DEF o, t
    <3> QED BY <1>1, <3>2
  <2>6. Said(next, t, cap, out)
    <3>1. t \in Seq(Sextet) /\ more = o /\ o <= cap /\ next.nbits = 6 * Len(t) - 8 * more
      BY <1>1, <1>3, <2>1, <2>4
    <3>2. next.acc % 64 = t[Len(t)]
      BY <1>3, <1>5, <2>4
    <3>3. next.out = [k \in 1 .. m |-> IF k <= more THEN Eight(t, 8 * (k - 1)) ELSE out[k]]
      BY <2>4, <2>5, <3>1
    <3> HIDE DEF t, more, o
    <3>4. next.end # "failed" /\ next.o = more
      BY <2>4, <3>1
    <3> QED BY <3>1, <3>2, <3>3, <3>4 DEF Said, more
  <2> QED BY <2>3, <2>4, <2>6 DEF next
<1>9. CASE L % 4 # 0
  <2> DEFINE shift == (st.nbits + 6) - 8
             byte == (new \div 2^shift) % 256
  <2>1. more = o + 1 /\ o \in Nat /\ L > 0 /\ 6 * Len(t) - 8 * more = (st.nbits + 6) - 8
        /\ st.nbits + 6 >= 8 /\ shift \in {0, 2, 4, 6}
    <3>1. /\ L \in Nat /\ Len(t) = L + 1 /\ st.nbits = 6 * L - 8 * o
      BY <1>1, <1>3
    <3> HIDE DEF t, L
    <3>2. CASE L % 4 = 1
      BY <3>1, <3>2
    <3>3. CASE L % 4 = 2
      BY <3>1, <3>3
    <3>4. CASE L % 4 = 3
      BY <3>1, <3>4
    <3> QED BY <1>9, <3>1, <3>2, <3>3, <3>4
  <2>2. byte = Eight(t, 8 * o) /\ byte \in Byte
    <3>1. L \in 1 .. Len(t) - 1 /\ t[L] = s[L] /\ t[L + 1] = c /\ L \in Nat
      BY <1>3, <2>1
    <3>2. s[L] \in Nat /\ s[L] < 64 /\ st.acc % 64 = s[L]
      <4>1. s[L] \in Sextet
        BY <1>1, <2>1
      <4>2. \A z \in Sextet : z \in Nat /\ z < 64
        BY DEF Sextet, Pad
      <4> QED BY <1>1, <2>1, <4>1, <4>2
    <3>3. /\ (new \div 16) % 256 = 4 * t[L] + (c \div 16)
          /\ (new \div 4) % 256 = 16 * (t[L] % 16) + (c \div 4)
          /\ (new \div 1) % 256 = 64 * (t[L] % 4) + c
      <4> HIDE DEF t, L
      <4>1. /\ (new \div 16) % 256 = 4 * s[L] + (c \div 16)
            /\ (new \div 4) % 256 = 16 * (s[L] % 16) + (c \div 4)
            /\ (new \div 1) % 256 = 64 * (s[L] % 4) + c
        <5>1. st.acc \in 0 .. AccMod - 1
          BY <1>2
        <5>2. Keeps(new, st.acc % 64, c)
          BY <5>1, Shifted DEF new
        <5>3. Keeps(new, s[L], c)
          BY <3>2, <5>2
        <5> QED BY <5>3 DEF Keeps
      <4> QED BY <3>1, <4>1
    <3>4. /\ Eight(t, 6 * (L - 1)) = 4 * t[L] + (c \div 16)
          /\ Eight(t, 6 * (L - 1) + 2) = 16 * (t[L] % 16) + (c \div 4)
          /\ Eight(t, 6 * (L - 1) + 4) = 64 * (t[L] % 4) + c
      BY <1>3, <3>1, EightAcross
    <3>5. byte \in Byte
      <4>1. \A p \in {1, 4, 16, 64} : (new \div p) % 256 \in Byte
        <5>1. new \in Nat
          BY <1>5
        <5>2. /\ new \div 1 \in Int /\ new \div 4 \in Int /\ new \div 16 \in Int
              /\ new \div 64 \in Int
          BY <5>1
        <5> QED BY <5>2, IsByte
      <4>2. shift \in {0, 2, 4, 6}
        BY <2>1
      <4> HIDE DEF shift
      <4>3. 2^shift \in {1, 4, 16, 64}
        <5>1. CASE shift = 0
          BY <5>1, Powers
        <5>2. CASE shift = 2
          BY <5>2, Powers
        <5>3. CASE shift = 4
          BY <5>3, Powers
        <5>4. CASE shift = 6
          BY <5>4, Powers
        <5> QED BY <4>2, <5>1, <5>2, <5>3, <5>4
      <4> QED BY <4>1, <4>3
    <3>6. shift = 6 * L - 8 * o - 2 /\ o = (3 * L) \div 4 /\ L \in Nat
      BY <1>1, <3>1
    <3>7. byte = (new \div 2^shift) % 256
      OBVIOUS
    <3> HIDE DEF shift, byte, t, L, o
    <3>8. CASE L % 4 = 1
      <4>1. 8 * o = 6 * (L - 1) /\ shift = 4
        BY <3>6, <3>8
      <4> QED BY <3>3, <3>4, <3>5, <3>7, <4>1, Powers
    <3>9. CASE L % 4 = 2
      <4>1. 8 * o = 6 * (L - 1) + 2 /\ shift = 2
        BY <3>6, <3>9
      <4> QED BY <3>3, <3>4, <3>5, <3>7, <4>1, Powers
    <3>10. CASE L % 4 = 3
      <4>1. 8 * o = 6 * (L - 1) + 4 /\ shift = 0
        BY <3>6, <3>10
      <4> QED BY <3>3, <3>4, <3>5, <3>7, <4>1, Powers
    <3>11. L % 4 \in {1, 2, 3}
      BY <1>9, <3>6
    <3> QED BY <3>8, <3>9, <3>10, <3>11
  <2>3. CASE o >= cap
    <3>0. ~(st.nbits + 6 < 8) /\ st.o >= cap
      BY <1>1, <1>2, <2>1, <2>3
    <3>1. next = [st EXCEPT !.end = "failed"]
      BY <1>6, <3>0, Zenon
    <3>2. next \in States(out) /\ next.end = "failed"
      BY <3>1 DEF States
    <3>3. more > cap
      BY <2>1, <2>3
    <3> QED BY <3>2, <3>3 DEF Said, next
  <2>4. CASE o < cap
    <3>1. next = [st EXCEPT !.acc = new, !.nbits = shift, !.o = @ + 1, !.out[o + 1] = byte]
      <4>1. ~(st.nbits + 6 < 8) /\ ~(st.o >= cap)
        BY <1>1, <1>2, <2>1, <2>4
      <4> QED BY <1>1, <1>6, <4>1, Zenon
    <3> HIDE DEF byte, shift
    <3>2. shift \in {0, 2, 4, 6}
      BY <2>1
    <3>3. next \in States(out)
      <4>1. [st.out EXCEPT ![o + 1] = byte] \in [1 .. m -> Byte]
        BY <1>2, <2>2
      <4>2. o + 1 \in Nat
        BY <2>1
      <4>3. next = [acc |-> new, nbits |-> shift, o |-> o + 1,
                    out |-> [st.out EXCEPT ![o + 1] = byte], end |-> st.end]
        BY <1>1, <1>2, <3>1 DEF States
      <4> HIDE DEF o
      <4> QED BY <1>5, <3>2, <4>1, <4>2, <4>3 DEF States
    <3>4. /\ next.acc = new /\ next.nbits = shift /\ next.o = o + 1 /\ next.end = "no"
          /\ next.out = [st.out EXCEPT ![o + 1] = byte]
      BY <1>1, <1>2, <3>1 DEF States
    <3>5. next.out = [k \in 1 .. m |-> IF k <= more THEN Eight(t, 8 * (k - 1)) ELSE out[k]]
      <4>1. o + 1 \in 1 .. m /\ (o + 1) - 1 = o
        BY <2>1, <2>4
      <4>2. st.out \in [1 .. m -> Byte]
        BY <1>2
      <4>3. ASSUME NEW k \in 1 .. m
            PROVE  (IF k <= more THEN Eight(t, 8 * (k - 1)) ELSE out[k])
                   = IF k = o + 1 THEN byte ELSE st.out[k]
        <5>1. k <= more <=> k = o + 1 \/ k \in 1 .. o
          BY <2>1
        <5>2. k \in 1 .. o <=> k <= o
          BY <2>1
        <5>3. st.out[k] = IF k <= o THEN Eight(s, 8 * (k - 1)) ELSE out[k]
          BY <1>1
        <5>4. k = o + 1 => ~(k <= o)
          BY <2>1
        <5> HIDE DEF o, more, byte
        <5> QED BY <1>7, <2>2, <4>1, <5>1, <5>2, <5>3, <5>4
      <4> HIDE DEF o, more
      <4> QED BY <3>4, <4>1, <4>2, <4>3
    <3>6. Said(next, t, cap, out)
      <4>1. t \in Seq(Sextet) /\ more <= cap /\ next.nbits = 6 * Len(t) - 8 * more /\ next.o = more
        BY <1>3, <2>1, <2>4, <3>4 DEF shift
      <4>2. next.acc % 64 = t[Len(t)]
        BY <1>3, <1>5, <3>4
      <4>3. next.end # "failed"
        BY <3>4
      <4> HIDE DEF t, more, o
      <4> QED BY <3>5, <4>1, <4>2, <4>3 DEF Said, more
    <3> QED BY <3>3, <3>4, <3>6 DEF next
  <2> QED BY <1>1, <2>1, <2>3, <2>4
<1> QED BY <1>3, <1>8, <1>9

(* The decoder takes the characters of the text one by one. *)
Decodings(out, cap, text) ==
  {st \in [0 .. Len(text) -> States(out)] :
     /\ st[0] = Fresh(out)
     /\ \A n \in 1 .. Len(text) : st[n] = DecodeChar(cap, st[n - 1], text[n])}

LEMMA DecodeRuns ==
  ASSUME NEW m \in Nat, NEW cap \in 0 .. m, NEW out \in [1 .. m -> Byte], NEW text \in Seq(Char)
  PROVE  \E st \in Decodings(out, cap, text) : DecodeInto(out, cap, text) = st[Len(text)]
<1> DEFINE N == Len(text)
           B == States(out)
           step == [p \in B \X (1 .. N) |-> DecodeChar(cap, p[1], text[p[2]])]
<1>1. Fresh(out) \in B
  <2>1. AccMod \in Nat \ {0}
    BY ControlAssumption
  <2> QED BY <2>1 DEF Fresh, States
<1>2. step \in [B \X (1 .. N) -> B]
  <2> SUFFICES ASSUME NEW st \in B, NEW n \in 1 .. N
               PROVE  DecodeChar(cap, st, text[n]) \in B
    OBVIOUS
  <2>1. text[n] \in Char
    OBVIOUS
  <2> QED BY <2>1, DecoderType
<1>3. PICK st \in Runs(B, Fresh(out), N, step) : TRUE
  <2>1. N \in Nat
    OBVIOUS
  <2> HIDE DEF B, step, N
  <2>2. Runs(B, Fresh(out), N, step) # {}
    BY <1>1, <1>2, <2>1, Iteration
  <2> QED BY <2>2, Zenon
<1>12. /\ st \in [0 .. N -> B] /\ st[0] = Fresh(out)
       /\ \A n \in 1 .. N : st[n] = step[<<st[n - 1], n>>]
  <2> HIDE DEF B, step, N
  <2> QED BY <1>3 DEF Runs
<1>4. \A n \in 1 .. N : st[n] = DecodeChar(cap, st[n - 1], text[n])
  <2>1. \A n \in 1 .. N : st[n - 1] \in B
    <3>1. \A n \in 1 .. N : n - 1 \in 0 .. N
      OBVIOUS
    <3> HIDE DEF B
    <3> QED BY <1>12, <3>1
  <2> HIDE DEF B
  <2> QED BY <1>12, <2>1
<1> DEFINE Body(f) == [n \in 0 .. N |-> IF n = 0 THEN Fresh(out)
                                         ELSE DecodeChar(cap, f[n - 1], text[n])]
<1>5. st = Body(st)
  <2>1. \A n \in 0 .. N : n # 0 => n \in 1 .. N
    OBVIOUS
  <2> HIDE DEF B
  <2> QED BY <1>12, <1>4, <2>1
<1>6. DecodeInto(out, cap, text) = (CHOOSE f : f = Body(f))[N]
  BY DEF DecodeInto, Fresh
<1> DEFINE f == CHOOSE g : g = Body(g)
<1>7. f = Body(f)
  BY <1>5
<1> HIDE DEF f
<1>8. f[0] = Fresh(out) /\ \A n \in 1 .. N : f[n] = DecodeChar(cap, f[n - 1], text[n])
  BY <1>7
<1>9. \A n \in 0 .. N : f[n] \in B
  <2> DEFINE S == {n \in 0 .. N : f[n] \in B}
  <2>1. 0 \in S
    BY <1>1, <1>8
  <2>2. ASSUME NEW n \in 1 .. N, n - 1 \in S
        PROVE  n \in S
    <3>1. text[n] \in Char /\ n \in 0 .. N
      OBVIOUS
    <3>2. f[n - 1] \in States(out)
      BY <2>2
    <3>3. f[n] \in States(out)
      BY <1>8, <3>1, <3>2, DecoderType, SMTT(30)
    <3> QED BY <3>1, <3>3
  <2>3. N \in Nat
    OBVIOUS
  <2> HIDE DEF S
  <2>4. \A n \in 0 .. N : n \in S
    BY <2>1, <2>2, <2>3, Steps
  <2> QED BY <2>4 DEF S
<1>10. f \in [0 .. N -> B]
  BY <1>7, <1>9
<1>11. DecodeInto(out, cap, text) = f[N]
  BY <1>6 DEF f
<1>13. f \in Decodings(out, cap, text)
  BY <1>8, <1>10, Zenon DEF Decodings
<1> QED BY <1>11, <1>13, Zenon

(* The sextets of a text, as far as a character. *)
Skips(text, n) == text[n] = Space \/ \E i \in 1 .. n : text[i] = Pad

Taken(text, n, s) == IF Skips(text, n) THEN s ELSE Append(s, text[n])

LEMMA SextetsRun ==
  ASSUME NEW text \in Seq(Char)
  PROVE  \E s \in [0 .. Len(text) -> Seq(Char)] :
           /\ s[0] = <<>> /\ Sextets(text) = s[Len(text)]
           /\ \A n \in 1 .. Len(text) : s[n] = Taken(text, n, s[n - 1])
<1> DEFINE N == Len(text)
           B == Seq(Char)
           step == [p \in B \X (1 .. N) |-> Taken(text, p[2], p[1])]
           Body(f) == [n \in 0 .. N |-> IF n = 0 THEN <<>> ELSE Taken(text, n, f[n - 1])]
<1>1. N \in Nat /\ <<>> \in B /\ \A n \in 1 .. N : n - 1 \in 0 .. N /\ n \in 0 .. N /\ n # 0
  OBVIOUS
<1>11. \A n \in 1 .. N : \A s \in B : Taken(text, n, s) \in B
  BY DEF Taken
<1> HIDE DEF B
<1>2. step \in [B \X (1 .. N) -> B]
  BY <1>11
<1>3. PICK st \in Runs(B, <<>>, N, step) : TRUE
  <2> HIDE DEF B, step, N
  <2>1. Runs(B, <<>>, N, step) # {}
    BY <1>1, <1>2, Iteration
  <2> QED BY <2>1, Zenon
<1>4. /\ st \in [0 .. N -> B] /\ st[0] = <<>>
      /\ \A n \in 1 .. N : st[n] = step[<<st[n - 1], n>>]
  <2> HIDE DEF B, step, N
  <2> QED BY <1>3 DEF Runs
<1>5. st = Body(st)
  <2>1. \A n \in 0 .. N : n # 0 => n \in 1 .. N
    OBVIOUS
  <2>2. \A n \in 1 .. N : step[<<st[n - 1], n>>] = Taken(text, n, st[n - 1])
    BY <1>1, <1>4
  <2> HIDE DEF B, step
  <2> QED BY <1>1, <1>4, <2>1, <2>2
<1> DEFINE f == CHOOSE g : g = Body(g)
<1>6. f = Body(f)
  BY <1>5
<1>7. Sextets(text) = f[N]
  BY DEF Sextets, Taken, Skips
<1> HIDE DEF f
<1>8. f[0] = <<>> /\ \A n \in 1 .. N : f[n] = Taken(text, n, f[n - 1])
  BY <1>1, <1>6
<1>9. \A n \in 0 .. N : f[n] \in B
  <2> DEFINE S == {n \in 0 .. N : f[n] \in B}
  <2>1. 0 \in S
    BY <1>1, <1>8
  <2>2. ASSUME NEW n \in 1 .. N, n - 1 \in S
        PROVE  n \in S
    BY <1>1, <1>8, <1>11, <2>2
  <2> HIDE DEF S
  <2>3. \A n \in 0 .. N : n \in S
    BY <1>1, <2>1, <2>2, Steps
  <2> QED BY <2>3 DEF S
<1>10. f \in [0 .. N -> B]
  BY <1>6, <1>9
<1>12. f \in [0 .. Len(text) -> Seq(Char)]
  BY <1>10 DEF B
<1> WITNESS f \in [0 .. Len(text) -> Seq(Char)]
<1> QED BY <1>7, <1>8

Follows(text, n, st, s, cap, out) ==
  /\ Said(st, s, cap, out)
  /\ st.end = "no" => \A i \in 1 .. n : text[i] # Pad
  /\ st.end = "done" => \E i \in 1 .. n : text[i] = Pad

LEMMA Chars == \A c \in Char : c \in Sextet \/ c = Pad \/ c = Space \/ c = Junk
BY DEF Char, Sextet, Pad, Space, Junk

LEMMA Distinct == /\ Pad # Space /\ Space # Junk /\ Pad # Junk
                  /\ \A c \in Sextet : c # Pad /\ c # Space /\ c # Junk
BY DEF Sextet, Pad, Space, Junk

LEMMA FollowsOn ==
  ASSUME NEW m \in Nat, NEW cap \in 0 .. m, NEW out \in [1 .. m -> Byte], NEW text \in Seq(Char),
         NEW n \in 1 .. Len(text), NEW st \in States(out), NEW s \in Seq(Char),
         Follows(text, n - 1, st, s, cap, out)
  PROVE  Follows(text, n, DecodeChar(cap, st, text[n]), Taken(text, n, s), cap, out)
<1> DEFINE c == text[n]
           next == DecodeChar(cap, st, c)
           new == Taken(text, n, s)
<1>1. c \in Char /\ Said(st, s, cap, out)
  BY DEF Follows
<1>2. \A i \in 1 .. n : i = n \/ i \in 1 .. n - 1
  OBVIOUS
<1>10. \A i \in 1 .. n - 1 : i \in 1 .. n
  OBVIOUS
<1>3. new = s \/ new = Append(s, c)
  BY DEF Taken
<1>4. CASE st.end = "failed"
  <2>1. next = st
    BY <1>4 DEF DecodeChar
  <2>2. Said(st, new, cap, out)
    <3>1. CASE new = s
      BY <1>1, <3>1
    <3>2. CASE new = Append(s, c)
      <4>1. Len(new) = Len(s) + 1 /\ Len(s) \in Nat
            /\ \A i \in DOMAIN s : i \in DOMAIN new /\ new[i] = s[i]
        BY <3>2
      <4>2. (3 * Len(s)) \div 4 > cap => (3 * Len(new)) \div 4 > cap
        BY <4>1
      <4> HIDE DEF new
      <4> QED BY <1>1, <1>4, <4>1, <4>2 DEF Said
    <3> QED BY <1>3, <3>1, <3>2
  <2> QED BY <1>4, <2>1, <2>2 DEF Follows
<1>5. CASE st.end = "done"
  <2>1. next = st
    BY <1>5 DEF DecodeChar
  <2>2. \E i \in 1 .. n : text[i] = Pad
    BY <1>5, <1>10 DEF Follows
  <2>3. new = s
    BY <2>2 DEF Taken, Skips
  <2> QED BY <1>1, <1>5, <2>1, <2>2, <2>3 DEF Follows
<1>6. CASE st.end = "no"
  <2>1. \A i \in 1 .. n - 1 : text[i] # Pad
    BY <1>6 DEF Follows
  <2>2. CASE c = Space
    <3>1. next = st /\ new = s
      BY <2>2 DEF DecodeChar, Taken, Skips
    <3> QED BY <1>1, <1>2, <1>6, <2>1, <2>2, <3>1, Distinct DEF Follows
  <2>3. CASE c = Pad
    <3>1. next = [st EXCEPT !.end = "done"]
      BY <1>6, <2>3, Distinct DEF DecodeChar
    <3>2. n \in 1 .. n
      OBVIOUS
    <3>3. new = s
      BY <2>3, <3>2 DEF Taken, Skips
    <3>4. next.end = "done" /\ next.o = st.o /\ next.out = st.out
      BY <3>1 DEF States
    <3>5. Said(next, s, cap, out)
      BY <1>1, <1>6, <3>4 DEF Said
    <3> QED BY <2>3, <3>2, <3>3, <3>4, <3>5 DEF Follows
  <2>4. CASE c = Junk
    <3>1. next = [st EXCEPT !.end = "failed"]
      BY <1>6, <2>4, Distinct DEF DecodeChar
    <3>2. new = Append(s, c)
      BY <1>2, <2>1, <2>4, Distinct DEF Taken, Skips
    <3>3. Len(s) + 1 \in DOMAIN new /\ new[Len(s) + 1] = Junk
      BY <2>4, <3>2
    <3>4. next.end = "failed"
      BY <3>1 DEF States
    <3> QED BY <3>3, <3>4 DEF Follows, Said
  <2>5. CASE c \in Sextet
    <3>1. new = Append(s, c)
      BY <1>2, <2>1, <2>5, Distinct DEF Taken, Skips
    <3>2. Said(next, Append(s, c), cap, out) /\ next.end \in {"no", "failed"}
      BY <1>1, <1>6, <2>5, SaysMore
    <3> QED BY <1>2, <2>1, <2>5, <3>1, <3>2, Distinct DEF Follows
  <2> QED BY <1>1, <2>2, <2>3, <2>4, <2>5, Chars
<1> QED BY <1>4, <1>5, <1>6 DEF States

(* So base64_decode fails if there is junk, or more than it has room for, and  *)
(* else writes the octets of the text before what was there.                *)
LEMMA Decoded ==
  ASSUME NEW m \in Nat, NEW cap \in 0 .. m, NEW out \in [1 .. m -> Byte], NEW text \in Seq(Char)
  PROVE  /\ DecodeInto(out, cap, text) \in States(out)
         /\ Said(DecodeInto(out, cap, text), Sextets(text), cap, out)
<1> DEFINE N == Len(text)
<1>1. PICK st \in Decodings(out, cap, text) : DecodeInto(out, cap, text) = st[N]
  BY DecodeRuns
<1>2. PICK s \in [0 .. N -> Seq(Char)] :
        s[0] = <<>> /\ Sextets(text) = s[N] /\ \A n \in 1 .. N : s[n] = Taken(text, n, s[n - 1])
  BY SextetsRun
<1>3. /\ st \in [0 .. N -> States(out)] /\ st[0] = Fresh(out)
      /\ \A n \in 1 .. N : st[n] = DecodeChar(cap, st[n - 1], text[n])
  BY DEF Decodings
<1> DEFINE S == {n \in 0 .. N : Follows(text, n, st[n], s[n], cap, out)}
<1>4. N \in Nat /\ 0 \in 0 .. N /\ N \in 0 .. N
  OBVIOUS
<1>5. 0 \in S
  <2>1. Said(Fresh(out), <<>>, cap, out)
    <3>1. Len(<<>>) = 0 /\ (3 * 0) \div 4 = 0 /\ <<>> \in Seq(Sextet) /\ 6 * 0 - 8 * 0 = 0
      OBVIOUS
    <3>2. out = [k \in DOMAIN out |-> IF k <= 0 THEN Eight(<<>>, 8 * (k - 1)) ELSE out[k]]
      OBVIOUS
    <3> QED BY <3>1, <3>2 DEF Said, Fresh
  <2>2. 1 .. 0 = {}
    OBVIOUS
  <2> QED BY <1>2, <1>3, <1>4, <2>1, <2>2 DEF Follows, Fresh
<1>6. ASSUME NEW n \in 1 .. N, n - 1 \in S
      PROVE  n \in S
  <2>1. n \in 0 .. N /\ n - 1 \in 0 .. N
    OBVIOUS
  <2>2. st[n - 1] \in States(out) /\ s[n - 1] \in Seq(Char)
    BY <1>2, <1>3, <2>1
  <2>3. Follows(text, n - 1, st[n - 1], s[n - 1], cap, out)
    BY <1>6
  <2>4. Follows(text, n, st[n], s[n], cap, out)
    BY <1>2, <1>3, <2>2, <2>3, FollowsOn
  <2> QED BY <2>1, <2>4
<1> HIDE DEF S, N
<1>7. N \in S
  BY <1>4, <1>5, <1>6, Steps
<1>8. Follows(text, N, st[N], s[N], cap, out)
  BY <1>7 DEF S
<1> QED BY <1>1, <1>2, <1>3, <1>4, <1>8 DEF Follows

LEMMA SextetsAre ==
  ASSUME NEW text \in Seq(Char)
  PROVE  Sextets(text) \in Seq(Char)
BY SextetsRun

LEMMA DecodedMeans ==
  ASSUME NEW m \in Nat, NEW cap \in 0 .. m, NEW out \in [1 .. m -> Byte], NEW text \in Seq(Char),
         NEW len \in 0 .. cap
  PROVE  LET dec == DecodeInto(out, cap, text)
             octets == Octets(Sextets(text))
         IN  /\ dec.out \in [1 .. m -> Byte]
             /\ dec.end # "failed" /\ dec.o = len <=> Means(text, len) # {}
             /\ Means(text, len) # {} =>
                  /\ Means(text, len) = {octets} /\ Len(octets) = len /\ DOMAIN octets = 1 .. len
                  /\ \A k \in 1 .. m : dec.out[k] = IF k <= len THEN octets[k] ELSE out[k]
<1> DEFINE dec == DecodeInto(out, cap, text)
           s == Sextets(text)
           octets == Octets(s)
           o == (3 * Len(s)) \div 4
           clean == \A i \in DOMAIN s : s[i] # Junk
<1>1. dec \in States(out) /\ Said(dec, s, cap, out) /\ s \in Seq(Char)
  BY Decoded, SextetsAre
<1> HIDE DEF dec, s
<1>2. dec.out \in [1 .. m -> Byte]
  BY <1>1 DEF States
<1>3. o \in Nat
  BY <1>1
<1>4. /\ octets = [k \in 1 .. o |-> Eight(s, 8 * (k - 1))] /\ Len(octets) = o
      /\ DOMAIN octets = 1 .. o
  BY <1>3 DEF Octets
<1>5. Means(text, len) = IF o = len /\ clean THEN {octets} ELSE {}
  BY <1>4 DEF Means, s
<1>6. \A c \in Sextet : c # Junk
  BY DEF Sextet, Pad, Junk
<1>7. CASE dec.end = "failed"
  <2>1. ~clean \/ o > cap
    BY <1>1, <1>7 DEF Said
  <2>2. ~(o = len /\ clean)
    <3> HIDE DEF o
    <3> QED BY <1>3, <2>1
  <2> QED BY <1>2, <1>5, <1>7, <2>2 DEF dec, s
<1>8. CASE dec.end # "failed"
  <2>1. s \in Seq(Sextet) /\ dec.o = o
        /\ dec.out = [k \in 1 .. m |-> IF k <= o THEN Eight(s, 8 * (k - 1)) ELSE out[k]]
    BY <1>1, <1>8 DEF Said
  <2>2. clean
    BY <1>6, <2>1
  <2>3. Means(text, len) # {} <=> o = len
    BY <1>5, <2>2
  <2>4. ASSUME o = len, NEW k \in 1 .. m
        PROVE  dec.out[k] = IF k <= len THEN octets[k] ELSE out[k]
    <3>1. k <= len => octets[k] = Eight(s, 8 * (k - 1))
      BY <1>4, <2>4
    <3> HIDE DEF o, octets
    <3> QED BY <2>1, <2>4, <3>1
  <2> HIDE DEF o, octets, clean
  <2> QED BY <1>2, <1>4, <1>5, <1>8, <2>1, <2>2, <2>3, <2>4 DEF dec, s, octets
<1> QED BY <1>7, <1>8

LEMMA AttrIs ==
  ASSUME NEW body \in Announcements, NEW attr \in {"rsaaeskey", "aesiv", "fmtp"},
         Has(body.lines, attr)
  PROVE  /\ IsList(Attr(body.lines, attr), TextMax[attr])
         /\ attr # "fmtp" => Attr(body.lines, attr) \in Seq(Char)
<1> DEFINE lines == body.lines
           at == {i \in DOMAIN lines : lines[i].name = attr}
<1>1. /\ IsList(lines, Len(lines))
      /\ \A i \in DOMAIN lines : /\ IsList(lines[i].value, TextMax[lines[i].name])
                                 /\ lines[i].name # "fmtp" => lines[i].value \in Seq(Char)
  BY AnnouncementsMean
<1> HIDE DEF lines
<1>2. DOMAIN lines = 1 .. Len(lines) /\ Len(lines) \in Nat
  BY <1>1, ListIs
<1>3. at # {} /\ at \subseteq 0 .. Len(lines)
  <2>1. at # {}
    BY DEF Has, lines
  <2>2. \A i \in DOMAIN lines : i \in 0 .. Len(lines)
    BY <1>2
  <2> QED BY <2>1, <2>2
<1>4. Max(at) \in at
  <2> HIDE DEF at
  <2> QED BY <1>2, <1>3, MaxOf
<1> DEFINE last == Max(at)
<1>5. last \in DOMAIN lines /\ lines[last].name = attr
  BY <1>4
<1>6. Attr(lines, attr) = Bounded(lines[last].value, TextMax[attr])
  BY DEF Attr
<1> HIDE DEF last
<1>7. TextMax[attr] \in Nat
  BY ControlAssumption
<1>8. Attr(lines, attr) = lines[last].value
  BY <1>1, <1>5, <1>6, <1>7, Uncut
<1> QED BY <1>1, <1>5, <1>8 DEF lines
-----------------------------------------------------------------------------
(* ANNOUNCE and SETUP. *)
KeyOf(body, attr) == IF Has(body.lines, attr) THEN Means(Attr(body.lines, attr), KeyLen) ELSE {}

LEMMA Meant ==
  ASSUME NEW body \in Announcements
  PROVE  /\ KeyOf(body, "rsaaeskey") \subseteq {body.key} /\ KeyOf(body, "aesiv") \subseteq {body.iv}
         /\ body.valid <=> KeyOf(body, "rsaaeskey") # {} /\ KeyOf(body, "aesiv") # {}
BY AnnouncementsMean DEF KeyOf

LEMMA KeyLens == KeyLen \in 0 .. EncMax /\ KeyLen \in Nat \ {0} /\ EncMax \in Nat /\ 0 \in Byte
<1>1. UInt8 = 255
  BY DEF UInt8
<1> QED BY <1>1, ControlAssumption DEF Byte

LEMMA KeyIs ==
  ASSUME NEW body \in Announcements, Has(body.lines, "rsaaeskey")
  PROVE  /\ AesKey(body.lines) = KeyOf(body, "rsaaeskey")
         /\ AesKey(body.lines) \subseteq [1 .. KeyLen -> Byte]
<1> DEFINE text == Attr(body.lines, "rsaaeskey")
           zeros == [i \in 1 .. EncMax |-> 0]
           dec == DecodeInto(zeros, EncMax, text)
           octets == Octets(Sextets(text))
           cut == SubSeq(dec.out, 1, KeyLen)
<1>1. text \in Seq(Char) /\ zeros \in [1 .. EncMax -> Byte] /\ EncMax \in 0 .. EncMax
  BY AttrIs, KeyLens
<1> HIDE DEF zeros, text
<1>2. /\ dec.out \in [1 .. EncMax -> Byte]
      /\ dec.end # "failed" /\ dec.o = KeyLen <=> Means(text, KeyLen) # {}
      /\ Means(text, KeyLen) # {} =>
           /\ Means(text, KeyLen) = {octets} /\ Len(octets) = KeyLen /\ DOMAIN octets = 1 .. KeyLen
           /\ \A k \in 1 .. EncMax : dec.out[k] = IF k <= KeyLen THEN octets[k] ELSE zeros[k]
  BY <1>1, KeyLens, DecodedMeans, SMTT(30)
<1>3. AesKey(body.lines) = IF Means(text, KeyLen) # {} THEN {cut} ELSE {}
  BY <1>2 DEF AesKey, text, zeros
<1> HIDE DEF dec
<1>4. cut = [k \in 1 .. KeyLen |-> dec.out[k]]
  BY <1>2, KeyLens
<1>5. cut \in [1 .. KeyLen -> Byte]
  <2>1. \A k \in 1 .. KeyLen : k \in 1 .. EncMax
    BY KeyLens
  <2> HIDE DEF cut
  <2> QED BY <1>2, <1>4, <2>1
<1>6. ASSUME Means(text, KeyLen) # {}
      PROVE  cut = octets
  <2>1. \A k \in 1 .. KeyLen : k \in 1 .. EncMax /\ k <= KeyLen
    BY KeyLens
  <2>2. octets = [k \in 1 .. KeyLen |-> octets[k]]
    <3>1. octets = [k \in 1 .. (3 * Len(Sextets(text))) \div 4 |-> Eight(Sextets(text), 8 * (k - 1))]
      BY DEF Octets
    <3>2. DOMAIN octets = 1 .. KeyLen
      BY <1>2, <1>6
    <3> HIDE DEF octets
    <3> QED BY <3>1, <3>2
  <2> HIDE DEF cut, octets
  <2> QED BY <1>2, <1>4, <1>6, <2>1, <2>2
<1> HIDE DEF cut, octets
<1>7. KeyOf(body, "rsaaeskey") = Means(text, KeyLen)
  BY DEF KeyOf, text
<1> QED BY <1>2, <1>3, <1>5, <1>6, <1>7

LEMMA IvIs ==
  ASSUME NEW body \in Announcements, Has(body.lines, "aesiv"), NEW old \in [1 .. KeyLen -> Byte]
  PROVE  LET dec == DecodeInto(old, KeyLen, Attr(body.lines, "aesiv"))
         IN  /\ dec.out \in [1 .. KeyLen -> Byte]
             /\ dec.end # "failed" /\ dec.o = KeyLen <=> KeyOf(body, "aesiv") # {}
             /\ KeyOf(body, "aesiv") # {} => KeyOf(body, "aesiv") = {dec.out}
<1> DEFINE text == Attr(body.lines, "aesiv")
           dec == DecodeInto(old, KeyLen, text)
           octets == Octets(Sextets(text))
<1>1. text \in Seq(Char) /\ KeyLen \in 0 .. KeyLen
  BY AttrIs, KeyLens
<1> HIDE DEF text
<1>2. /\ dec.out \in [1 .. KeyLen -> Byte]
      /\ dec.end # "failed" /\ dec.o = KeyLen <=> Means(text, KeyLen) # {}
      /\ Means(text, KeyLen) # {} =>
           /\ Means(text, KeyLen) = {octets} /\ Len(octets) = KeyLen /\ DOMAIN octets = 1 .. KeyLen
           /\ \A k \in 1 .. KeyLen : dec.out[k] = IF k <= KeyLen THEN octets[k] ELSE old[k]
  BY <1>1, KeyLens, DecodedMeans, SMTT(30)
<1> HIDE DEF dec
<1>3. ASSUME Means(text, KeyLen) # {}
      PROVE  dec.out = octets
  <2>1. \A k \in 1 .. KeyLen : k <= KeyLen
    BY KeyLens
  <2>2. octets = [k \in 1 .. KeyLen |-> octets[k]]
    <3>1. octets = [k \in 1 .. (3 * Len(Sextets(text))) \div 4 |-> Eight(Sextets(text), 8 * (k - 1))]
      BY DEF Octets
    <3>2. DOMAIN octets = 1 .. KeyLen
      BY <1>2, <1>3
    <3> HIDE DEF octets
    <3> QED BY <3>1, <3>2
  <2> HIDE DEF octets
  <2> QED BY <1>2, <1>3, <2>1, <2>2
<1>4. KeyOf(body, "aesiv") = Means(text, KeyLen)
  BY DEF KeyOf, text
<1> HIDE DEF octets
<1> QED BY <1>2, <1>3, <1>4 DEF dec, text

StreamIInv ==
  /\ key \in [1 .. KeyLen -> Byte] /\ iv \in [1 .. KeyLen -> Byte]
  /\ StreamIsTheAgreed

LEMMA StreamInit == Init => StreamIInv
<1> SUFFICES ASSUME Init PROVE StreamIInv
  OBVIOUS
<1>1. BuildDecoder(<<>>) = {}
  <2>1. Len(<<>>) # 12
    OBVIOUS
  <2> QED BY <2>1 DEF BuildDecoder, AlacCfg
<1>2. Zero \in [1 .. KeyLen -> Byte]
  BY KeyLens DEF Zero
<1> QED BY <1>1, <1>2 DEF Init, StreamIInv, StreamIsTheAgreed

LEMMA StreamAnnounce ==
  ASSUME StreamIInv, NEW body \in Announcements, Announce(body)
  PROVE  StreamIInv'
<1> DEFINE lines == body.lines
           newKey == IF Has(lines, "rsaaeskey") THEN AesKey(lines) ELSE {}
           dec == DecodeInto(iv, KeyLen, Attr(lines, "aesiv"))
           ivOk == ~Has(lines, "aesiv") \/ (dec.end # "failed" /\ dec.o = KeyLen)
           ok == newKey # {} /\ ivOk
<1>1. /\ key' = IF newKey # {} THEN CHOOSE k \in newKey : TRUE ELSE key
      /\ iv' = IF newKey # {} /\ Has(lines, "aesiv") THEN dec.out ELSE iv
      /\ haveKey' = IF ok THEN Has(lines, "aesiv") ELSE haveKey
      /\ fmtp' = IF ok /\ Has(lines, "fmtp") THEN Attr(lines, "fmtp") ELSE fmtp
      /\ agreed' = IF ok \/ body.valid
                    THEN [valid |-> body.valid, key |-> body.key, iv |-> body.iv] ELSE Nothing
      /\ format' = IF (ok \/ body.valid) /\ Has(lines, "fmtp") THEN body.format ELSE format
      /\ ports' = ports /\ offered' = offered
  BY DEF Announce
<1>2. newKey = KeyOf(body, "rsaaeskey") /\ newKey \subseteq [1 .. KeyLen -> Byte]
  BY KeyIs DEF KeyOf
<1>3. Has(lines, "aesiv") =>
        /\ dec.out \in [1 .. KeyLen -> Byte]
        /\ dec.end # "failed" /\ dec.o = KeyLen <=> KeyOf(body, "aesiv") # {}
        /\ KeyOf(body, "aesiv") # {} => KeyOf(body, "aesiv") = {dec.out}
  BY IvIs DEF StreamIInv
<1>4. ~Has(lines, "aesiv") => KeyOf(body, "aesiv") = {}
  BY DEF KeyOf
<1>5. Has(lines, "fmtp") => BuildDecoder(Attr(lines, "fmtp")) = body.format
  BY DecoderIs
<1> HIDE DEF newKey, dec, lines
<1>6. body.valid => ok
  BY <1>2, <1>3, Meant
<1>7. newKey # {} => newKey = {body.key}
  BY <1>2, Meant
<1>8. key' \in [1 .. KeyLen -> Byte] /\ iv' \in [1 .. KeyLen -> Byte]
  BY <1>1, <1>2, <1>3 DEF StreamIInv
<1>9. BuildDecoder(fmtp') = format'
  BY <1>1, <1>5, <1>6 DEF StreamIInv, StreamIsTheAgreed
<1>10. ports' = offered'
  BY <1>1 DEF StreamIInv, StreamIsTheAgreed
<1>11. ASSUME agreed' # Nothing
       PROVE  /\ agreed'.valid => haveKey'
              /\ haveKey' => key' = agreed'.key /\ iv' = agreed'.iv
  <2>1. ok /\ agreed'.valid = body.valid /\ agreed'.key = body.key /\ agreed'.iv = body.iv
    BY <1>1, <1>6, <1>11
  <2>2. key' = body.key /\ haveKey' = Has(lines, "aesiv")
    BY <1>1, <1>7, <2>1
  <2>3. Has(lines, "aesiv") => iv' = body.iv
    BY <1>1, <1>3, <2>1, Meant
  <2>4. body.valid => Has(lines, "aesiv")
    BY <1>4, Meant
  <2> QED BY <2>1, <2>2, <2>3, <2>4
<1> QED BY <1>8, <1>9, <1>10, <1>11 DEF StreamIInv, StreamIsTheAgreed

LEMMA StreamSetup ==
  ASSUME StreamIInv, NEW t \in Transports, Setup(t)
  PROVE  StreamIInv'
<1> DEFINE text == FirstOf(t.headers, "Transport")
<1>1. /\ IsList(t.headers, MaxHeaders) /\ t.ports \in [control : Int, timing : Int]
      /\ text # <<>> => /\ IsList(text[1].value, Len(text[1].value))
                        /\ GivesPort(text[1].value, "control_port", t.ports.control)
                        /\ GivesPort(text[1].value, "timing_port", t.ports.timing)
  BY TransportsMean
<1>2. HeaderGet(t.headers, "Transport") = text
  BY <1>1, HeaderIs
<1> HIDE DEF text
<1>3. ASSUME text # <<>>
      PROVE  /\ TransportPort(text[1].value, "control_port") = t.ports.control
             /\ TransportPort(text[1].value, "timing_port") = t.ports.timing
  <2>1. t.ports.control \in Int /\ t.ports.timing \in Int
    BY <1>1
  <2> QED BY <1>1, <1>3, <2>1, PortIs
<1>4. t.ports = [control |-> t.ports.control, timing |-> t.ports.timing]
  BY <1>1
<1>5. ports' = offered'
  BY <1>2, <1>3, <1>4 DEF Setup, StreamIInv, StreamIsTheAgreed
<1> QED BY <1>5 DEF Setup, StreamIInv, StreamIsTheAgreed

LEMMA StreamNext == StreamIInv /\ [Next]_vars => StreamIInv'
<1> SUFFICES ASSUME StreamIInv, [Next]_vars PROVE StreamIInv'
  OBVIOUS
<1> USE DEF StreamIInv, StreamIsTheAgreed
<1>1. ASSUME NEW q \in Questions, Options(q) PROVE StreamIInv'
  BY <1>1 DEF Options, session, meant
<1>2. ASSUME NEW body \in Announcements, Announce(body) PROVE StreamIInv'
  BY <1>2, StreamAnnounce
<1>3. ASSUME NEW t \in Transports, Setup(t) PROVE StreamIInv'
  BY <1>3, StreamSetup
<1>4. ASSUME NEW t \in Types, NEW lines \in Volumes, SetParameterText(t, lines) PROVE StreamIInv'
  BY <1>4 DEF SetParameterText, session, meant
<1>5. ASSUME NEW t \in Types, NEW items \in Tracks, NEW n, SetParameterTrack(t, items, n)
      PROVE  StreamIInv'
  BY <1>5 DEF SetParameterTrack, session, meant
<1>6. CASE Teardown
  <2>1. BuildDecoder(<<>>) = {}
    <3>1. Len(<<>>) # 12
      OBVIOUS
    <3> QED BY <3>1 DEF BuildDecoder, AlacCfg
  <2>2. Zero \in [1 .. KeyLen -> Byte]
    BY KeyLens DEF Zero
  <2> QED BY <1>6, <2>1, <2>2 DEF Teardown
<1>7. CASE UNCHANGED vars
  BY <1>7 DEF vars, session, meant
<1> QED BY <1>1, <1>2, <1>3, <1>4, <1>5, <1>6, <1>7 DEF Next
-----------------------------------------------------------------------------
(* base64_encode, and the answer to a challenge. *)
ByteAt(bytes, j) == IF j <= Len(bytes) THEN bytes[j] ELSE 0

BitsAre(bytes, n, x) ==
  /\ Bit(bytes, 8, n) = (x \div 128) % 2 /\ Bit(bytes, 8, n + 1) = (x \div 64) % 2
  /\ Bit(bytes, 8, n + 2) = (x \div 32) % 2 /\ Bit(bytes, 8, n + 3) = (x \div 16) % 2
  /\ Bit(bytes, 8, n + 4) = (x \div 8) % 2 /\ Bit(bytes, 8, n + 5) = (x \div 4) % 2
  /\ Bit(bytes, 8, n + 6) = (x \div 2) % 2 /\ Bit(bytes, 8, n + 7) = (x \div 1) % 2

LEMMA BitsOfByteAt ==
  ASSUME NEW bytes \in Seq(Byte), NEW j \in Nat \ {0}
  PROVE  BitsAre(bytes, 8 * (j - 1), ByteAt(bytes, j))
<1>1. CASE j <= Len(bytes)
  <2>1. j \in 1 .. Len(bytes) /\ ByteAt(bytes, j) = bytes[j]
    BY <1>1 DEF ByteAt
  <2> QED BY <2>1, BitsOfByte DEF BitsAre
<1>2. CASE j > Len(bytes)
  <2> DEFINE n == 8 * (j - 1)
  <2>1. n \in Nat /\ n >= 8 * Len(bytes) /\ ByteAt(bytes, j) = 0
    BY <1>2 DEF ByteAt
  <2>2. \A t \in {0, 1, 2, 3, 4, 5, 6, 7} : ~(n + t < 8 * Len(bytes)) /\ n + 0 = n
    BY <2>1
  <2>3. /\ 0 \div 128 = 0 /\ 0 \div 64 = 0 /\ 0 \div 32 = 0 /\ 0 \div 16 = 0 /\ 0 \div 8 = 0
        /\ 0 \div 4 = 0 /\ 0 \div 2 = 0 /\ 0 \div 1 = 0 /\ 0 % 2 = 0
    OBVIOUS
  <2> HIDE DEF n
  <2> QED BY <2>1, <2>2, <2>3 DEF Bit, BitsAre, n
<1> QED BY <1>1, <1>2

LEMMA BytesAre == \A b \in Byte : b \in Nat /\ b < 256
<1>1. UInt8 = 255
  BY DEF UInt8
<1> QED BY <1>1 DEF Byte

(* A group of three bytes is four sextets. *)
LEMMA SixWithin ==
  ASSUME NEW bytes \in Seq(Byte), NEW g \in Nat
  PROVE  LET x == ByteAt(bytes, 3 * g + 1)
             y == ByteAt(bytes, 3 * g + 2)
             z == ByteAt(bytes, 3 * g + 3)
         IN  /\ x \in Nat /\ x < 256 /\ y \in Nat /\ y < 256 /\ z \in Nat /\ z < 256
             /\ Six(bytes, 24 * g) = x \div 4
             /\ Six(bytes, 24 * g + 6) = 16 * (x % 4) + (y \div 16)
             /\ Six(bytes, 24 * g + 12) = 4 * (y % 16) + (z \div 64)
             /\ Six(bytes, 24 * g + 18) = z % 64
<1> DEFINE n == 24 * g
           x == ByteAt(bytes, 3 * g + 1)
           y == ByteAt(bytes, 3 * g + 2)
           z == ByteAt(bytes, 3 * g + 3)
<1>1. /\ 3 * g + 1 \in Nat \ {0} /\ 8 * ((3 * g + 1) - 1) = n
      /\ 3 * g + 2 \in Nat \ {0} /\ 8 * ((3 * g + 2) - 1) = n + 8
      /\ 3 * g + 3 \in Nat \ {0} /\ 8 * ((3 * g + 3) - 1) = n + 16
  OBVIOUS
<1>2. \A j \in Nat \ {0} : ByteAt(bytes, j) \in Nat /\ ByteAt(bytes, j) < 256
  <2> TAKE j \in Nat \ {0}
  <2>1. CASE j <= Len(bytes)
    <3>1. bytes[j] \in Byte
      BY <2>1
    <3> QED BY <2>1, <3>1, BytesAre DEF ByteAt
  <2> QED BY <2>1 DEF ByteAt
<1>3. x \in Nat /\ x < 256 /\ y \in Nat /\ y < 256 /\ z \in Nat /\ z < 256
  BY <1>1, <1>2
<1>4. BitsAre(bytes, n, x) /\ BitsAre(bytes, n + 8, y) /\ BitsAre(bytes, n + 16, z)
  <2>1. \A j \in Nat \ {0} : \A m : m = 8 * (j - 1) => BitsAre(bytes, m, ByteAt(bytes, j))
    BY BitsOfByteAt
  <2> HIDE DEF n
  <2> QED BY <1>1, <2>1
<1>5. /\ (n + 8) + 1 = n + 9 /\ (n + 8) + 2 = n + 10 /\ (n + 8) + 3 = n + 11 /\ (n + 8) + 4 = n + 12
      /\ (n + 8) + 5 = n + 13 /\ (n + 8) + 6 = n + 14 /\ (n + 8) + 7 = n + 15
      /\ (n + 16) + 1 = n + 17 /\ (n + 16) + 2 = n + 18 /\ (n + 16) + 3 = n + 19
      /\ (n + 16) + 4 = n + 20 /\ (n + 16) + 5 = n + 21 /\ (n + 16) + 6 = n + 22
      /\ (n + 16) + 7 = n + 23
  OBVIOUS
<1>6. /\ (n + 6) + 1 = n + 7 /\ (n + 6) + 2 = n + 8 /\ (n + 6) + 3 = n + 9 /\ (n + 6) + 4 = n + 10
      /\ (n + 6) + 5 = n + 11
      /\ (n + 12) + 1 = n + 13 /\ (n + 12) + 2 = n + 14 /\ (n + 12) + 3 = n + 15
      /\ (n + 12) + 4 = n + 16 /\ (n + 12) + 5 = n + 17
      /\ (n + 18) + 1 = n + 19 /\ (n + 18) + 2 = n + 20 /\ (n + 18) + 3 = n + 21
      /\ (n + 18) + 4 = n + 22 /\ (n + 18) + 5 = n + 23
  OBVIOUS
<1> HIDE DEF n, x, y, z
<1>7. Six(bytes, n) = 32 * ((x \div 128) % 2) + 16 * ((x \div 64) % 2) + 8 * ((x \div 32) % 2)
                      + 4 * ((x \div 16) % 2) + 2 * ((x \div 8) % 2) + ((x \div 4) % 2)
  BY <1>4 DEF Six, BitsAre
<1>8. Six(bytes, n + 6) = 32 * ((x \div 2) % 2) + 16 * ((x \div 1) % 2) + 8 * ((y \div 128) % 2)
                      + 4 * ((y \div 64) % 2) + 2 * ((y \div 32) % 2) + ((y \div 16) % 2)
  BY <1>4, <1>5, <1>6 DEF Six, BitsAre
<1>9. Six(bytes, n + 12) = 32 * ((y \div 8) % 2) + 16 * ((y \div 4) % 2) + 8 * ((y \div 2) % 2)
                      + 4 * ((y \div 1) % 2) + 2 * ((z \div 128) % 2) + ((z \div 64) % 2)
  BY <1>4, <1>5, <1>6 DEF Six, BitsAre
<1>10. Six(bytes, n + 18) = 32 * ((z \div 32) % 2) + 16 * ((z \div 16) % 2) + 8 * ((z \div 8) % 2)
                      + 4 * ((z \div 4) % 2) + 2 * ((z \div 2) % 2) + ((z \div 1) % 2)
  BY <1>4, <1>5, <1>6 DEF Six, BitsAre
<1>11. Six(bytes, n) = x \div 4
  BY <1>3, <1>7
<1>12. Six(bytes, n + 6) = 16 * (x % 4) + (y \div 16)
  BY <1>3, <1>8
<1>13. Six(bytes, n + 12) = 4 * (y % 16) + (z \div 64)
  BY <1>3, <1>9
<1>14. Six(bytes, n + 18) = z % 64
  BY <1>3, <1>10
<1> QED BY <1>3, <1>11, <1>12, <1>13, <1>14 DEF n, x, y, z

LEMMA Powers64 == 64^0 = 1 /\ 64^1 = 64 /\ 64^2 = 4096 /\ 64^3 = 262144
OBVIOUS

SextetsOf(v, x, y, z) ==
  /\ (v \div 262144) % 64 = x \div 4
  /\ (v \div 4096) % 64 = 16 * (x % 4) + (y \div 16)
  /\ (v \div 64) % 64 = 4 * (y % 16) + (z \div 64)
  /\ (v \div 1) % 64 = z % 64

LEMMA Grouped ==
  ASSUME NEW x \in Nat, x < 256, NEW y \in Nat, y < 256, NEW z \in Nat, z < 256
  PROVE  SextetsOf(65536 * x + 256 * y + z, x, y, z)
<1> DEFINE v == 65536 * x + 256 * y + z
           p == x \div 4
           q == x % 4
           s == y \div 16
           t == y % 16
           a == z \div 64
           b == z % 64
<1>1. /\ p \in Nat /\ p < 64 /\ q \in Nat /\ q < 4 /\ x = 4 * p + q
      /\ s \in Nat /\ s < 16 /\ t \in Nat /\ t < 16 /\ y = 16 * s + t
      /\ a \in Nat /\ a < 4 /\ b \in Nat /\ b < 64 /\ z = 64 * a + b
  OBVIOUS
<1> HIDE DEF p, q, s, t, a, b
<1>2. v = 262144 * p + 65536 * q + 4096 * s + 256 * t + 64 * a + b
  BY <1>1
<1> HIDE DEF v
<1>3. v \div 262144 = p
  BY <1>1, <1>2
<1>4. v \div 4096 = 64 * p + (16 * q + s)
  BY <1>1, <1>2
<1>5. v \div 64 = 64 * (64 * p + 16 * q + s) + (4 * t + a)
  BY <1>1, <1>2
<1>6. v \div 1 = 64 * (4096 * p + 1024 * q + 64 * s + 4 * t + a) + b
  BY <1>1, <1>2
<1>7. /\ 16 * q + s \in Nat /\ 16 * q + s < 64 /\ 4 * t + a \in Nat /\ 4 * t + a < 64
      /\ 64 * p + 16 * q + s \in Nat /\ 4096 * p + 1024 * q + 64 * s + 4 * t + a \in Nat
  BY <1>1
<1>8. \A h \in Nat, l \in Nat : l < 64 => (64 * h + l) % 64 = l
  OBVIOUS
<1>9. p % 64 = p
  BY <1>1
<1>10. (v \div 4096) % 64 = 16 * q + s /\ (v \div 64) % 64 = 4 * t + a /\ (v \div 1) % 64 = b
  BY <1>1, <1>4, <1>5, <1>6, <1>7, <1>8
<1> QED BY <1>3, <1>9, <1>10 DEF SextetsOf, v, p, q, s, t, a, b

LEMMA GroupIs ==
  ASSUME NEW bytes \in Seq(Byte), NEW k \in Nat \ {0}
  PROVE  /\ (Group(bytes, (k - 1) \div 4) \div 64^(3 - ((k - 1) % 4))) % 64 = Six(bytes, 6 * (k - 1))
         /\ Six(bytes, 6 * (k - 1)) \in Sextet
<1> DEFINE g == (k - 1) \div 4
           r == (k - 1) % 4
           x == ByteAt(bytes, 3 * g + 1)
           y == ByteAt(bytes, 3 * g + 2)
           z == ByteAt(bytes, 3 * g + 3)
<1>1. g \in Nat /\ r \in {0, 1, 2, 3} /\ 6 * (k - 1) = 24 * g + 6 * r
  OBVIOUS
<1>2. Group(bytes, g) = 65536 * x + 256 * y + z
  BY DEF Group, ByteAt
<1> HIDE DEF g
<1>3. /\ x \in Nat /\ x < 256 /\ y \in Nat /\ y < 256 /\ z \in Nat /\ z < 256
      /\ Six(bytes, 24 * g) = x \div 4 /\ Six(bytes, 24 * g + 6) = 16 * (x % 4) + (y \div 16)
      /\ Six(bytes, 24 * g + 12) = 4 * (y % 16) + (z \div 64) /\ Six(bytes, 24 * g + 18) = z % 64
  BY <1>1, SixWithin
<1> DEFINE v == 65536 * x + 256 * y + z
<1> HIDE DEF x, y, z
<1>4. /\ (v \div 262144) % 64 = x \div 4 /\ (v \div 4096) % 64 = 16 * (x % 4) + (y \div 16)
      /\ (v \div 64) % 64 = 4 * (y % 16) + (z \div 64) /\ (v \div 1) % 64 = z % 64
  <2>1. x \in Nat /\ x < 256 /\ y \in Nat /\ y < 256 /\ z \in Nat /\ z < 256
    BY <1>3
  <2>2. SextetsOf(v, x, y, z)
    BY <2>1, Grouped
  <2> HIDE DEF v
  <2> QED BY <2>2 DEF SextetsOf
<1> DEFINE a == (v \div 262144) % 64
           b == (v \div 4096) % 64
           c == (v \div 64) % 64
           d == (v \div 1) % 64
<1>5. a \in Sextet /\ b \in Sextet /\ c \in Sextet /\ d \in Sextet
  <2>1. v \in Int
    BY <1>3
  <2> HIDE DEF v
  <2>2. a \in 0 .. 63 /\ b \in 0 .. 63 /\ c \in 0 .. 63 /\ d \in 0 .. 63
    BY <2>1
  <2> HIDE DEF a, b, c, d
  <2> QED BY <2>2 DEF Sextet, Pad
<1> HIDE DEF v
<1>6. /\ a = x \div 4 /\ b = 16 * (x % 4) + (y \div 16)
      /\ c = 4 * (y % 16) + (z \div 64) /\ d = z % 64
  BY <1>4
<1> HIDE DEF a, b, c, d
<1>7. /\ Six(bytes, 24 * g) = a /\ Six(bytes, 24 * g + 6) = b
      /\ Six(bytes, 24 * g + 12) = c /\ Six(bytes, 24 * g + 18) = d
  BY <1>3, <1>6
<1>8. Group(bytes, g) = v
  BY <1>2 DEF v
<1> DEFINE Goal == /\ (Group(bytes, g) \div 64^(3 - r)) % 64 = Six(bytes, 6 * (k - 1))
                   /\ Six(bytes, 6 * (k - 1)) \in Sextet
<1> HIDE DEF r
<1>9. Goal
  <2>1. CASE r = 0
    <3>1. 6 * (k - 1) = 24 * g /\ 64^(3 - r) = 262144
      BY <1>1, <2>1, Powers64
    <3>2. (Group(bytes, g) \div 64^(3 - r)) % 64 = a
      BY <1>8, <3>1 DEF a
    <3>3. Six(bytes, 6 * (k - 1)) = a
      BY <1>7, <3>1
    <3> QED BY <1>5, <3>2, <3>3
  <2>2. CASE r = 1
    <3>1. 6 * (k - 1) = 24 * g + 6 /\ 64^(3 - r) = 4096
      BY <1>1, <2>2, Powers64
    <3>2. (Group(bytes, g) \div 64^(3 - r)) % 64 = b
      BY <1>8, <3>1 DEF b
    <3>3. Six(bytes, 6 * (k - 1)) = b
      BY <1>7, <3>1
    <3> QED BY <1>5, <3>2, <3>3
  <2>3. CASE r = 2
    <3>1. 6 * (k - 1) = 24 * g + 12 /\ 64^(3 - r) = 64
      BY <1>1, <2>3, Powers64
    <3>2. (Group(bytes, g) \div 64^(3 - r)) % 64 = c
      BY <1>8, <3>1 DEF c
    <3>3. Six(bytes, 6 * (k - 1)) = c
      BY <1>7, <3>1
    <3> QED BY <1>5, <3>2, <3>3
  <2>4. CASE r = 3
    <3>1. 6 * (k - 1) = 24 * g + 18 /\ 64^(3 - r) = 1
      BY <1>1, <2>4, Powers64
    <3>2. (Group(bytes, g) \div 64^(3 - r)) % 64 = d
      BY <1>8, <3>1 DEF d
    <3>3. Six(bytes, 6 * (k - 1)) = d
      BY <1>7, <3>1
    <3> QED BY <1>5, <3>2, <3>3
  <2> QED BY <1>1, <2>1, <2>2, <2>3, <2>4
<1> QED BY <1>9 DEF g, r

(* Without its padding, what base64_encode writes is what RFC 4648 has. *)
LEMMA Encoded ==
  ASSUME NEW bytes \in Seq(Byte)
  PROVE  /\ Unpadded(Encode(bytes)) = Rfc4648(bytes)
         /\ Len(Encode(bytes)) = 4 * ((Len(bytes) + 2) \div 3)
<1> DEFINE N == 4 * ((Len(bytes) + 2) \div 3)
           C == (4 * Len(bytes) + 2) \div 3
           text == Encode(bytes)
           pads == {i \in DOMAIN text : text[i] = Pad}
<1>1. N \in Nat /\ C \in Nat /\ C <= N
  OBVIOUS
<1> HIDE DEF N, C
<1>2. text = [k \in 1 .. N |-> IF k > C THEN Pad ELSE Six(bytes, 6 * (k - 1))]
  <2>1. \A k \in 1 .. N : k \in Nat \ {0}
    BY <1>1
  <2> QED BY <2>1, GroupIs DEF Encode, N, C
<1>3. \A k \in 1 .. C : Six(bytes, 6 * (k - 1)) # Pad
  <2>1. \A k \in 1 .. C : k \in Nat \ {0}
    BY <1>1
  <2> QED BY <2>1, GroupIs, Distinct
<1> HIDE DEF text
<1>4. Len(text) = N /\ DOMAIN text = 1 .. N
  BY <1>1, <1>2
<1>5. \A k \in 1 .. N : k \in pads <=> k > C
  <2>1. \A k \in 1 .. N : ~(k > C) => k \in 1 .. C
    BY <1>1
  <2> QED BY <1>2, <1>3, <1>4, <2>1
<1>6. Rfc4648(bytes) = [k \in 1 .. C |-> Six(bytes, 6 * (k - 1))]
  BY DEF Rfc4648, C
<1>7. CASE pads = {}
  <2>1. N = C
    <3>1. N > C => N \in 1 .. N
      BY <1>1
    <3> QED BY <1>1, <1>5, <1>7, <3>1
  <2>2. text = [k \in 1 .. C |-> Six(bytes, 6 * (k - 1))]
    <3>1. \A k \in 1 .. C : ~(k > C)
      BY <1>1
    <3> QED BY <1>2, <2>1, <3>1
  <2> QED BY <1>4, <1>6, <1>7, <2>2 DEF Unpadded, text, N
<1>8. CASE pads # {}
  <2>1. pads \subseteq Nat
    BY <1>4
  <2>2. Min(pads) \in pads /\ \A n \in pads : Min(pads) <= n
    <3> HIDE DEF pads
    <3> QED BY <1>8, <2>1, MinOf
  <2>3. pads \subseteq 1 .. N
    BY <1>4
  <2> DEFINE p == Min(pads)
  <2>4. Unpadded(text) = SubSeq(text, 1, p - 1)
    BY <1>8 DEF Unpadded
  <2> HIDE DEF pads, p
  <2>5. p \in 1 .. N /\ p > C
    BY <1>5, <2>2, <2>3 DEF p
  <2>6. C + 1 \in pads
    BY <1>1, <1>5, <2>5
  <2>7. p - 1 = C
    BY <1>1, <2>2, <2>5, <2>6 DEF p
  <2>8. SubSeq(text, 1, C) = [k \in 1 .. C |-> text[k]]
    BY <1>1, <1>4
  <2>9. \A k \in 1 .. C : text[k] = Six(bytes, 6 * (k - 1))
    <3>1. \A k \in 1 .. C : k \in 1 .. N /\ ~(k > C)
      BY <1>1
    <3> QED BY <1>2, <3>1
  <2> QED BY <1>4, <1>6, <2>4, <2>7, <2>8, <2>9 DEF text, N
<1> QED BY <1>7, <1>8

(* What is signed, and its signature. *)
Join(f, g) ==
  [i \in 1 .. Len(f) + Len(g) |-> IF i <= Len(f) THEN f[i] ELSE g[i - Len(f)]]

LEMMA Joined ==
  ASSUME NEW f \in Seq(Byte), NEW g \in Seq(Byte)
  PROVE  f \o g \in Seq(Byte) /\ Len(f \o g) = Len(f) + Len(g) /\ f \o g = Join(f, g)
<1>1. /\ f \o g \in Seq(Byte) /\ Len(f \o g) = Len(f) + Len(g)
      /\ \A i \in 1 .. Len(f) + Len(g) : (f \o g)[i] = IF i <= Len(f) THEN f[i] ELSE g[i - Len(f)]
  BY ConcatProperties, Zenon
<1> DEFINE h == f \o g
<1>2. /\ h \in Seq(Byte) /\ Len(h) = Len(f) + Len(g)
      /\ \A i \in 1 .. Len(f) + Len(g) : h[i] = IF i <= Len(f) THEN f[i] ELSE g[i - Len(f)]
  BY <1>1, Zenon
<1> HIDE DEF h
<1>3. h = [i \in 1 .. Len(f) + Len(g) |-> h[i]]
  BY <1>2
<1>4. h = Join(f, g)
  BY <1>2, <1>3 DEF Join
<1> QED BY <1>2, <1>4 DEF h

IpLen == 4
MacLen == 6

Chain(f, g, h, z) ==
  LET u == Len(f) + Len(g)
      v == u + Len(h)
  IN  [i \in 1 .. v + Len(z) |-> IF i <= Len(f) THEN f[i]
                                 ELSE IF i <= u THEN g[i - Len(f)]
                                 ELSE IF i <= v THEN h[i - u]
                                 ELSE z[i - v]]

LEMMA Four ==
  ASSUME NEW f \in Seq(Byte), NEW g \in Seq(Byte), NEW h \in Seq(Byte), NEW z \in Seq(Byte)
  PROVE  f \o g \o h \o z = Chain(f, g, h, z)
<1> DEFINE u == Len(f) + Len(g)
           v == u + Len(h)
           w == v + Len(z)
<1> DEFINE a == f \o g
           b == a \o h
           c == b \o z
<1>1. a \in Seq(Byte) /\ Len(a) = u /\ a = Join(f, g)
  BY Joined
<1> HIDE DEF a
<1>2. b \in Seq(Byte) /\ Len(b) = v /\ b = Join(a, h)
  BY <1>1, Joined
<1> HIDE DEF b
<1>3. c \in Seq(Byte) /\ Len(c) = w /\ c = Join(b, z)
  BY <1>2, Joined
<1> HIDE DEF c
<1>4. u \in Nat /\ v \in Nat /\ w \in Nat /\ Len(f) \in Nat /\ Len(f) <= u /\ u <= v /\ v <= w
  OBVIOUS
<1> HIDE DEF u, v, w
<1>5. ASSUME NEW i \in 1 .. w
      PROVE  c[i] = IF i <= Len(f) THEN f[i]
                    ELSE IF i <= u THEN g[i - Len(f)]
                    ELSE IF i <= v THEN h[i - u]
                    ELSE z[i - v]
  <2>1. c[i] = IF i <= v THEN b[i] ELSE z[i - v]
    BY <1>2, <1>3 DEF Join
  <2>2. i <= v => b[i] = IF i <= u THEN a[i] ELSE h[i - u]
    <3>1. i <= v => i \in 1 .. v
      BY <1>4
    <3> QED BY <1>1, <1>2, <3>1 DEF Join
  <2>3. i <= u => a[i] = IF i <= Len(f) THEN f[i] ELSE g[i - Len(f)]
    <3>1. i <= u => i \in 1 .. u
      BY <1>4
    <3> QED BY <1>1, <3>1 DEF Join
  <2>4. (i <= Len(f) => i <= u) /\ (i <= u => i <= v)
    BY <1>4
  <2> QED BY <2>1, <2>2, <2>3, <2>4
<1>6. c = [i \in 1 .. w |-> c[i]]
  BY <1>3
<1>7. c = Chain(f, g, h, z)
  BY <1>5, <1>6 DEF Chain, u, v, w
<1> QED BY <1>7 DEF a, b, c

LEMMA AssembledIs ==
  ASSUME NEW chal \in [1 .. ChallengeLen -> Byte], NEW out,
         \A k \in 1 .. ChallengeLen : out[k] = chal[k]
  PROVE  Assemble(out) = chal \o Ip \o Mac \o <<0, 0, 0, 0, 0, 0>>
<1> DEFINE zeros == <<0, 0, 0, 0, 0, 0>>
<1>1. Ip \in [1 .. IpLen -> Byte] /\ Mac \in [1 .. MacLen -> Byte]
  BY ControlAssumption DEF IpLen, MacLen
<1>2. ChallengeLen = 16 /\ IpLen = 4 /\ MacLen = 6
  BY DEF ChallengeLen, IpLen, MacLen
<1>3. zeros = [i \in 1 .. MacLen |-> 0]
  <2>1. \A i \in 1 .. 6 : i = 1 \/ i = 2 \/ i = 3 \/ i = 4 \/ i = 5 \/ i = 6
    OBVIOUS
  <2> QED BY <1>2, <2>1
<1> HIDE DEF zeros
<1>4. zeros \in [1 .. MacLen -> Byte]
  BY <1>3, KeyLens
<1> DEFINE L == Len(chal)
           n == L + Len(Ip)
           w == n + Len(Mac)
           N == w + Len(zeros)
           Whole == [i \in 1 .. N |-> IF i <= L THEN chal[i]
                                      ELSE IF i <= n THEN Ip[i - L]
                                      ELSE IF i <= w THEN Mac[i - n]
                                      ELSE zeros[i - w]]
<1>5. /\ chal \in Seq(Byte) /\ Ip \in Seq(Byte) /\ Mac \in Seq(Byte) /\ zeros \in Seq(Byte)
      /\ L = ChallengeLen /\ Len(Ip) = IpLen /\ Len(Mac) = MacLen /\ Len(zeros) = MacLen
  <2>1. ChallengeLen \in Nat /\ IpLen \in Nat /\ MacLen \in Nat
    BY <1>2
  <2> QED BY <1>1, <1>4, <2>1
<1>6. chal \o Ip \o Mac \o zeros = Whole
  <2>1. chal \o Ip \o Mac \o zeros = Chain(chal, Ip, Mac, zeros)
    BY <1>5, Four
  <2> QED BY <2>1 DEF Chain
<1>7. n = 20 /\ w = 26 /\ N = 32 /\ L = 16
  BY <1>5, <1>2
<1> HIDE DEF n, w, N, L
<1>8. Assemble(out) = [i \in 1 .. N |-> IF i <= L THEN out[i]
                                        ELSE IF i <= n THEN Ip[i - L]
                                        ELSE IF i <= w THEN Mac[i - n] ELSE 0]
  BY <1>7 DEF Assemble
<1>9. \A i \in 1 .. N : ~(i <= w) => zeros[i - w] = 0
  <2>1. \A i \in 1 .. N : ~(i <= w) => i - w \in 1 .. MacLen
    BY <1>2, <1>7
  <2> QED BY <1>3, <2>1
<1>10. \A i \in 1 .. N : i <= L => out[i] = chal[i]
  <2>1. \A i \in 1 .. N : i <= L => i \in 1 .. L
    BY <1>7
  <2> QED BY <1>5, <2>1
<1>11. Assemble(out) = Whole
  BY <1>8, <1>9, <1>10
<1> QED BY <1>6, <1>11 DEF zeros

LEMMA SignedIs ==
  ASSUME NEW buf \in [1 .. ChallengeMax -> Byte]
  PROVE  Sign(buf) \in Seq(Byte) /\ Len(Sign(buf)) = 256
<1>1. SigLen = 256 /\ ChallengeMax = 32
  BY DEF SigLen, ChallengeMax
<1>2. ASSUME NEW i \in 1 .. SigLen
      PROVE  (buf[1 + ((i - 1) % Len(buf))] + i) % 256 \in Byte
  <2>1. Len(buf) = 32 /\ i \in Nat /\ i - 1 \in Nat
    <3>1. Len(buf) = ChallengeMax
      BY <1>1
    <3> QED BY <1>1, <3>1
  <2>2. 1 + ((i - 1) % 32) \in 1 .. ChallengeMax
    BY <1>1, <2>1
  <2>3. buf[1 + ((i - 1) % 32)] \in Nat
    BY <2>2, BytesAre
  <2> DEFINE w == buf[1 + ((i - 1) % 32)]
  <2>4. w + i \in Int
    BY <2>1, <2>3
  <2> HIDE DEF w
  <2>5. (w + i) % 256 \in Byte
    BY <2>4, IsByte
  <2> QED BY <2>1, <2>5 DEF w
<1>3. SigLen \in Nat
  BY <1>1
<1> DEFINE char[i \in 1 .. SigLen] == (buf[1 + ((i - 1) % Len(buf))] + i) % 256
<1>4. Sign(buf) = char
  BY DEF Sign
<1>5. \A i \in 1 .. SigLen : char[i] \in Byte
  BY <1>2
<1>6. DOMAIN char = 1 .. SigLen /\ char = [i \in 1 .. SigLen |-> char[i]]
  OBVIOUS
<1> HIDE DEF char
<1>7. char \in [1 .. SigLen -> Byte]
  BY <1>5, <1>6
<1>8. Sign(buf) \in Seq(Byte) /\ Len(Sign(buf)) = SigLen
  BY <1>3, <1>4, <1>7
<1> QED BY <1>1, <1>8

LEMMA Sent ==
  ASSUME NEW sig \in Seq(Byte), Len(sig) = 256
  PROVE  /\ Len(Encode(sig)) + 1 <= B64Max
         /\ Bounded(Unpadded(Encode(sig)), ResponseMax) = Rfc4648(sig)
<1>1. Len(Encode(sig)) = 344
  <2>1. Len(Encode(sig)) = 4 * ((Len(sig) + 2) \div 3)
    BY Encoded
  <2>2. 4 * ((256 + 2) \div 3) = 344
    OBVIOUS
  <2> QED BY <2>1, <2>2
<1> DEFINE C == (4 * Len(sig) + 2) \div 3
           text == Rfc4648(sig)
<1>2. C = 342
  OBVIOUS
<1>3. C \in Nat
  BY <1>2
<1>4. text = [k \in 1 .. C |-> Six(sig, 6 * (k - 1))]
  BY DEF Rfc4648
<1> HIDE DEF C, text
<1>5. text \in [1 .. C -> Sextet]
  <2>1. \A k \in 1 .. C : k \in Nat \ {0}
    BY <1>3
  <2> QED BY <1>4, <2>1, GroupIs
<1>6. text \in Seq(Sextet) /\ Len(text) = C
  BY <1>3, <1>5
<1>7. ResponseMax = 399
  BY DEF ResponseMax
<1>8. Min({Len(text), ResponseMax}) = Len(text)
  <2>1. Len(text) = 342
    BY <1>2, <1>6
  <2>2. \A u, w \in Int : u <= w => Min({u, w}) = u
    BY MaxOfTwo
  <2> QED BY <1>7, <2>1, <2>2
<1>9. Bounded(text, ResponseMax) = text
  <2>1. SubSeq(text, 1, Len(text)) = text
    BY <1>6
  <2> QED BY <1>8, <2>1 DEF Bounded
<1>10. 344 + 1 <= B64Max
  BY DEF B64Max
<1> QED BY <1>1, <1>9, <1>10, Encoded DEF text

LEMMA ChallengeOptions ==
  ASSUME NEW q \in Questions, Options(q)
  PROVE  ChallengeIsMet'
<1> SUFFICES ASSUME q.challenge # <<>>
             PROVE  response' = Rfc4648(Sign(q.challenge \o Ip \o Mac \o <<0, 0, 0, 0, 0, 0>>))
  BY DEF Options, ChallengeIsMet
<1> DEFINE chal == FirstOf(q.headers, "Apple-Challenge")
           value == chal[1].value
           zeros == [i \in 1 .. ChallengeMax |-> 0]
           dec == DecodeInto(zeros, ChallengeMax, value)
           octets == Octets(Sextets(value))
<1>1. /\ IsList(q.headers, MaxHeaders) /\ chal # <<>> /\ value \in Seq(Char)
      /\ Means(value, ChallengeLen) = {q.challenge}
  BY QuestionsMean
<1>2. HeaderGet(q.headers, "Apple-Challenge") = chal
  BY <1>1, HeaderIs
<1>3. ChallengeLen = 16 /\ ChallengeMax = 32
  BY DEF ChallengeLen, ChallengeMax
<1>4. /\ ChallengeMax \in Nat /\ ChallengeMax \in 0 .. ChallengeMax /\ ChallengeLen \in 0 .. ChallengeMax
      /\ 0 \in Byte
  BY <1>3, KeyLens
<1>5. zeros \in [1 .. ChallengeMax -> Byte]
  BY <1>4
<1> HIDE DEF zeros, value
<1>6. /\ dec.out \in [1 .. ChallengeMax -> Byte] /\ dec.end # "failed" /\ dec.o = ChallengeLen
      /\ q.challenge = octets /\ DOMAIN octets = 1 .. ChallengeLen
      /\ \A k \in 1 .. ChallengeMax : dec.out[k] = IF k <= ChallengeLen THEN octets[k] ELSE zeros[k]
  <2>1. Means(value, ChallengeLen) # {}
    BY <1>1
  <2>2. /\ dec.out \in [1 .. ChallengeMax -> Byte]
        /\ dec.end # "failed" /\ dec.o = ChallengeLen <=> Means(value, ChallengeLen) # {}
        /\ Means(value, ChallengeLen) # {} =>
             /\ Means(value, ChallengeLen) = {octets} /\ Len(octets) = ChallengeLen
             /\ DOMAIN octets = 1 .. ChallengeLen
             /\ \A k \in 1 .. ChallengeMax :
                  dec.out[k] = IF k <= ChallengeLen THEN octets[k] ELSE zeros[k]
    <3>1. value \in Seq(Char)
      BY <1>1
    <3>2. ChallengeMax \in Nat /\ ChallengeMax \in 0 .. ChallengeMax /\ ChallengeLen \in 0 .. ChallengeMax
      BY <1>4
    <3> QED BY <1>5, <3>1, <3>2, DecodedMeans
  <2> HIDE DEF dec, octets
  <2>3. q.challenge = octets
    BY <1>1, <2>1, <2>2
  <2> QED BY <2>1, <2>2, <2>3
<1> DEFINE text == Encode(Sign(Assemble(dec.out)))
<1>7. response' = IF /\ chal # <<>> /\ dec.end # "failed" /\ dec.o = ChallengeLen
                     /\ Len(text) + 1 <= B64Max
                  THEN Bounded(Unpadded(text), ResponseMax)
                  ELSE <<>>
  BY <1>2 DEF Options, zeros, value
<1>8. octets = [k \in 1 .. ChallengeLen |-> octets[k]]
  <2>1. octets = [k \in 1 .. (3 * Len(Sextets(value))) \div 4 |-> Eight(Sextets(value), 8 * (k - 1))]
    BY DEF Octets
  <2> HIDE DEF octets
  <2> QED BY <1>6, <2>1
<1> HIDE DEF dec, octets
<1>9. \A k \in 1 .. ChallengeLen : octets[k] = dec.out[k] /\ dec.out[k] \in Byte
  <2>1. \A k \in 1 .. ChallengeLen : k \in 1 .. ChallengeMax /\ k <= ChallengeLen
    BY <1>3
  <2> QED BY <1>6, <2>1
<1>10. octets \in [1 .. ChallengeLen -> Byte]
  BY <1>8, <1>9
<1>11. Assemble(dec.out) = octets \o Ip \o Mac \o <<0, 0, 0, 0, 0, 0>>
  BY <1>9, <1>10, AssembledIs
<1>12. Assemble(dec.out) \in [1 .. ChallengeMax -> Byte]
  <2>1. Ip \in [1 .. IpLen -> Byte] /\ Mac \in [1 .. MacLen -> Byte]
    BY ControlAssumption DEF IpLen, MacLen
  <2>2. \A i \in 1 .. ChallengeMax :
          /\ i <= 16 => i \in 1 .. ChallengeLen
          /\ ~(i <= 16) /\ i <= 20 => i - 16 \in 1 .. IpLen
          /\ ~(i <= 20) /\ i <= 26 => i - 20 \in 1 .. MacLen
    BY <1>3 DEF IpLen, MacLen
  <2>3. \A i \in 1 .. ChallengeMax : (IF i <= 16 THEN dec.out[i]
                                      ELSE IF i <= 20 THEN Ip[i - 16]
                                      ELSE IF i <= 26 THEN Mac[i - 20] ELSE 0) \in Byte
    BY <1>4, <1>9, <2>1, <2>2
  <2>4. Assemble(dec.out) = [i \in 1 .. ChallengeMax |-> IF i <= 16 THEN dec.out[i]
                                      ELSE IF i <= 20 THEN Ip[i - 16]
                                      ELSE IF i <= 26 THEN Mac[i - 20] ELSE 0]
    BY <1>3 DEF Assemble
  <2> QED BY <2>3, <2>4
<1> DEFINE sig == Sign(Assemble(dec.out))
<1>13. sig \in Seq(Byte) /\ Len(sig) = 256
  BY <1>12, SignedIs
<1>14. Len(text) + 1 <= B64Max /\ Bounded(Unpadded(text), ResponseMax) = Rfc4648(sig)
  <2> HIDE DEF sig
  <2>1. Len(Encode(sig)) + 1 <= B64Max /\ Bounded(Unpadded(Encode(sig)), ResponseMax) = Rfc4648(sig)
    BY <1>13, Sent
  <2> QED BY <2>1 DEF sig
<1> HIDE DEF text, chal
<1>15. response' = Rfc4648(sig)
  <2> HIDE DEF sig
  <2> QED BY <1>1, <1>6, <1>7, <1>14 DEF chal
<1> QED BY <1>6, <1>11, <1>15

LEMMA ChallengeNext == ChallengeIsMet /\ [Next]_vars => ChallengeIsMet'
<1> SUFFICES ASSUME ChallengeIsMet, [Next]_vars PROVE ChallengeIsMet'
  OBVIOUS
<1>1. ASSUME NEW q \in Questions, Options(q) PROVE ChallengeIsMet'
  BY <1>1, ChallengeOptions
<1>2. ASSUME NEW body \in Announcements, Announce(body) PROVE ChallengeIsMet'
  BY <1>2 DEF Announce, ChallengeIsMet
<1>3. ASSUME NEW t \in Transports, Setup(t) PROVE ChallengeIsMet'
  BY <1>3 DEF Setup, ChallengeIsMet
<1>4. ASSUME NEW t \in Types, NEW lines \in Volumes, SetParameterText(t, lines)
      PROVE  ChallengeIsMet'
  BY <1>4 DEF SetParameterText, options, ChallengeIsMet
<1>5. ASSUME NEW t \in Types, NEW items \in Tracks, NEW n, SetParameterTrack(t, items, n)
      PROVE  ChallengeIsMet'
  BY <1>5 DEF SetParameterTrack, options, ChallengeIsMet
<1>6. CASE Teardown
  BY <1>6 DEF Teardown, ChallengeIsMet
<1>7. CASE UNCHANGED vars
  BY <1>7 DEF vars, options, ChallengeIsMet
<1> QED BY <1>1, <1>2, <1>3, <1>4, <1>5, <1>6, <1>7 DEF Next
-----------------------------------------------------------------------------
(* SET_PARAMETER with the volume. *)
LEMMA VolumeInit == Init => VolumeIInv
BY Q16Is DEF Init, VolumeIInv

LEMMA VolumeText ==
  ASSUME VolumeIInv, NEW t \in Types, NEW lines \in Volumes, SetParameterText(t, lines)
  PROVE  VolumeIInv'
<1> DEFINE line == VolumeLine(lines)
<1>1. /\ IsList(lines, Len(lines))
      /\ \A i \in DOMAIN lines : lines[i].number \in BOOLEAN /\ lines[i].db \in Int
  BY VolumesMean
<1>2. line # <<>> => line[1].db \in Int
  <2>1. ASSUME NEW i \in DOMAIN lines, line = <<lines[i]>>
        PROVE  line[1].db \in Int
    BY <1>1, <2>1
  <2>2. line = <<>> \/ \E i \in DOMAIN lines : line = <<lines[i]>>
    BY <1>1, FirstIs DEF VolumeLine
  <2> HIDE DEF line
  <2> QED BY <2>1, <2>2
<1>3. Kind(t) = "text/parameters" <=> t.means = "text/parameters"
  BY KindIs DEF MediaTypes
<1>4. slider' = IF t.means = "text/parameters" /\ line # <<>> /\ line[1].number
                THEN line[1].db ELSE slider
  BY DEF SetParameterText, Slides
<1>5. gain' = IF Kind(t) = "text/parameters" /\ line # <<>> /\ line[1].number
              THEN Q16(line[1].db) ELSE gain
  BY DEF SetParameterText, SetVolume, AudioSetVolume
<1> HIDE DEF line
<1> QED BY <1>2, <1>3, <1>4, <1>5 DEF VolumeIInv

LEMMA VolumeNext == VolumeIInv /\ [Next]_vars => VolumeIInv'
<1> SUFFICES ASSUME VolumeIInv, [Next]_vars PROVE VolumeIInv'
  OBVIOUS
<1>1. ASSUME NEW q \in Questions, Options(q) PROVE VolumeIInv'
  BY <1>1 DEF Options, VolumeIInv
<1>2. ASSUME NEW body \in Announcements, Announce(body) PROVE VolumeIInv'
  BY <1>2 DEF Announce, VolumeIInv
<1>3. ASSUME NEW t \in Transports, Setup(t) PROVE VolumeIInv'
  BY <1>3 DEF Setup, VolumeIInv
<1>4. ASSUME NEW t \in Types, NEW lines \in Volumes, SetParameterText(t, lines) PROVE VolumeIInv'
  BY <1>4, VolumeText
<1>5. ASSUME NEW t \in Types, NEW items \in Tracks, NEW n, SetParameterTrack(t, items, n)
      PROVE  VolumeIInv'
  BY <1>5 DEF SetParameterTrack, VolumeIInv
<1>6. CASE Teardown
  BY <1>6 DEF Teardown, VolumeIInv
<1>7. CASE UNCHANGED vars
  BY <1>7 DEF vars, VolumeIInv
<1> QED BY <1>1, <1>2, <1>3, <1>4, <1>5, <1>6, <1>7 DEF Next
-----------------------------------------------------------------------------
(* A track in a body: where its items are. *)
LEMMA TrackIs ==
  ASSUME NEW items \in Tracks
  PROVE  /\ Len(items) \in Nat /\ DOMAIN items = 1 .. Len(items)
         /\ \A i \in 1 .. Len(items) :
              /\ items[i].value \in Seq(Range(items[i].value)) /\ Len(items[i].value) \in Nat
              /\ items[i].inside \in Nat /\ items[i].excess \in Nat
              /\ LastIn(items, i) \in i .. Len(items)
              /\ items[i].inside > 0 => items[i].tag = "mlit"
              /\ items[i].tag = "mlit" => items[i].value = <<>>
              /\ \A j \in Around(items, i) : LastIn(items, i) <= LastIn(items, j)
              /\ items[i].excess > 0 =>
                   LastIn(items, i) \in {Len(items)} \cup {LastIn(items, j) : j \in Around(items, i)}
<1>1. /\ IsList(items, Len(items)) /\ WellNested(items)
      /\ \A i \in DOMAIN items :
           /\ IsList(items[i].value, Len(items[i].value))
           /\ items[i].inside \in Nat /\ items[i].excess \in Nat
  BY TracksMean
<1>2. Len(items) \in Nat /\ DOMAIN items = 1 .. Len(items)
  BY <1>1, ListIs
<1>3. ASSUME NEW i \in 1 .. Len(items)
      PROVE  /\ items[i].value \in Seq(Range(items[i].value)) /\ Len(items[i].value) \in Nat
             /\ LastIn(items, i) \in i .. Len(items)
  <2>1. IsList(items[i].value, Len(items[i].value))
    BY <1>1, <1>2
  <2>2. items[i].value \in Seq(Range(items[i].value)) /\ Len(items[i].value) \in Nat
    BY <2>1, ListIs
  <2>3. LastIn(items, i) <= Len(items) /\ items[i].inside \in Nat
    BY <1>1, <1>2 DEF WellNested
  <2> QED BY <1>2, <2>2, <2>3 DEF LastIn
<1> QED BY <1>1, <1>2, <1>3 DEF WellNested

(* The cells up to each item, as sums. *)
LEMMA CellsOfIs ==
  ASSUME NEW items \in Tracks
  PROVE  /\ CellsOf(items) \in [0 .. Len(items) -> Nat] /\ CellsOf(items)[0] = 0
         /\ \A i \in 1 .. Len(items) :
              CellsOf(items)[i] = CellsOf(items)[i - 1] + 2 + Len(items[i].value)
<1> DEFINE N == Len(items)
           add == [i \in 1 .. N |-> 2 + Len(items[i].value)]
           step == [p \in Nat \X (1 .. N) |-> p[1] + add[p[2]]]
           Body(f) == [i \in 0 .. N |-> IF i = 0 THEN 0 ELSE f[i - 1] + 2 + Len(items[i].value)]
<1>1. N \in Nat /\ \A i \in 1 .. N : Len(items[i].value) \in Nat
  BY TrackIs
<1> HIDE DEF N
<1>2. add \in [1 .. N -> Nat] /\ \A i \in 1 .. N : add[i] = 2 + Len(items[i].value)
  BY <1>1
<1> HIDE DEF add
<1>3. step \in [Nat \X (1 .. N) -> Nat]
  BY <1>2
<1>4. PICK st \in Runs(Nat, 0, N, step) : TRUE
  <2> HIDE DEF step
  <2>1. Runs(Nat, 0, N, step) # {}
    BY <1>1, <1>3, Iteration
  <2> QED BY <2>1, Zenon
<1>5. /\ st \in [0 .. N -> Nat] /\ st[0] = 0
      /\ \A i \in 1 .. N : st[i] = step[<<st[i - 1], i>>]
  <2> HIDE DEF step
  <2> QED BY <1>4 DEF Runs
<1>6. \A i \in 1 .. N : i - 1 \in 0 .. N /\ i \in 0 .. N /\ i # 0
  BY <1>1
<1>7. \A i \in 1 .. N : st[i] = st[i - 1] + 2 + Len(items[i].value)
  <2>1. \A i \in 1 .. N : st[i - 1] \in Nat /\ <<st[i - 1], i>> \in Nat \X (1 .. N)
    BY <1>5, <1>6
  <2>2. \A i \in 1 .. N : step[<<st[i - 1], i>>] = st[i - 1] + add[i]
    BY <2>1
  <2> HIDE DEF step
  <2>3. \A i \in 1 .. N : st[i] = st[i - 1] + (2 + Len(items[i].value))
    BY <1>2, <1>5, <2>2
  <2> TAKE i \in 1 .. N
  <2>4. st[i - 1] \in Nat /\ Len(items[i].value) \in Nat
    BY <1>1, <2>1
  <2>5. st[i] = st[i - 1] + (2 + Len(items[i].value))
    BY <2>3
  <2> QED BY <2>4, <2>5
<1>8. st = Body(st)
  <2>1. \A i \in 0 .. N : i # 0 => i \in 1 .. N
    BY <1>1
  <2> HIDE DEF step
  <2> QED BY <1>5, <1>7, <2>1
<1> DEFINE f == CHOOSE g : g = Body(g)
<1>9. f = Body(f)
  BY <1>8
<1>10. CellsOf(items) = f
  BY DEF CellsOf, N
<1> HIDE DEF f
<1>11. f[0] = 0 /\ \A i \in 1 .. N : f[i] = f[i - 1] + 2 + Len(items[i].value)
  BY <1>1, <1>6, <1>9
<1>12. \A i \in 0 .. N : f[i] \in Nat
  <2> DEFINE S == {i \in 0 .. N : f[i] \in Nat}
  <2>1. 0 \in S
    BY <1>1, <1>11
  <2>2. ASSUME NEW i \in 1 .. N, i - 1 \in S
        PROVE  i \in S
    <3>1. f[i - 1] \in Nat /\ Len(items[i].value) \in Nat
      BY <1>1, <2>2
    <3>2. f[i] = f[i - 1] + 2 + Len(items[i].value)
      BY <1>11
    <3>3. f[i] \in Nat
      BY <3>1, <3>2
    <3> QED BY <1>6, <3>3
  <2> HIDE DEF S
  <2>3. \A i \in 0 .. N : i \in S
    BY <1>1, <2>1, <2>2, Steps
  <2> QED BY <2>3 DEF S
<1>13. f \in [0 .. N -> Nat]
  BY <1>9, <1>12
<1> QED BY <1>10, <1>11, <1>13 DEF N

LEMMA CellsGrow ==
  ASSUME NEW items \in Tracks, NEW i \in 0 .. Len(items), NEW j \in 0 .. Len(items), i <= j
  PROVE  CellsOf(items)[i] <= CellsOf(items)[j]
<1> DEFINE U == CellsOf(items)
           N == Len(items) - i
           S == {k \in 0 .. N : U[i] <= U[i + k]}
<1>1. Len(items) \in Nat /\ \A k \in 1 .. Len(items) : Len(items[k].value) \in Nat
  BY TrackIs
<1>2. /\ U \in [0 .. Len(items) -> Nat]
      /\ \A k \in 1 .. Len(items) : U[k] = U[k - 1] + 2 + Len(items[k].value)
  BY CellsOfIs
<1> HIDE DEF U
<1>3. 0 \in S /\ N \in Nat
  BY <1>1, <1>2
<1>4. ASSUME NEW k \in 1 .. N, k - 1 \in S
      PROVE  k \in S
  <2>1. i + k \in 1 .. Len(items) /\ (i + k) - 1 \in 0 .. Len(items) /\ i + (k - 1) = (i + k) - 1
    BY <1>1
  <2>2. U[i + k] = U[(i + k) - 1] + 2 + Len(items[i + k].value) /\ Len(items[i + k].value) \in Nat
    BY <1>1, <1>2, <2>1
  <2>3. U[i] <= U[(i + k) - 1] /\ U[i] \in Nat /\ U[(i + k) - 1] \in Nat
    BY <1>2, <1>4, <2>1
  <2> DEFINE a == U[i]
             b == U[(i + k) - 1]
             v == Len(items[i + k].value)
             d == U[i + k]
  <2>4. a <= b /\ a \in Nat /\ b \in Nat /\ v \in Nat /\ d = b + 2 + v
    BY <2>2, <2>3
  <2> HIDE DEF a, b, v, d
  <2>5. a <= d
    BY <2>4
  <2>6. k \in 0 .. N
    BY <1>3
  <2> QED BY <2>5, <2>6 DEF a, d
<1> HIDE DEF S
<1>5. \A k \in 0 .. N : k \in S
  BY <1>3, <1>4, Steps
<1>6. j - i \in 0 .. N /\ i + (j - i) = j
  BY <1>1
<1> QED BY <1>5, <1>6 DEF S, U

(* How far an item goes by its own word. *)
Claimed(items, i) == CellsOf(items)[LastIn(items, i)] + items[i].excess

CellAt(items, i, c) ==
  IF c = 1 THEN items[i].tag
  ELSE IF c = 2 THEN Claimed(items, i) - CellsOf(items)[i - 1] - 2
  ELSE items[i].value[c - 2]

LEMMA CellsAre ==
  ASSUME NEW items \in Tracks
  PROVE  /\ Cells(items) \in Seq(Range(Cells(items)))
         /\ Len(Cells(items)) = CellsOf(items)[Len(items)]
         /\ \A i \in 1 .. Len(items) : \A c \in 1 .. 2 + Len(items[i].value) :
              /\ CellsOf(items)[i - 1] + c \in 1 .. CellsOf(items)[Len(items)]
              /\ Cells(items)[CellsOf(items)[i - 1] + c] = CellAt(items, i, c)
<1> DEFINE U == CellsOf(items)
           L == Len(items)
           Of(p) == CHOOSE i \in DOMAIN items : U[i - 1] < p /\ p <= U[i]
           Put(i, c) == CASE c = 1 -> items[i].tag
                          [] c = 2 -> U[LastIn(items, i)] - U[i - 1] - 2 + items[i].excess
                          [] OTHER -> items[i].value[c - 2]
<1>1. /\ L \in Nat /\ DOMAIN items = 1 .. L
      /\ \A i \in 1 .. L : /\ Len(items[i].value) \in Nat /\ items[i].excess \in Nat
                           /\ LastIn(items, i) \in i .. L
  BY TrackIs
<1>2. /\ U \in [0 .. L -> Nat] /\ U[0] = 0
      /\ \A i \in 1 .. L : U[i] = U[i - 1] + 2 + Len(items[i].value)
  BY CellsOfIs
<1>3. \A i, j \in 0 .. L : i <= j => U[i] <= U[j]
  BY CellsGrow
<1>4. Cells(items) = [p \in 1 .. U[L] |-> Put(Of(p), p - U[Of(p) - 1])]
  BY DEF Cells
<1> HIDE DEF U, Of, Put, L
<1>5. U[L] \in Nat
  BY <1>1, <1>2
<1>6. Len(Cells(items)) = U[L] /\ DOMAIN Cells(items) = 1 .. U[L]
  BY <1>4, <1>5
<1>7. Cells(items) \in Seq(Range(Cells(items)))
  <2>1. Cells(items) \in [1 .. U[L] -> Range(Cells(items))]
    BY <1>4, Zenon DEF Range
  <2> QED BY <1>5, <2>1
<1>8. ASSUME NEW i \in 1 .. L, NEW c \in 1 .. 2 + Len(items[i].value)
      PROVE  /\ U[i - 1] + c \in 1 .. U[L]
             /\ Cells(items)[U[i - 1] + c] = CellAt(items, i, c)
  <2> DEFINE p == U[i - 1] + c
  <2>1. /\ i - 1 \in 0 .. L /\ i \in 0 .. L /\ L \in 0 .. L /\ i <= L
        /\ U[i - 1] \in Nat /\ U[i] \in Nat /\ Len(items[i].value) \in Nat
        /\ U[i] = U[i - 1] + 2 + Len(items[i].value)
    <3>1. i - 1 \in 0 .. L /\ i \in 0 .. L /\ L \in 0 .. L /\ i <= L
      BY <1>1
    <3>2. U[i - 1] \in Nat /\ U[i] \in Nat
      BY <1>2, <3>1
    <3> QED BY <1>1, <1>2, <3>1, <3>2
  <2>2. U[i] <= U[L]
    BY <1>3, <2>1
  <2>3. U[i - 1] < p /\ p <= U[i] /\ p \in 1 .. U[L]
    <3>1. c \in Nat /\ 1 <= c /\ c <= 2 + Len(items[i].value)
      BY <2>1
    <3>2. p \in Nat /\ U[i - 1] < p /\ p <= U[i]
      <4> DEFINE a == U[i - 1]
                 v == Len(items[i].value)
                 b == U[i]
      <4>1. a \in Nat /\ v \in Nat /\ b = a + 2 + v /\ c \in Nat /\ 1 <= c /\ c <= 2 + v
        BY <2>1, <3>1
      <4> HIDE DEF a, v, b
      <4>2. a + c \in Nat /\ a < a + c /\ a + c <= b
        BY <4>1
      <4> QED BY <4>2 DEF a, b
    <3> HIDE DEF p
    <3> QED BY <1>5, <2>1, <2>2, <3>2
  <2>4. ASSUME NEW j \in 1 .. L, U[j - 1] < p, p <= U[j]
        PROVE  j = i
    <3>1. j \in 0 .. L /\ j - 1 \in 0 .. L /\ U[j] \in Nat /\ U[j - 1] \in Nat
      <4>1. j \in 0 .. L /\ j - 1 \in 0 .. L
        BY <1>1
      <4> QED BY <1>2, <4>1
    <3>2. CASE j < i
      <4>1. j <= i - 1
        BY <3>2, <1>1
      <4>2. U[j] <= U[i - 1]
        BY <1>3, <2>1, <3>1, <4>1
      <4> HIDE DEF p
      <4>3. p \in Nat
        BY <2>3, <1>5
      <4> QED BY <2>1, <2>3, <2>4, <3>1, <4>2, <4>3
    <3>3. CASE i < j
      <4>1. i <= j - 1
        BY <3>3, <1>1
      <4>2. U[i] <= U[j - 1]
        BY <1>3, <2>1, <3>1, <4>1
      <4> HIDE DEF p
      <4>3. p \in Nat
        BY <2>3, <1>5
      <4> QED BY <2>1, <2>3, <2>4, <3>1, <4>2, <4>3
    <3> QED BY <3>2, <3>3, <1>1
  <2>5. Of(p) = i
    <3> HIDE DEF p
    <3>1. \A j \in DOMAIN items : (U[j - 1] < p /\ p <= U[j]) <=> j = i
      BY <1>1, <2>3, <2>4
    <3> QED BY <1>1, <3>1 DEF Of
  <2>6. p - U[i - 1] = c
    BY <2>1
  <2>7. Cells(items)[p] = Put(i, c)
    <3> HIDE DEF p
    <3> QED BY <1>4, <2>3, <2>5, <2>6
  <2>8. Put(i, c) = CellAt(items, i, c)
    <3>1. LastIn(items, i) \in 0 .. L /\ items[i].excess \in Nat
      BY <1>1
    <3>2. U[LastIn(items, i)] \in Nat
      BY <1>2, <3>1
    <3>3. Claimed(items, i) = U[LastIn(items, i)] + items[i].excess
      BY DEF Claimed, U
    <3>4. Claimed(items, i) - U[i - 1] - 2 = U[LastIn(items, i)] - U[i - 1] - 2 + items[i].excess
      <4> DEFINE a == U[i - 1]
                 e == items[i].excess
                 b == U[LastIn(items, i)]
      <4>1. a \in Nat /\ e \in Nat /\ b \in Nat
        BY <2>1, <3>1, <3>2
      <4> HIDE DEF a, e, b
      <4>2. b + e - a - 2 = b - a - 2 + e
        BY <4>1
      <4>3. Claimed(items, i) = b + e
        BY <3>3 DEF b, e
      <4>4. Claimed(items, i) - a - 2 = b - a - 2 + e
        BY <4>1, <4>3
      <4> QED BY <4>4, Zenon DEF a, b, e
    <3> QED BY <3>4 DEF Put, CellAt, U
  <2> QED BY <2>3, <2>7, <2>8
<1> QED BY <1>6, <1>7, <1>8 DEF U, L

(* A body cut off after n cells: the header and the text of an item in it.    *)
LEMMA CutIs ==
  ASSUME NEW items \in Tracks, NEW n \in 0 .. Len(Cells(items))
  PROVE  /\ Len(SubSeq(Cells(items), 1, n)) = n /\ n \in Nat
         /\ SubSeq(Cells(items), 1, n) \in Seq(Range(Cells(items)))
         /\ \A p \in 1 .. n : SubSeq(Cells(items), 1, n)[p] = Cells(items)[p]
BY CellsAre

LEMMA HeaderCells ==
  ASSUME NEW items \in Tracks, NEW n \in 0 .. Len(Cells(items)), NEW i \in 1 .. Len(items),
         CellsOf(items)[i - 1] + 2 <= n
  PROVE  LET cells == SubSeq(Cells(items), 1, n)
             at == CellsOf(items)[i - 1]
         IN  /\ cells[at + 1] = items[i].tag
             /\ at + 2 + cells[at + 2] = Claimed(items, i)
<1> DEFINE cells == SubSeq(Cells(items), 1, n)
           at == CellsOf(items)[i - 1]
<1>1. /\ Len(items) \in Nat /\ Len(items[i].value) \in Nat /\ items[i].excess \in Nat
      /\ LastIn(items, i) \in i .. Len(items)
  BY TrackIs
<1>2. i - 1 \in 0 .. Len(items) /\ LastIn(items, i) \in 0 .. Len(items)
  BY <1>1
<1>3. at \in Nat /\ CellsOf(items)[LastIn(items, i)] \in Nat
  BY <1>2, CellsOfIs
<1>4. Claimed(items, i) \in Nat
  <2> DEFINE u == CellsOf(items)[LastIn(items, i)]
             x == items[i].excess
  <2>1. u \in Nat /\ x \in Nat /\ Claimed(items, i) = u + x
    BY <1>1, <1>3 DEF Claimed
  <2> HIDE DEF u, x
  <2> QED BY <2>1
<1>5. 1 \in 1 .. 2 + Len(items[i].value) /\ 2 \in 1 .. 2 + Len(items[i].value)
  BY <1>1
<1>6. /\ Cells(items)[at + 1] = CellAt(items, i, 1) /\ Cells(items)[at + 2] = CellAt(items, i, 2)
  BY <1>5, CellsAre
<1>7. n \in Nat /\ at + 1 \in 1 .. n /\ at + 2 \in 1 .. n
  BY <1>3, CutIs
<1>8. cells[at + 1] = Cells(items)[at + 1] /\ cells[at + 2] = Cells(items)[at + 2]
  BY <1>7, CutIs
<1>9. CellAt(items, i, 1) = items[i].tag /\ CellAt(items, i, 2) = Claimed(items, i) - at - 2
  BY DEF CellAt
<1> HIDE DEF cells, at
<1>10. cells[at + 1] = items[i].tag /\ cells[at + 2] = Claimed(items, i) - at - 2
  BY <1>6, <1>8, <1>9
<1>11. at + 2 + cells[at + 2] = Claimed(items, i)
  BY <1>3, <1>4, <1>10
<1> QED BY <1>10, <1>11 DEF cells, at

LEMMA TextCells ==
  ASSUME NEW items \in Tracks, NEW n \in 0 .. Len(Cells(items)), NEW i \in 1 .. Len(items),
         CellsOf(items)[i] <= n
  PROVE  SubSeq(SubSeq(Cells(items), 1, n), CellsOf(items)[i - 1] + 3, CellsOf(items)[i])
           = items[i].value
<1> DEFINE cells == SubSeq(Cells(items), 1, n)
           a == CellsOf(items)[i - 1]
           b == CellsOf(items)[i]
           value == items[i].value
           R == Range(Cells(items))
           V == Range(value)
<1>1. Len(value) \in Nat /\ value \in Seq(V) /\ Len(items) \in Nat
  BY TrackIs
<1>2. a \in Nat /\ b = a + 2 + Len(value)
  <2>1. i - 1 \in 0 .. Len(items)
    BY <1>1
  <2> QED BY <2>1, CellsOfIs
<1>3. Len(cells) = n /\ n \in Nat /\ cells \in Seq(R) /\ \A p \in 1 .. n : cells[p] = Cells(items)[p]
  BY CutIs
<1>4. \A k \in 1 .. Len(value) : cells[a + 2 + k] = value[k]
  <2> TAKE k \in 1 .. Len(value)
  <2>1. k + 2 \in 1 .. 2 + Len(value) /\ k + 2 # 1 /\ k + 2 # 2 /\ (k + 2) - 2 = k
    BY <1>1
  <2>2. Cells(items)[a + (k + 2)] = CellAt(items, i, k + 2)
    BY <2>1, CellsAre
  <2>3. CellAt(items, i, k + 2) = value[k]
    BY <2>1 DEF CellAt
  <2> HIDE DEF a, b, value, cells
  <2>4. a + 2 + k \in 1 .. n /\ a + (k + 2) = a + 2 + k
    BY <1>1, <1>2, <1>3 DEF b
  <2> QED BY <1>3, <2>2, <2>3, <2>4
<1>5. b \in Nat /\ b <= n
  BY <1>1, <1>2
<1> HIDE DEF cells, a, b, value, R, V
<1> DEFINE s == SubSeq(cells, a + 3, b)
<1>6. Len(s) = Len(value) /\ s \in Seq(R)
  BY <1>1, <1>2, <1>3, <1>5
<1>7. \A k \in 1 .. Len(value) : s[k] = cells[a + 2 + k]
  <2> TAKE k \in 1 .. Len(value)
  <2>1. k \in 1 .. (b - (a + 3) + 1) /\ (a + 3) + k - 1 = a + 2 + k
    BY <1>1, <1>2
  <2> QED BY <1>1, <1>2, <1>3, <1>5, <2>1
<1> HIDE DEF s
<1>8. s = value
  BY <1>1, <1>4, <1>6, <1>7
<1> QED BY <1>8 DEF s, cells, a, b, value
-----------------------------------------------------------------------------
(* What counts of a body cut off after n cells: an item that is whole, and as  *)
(* are those around it, no deeper than MaxDepth; of those before item i, the   *)
(* last.                                                                    *)
Whole(items, n, i) == items[i].excess = 0 /\ CellsOf(items)[LastIn(items, i)] <= n
Texts(items, n, f) ==
  {i \in DOMAIN items : /\ items[i].tag = f
                        /\ \A j \in Around(items, i) \cup {i} : Whole(items, n, j)
                        /\ Cardinality(Around(items, i)) <= MaxDepth}
Newest(items, n, f, i) ==
  LET before == {j \in Texts(items, n, f) : j < i}
  IN  IF before = {} THEN <<>> ELSE <<Bounded(items[Max(before)].value, StrMax)>>

LEMMA NewestStays ==
  ASSUME NEW items \in Tracks, NEW n, NEW f, NEW i \in Nat, NEW k \in Nat, i <= k,
         \A j \in i .. k - 1 : j \notin Texts(items, n, f)
  PROVE  Newest(items, n, f, k) = Newest(items, n, f, i)
<1> DEFINE T == Texts(items, n, f)
<1>1. T \subseteq Nat
  BY TrackIs DEF Texts
<1> HIDE DEF T
<1>2. {j \in T : j < k} = {j \in T : j < i}
  <2>1. \A j \in T : j < k => j < i
    <3> TAKE j \in T
    <3>1. j \in i .. k - 1 => FALSE
      BY DEF T
    <3> QED BY <1>1, <3>1
  <2>2. \A j \in T : j < i => j < k
    BY <1>1
  <2> QED BY <2>1, <2>2
<1> QED BY <1>2, Zenon DEF Newest, T

LEMMA NewestTaken ==
  ASSUME NEW items \in Tracks, NEW n, NEW f, NEW i \in Texts(items, n, f)
  PROVE  Newest(items, n, f, i + 1) = <<Bounded(items[i].value, StrMax)>>
<1> DEFINE T == Texts(items, n, f)
           before == {j \in T : j < i + 1}
<1>1. T \subseteq 1 .. Len(items) /\ Len(items) \in Nat /\ i \in T
  BY TrackIs DEF Texts
<1> HIDE DEF T
<1>2. before \subseteq 0 .. Len(items) /\ i \in before /\ \A j \in before : j \in Nat /\ j <= i
  <2>1. \A j \in T : j \in Nat /\ j \in 0 .. Len(items)
    BY <1>1
  <2>2. i \in Nat
    BY <1>1
  <2>3. \A j \in T : j < i + 1 => j <= i
    BY <2>1, <2>2
  <2>4. before \subseteq 0 .. Len(items)
    BY <2>1
  <2>5. i \in before
    BY <1>1, <2>2
  <2>6. \A j \in before : j \in Nat /\ j <= i
    BY <2>1, <2>3
  <2> QED BY <2>4, <2>5, <2>6
<1> HIDE DEF before
<1>3. Max(before) \in before /\ \A j \in before : j <= Max(before)
  <2>1. before # {}
    BY <1>2
  <2> QED BY <1>1, <1>2, <2>1, MaxOf
<1>4. Max(before) = i
  <2>1. Max(before) \in Nat /\ Max(before) <= i
    BY <1>2, <1>3, Zenon
  <2>2. i \in Nat /\ i <= Max(before)
    BY <1>2, <1>3, Zenon
  <2> HIDE DEF T
  <2> QED BY <2>1, <2>2
<1>5. before # {}
  BY <1>2
<1>6. Newest(items, n, f, i + 1) = IF before = {} THEN <<>>
                                   ELSE <<Bounded(items[Max(before)].value, StrMax)>>
  BY Zenon DEF Newest, before, T
<1> QED BY <1>4, <1>5, <1>6

LEMMA BrokenInside ==
  ASSUME NEW items \in Tracks, NEW n, NEW f, NEW i \in 1 .. Len(items), ~Whole(items, n, i),
         NEW k \in i .. LastIn(items, i)
  PROVE  k \notin Texts(items, n, f)
<1>1. LastIn(items, i) \in i .. Len(items)
  BY TrackIs
<1>2. i \in Around(items, k) \cup {k}
  BY <1>1 DEF Around
<1> QED BY <1>2 DEF Texts

LEMMA BeyondEnd ==
  ASSUME NEW items \in Tracks, NEW n \in Nat, NEW f, NEW k \in 1 .. Len(items),
         CellsOf(items)[k] > n
  PROVE  k \notin Texts(items, n, f)
<1>1. LastIn(items, k) \in k .. Len(items) /\ Len(items) \in Nat
  BY TrackIs
<1>2. CellsOf(items)[k] <= CellsOf(items)[LastIn(items, k)]
  BY <1>1, CellsGrow
<1>3. CellsOf(items)[k] \in Nat /\ CellsOf(items)[LastIn(items, k)] \in Nat
  <2>1. k \in 0 .. Len(items) /\ LastIn(items, k) \in 0 .. Len(items)
    BY <1>1
  <2> QED BY <2>1, CellsOfIs
<1>4. ~(CellsOf(items)[LastIn(items, k)] <= n)
  BY <1>2, <1>3
<1> QED BY <1>4 DEF Texts, Whole

LEMMA TooDeep ==
  ASSUME NEW items \in Tracks, NEW n, NEW f, NEW i \in 1 .. Len(items),
         Cardinality(Around(items, i)) >= MaxDepth, NEW k \in i + 1 .. LastIn(items, i)
  PROVE  k \notin Texts(items, n, f)
<1>1. /\ LastIn(items, i) \in i .. Len(items) /\ Len(items) \in Nat
      /\ \A j \in Around(items, i) : LastIn(items, i) <= LastIn(items, j)
      /\ \A j \in 1 .. Len(items) : LastIn(items, j) \in Int
  BY TrackIs
<1>2. Around(items, i) \subseteq 1 .. i - 1 /\ Around(items, k) \subseteq 1 .. k - 1
  BY DEF Around
<1>3. IsFiniteSet(Around(items, i)) /\ IsFiniteSet(Around(items, k))
  <2>1. 1 \in Int /\ i - 1 \in Int /\ k - 1 \in Int
    BY <1>1
  <2>2. \A a, b \in Int : IsFiniteSet(a .. b)
    BY FS_Interval, Zenon
  <2>3. IsFiniteSet(1 .. i - 1) /\ IsFiniteSet(1 .. k - 1)
    BY <2>1, <2>2, Zenon
  <2> QED BY <1>2, <2>3, FS_Subset
<1>4. Around(items, i) \cup {i} \subseteq Around(items, k)
  <2>1. ASSUME NEW j \in Around(items, i)
        PROVE  j \in Around(items, k)
    <3>1. j \in 1 .. i - 1 /\ LastIn(items, i) <= LastIn(items, j)
      BY <1>1, <1>2
    <3>2. j \in 1 .. k - 1 /\ k <= LastIn(items, j)
      BY <1>1, <3>1
    <3> QED BY <3>2 DEF Around
  <2>2. i \in Around(items, k)
    BY <1>1 DEF Around
  <2> QED BY <2>1, <2>2
<1>5. i \notin Around(items, i)
  BY <1>2
<1>6. Cardinality(Around(items, i) \cup {i}) = Cardinality(Around(items, i)) + 1
  BY <1>3, <1>5, FS_AddElement
<1>7. Cardinality(Around(items, i) \cup {i}) <= Cardinality(Around(items, k))
  BY <1>3, <1>4, FS_Subset
<1>8. Cardinality(Around(items, i)) \in Nat /\ Cardinality(Around(items, k)) \in Nat
  BY <1>3, FS_CardinalityType
<1>9. ~(Cardinality(Around(items, k)) <= MaxDepth)
  <2> DEFINE above == Cardinality(Around(items, i))
             below == Cardinality(Around(items, k))
  <2>1. /\ above \in Nat /\ below \in Nat /\ MaxDepth \in Nat
        /\ above >= MaxDepth /\ above + 1 <= below
    BY <1>6, <1>7, <1>8, ControlAssumption
  <2> HIDE DEF above, below
  <2>2. ~(below <= MaxDepth)
    BY <2>1
  <2> QED BY <2>2 DEF below
<1> QED BY <1>9 DEF Texts
-----------------------------------------------------------------------------
(* The containers that the walk is in before item i, the innermost first: they *)
(* are whole, each is within those after it, and none else goes on to item i.  *)
Images(f, lo, hi) == {f[m] : m \in lo .. hi}
Open(items, n, i, c) ==
  /\ c \in Seq(1 .. Len(items)) /\ Len(c) <= MaxDepth
  /\ \A k \in 1 .. Len(c) :
       /\ c[k] < i /\ i - 1 <= LastIn(items, c[k]) /\ Whole(items, n, c[k])
       /\ Around(items, c[k]) = Images(c, k + 1, Len(c))
       /\ Cardinality(Around(items, c[k])) = Len(c) - k
  /\ \A j \in 1 .. i - 1 : i <= LastIn(items, j) => \E m \in 1 .. Len(c) : j = c[m]

(* The values of f from lo to hi are those of g from lo1 to hi1. *)
Alike(f, lo, hi, g, lo1, hi1) == Images(f, lo, hi) = Images(g, lo1, hi1)

LEMMA SameImages ==
  ASSUME NEW lo \in Nat, NEW hi \in Nat, NEW lo1, NEW hi1, lo1 = lo + 1, hi1 = hi + 1,
         NEW f, NEW g, \A m \in lo .. hi : g[m + 1] = f[m]
  PROVE  Alike(f, lo, hi, g, lo1, hi1)
<1> DEFINE G == {g[m] : m \in lo + 1 .. hi + 1}
           F == {f[m] : m \in lo .. hi}
<1>1. ASSUME NEW m \in lo .. hi
      PROVE  f[m] \in G
  <2>1. m + 1 \in lo + 1 .. hi + 1 /\ g[m + 1] = f[m]
    OBVIOUS
  <2> QED BY <2>1
<1>2. ASSUME NEW m \in lo + 1 .. hi + 1
      PROVE  g[m] \in F
  <2> DEFINE l == m - 1
  <2>1. l \in lo .. hi /\ l + 1 = m
    OBVIOUS
  <2> HIDE DEF l
  <2>2. g[m] = f[l]
    BY <2>1
  <2> QED BY <2>1, <2>2
<1>3. F \subseteq G
  BY <1>1
<1>4. G \subseteq F
  BY <1>2
<1> QED BY <1>3, <1>4, Zenon DEF Alike, Images

LEMMA Pushed ==
  ASSUME NEW S, NEW s \in Seq(S), NEW e \in S
  PROVE  /\ <<e>> \o s \in Seq(S) /\ Len(<<e>> \o s) = Len(s) + 1 /\ (<<e>> \o s)[1] = e
         /\ \A m \in 1 .. Len(s) : (<<e>> \o s)[m + 1] = s[m]
<1>1. <<e>> \in Seq(S) /\ Len(<<e>>) = 1 /\ <<e>>[1] = e
  OBVIOUS
<1>2. ASSUME NEW m \in 1 .. Len(s)
      PROVE  (<<e>> \o s)[m + 1] = s[m]
  BY <1>1
<1> QED BY <1>1, <1>2

LEMMA Popped ==
  ASSUME NEW S, NEW s \in Seq(S), s # <<>>
  PROVE  /\ Tail(s) \in Seq(S) /\ Len(Tail(s)) = Len(s) - 1 /\ Len(s) \in Nat \ {0}
         /\ Head(s) = s[1] /\ 1 \in 1 .. Len(s)
         /\ \A m \in 1 .. Len(s) - 1 : Tail(s)[m] = s[m + 1]
OBVIOUS

LEMMA OpenAround ==
  ASSUME NEW items \in Tracks, NEW n, NEW i \in 1 .. Len(items), NEW c, Open(items, n, i, c),
         c # <<>> => i <= LastIn(items, c[1])
  PROVE  /\ Around(items, i) = Images(c, 1, Len(c))
         /\ Cardinality(Around(items, i)) = Len(c)
<1>1. /\ Len(items) \in Nat
      /\ \A k \in 1 .. Len(items) :
           /\ LastIn(items, k) \in k .. Len(items)
           /\ \A j \in Around(items, k) : LastIn(items, k) <= LastIn(items, j)
  BY TrackIs
<1>2. \A k \in 1 .. Len(items) : LastIn(items, k) \in Nat
  BY <1>1
<1>3. c \in Seq(1 .. Len(items)) /\ Len(c) \in Nat /\ \A m \in 1 .. Len(c) : c[m] \in 1 .. Len(items)
  BY DEF Open
<1>4. CASE c = <<>>
  <2>1. Around(items, i) = {}
    <3>1. \A j \in 1 .. i - 1 : ~(i <= LastIn(items, j))
      BY <1>4 DEF Open
    <3> QED BY <3>1 DEF Around
  <2>2. Len(c) = 0 /\ Images(c, 1, Len(c)) = {}
    BY <1>4 DEF Images
  <2> QED BY <2>1, <2>2, FS_EmptySet
<1>5. CASE c # <<>>
  <2> DEFINE Rest == Images(c, 2, Len(c))
  <2>1. Len(c) >= 1 /\ 1 \in 1 .. Len(c)
    BY <1>3, <1>5
  <2>2. Around(items, c[1]) = Rest /\ Cardinality(Around(items, c[1])) = Len(c) - 1
    <3>1. 1 + 1 = 2
      OBVIOUS
    <3> QED BY <2>1, <3>1 DEF Open
  <2>3. Images(c, 1, Len(c)) = Rest \cup {c[1]}
    <3>1. \A m \in 1 .. Len(c) : m = 1 \/ m \in 2 .. Len(c)
      BY <1>3
    <3>2. \A m \in 2 .. Len(c) : m \in 1 .. Len(c)
      BY <1>3
    <3> QED BY <2>1, <3>1, <3>2 DEF Images
  <2>4. Around(items, i) = Images(c, 1, Len(c))
    <3>1. ASSUME NEW j \in Around(items, i)
          PROVE  j \in Images(c, 1, Len(c))
      <4>1. j \in 1 .. i - 1 /\ i <= LastIn(items, j)
        BY DEF Around
      <4> QED BY <4>1 DEF Open, Images
    <3>2. ASSUME NEW m \in 1 .. Len(c)
          PROVE  c[m] \in Around(items, i)
      <4>1. c[m] \in 1 .. i - 1
        <5>1. c[m] < i
          BY DEF Open
        <5> QED BY <1>3, <5>1
      <4>2. i <= LastIn(items, c[m])
        <5>1. CASE m = 1
          BY <1>5, <5>1
        <5>2. CASE m # 1
          <6>1. c[m] \in Around(items, c[1])
            BY <2>2, <5>2, <1>3 DEF Images
          <6>2. LastIn(items, c[1]) <= LastIn(items, c[m])
            BY <1>1, <1>3, <2>1, <6>1
          <6>3. i <= LastIn(items, c[1])
            BY <1>5
          <6>4. LastIn(items, c[1]) \in Nat /\ LastIn(items, c[m]) \in Nat
            <7>1. c[1] \in 1 .. Len(items) /\ c[m] \in 1 .. Len(items)
              BY <1>3, <2>1
            <7> QED BY <1>2, <7>1
          <6> QED BY <6>2, <6>3, <6>4
        <5> QED BY <5>1, <5>2
      <4> QED BY <4>1, <4>2 DEF Around
    <3> QED BY <3>1, <3>2 DEF Images
  <2>5. IsFiniteSet(Around(items, c[1])) /\ c[1] \notin Around(items, c[1])
    <3>1. Around(items, c[1]) \subseteq 1 .. c[1] - 1 /\ c[1] \in Nat
      BY <1>3, <2>1 DEF Around
    <3>2. IsFiniteSet(1 .. c[1] - 1)
      BY <3>1, FS_Interval
    <3> QED BY <3>1, <3>2, FS_Subset
  <2>6. Cardinality(Around(items, c[1]) \cup {c[1]}) = Cardinality(Around(items, c[1])) + 1
    BY <2>5, FS_AddElement
  <2> HIDE DEF Rest
  <2>7. Around(items, i) = Around(items, c[1]) \cup {c[1]}
    BY <2>2, <2>3, <2>4
  <2>8. Cardinality(Around(items, i)) = (Len(c) - 1) + 1
    BY <2>2, <2>6, <2>7
  <2>9. (Len(c) - 1) + 1 = Len(c)
    BY <1>3
  <2> QED BY <2>4, <2>8, <2>9
<1> QED BY <1>4, <1>5

LEMMA OpenLeave ==
  ASSUME NEW items \in Tracks, NEW n, NEW i \in 1 .. Len(items) + 1, NEW c, Open(items, n, i, c),
         c # <<>>, LastIn(items, c[1]) = i - 1
  PROVE  Open(items, n, i, Tail(c))
<1> DEFINE d == Tail(c)
<1>1. Len(items) \in Nat
  BY TrackIs
<1>2. /\ c \in Seq(1 .. Len(items)) /\ Len(c) \in Nat \ {0} /\ Len(d) = Len(c) - 1
      /\ d \in Seq(1 .. Len(items)) /\ 1 \in 1 .. Len(c)
      /\ \A m \in 1 .. Len(c) - 1 : d[m] = c[m + 1]
  BY Popped DEF Open
<1> HIDE DEF d
<1>3. Len(d) <= MaxDepth
  BY <1>2, ControlAssumption DEF Open
<1>4. ASSUME NEW k \in 1 .. Len(d)
      PROVE  /\ d[k] < i /\ i - 1 <= LastIn(items, d[k]) /\ Whole(items, n, d[k])
             /\ Around(items, d[k]) = Images(d, k + 1, Len(d))
             /\ Cardinality(Around(items, d[k])) = Len(d) - k
  <2>1. k + 1 \in 1 .. Len(c) /\ d[k] = c[k + 1] /\ Len(d) - k = Len(c) - (k + 1)
    BY <1>2
  <2>2. Images(c, (k + 1) + 1, Len(c)) = Images(d, k + 1, Len(d))
    <3> DEFINE lo == k + 1
               hi == Len(d)
               lo1 == (k + 1) + 1
               hi1 == Len(c)
    <3>1. /\ lo \in Nat /\ hi \in Nat /\ lo1 = lo + 1 /\ hi1 = hi + 1
          /\ \A m \in lo .. hi : c[m + 1] = d[m]
      BY <1>2
    <3> HIDE DEF lo, hi, lo1, hi1
    <3>2. Alike(d, lo, hi, c, lo1, hi1)
      BY <3>1, SameImages
    <3> QED BY <3>2 DEF Alike, lo, hi, lo1, hi1
  <2>3. /\ c[k + 1] < i /\ i - 1 <= LastIn(items, c[k + 1]) /\ Whole(items, n, c[k + 1])
        /\ Around(items, c[k + 1]) = Images(c, (k + 1) + 1, Len(c))
        /\ Cardinality(Around(items, c[k + 1])) = Len(c) - (k + 1)
    BY <2>1 DEF Open
  <2> QED BY <2>1, <2>2, <2>3
<1>5. ASSUME NEW j \in 1 .. i - 1, i <= LastIn(items, j)
      PROVE  \E m \in 1 .. Len(d) : j = d[m]
  <2>1. PICK m \in 1 .. Len(c) : j = c[m]
    BY <1>5 DEF Open
  <2>2. m # 1
    <3>1. ~(i <= i - 1)
      BY <1>1
    <3> QED BY <1>5, <2>1, <3>1
  <2>3. m - 1 \in 1 .. Len(d) /\ (m - 1) + 1 = m
    BY <1>2, <2>2
  <2>4. d[m - 1] = c[m]
    BY <1>2, <2>3
  <2> QED BY <2>1, <2>3, <2>4
<1>6. Open(items, n, i, d)
  BY <1>2, <1>3, <1>4, <1>5, Zenon DEF Open
<1> QED BY <1>6 DEF d

LEMMA OpenPass ==
  ASSUME NEW items \in Tracks, NEW n, NEW i \in 1 .. Len(items), NEW c, Open(items, n, i, c),
         c # <<>> => i <= LastIn(items, c[1])
  PROVE  Open(items, n, LastIn(items, i) + 1, c)
<1> DEFINE e == LastIn(items, i) + 1
<1>1. /\ Len(items) \in Nat
      /\ \A k \in 1 .. Len(items) :
           /\ LastIn(items, k) \in k .. Len(items)
           /\ \A j \in Around(items, k) : LastIn(items, k) <= LastIn(items, j)
  BY TrackIs
<1>2. LastIn(items, i) \in i .. Len(items) /\ e \in Nat /\ i < e /\ e - 1 = LastIn(items, i)
  <2>1. LastIn(items, i) \in i .. Len(items)
    BY <1>1
  <2> DEFINE l == LastIn(items, i)
  <2>2. l \in Nat /\ i \in Nat /\ i <= l
    BY <1>1, <2>1
  <2> HIDE DEF l
  <2>3. l + 1 \in Nat /\ i < l + 1 /\ (l + 1) - 1 = l
    BY <2>2
  <2> QED BY <2>1, <2>3 DEF l
<1>3. Around(items, i) = Images(c, 1, Len(c))
  BY OpenAround
<1>4. /\ c \in Seq(1 .. Len(items)) /\ Len(c) <= MaxDepth
      /\ \A k \in 1 .. Len(c) : c[k] \in 1 .. Len(items)
  BY DEF Open
<1> HIDE DEF e
<1>5. ASSUME NEW k \in 1 .. Len(c)
      PROVE  /\ c[k] < e /\ e - 1 <= LastIn(items, c[k]) /\ Whole(items, n, c[k])
             /\ Around(items, c[k]) = Images(c, k + 1, Len(c))
             /\ Cardinality(Around(items, c[k])) = Len(c) - k
  <2>1. c[k] < i /\ c[k] \in 1 .. Len(items)
    BY <1>4 DEF Open
  <2>2. c[k] < e
    BY <1>1, <1>2, <2>1
  <2>3. c[k] \in Around(items, i)
    BY <1>3 DEF Images
  <2>4. LastIn(items, i) <= LastIn(items, c[k])
    BY <1>1, <2>3
  <2> QED BY <1>2, <2>2, <2>4 DEF Open
<1>6. ASSUME NEW j \in 1 .. e - 1, e <= LastIn(items, j)
      PROVE  \E m \in 1 .. Len(c) : j = c[m]
  <2>1. j \in 1 .. Len(items)
    BY <1>1, <1>2
  <2>2. LastIn(items, j) \in Nat /\ LastIn(items, i) \in Nat
    BY <1>1, <2>1
  <2>3. CASE j < i
    <3>1. j \in 1 .. i - 1 /\ i <= LastIn(items, j)
      BY <1>1, <1>2, <1>6, <2>1, <2>2, <2>3
    <3> QED BY <3>1 DEF Open
  <2>4. CASE j = i
    <3>1. ~(e <= LastIn(items, i))
      BY <1>2, <2>2
    <3> QED BY <1>6, <2>4, <3>1
  <2>5. CASE i < j
    <3>1. i \in Around(items, j)
      <4>1. i \in 1 .. j - 1 /\ j <= LastIn(items, i)
        BY <1>1, <1>2, <2>1, <2>5
      <4> QED BY <4>1 DEF Around
    <3>2. LastIn(items, j) <= LastIn(items, i)
      BY <1>1, <2>1, <3>1
    <3>3. ~(e <= LastIn(items, j))
      BY <1>2, <2>2, <3>2
    <3> QED BY <1>6, <3>3
  <2> QED BY <2>1, <2>3, <2>4, <2>5
<1>7. Open(items, n, e, c)
  BY <1>4, <1>5, <1>6, Zenon DEF Open
<1> QED BY <1>7 DEF e

LEMMA OpenEnter ==
  ASSUME NEW items \in Tracks, NEW n, NEW i \in 1 .. Len(items), NEW c, Open(items, n, i, c),
         c # <<>> => i <= LastIn(items, c[1]), Whole(items, n, i), Len(c) + 1 <= MaxDepth
  PROVE  Open(items, n, i + 1, <<i>> \o c)
<1> DEFINE d == <<i>> \o c
<1>1. /\ Len(items) \in Nat
      /\ \A k \in 1 .. Len(items) :
           /\ LastIn(items, k) \in k .. Len(items)
           /\ \A j \in Around(items, k) : LastIn(items, k) <= LastIn(items, j)
  BY TrackIs
<1>2. c \in Seq(1 .. Len(items)) /\ Len(c) \in Nat /\ \A k \in 1 .. Len(c) : c[k] \in 1 .. Len(items)
  BY DEF Open
<1>3. /\ d \in Seq(1 .. Len(items)) /\ Len(d) = Len(c) + 1 /\ d[1] = i
      /\ \A m \in 1 .. Len(c) : d[m + 1] = c[m]
  BY <1>2, Pushed
<1>4. Around(items, i) = Images(c, 1, Len(c)) /\ Cardinality(Around(items, i)) = Len(c)
  BY OpenAround
<1>5. i - 1 + 1 = i /\ (i + 1) - 1 = i /\ i \in Nat
  BY <1>1
<1> HIDE DEF d
<1>6. \A k \in 1 .. Len(c) :
        Images(c, k + 1, Len(c)) = Images(d, (k + 1) + 1, Len(d))
  <2> TAKE k \in 1 .. Len(c)
  <2> DEFINE lo == k + 1
             hi == Len(c)
             lo1 == (k + 1) + 1
             hi1 == Len(d)
  <2>1. /\ lo \in Nat /\ hi \in Nat /\ lo1 = lo + 1 /\ hi1 = hi + 1
        /\ \A m \in lo .. hi : d[m + 1] = c[m]
    BY <1>2, <1>3
  <2> HIDE DEF lo, hi, lo1, hi1
  <2>2. Alike(c, lo, hi, d, lo1, hi1)
    BY <2>1, SameImages
  <2> QED BY <2>2 DEF Alike, lo, hi, lo1, hi1
<1>7. Images(c, 1, Len(c)) = Images(d, 1 + 1, Len(d))
  <2> DEFINE lo == 1
             hi == Len(c)
             lo1 == 1 + 1
             hi1 == Len(d)
  <2>1. /\ lo \in Nat /\ hi \in Nat /\ lo1 = lo + 1 /\ hi1 = hi + 1
        /\ \A m \in lo .. hi : d[m + 1] = c[m]
    BY <1>2, <1>3
  <2> HIDE DEF lo, hi, lo1, hi1
  <2>2. Alike(c, lo, hi, d, lo1, hi1)
    BY <2>1, SameImages
  <2> QED BY <2>2 DEF Alike, lo, hi, lo1, hi1
<1>8. ASSUME NEW k \in 1 .. Len(d)
      PROVE  /\ d[k] < i + 1 /\ (i + 1) - 1 <= LastIn(items, d[k]) /\ Whole(items, n, d[k])
             /\ Around(items, d[k]) = Images(d, k + 1, Len(d))
             /\ Cardinality(Around(items, d[k])) = Len(d) - k
  <2>1. CASE k = 1
    <3>1. d[k] = i /\ Len(d) - k = Len(c) /\ i < i + 1 /\ i <= LastIn(items, i)
      BY <1>1, <1>2, <1>3, <2>1
    <3> QED BY <1>4, <1>5, <1>7, <2>1, <3>1
  <2>2. CASE k # 1
    <3> DEFINE l == k - 1
    <3>1. l \in 1 .. Len(c) /\ l + 1 = k /\ Len(d) - k = Len(c) - l
      BY <1>2, <1>3, <2>2
    <3> HIDE DEF l
    <3>2. d[k] = c[l]
      BY <1>3, <3>1
    <3>3. /\ c[l] < i /\ Whole(items, n, c[l])
          /\ Around(items, c[l]) = Images(c, l + 1, Len(c))
          /\ Cardinality(Around(items, c[l])) = Len(c) - l
      BY <3>1 DEF Open
    <3>4. Images(c, l + 1, Len(c)) = Images(d, k + 1, Len(d))
      BY <1>6, <3>1
    <3>5. c[l] \in Around(items, i)
      BY <1>4, <3>1 DEF Images
    <3>6. LastIn(items, i) <= LastIn(items, c[l]) /\ c[l] \in 1 .. Len(items)
      BY <1>1, <1>2, <3>1, <3>5
    <3>7. i <= LastIn(items, i) /\ LastIn(items, i) \in Nat /\ LastIn(items, c[l]) \in Nat
      BY <1>1, <3>6
    <3>8. (i + 1) - 1 <= LastIn(items, c[l]) /\ c[l] < i + 1
      BY <1>5, <3>3, <3>6, <3>7
    <3> QED BY <3>1, <3>2, <3>3, <3>4, <3>8
  <2> QED BY <2>1, <2>2
<1>9. ASSUME NEW j \in 1 .. (i + 1) - 1, i + 1 <= LastIn(items, j)
      PROVE  \E m \in 1 .. Len(d) : j = d[m]
  <2>1. CASE j = i
    <3>1. 1 \in 1 .. Len(d)
      BY <1>2, <1>3
    <3> QED BY <1>3, <2>1, <3>1
  <2>2. CASE j # i
    <3>1. j \in 1 .. i - 1 /\ j \in 1 .. Len(items)
      BY <1>1, <2>2
    <3>2. LastIn(items, j) \in Nat
      BY <1>1, <3>1
    <3>3. i <= LastIn(items, j)
      BY <1>5, <1>9, <3>2
    <3>4. PICK m \in 1 .. Len(c) : j = c[m]
      BY <3>1, <3>3 DEF Open
    <3>5. m + 1 \in 1 .. Len(d) /\ d[m + 1] = j
      BY <1>2, <1>3, <3>4
    <3> QED BY <3>5
  <2> QED BY <2>1, <2>2
<1>10. Len(d) <= MaxDepth
  BY <1>3
<1>11. Open(items, n, i + 1, d)
  BY <1>3, <1>8, <1>9, <1>10, Zenon DEF Open
<1> QED BY <1>11 DEF d
-----------------------------------------------------------------------------
(* Where the containers c end, and the body. *)
Ends(items, n, c) ==
  [k \in 1 .. Len(c) + 1 |-> IF k <= Len(c) THEN CellsOf(items)[LastIn(items, c[k])] ELSE n]

LEMMA EndsAre ==
  ASSUME NEW items \in Tracks, NEW n \in Nat, NEW c \in Seq(1 .. Len(items))
  PROVE  /\ Ends(items, n, c) \in Seq(Nat) /\ Len(Ends(items, n, c)) = Len(c) + 1
         /\ Ends(items, n, c) # <<>>
         /\ \A k \in 1 .. Len(c) : Ends(items, n, c)[k] = CellsOf(items)[LastIn(items, c[k])]
         /\ Ends(items, n, c)[Len(c) + 1] = n
<1> DEFINE e == Ends(items, n, c)
           N == Len(c) + 1
<1>1. Len(c) \in Nat /\ N \in Nat /\ N # 0
  OBVIOUS
<1>2. \A k \in 1 .. Len(c) : CellsOf(items)[LastIn(items, c[k])] \in Nat
  <2> TAKE k \in 1 .. Len(c)
  <2>1. c[k] \in 1 .. Len(items)
    OBVIOUS
  <2>2. LastIn(items, c[k]) \in 0 .. Len(items)
    BY <2>1, TrackIs
  <2> QED BY <2>2, CellsOfIs
<1>3. e = [k \in 1 .. N |-> IF k <= Len(c) THEN CellsOf(items)[LastIn(items, c[k])] ELSE n]
  BY DEF Ends
<1> HIDE DEF e
<1>4. \A k \in 1 .. N : ~(k <= Len(c)) => k = N
  BY <1>1
<1>5. \A k \in 1 .. Len(c) : k \in 1 .. N /\ k <= Len(c)
  BY <1>1
<1>6. N \in 1 .. N /\ ~(N <= Len(c))
  BY <1>1
<1> HIDE DEF N
<1>7. e \in [1 .. N -> Nat]
  <2>1. \A k \in 1 .. N : k <= Len(c) => k \in 1 .. Len(c)
    BY <1>1
  <2> QED BY <1>2, <1>3, <2>1
<1>8. e \in Seq(Nat) /\ Len(e) = N /\ e # <<>>
  BY <1>1, <1>7
<1>9. \A k \in 1 .. Len(c) : e[k] = CellsOf(items)[LastIn(items, c[k])]
  BY <1>3, <1>5
<1>10. e[N] = n
  BY <1>3, <1>6
<1> QED BY <1>8, <1>9, <1>10 DEF e, N

LEMMA EndsTop ==
  ASSUME NEW items \in Tracks, NEW n \in Nat
  PROVE  /\ Head(Ends(items, n, <<>>)) = n /\ Tail(Ends(items, n, <<>>)) = <<>>
         /\ Ends(items, n, <<>>) = <<n>> /\ Len(Ends(items, n, <<>>)) = 1
<1> DEFINE e == Ends(items, n, <<>>)
<1>1. <<>> \in Seq(1 .. Len(items)) /\ Len(<<>>) + 1 = 1
  OBVIOUS
<1>2. e \in Seq(Nat) /\ Len(e) = 1 /\ e[1] = n
  <2>1. e \in Seq(Nat) /\ Len(e) = Len(<<>>) + 1 /\ e[Len(<<>>) + 1] = n
    <3> DEFINE c == <<>>
    <3>1. c \in Seq(1 .. Len(items))
      OBVIOUS
    <3> HIDE DEF c
    <3>2. Ends(items, n, c) \in Seq(Nat) /\ Len(Ends(items, n, c)) = Len(c) + 1
          /\ Ends(items, n, c)[Len(c) + 1] = n
      BY <3>1, EndsAre
    <3> QED BY <3>2 DEF c
  <2> HIDE DEF e
  <2> QED BY <1>1, <2>1
<1> HIDE DEF e
<1>3. e = <<n>>
  <2> DEFINE s == <<n>>
  <2>1. s \in Seq(Nat) /\ Len(s) = 1 /\ \A k \in 1 .. Len(s) : s[k] = n
    OBVIOUS
  <2> HIDE DEF s
  <2>2. \A k \in 1 .. Len(s) : e[k] = s[k]
    <3>1. \A k \in 1 .. 1 : k = 1
      OBVIOUS
    <3> QED BY <1>2, <2>1, <3>1
  <2>3. e = s
    BY <1>2, <2>1, <2>2, SeqEqual
  <2> QED BY <2>3 DEF s
<1>4. Head(e) = n /\ Tail(e) = <<>>
  BY <1>3
<1> QED BY <1>2, <1>3, <1>4 DEF e

LEMMA EndsTail ==
  ASSUME NEW items \in Tracks, NEW n \in Nat, NEW c \in Seq(1 .. Len(items)), c # <<>>
  PROVE  /\ Head(Ends(items, n, c)) = CellsOf(items)[LastIn(items, c[1])]
         /\ Tail(Ends(items, n, c)) = Ends(items, n, Tail(c))
<1> DEFINE e == Ends(items, n, c)
           d == Tail(c)
           t == Ends(items, n, d)
           at(i) == CellsOf(items)[LastIn(items, i)]
<1>1. /\ d \in Seq(1 .. Len(items)) /\ Len(d) = Len(c) - 1 /\ Len(c) \in Nat \ {0}
      /\ 1 \in 1 .. Len(c) /\ \A m \in 1 .. Len(c) - 1 : d[m] = c[m + 1]
  BY Popped
<1> HIDE DEF d
<1>2. /\ e \in Seq(Nat) /\ Len(e) = Len(c) + 1 /\ e # <<>>
      /\ \A k \in 1 .. Len(c) : e[k] = CellsOf(items)[LastIn(items, c[k])]
      /\ e[Len(c) + 1] = n
  BY EndsAre
<1>3. /\ t \in Seq(Nat) /\ Len(t) = Len(d) + 1
      /\ \A k \in 1 .. Len(d) : t[k] = CellsOf(items)[LastIn(items, d[k])]
      /\ t[Len(d) + 1] = n
  <2>1. d \in Seq(1 .. Len(items))
    BY <1>1
  <2> QED BY <2>1, EndsAre
<1> HIDE DEF e, t
<1>4. /\ Tail(e) \in Seq(Nat) /\ Len(Tail(e)) = Len(e) - 1 /\ Head(e) = e[1]
      /\ \A m \in 1 .. Len(e) - 1 : Tail(e)[m] = e[m + 1]
  BY <1>2, Popped
<1>5. Len(Tail(e)) = Len(t) /\ Len(t) \in Nat
  <2>1. Len(Tail(e)) = (Len(c) + 1) - 1 /\ Len(t) = (Len(c) - 1) + 1
    BY <1>1, <1>2, <1>3, <1>4
  <2> QED BY <1>1, <2>1
<1>6. ASSUME NEW k \in 1 .. Len(t)
      PROVE  Tail(e)[k] = t[k]
  <2>1. Tail(e)[k] = e[k + 1]
    BY <1>4, <1>5
  <2>2. CASE k <= Len(d)
    <3>1. k \in 1 .. Len(d) /\ k \in 1 .. Len(c) - 1 /\ k + 1 \in 1 .. Len(c)
      BY <1>1, <1>3, <2>2
    <3>2. e[k + 1] = CellsOf(items)[LastIn(items, c[k + 1])]
      BY <1>2, <3>1
    <3>3. t[k] = CellsOf(items)[LastIn(items, d[k])] /\ d[k] = c[k + 1]
      BY <1>1, <1>3, <3>1
    <3> QED BY <2>1, <3>2, <3>3
  <2>3. CASE ~(k <= Len(d))
    <3>1. k = Len(d) + 1 /\ k + 1 = Len(c) + 1
      BY <1>1, <1>3, <2>3
    <3> QED BY <1>2, <1>3, <2>1, <3>1
  <2> QED BY <2>2, <2>3
<1>7. Tail(e) = t
  <2> DEFINE s == Tail(e)
  <2>1. s \in Seq(Nat) /\ t \in Seq(Nat) /\ Len(s) = Len(t)
    BY <1>3, <1>4, <1>5
  <2>2. \A k \in 1 .. Len(s) : s[k] = t[k]
    BY <1>5, <1>6
  <2> HIDE DEF s
  <2>3. s = t
    BY <2>1, <2>2, SeqEqual
  <2> QED BY <2>3 DEF s
<1> QED BY <1>1, <1>2, <1>4, <1>7 DEF e, t, d

LEMMA EndsPush ==
  ASSUME NEW items \in Tracks, NEW n \in Nat, NEW c \in Seq(1 .. Len(items)),
         NEW i \in 1 .. Len(items)
  PROVE  <<CellsOf(items)[LastIn(items, i)]>> \o Ends(items, n, c) = Ends(items, n, <<i>> \o c)
<1> DEFINE e == Ends(items, n, c)
           d == <<i>> \o c
           t == Ends(items, n, d)
           x == CellsOf(items)[LastIn(items, i)]
           s == <<x>> \o e
<1>1. /\ d \in Seq(1 .. Len(items)) /\ Len(d) = Len(c) + 1 /\ Len(c) \in Nat
      /\ d[1] = i /\ \A m \in 1 .. Len(c) : d[m + 1] = c[m]
  BY Pushed
<1> HIDE DEF d
<1>2. /\ e \in Seq(Nat) /\ Len(e) = Len(c) + 1
      /\ \A k \in 1 .. Len(c) : e[k] = CellsOf(items)[LastIn(items, c[k])]
      /\ e[Len(c) + 1] = n
  BY EndsAre
<1>3. /\ t \in Seq(Nat) /\ Len(t) = Len(d) + 1
      /\ \A k \in 1 .. Len(d) : t[k] = CellsOf(items)[LastIn(items, d[k])]
      /\ t[Len(d) + 1] = n
  BY <1>1, EndsAre
<1>4. x \in Nat
  <2>1. LastIn(items, i) \in 0 .. Len(items)
    BY TrackIs
  <2> QED BY <2>1, CellsOfIs
<1> HIDE DEF e, t, x
<1>5. /\ s \in Seq(Nat) /\ Len(s) = Len(e) + 1 /\ s[1] = x
      /\ \A m \in 1 .. Len(e) : s[m + 1] = e[m]
  BY <1>2, <1>4, Pushed
<1> HIDE DEF s
<1>6. Len(s) = Len(t) /\ Len(t) \in Nat
  BY <1>1, <1>2, <1>3, <1>5
<1>7. ASSUME NEW k \in 1 .. Len(t)
      PROVE  s[k] = t[k]
  <2>1. CASE k = 1
    <3>1. t[1] = CellsOf(items)[LastIn(items, d[1])]
      <4>1. 1 \in 1 .. Len(d)
        BY <1>1
      <4> QED BY <1>3, <4>1
    <3> QED BY <1>1, <1>5, <2>1, <3>1 DEF x
  <2>2. CASE k # 1
    <3> DEFINE l == k - 1
    <3>1. l \in 1 .. Len(e) /\ l + 1 = k
      BY <1>1, <1>2, <1>3, <2>2
    <3> HIDE DEF l
    <3>2. s[k] = e[l]
      BY <1>5, <3>1
    <3>3. CASE l <= Len(c)
      <4>1. l \in 1 .. Len(c) /\ l + 1 \in 1 .. Len(d)
        BY <1>1, <1>2, <3>1, <3>3
      <4>2. e[l] = CellsOf(items)[LastIn(items, c[l])]
        BY <1>2, <4>1
      <4>3. t[l + 1] = CellsOf(items)[LastIn(items, d[l + 1])] /\ d[l + 1] = c[l]
        BY <1>1, <1>3, <4>1
      <4> QED BY <3>1, <3>2, <4>2, <4>3
    <3>4. CASE ~(l <= Len(c))
      <4>1. l = Len(c) + 1 /\ k = Len(d) + 1
        BY <1>1, <1>2, <3>1, <3>4
      <4> QED BY <1>2, <1>3, <3>2, <4>1
    <3> QED BY <3>3, <3>4
  <2> QED BY <2>1, <2>2
<1>8. s = t
  <2>1. s \in Seq(Nat) /\ t \in Seq(Nat) /\ Len(s) = Len(t)
    BY <1>3, <1>5, <1>6
  <2>2. \A k \in 1 .. Len(s) : s[k] = t[k]
    BY <1>6, <1>7
  <2> QED BY <2>1, <2>2, SeqEqual
<1> QED BY <1>8 DEF s, t, e, d, x

(* One step of the walk, in a body with these cells. *)
At(at, ends, found) == [at |-> at, ends |-> ends, found |-> found]

Reads(cells, at, ends, found, new) ==
  LET from == at + 2
      next == from + cells[from]
      tag == cells[at + 1]
  IN  IF from > Head(ends) \/ next > Head(ends) THEN new = At(Head(ends), Tail(ends), found)
      ELSE IF tag = "mlit" /\ Len(ends) <= MaxDepth
           THEN new = At(from, <<next>> \o ends, found)
      ELSE IF tag \in Fields
           THEN new = At(next, ends,
                         [found EXCEPT ![tag] = <<Bounded(SubSeq(cells, from + 1, next), StrMax)>>])
      ELSE new = At(next, ends, found)

LEMMA WalkStepIs ==
  ASSUME NEW cells, NEW at, NEW ends, NEW V, NEW found \in [Fields -> V],
         ends # <<>>
  PROVE  Reads(cells, at, ends, found, WalkStep(cells, At(at, ends, found)))
BY DEF WalkStep, At, Reads
-----------------------------------------------------------------------------
(* The walk before item i, after k steps: it is in the containers c, has the  *)
(* newest texts before i, and a cell is read for every step and container.    *)
Found(items, n, i) == [f \in Fields |-> Newest(items, n, f, i)]
Walks(items, n, k, st, i, c) ==
  /\ i \in 1 .. Len(items) + 1 /\ Open(items, n, i, c)
  /\ st = At(CellsOf(items)[i - 1], Ends(items, n, c), Found(items, n, i))
  /\ CellsOf(items)[i - 1] <= n /\ k + Len(c) <= CellsOf(items)[i - 1]
Ended(items, n, st) == st = At(n, <<>>, Found(items, n, Len(items) + 1))
Walking(items, n, k, st) ==
  Ended(items, n, st) \/ \E i \in 1 .. Len(items) + 1, c \in Seq(1 .. Len(items)) :
                           Walks(items, n, k, st, i, c)

LEMMA SumsAre ==
  ASSUME NEW items \in Tracks
  PROVE  /\ Len(items) \in Nat /\ \A i \in 0 .. Len(items) : CellsOf(items)[i] \in Nat
         /\ \A i \in 1 .. Len(items) :
              /\ LastIn(items, i) \in i .. Len(items) /\ LastIn(items, i) \in Nat
              /\ CellsOf(items)[i - 1] \in Nat /\ CellsOf(items)[i] \in Nat
              /\ CellsOf(items)[LastIn(items, i)] \in Nat
              /\ CellsOf(items)[i] = CellsOf(items)[i - 1] + 2 + Len(items[i].value)
              /\ CellsOf(items)[i - 1] + 2 <= CellsOf(items)[i]
              /\ Len(items[i].value) \in Nat /\ items[i].excess \in Nat
         /\ \A i, j \in 0 .. Len(items) : i <= j => CellsOf(items)[i] <= CellsOf(items)[j]
<1> DEFINE L == Len(items)
           U == CellsOf(items)
<1>1. L \in Nat /\ \A i \in 1 .. L : /\ LastIn(items, i) \in i .. L
                                     /\ Len(items[i].value) \in Nat /\ items[i].excess \in Nat
  BY TrackIs
<1>2. \A i \in 0 .. L : U[i] \in Nat
  BY CellsOfIs
<1>3. \A i \in 1 .. L : U[i] = U[i - 1] + 2 + Len(items[i].value)
  BY CellsOfIs
<1>4. \A i, j \in 0 .. L : i <= j => U[i] <= U[j]
  BY CellsGrow
<1> HIDE DEF L, U
<1>5. ASSUME NEW i \in 1 .. L
      PROVE  /\ LastIn(items, i) \in i .. L /\ LastIn(items, i) \in Nat
             /\ U[i - 1] \in Nat /\ U[i] \in Nat
             /\ U[LastIn(items, i)] \in Nat
             /\ U[i] = U[i - 1] + 2 + Len(items[i].value)
             /\ U[i - 1] + 2 <= U[i]
             /\ Len(items[i].value) \in Nat /\ items[i].excess \in Nat
  <2>1. i \in 0 .. L /\ i - 1 \in 0 .. L
    BY <1>1
  <2>2. LastIn(items, i) \in 0 .. L /\ LastIn(items, i) \in Nat
    BY <1>1
  <2>3. U[i - 1] \in Nat /\ U[i] \in Nat /\ U[LastIn(items, i)] \in Nat
    BY <1>2, <2>1, <2>2
  <2>4. Len(items[i].value) \in Nat /\ U[i] = U[i - 1] + 2 + Len(items[i].value)
    BY <1>1, <1>3
  <2> DEFINE a == U[i - 1]
             b == U[i]
             v == Len(items[i].value)
  <2>5. a \in Nat /\ b \in Nat /\ v \in Nat /\ b = a + 2 + v
    BY <2>3, <2>4
  <2> HIDE DEF a, b, v
  <2>6. a + 2 <= b
    BY <2>5
  <2> QED BY <1>1, <2>2, <2>3, <2>4, <2>6 DEF a, b
<1> QED BY <1>1, <1>2, <1>4, <1>5 DEF L, U

LEMMA FoundStays ==
  ASSUME NEW items \in Tracks, NEW n, NEW i \in Nat, NEW k \in Nat, i <= k,
         \A f \in Fields : \A j \in i .. k - 1 : j \notin Texts(items, n, f)
  PROVE  Found(items, n, k) = Found(items, n, i)
<1>1. \A f \in Fields : Newest(items, n, f, k) = Newest(items, n, f, i)
  <2> TAKE f \in Fields
  <2>1. \A j \in i .. k - 1 : j \notin Texts(items, n, f)
    OBVIOUS
  <2> QED BY <2>1, NewestStays
<1> QED BY <1>1, Zenon DEF Found

(* Whether the next header lies within the innermost container. *)
LEMMA AtHeader ==
  ASSUME NEW items \in Tracks, NEW n \in 0 .. Len(Cells(items)), NEW i \in 1 .. Len(items) + 1,
         NEW c, Open(items, n, i, c), CellsOf(items)[i - 1] <= n,
         CellsOf(items)[i - 1] + 2 <= Head(Ends(items, n, c))
  PROVE  /\ i \in 1 .. Len(items) /\ (c # <<>> => i <= LastIn(items, c[1]))
         /\ Head(Ends(items, n, c)) <= n /\ CellsOf(items)[i - 1] + 2 <= n
<1> DEFINE L == Len(items)
           U == CellsOf(items)
           a == U[i - 1]
           end == Head(Ends(items, n, c))
<1>1. /\ L \in Nat /\ \A j \in 0 .. L : U[j] \in Nat
      /\ \A j \in 1 .. L : LastIn(items, j) \in j .. L
  BY SumsAre
<1>2. i - 1 \in 0 .. L /\ a \in Nat
  BY <1>1
<1>3. n \in Nat /\ n <= U[L]
  BY <1>1, CutIs, CellsAre
<1>4. a + 2 <= end
  OBVIOUS
<1>5. c \in Seq(1 .. L)
  BY DEF Open
<1>6. CASE c = <<>>
  <2>1. end = n
    BY <1>3, <1>6, EndsTop
  <2>2. i # L + 1
    <3>1. SUFFICES ASSUME i = L + 1 PROVE FALSE
      OBVIOUS
    <3>2. i - 1 = L
      BY <1>1, <3>1
    <3>3. a = U[L]
      BY <3>2
    <3> HIDE DEF a, end
    <3> QED BY <1>2, <1>3, <1>4, <2>1, <3>3
  <2>3. i \in 1 .. L
    BY <1>1, <2>2
  <2> QED BY <1>3, <1>4, <1>6, <2>1, <2>3
<1>7. CASE c # <<>>
  <2> DEFINE l == LastIn(items, c[1])
  <2>1. c[1] \in 1 .. L /\ 1 \in 1 .. Len(c)
    BY <1>5, <1>7
  <2>2. end = U[l]
    BY <1>3, <1>5, <1>7, EndsTail
  <2>3. l \in 1 .. L /\ l \in 0 .. L /\ l \in Nat
    BY <1>1, <2>1
  <2>4. i - 1 <= l /\ U[l] <= n
    BY <2>1 DEF Open, Whole
  <2>5. U[l] \in Nat
    BY <1>1, <2>3
  <2>6. i - 1 # l
    <3>1. SUFFICES ASSUME i - 1 = l PROVE FALSE
      OBVIOUS
    <3>2. a = U[l]
      BY <3>1
    <3> HIDE DEF a, end, l
    <3> QED BY <1>2, <1>4, <2>2, <3>2
  <2> HIDE DEF l
  <2>7. i <= l /\ i \in 1 .. L
    BY <1>1, <2>3, <2>4, <2>6
  <2>8. a + 2 <= n /\ end <= n
    <3> HIDE DEF a, end, U
    <3> QED BY <1>2, <1>3, <1>4, <2>2, <2>4, <2>5
  <2> QED BY <2>7, <2>8 DEF l
<1> QED BY <1>6, <1>7

(* An item that fits its container is whole.  One that does not is broken,    *)
(* and the last in its container; if it is in none, nothing after it counts.  *)
LEMMA ItemFits ==
  ASSUME NEW items \in Tracks, NEW n \in 0 .. Len(Cells(items)), NEW i \in 1 .. Len(items),
         NEW c, Open(items, n, i, c), c # <<>> => i <= LastIn(items, c[1])
  PROVE  /\ items[i].excess > 0 =>
              LastIn(items, i) = IF c = <<>> THEN Len(items) ELSE LastIn(items, c[1])
         /\ c # <<>> => /\ LastIn(items, i) <= LastIn(items, c[1])
                        /\ c[1] \in 1 .. Len(items)
                        /\ CellsOf(items)[LastIn(items, i)] <= CellsOf(items)[LastIn(items, c[1])]
<1> DEFINE L == Len(items)
           U == CellsOf(items)
           last == LastIn(items, i)
<1>1. /\ L \in Nat
      /\ \A j \in 1 .. L : LastIn(items, j) \in j .. L /\ LastIn(items, j) \in Nat
      /\ \A j, k \in 0 .. L : j <= k => U[j] <= U[k]
  BY SumsAre
<1>2. /\ \A j \in Around(items, i) : last <= LastIn(items, j)
      /\ items[i].excess > 0 =>
           last \in {L} \cup {LastIn(items, j) : j \in Around(items, i)}
  BY TrackIs
<1>3. Around(items, i) = Images(c, 1, Len(c))
  BY OpenAround
<1>4. /\ c \in Seq(1 .. L) /\ Len(c) \in Nat
      /\ \A m \in 1 .. Len(c) : c[m] \in 1 .. L
      /\ c # <<>> => 1 \in 1 .. Len(c)
  <2>1. c \in Seq(1 .. L)
    BY DEF Open
  <2> DEFINE S == 1 .. L
  <2>2. c \in Seq(S)
    BY <2>1
  <2> HIDE DEF S
  <2>3. Len(c) \in Nat /\ (\A m \in 1 .. Len(c) : c[m] \in S) /\ (c # <<>> => 1 \in 1 .. Len(c))
    BY <2>2
  <2> QED BY <2>1, <2>3 DEF S
<1>5. last \in 0 .. L /\ last \in Nat /\ last <= L
  BY <1>1
<1> HIDE DEF last, L
<1>6. CASE c = <<>>
  <2>1. Around(items, i) = {}
    BY <1>3, <1>6 DEF Images
  <2>2. items[i].excess > 0 => last = L
    BY <1>2, <2>1
  <2> QED BY <1>6, <2>2 DEF last, L
<1>7. CASE c # <<>>
  <2> DEFINE l == LastIn(items, c[1])
  <2>1. c[1] \in 1 .. L /\ 1 \in 1 .. Len(c) /\ Len(c) \in Nat
    BY <1>4, <1>7
  <2>2. l \in 0 .. L /\ l \in Nat /\ l <= L
    BY <1>1, <2>1
  <2>3. c[1] \in Around(items, i)
    BY <1>3, <2>1 DEF Images
  <2>4. last <= l
    BY <1>2, <2>3
  <2>5. U[last] <= U[l]
    BY <1>1, <1>5, <2>2, <2>4
  <2>6. ASSUME NEW j \in Around(items, i) PROVE l <= LastIn(items, j) /\ LastIn(items, j) \in Nat
    <3>1. PICK m \in 1 .. Len(c) : j = c[m]
      BY <1>3 DEF Images
    <3>2. j \in 1 .. L
      BY <1>4, <3>1
    <3>3. CASE m = 1
      BY <1>1, <2>2, <3>1, <3>2, <3>3
    <3>4. CASE m # 1
      <4>1. m \in 2 .. Len(c) /\ 1 + 1 = 2
        BY <2>1, <3>4
      <4>2. Around(items, c[1]) = Images(c, 1 + 1, Len(c))
        BY <2>1 DEF Open
      <4>3. j \in Around(items, c[1])
        BY <3>1, <4>1, <4>2 DEF Images
      <4>4. \A x \in 1 .. Len(items) :
              \A y \in Around(items, x) : LastIn(items, x) <= LastIn(items, y)
        BY TrackIs
      <4> QED BY <1>1, <2>1, <3>2, <4>3, <4>4 DEF L
    <3> QED BY <3>3, <3>4
  <2> HIDE DEF l
  <2>7. items[i].excess > 0 => last = l
    <3>1. SUFFICES ASSUME items[i].excess > 0 PROVE last = l
      OBVIOUS
    <3>2. CASE last = L
      BY <1>5, <2>2, <2>4, <3>2
    <3>3. CASE last # L
      <4>1. PICK j \in Around(items, i) : last = LastIn(items, j)
        BY <1>2, <3>1, <3>3
      <4> QED BY <1>5, <2>2, <2>4, <2>6, <4>1
    <3> QED BY <3>2, <3>3
  <2> QED BY <1>7, <2>1, <2>4, <2>5, <2>7 DEF l, last, L
<1> QED BY <1>6, <1>7

LEMMA WalkingBy ==
  ASSUME NEW items, NEW n, NEW k, NEW st, NEW i, NEW c, Walks(items, n, k, st, i, c)
  PROVE  Walking(items, n, k, st)
<1>1. i \in 1 .. Len(items) + 1 /\ c \in Seq(1 .. Len(items))
  BY DEF Walks, Open
<1> QED BY <1>1 DEF Walking

(* The body is cut off, or ends, before the next header. *)
LEMMA WalkPastEnd ==
  ASSUME NEW items \in Tracks, NEW n \in 0 .. Len(Cells(items)), NEW k \in Nat,
         NEW st, NEW i \in 1 .. Len(items) + 1, NEW c, Walks(items, n, k, st, i, c),
         CellsOf(items)[i - 1] + 2 > Head(Ends(items, n, c))
  PROVE  Walking(items, n, k + 1,
                 At(Head(Ends(items, n, c)), Tail(Ends(items, n, c)), Found(items, n, i)))
<1> DEFINE L == Len(items)
           U == CellsOf(items)
           a == U[i - 1]
           end == Head(Ends(items, n, c))
           new == At(end, Tail(Ends(items, n, c)), Found(items, n, i))
<1>1. /\ L \in Nat /\ \A j \in 0 .. L : U[j] \in Nat
      /\ \A j \in 1 .. L : LastIn(items, j) \in j .. L /\ U[j - 1] + 2 <= U[j]
      /\ \A j, m \in 0 .. L : j <= m => U[j] <= U[m]
  BY SumsAre
<1>2. /\ i - 1 \in 0 .. L /\ a \in Nat /\ Open(items, n, i, c) /\ a <= n
      /\ k + Len(c) <= a /\ i \in Nat
  BY <1>1 DEF Walks
<1>3. n \in Nat
  BY CutIs
<1>4. c \in Seq(1 .. Len(items)) /\ Len(c) \in Nat
  BY <1>2 DEF Open
<1>5. a + 2 > end
  OBVIOUS
<1>6. CASE c = <<>>
  <2>1. end = n /\ Tail(Ends(items, n, c)) = <<>>
    BY <1>3, <1>6, EndsTop
  <2>2. ASSUME NEW f \in Fields, NEW j \in i .. (L + 1) - 1
        PROVE  j \notin Texts(items, n, f)
    <3>1. j \in 1 .. L /\ j \in 0 .. L /\ j - 1 \in 0 .. L /\ i - 1 <= j - 1
      BY <1>1, <1>2
    <3>2. a <= U[j - 1] /\ U[j - 1] + 2 <= U[j] /\ U[j] \in Nat /\ U[j - 1] \in Nat
      BY <1>1, <1>2, <3>1
    <3>3. U[j] > n
      <4> DEFINE p == U[j - 1]
                 q == U[j]
      <4>1. a <= p /\ p + 2 <= q /\ q \in Nat /\ p \in Nat /\ a + 2 > n
        BY <1>5, <2>1, <3>2
      <4> HIDE DEF a, p, q
      <4>2. q > n
        BY <1>2, <1>3, <4>1
      <4> QED BY <4>2 DEF q
    <3> QED BY <1>3, <3>1, <3>3, BeyondEnd
  <2>3. L + 1 \in Nat /\ i <= L + 1
    BY <1>1
  <2>4. Found(items, n, L + 1) = Found(items, n, i)
    BY <1>2, <2>2, <2>3, FoundStays
  <2>5. Ended(items, n, new)
    BY <2>1, <2>4, Zenon DEF Ended
  <2> QED BY <2>5 DEF Walking
<1>7. CASE c # <<>>
  <2> DEFINE l == LastIn(items, c[1])
             d == Tail(c)
  <2>1. c[1] \in 1 .. L /\ 1 \in 1 .. Len(c)
    BY <1>4, <1>7
  <2>2. end = U[l] /\ Tail(Ends(items, n, c)) = Ends(items, n, d)
    BY <1>3, <1>4, <1>7, EndsTail
  <2>3. l \in 1 .. L /\ l \in 0 .. L /\ l \in Nat
    BY <1>1, <2>1
  <2>4. i - 1 <= l
    BY <1>2, <2>1 DEF Open
  <2>5. i - 1 = l
    <3>1. SUFFICES ASSUME i - 1 # l PROVE FALSE
      OBVIOUS
    <3>2. i \in 1 .. L /\ i \in 0 .. L /\ i <= l
      <4> HIDE DEF l, a, end, L
      <4> QED BY <1>1, <1>2, <2>3, <2>4, <3>1
    <3>3. a + 2 <= U[i] /\ U[i] <= U[l] /\ U[i] \in Nat /\ U[l] \in Nat
      BY <1>1, <2>3, <3>2
    <3> DEFINE p == U[i]
    <3>4. a + 2 <= p /\ p <= end /\ p \in Nat /\ end \in Nat
      BY <2>2, <3>3
    <3> HIDE DEF p, a, end
    <3> QED BY <1>2, <1>5, <3>4
  <2>6. Open(items, n, i, d)
    BY <1>2, <1>7, <2>5, OpenLeave
  <2>7. d \in Seq(1 .. Len(items)) /\ Len(d) = Len(c) - 1
    BY <1>4, <1>7, Popped
  <2>8. new = At(U[i - 1], Ends(items, n, d), Found(items, n, i))
    BY <2>2, <2>5
  <2>9. U[i - 1] <= n /\ (k + 1) + Len(d) <= U[i - 1]
    <3>1. a <= n /\ (k + 1) + Len(d) <= a
      <4> HIDE DEF a, d
      <4> QED BY <1>2, <1>4, <2>7
    <3> QED BY <3>1
  <2> HIDE DEF new, d
  <2>10. Walks(items, n, k + 1, new, i, d)
    BY <2>6, <2>8, <2>9 DEF Walks
  <2>11. Walking(items, n, k + 1, new)
    BY <2>10, WalkingBy
  <2> QED BY <2>11 DEF new
<1> QED BY <1>6, <1>7

(* An item is longer than its container or than what there is of the body. *)
LEMMA WalkOverrun ==
  ASSUME NEW items \in Tracks, NEW n \in 0 .. Len(Cells(items)), NEW k \in Nat,
         NEW st, NEW i \in 1 .. Len(items) + 1, NEW c, Walks(items, n, k, st, i, c),
         CellsOf(items)[i - 1] + 2 <= Head(Ends(items, n, c)),
         Claimed(items, i) > Head(Ends(items, n, c))
  PROVE  Walking(items, n, k + 1,
                 At(Head(Ends(items, n, c)), Tail(Ends(items, n, c)), Found(items, n, i)))
<1> DEFINE L == Len(items)
           U == CellsOf(items)
           a == U[i - 1]
           last == LastIn(items, i)
           end == Head(Ends(items, n, c))
           new == At(end, Tail(Ends(items, n, c)), Found(items, n, i))
<1>1. /\ L \in Nat /\ \A j \in 0 .. L : U[j] \in Nat
      /\ \A j \in 1 .. L :
           /\ LastIn(items, j) \in j .. L /\ LastIn(items, j) \in Nat /\ items[j].excess \in Nat
           /\ U[j - 1] + 2 <= U[j] /\ U[j - 1] \in Nat /\ U[j] \in Nat
      /\ \A j, m \in 0 .. L : j <= m => U[j] <= U[m]
  BY SumsAre
<1>2. a \in Nat /\ Open(items, n, i, c) /\ a <= n /\ k + Len(c) <= a /\ i \in Nat
  <2>1. i - 1 \in 0 .. L /\ i \in Nat
    BY <1>1
  <2> QED BY <1>1, <2>1 DEF Walks
<1>3. n \in Nat
  BY CutIs
<1>4. c \in Seq(1 .. Len(items)) /\ Len(c) \in Nat
  BY <1>2 DEF Open
<1>5. i \in 1 .. L /\ (c # <<>> => i <= LastIn(items, c[1]))
  BY <1>2, AtHeader
<1>6. last \in i .. L /\ last \in Nat /\ items[i].excess \in Nat /\ U[last] \in Nat
  BY <1>5, SumsAre
<1>7. /\ items[i].excess > 0 =>
           last = IF c = <<>> THEN L ELSE LastIn(items, c[1])
      /\ c # <<>> => last <= LastIn(items, c[1]) /\ U[last] <= U[LastIn(items, c[1])]
  BY <1>2, <1>5, ItemFits
<1>8. U[last] + items[i].excess > end
  BY DEF Claimed
<1> HIDE DEF last
<1>9. CASE c = <<>>
  <2>1. end = n /\ Tail(Ends(items, n, c)) = <<>>
    BY <1>3, <1>9, EndsTop
  <2>2. ~Whole(items, n, i)
    <3>1. items[i].excess = 0 => U[last] > n
      BY <1>6, <1>8, <2>1
    <3>2. U[last] > n => ~(U[last] <= n)
      BY <1>3, <1>6
    <3> QED BY <3>1, <3>2 DEF Whole, last
  <2>3. ASSUME NEW f \in Fields, NEW j \in i .. (L + 1) - 1
        PROVE  j \notin Texts(items, n, f)
    <3>1. j \in 1 .. L /\ j \in i .. L /\ j \in 0 .. L
      BY <1>1, <1>5
    <3>2. CASE j <= last
      <4>1. j \in i .. LastIn(items, i)
        BY <1>6, <3>1, <3>2 DEF last
      <4> QED BY <1>5, <2>2, <4>1, BrokenInside
    <3>3. CASE ~(j <= last)
      <4>1. items[i].excess = 0
        <5>1. last # L
          BY <1>1, <1>6, <3>1, <3>3
        <5> QED BY <1>6, <1>7, <1>9, <5>1
      <4>2. last \in 0 .. L /\ last <= j
        BY <1>1, <1>5, <1>6, <3>1, <3>3
      <4>3. U[last] <= U[j] /\ U[j] \in Nat
        BY <1>1, <3>1, <4>2
      <4>4. U[last] > n
        BY <1>6, <1>8, <2>1, <4>1
      <4>5. U[j] > n
        BY <1>3, <1>6, <4>3, <4>4
      <4> QED BY <1>3, <3>1, <4>5, BeyondEnd
    <3> QED BY <3>2, <3>3
  <2>4. L + 1 \in Nat /\ i <= L + 1
    BY <1>1
  <2>5. Found(items, n, L + 1) = Found(items, n, i)
    BY <1>2, <2>3, <2>4, FoundStays
  <2>6. Ended(items, n, new)
    BY <2>1, <2>5, Zenon DEF Ended
  <2> QED BY <2>6 DEF Walking
<1>10. CASE c # <<>>
  <2> DEFINE l == LastIn(items, c[1])
             d == Tail(c)
             e == last + 1
  <2>1. c[1] \in 1 .. L /\ 1 \in 1 .. Len(c)
    BY <1>4, <1>10
  <2>2. end = U[l] /\ Tail(Ends(items, n, c)) = Ends(items, n, d)
    BY <1>3, <1>4, <1>10, EndsTail
  <2>3. l \in 0 .. L /\ l \in Nat /\ U[l] \in Nat /\ U[l] <= n
    <3>1. l \in 0 .. L /\ l \in Nat
      BY <1>1, <2>1
    <3>2. U[l] <= n
      BY <1>2, <2>1 DEF Open, Whole
    <3> QED BY <1>1, <3>1, <3>2
  <2>4. items[i].excess > 0
    <3>1. U[last] <= end /\ end \in Nat
      BY <1>7, <1>10, <2>2, <2>3
    <3> HIDE DEF end, U
    <3> QED BY <1>6, <1>8, <3>1
  <2>5. last = l /\ e - 1 = l
    BY <1>6, <1>7, <1>10, <2>4
  <2>6. ~Whole(items, n, i)
    BY <1>6, <2>4 DEF Whole
  <2>7. ASSUME NEW f \in Fields, NEW j \in i .. e - 1
        PROVE  j \notin Texts(items, n, f)
    <3>1. j \in i .. LastIn(items, i)
      BY <2>5 DEF last
    <3> QED BY <1>5, <2>6, <3>1, BrokenInside
  <2>8. e \in Nat /\ i <= e /\ e \in 1 .. L + 1
    BY <1>1, <1>5, <1>6
  <2>9. Open(items, n, e, c)
    BY <1>2, <1>5, OpenPass DEF last
  <2> HIDE DEF e
  <2>10. Found(items, n, e) = Found(items, n, i)
    BY <1>2, <2>7, <2>8, FoundStays
  <2>11. Open(items, n, e, d)
    BY <1>10, <2>5, <2>8, <2>9, OpenLeave
  <2>12. d \in Seq(1 .. Len(items)) /\ Len(d) = Len(c) - 1
    BY <1>4, <1>10, Popped
  <2>13. new = At(U[e - 1], Ends(items, n, d), Found(items, n, e))
    BY <2>2, <2>5, <2>10
  <2>14. U[e - 1] <= n /\ (k + 1) + Len(d) <= U[e - 1]
    <3>1. a <= U[l]
      <4>1. i - 1 \in 0 .. L /\ i - 1 <= l
        <5>1. i \in Nat /\ i \in 1 .. L /\ L \in Nat /\ i <= last /\ last = l /\ last \in Nat
          BY <1>1, <1>2, <1>5, <1>6, <2>5
        <5> HIDE DEF l, L
        <5> QED BY <5>1
      <4>2. U[i - 1] <= U[l]
        BY <1>1, <2>3, <4>1
      <4> QED BY <4>2
    <3> DEFINE b == U[l]
    <3>2. a <= b /\ b \in Nat /\ b <= n
      BY <2>3, <3>1
    <3> HIDE DEF a, b, d
    <3>3. (k + 1) + Len(d) <= b
      BY <1>2, <1>4, <2>12, <3>2
    <3> QED BY <2>5, <3>2, <3>3 DEF b
  <2> HIDE DEF new, d
  <2>15. Walks(items, n, k + 1, new, e, d)
    BY <2>8, <2>11, <2>13, <2>14 DEF Walks
  <2>16. Walking(items, n, k + 1, new)
    BY <2>15, WalkingBy
  <2> QED BY <2>16 DEF new
<1> QED BY <1>9, <1>10

(* An item that fits is whole. *)
LEMMA WholeIs ==
  ASSUME NEW items \in Tracks, NEW n \in 0 .. Len(Cells(items)), NEW i \in 1 .. Len(items),
         NEW c, Open(items, n, i, c), c # <<>> => i <= LastIn(items, c[1]),
         Head(Ends(items, n, c)) <= n, Claimed(items, i) <= Head(Ends(items, n, c))
  PROVE  Whole(items, n, i) /\ Claimed(items, i) = CellsOf(items)[LastIn(items, i)]
<1> DEFINE L == Len(items)
           U == CellsOf(items)
           last == LastIn(items, i)
           end == Head(Ends(items, n, c))
           excess == items[i].excess
<1>1. /\ L \in Nat /\ (\A j \in 0 .. L : U[j] \in Nat) /\ last \in Nat /\ excess \in Nat
      /\ U[last] \in Nat /\ \A j \in 1 .. L : LastIn(items, j) \in j .. L
  BY SumsAre
<1>2. n \in Nat /\ n <= U[L]
  BY <1>1, CutIs, CellsAre
<1>3. /\ excess > 0 => last = IF c = <<>> THEN L ELSE LastIn(items, c[1])
      /\ c # <<>> => c[1] \in 1 .. L
  BY ItemFits
<1>4. U[last] + excess <= end /\ end <= n
  BY DEF Claimed
<1>5. excess = 0
  <2>1. SUFFICES ASSUME excess > 0 PROVE FALSE
    BY <1>1
  <2>2. CASE c = <<>>
    <3>1. end = n /\ last = L
      BY <1>2, <1>3, <2>1, <2>2, EndsTop
    <3>2. U[last] = U[L]
      BY <3>1
    <3> HIDE DEF end, last, excess, U
    <3> QED BY <1>1, <1>2, <1>4, <2>1, <3>1, <3>2
  <2>3. CASE c # <<>>
    <3>1. c \in Seq(1 .. Len(items))
      BY DEF Open
    <3>2. end = U[LastIn(items, c[1])] /\ last = LastIn(items, c[1])
      BY <1>2, <1>3, <2>1, <2>3, <3>1, EndsTail
    <3>3. end = U[last]
      BY <3>2
    <3> HIDE DEF end, last, excess, U
    <3> QED BY <1>1, <1>4, <2>1, <3>3
  <2> QED BY <2>2, <2>3
<1>6. Claimed(items, i) = U[last]
  <2>1. Claimed(items, i) = U[last] + excess
    BY DEF Claimed
  <2> HIDE DEF last, excess, U
  <2> QED BY <1>1, <1>5, <2>1
<1>7. U[last] <= n
  <2>1. end \in Nat
    <3>1. c \in Seq(1 .. Len(items))
      BY DEF Open
    <3>2. Ends(items, n, c) \in Seq(Nat) /\ Ends(items, n, c) # <<>>
      BY <1>2, <3>1, EndsAre
    <3> QED BY <3>2
  <2> HIDE DEF last, excess, U, end
  <2> QED BY <1>1, <1>2, <1>4, <1>5, <2>1
<1> QED BY <1>5, <1>6, <1>7 DEF Whole

(* Into a container. *)
LEMMA WalkInto ==
  ASSUME NEW items \in Tracks, NEW n \in 0 .. Len(Cells(items)), NEW k \in Nat,
         NEW st, NEW i \in 1 .. Len(items), NEW c, Walks(items, n, k, st, i, c),
         c # <<>> => i <= LastIn(items, c[1]), Whole(items, n, i),
         items[i].tag = "mlit", Len(c) + 1 <= MaxDepth
  PROVE  Walking(items, n, k + 1,
                 At(CellsOf(items)[i - 1] + 2,
                    <<CellsOf(items)[LastIn(items, i)]>> \o Ends(items, n, c),
                    Found(items, n, i)))
<1> DEFINE L == Len(items)
           U == CellsOf(items)
           a == U[i - 1]
           d == <<i>> \o c
           new == At(a + 2, <<U[LastIn(items, i)]>> \o Ends(items, n, c), Found(items, n, i))
<1>1. L \in Nat /\ i \in Nat /\ a \in Nat /\ U[i] \in Nat
  BY SumsAre
<1>2. Open(items, n, i, c) /\ k + Len(c) <= a
  BY DEF Walks
<1>3. c \in Seq(1 .. Len(items)) /\ Len(c) \in Nat
  BY <1>2 DEF Open
<1>4. n \in Nat
  BY CutIs
<1>5. U[i] = a + 2
  <2>1. items[i].value = <<>>
    BY TrackIs
  <2>2. Len(items[i].value) = 0 /\ U[i] = a + 2 + Len(items[i].value)
    BY <2>1, SumsAre
  <2> HIDE DEF a
  <2> QED BY <1>1, <2>2
<1>6. U[i] <= n
  <2>1. i \in 0 .. L /\ LastIn(items, i) \in 0 .. L /\ i <= LastIn(items, i)
    BY <1>1, SumsAre
  <2>2. U[i] <= U[LastIn(items, i)]
    BY <2>1, SumsAre
  <2>3. U[LastIn(items, i)] <= n /\ U[LastIn(items, i)] \in Nat
    BY SumsAre DEF Whole
  <2> HIDE DEF U
  <2> QED BY <1>1, <1>4, <2>2, <2>3
<1>7. Open(items, n, i + 1, d)
  BY <1>2, OpenEnter
<1>8. d \in Seq(1 .. Len(items)) /\ Len(d) = Len(c) + 1
  BY <1>3, Pushed
<1>9. <<U[LastIn(items, i)]>> \o Ends(items, n, c) = Ends(items, n, d)
  BY <1>3, <1>4, EndsPush
<1>10. Found(items, n, i + 1) = Found(items, n, i)
  <2>1. ASSUME NEW f \in Fields, NEW j \in i .. (i + 1) - 1
        PROVE  j \notin Texts(items, n, f)
    <3>1. j = i
      BY <1>1
    <3>2. items[i].tag # f
      BY ControlAssumption
    <3> QED BY <3>1, <3>2 DEF Texts
  <2>2. i + 1 \in Nat /\ i <= i + 1
    BY <1>1
  <2> QED BY <1>1, <2>1, <2>2, FoundStays
<1>11. (i + 1) - 1 = i /\ i + 1 \in 1 .. Len(items) + 1
  BY <1>1
<1>12. new = At(U[(i + 1) - 1], Ends(items, n, d), Found(items, n, i + 1))
  BY <1>5, <1>9, <1>10, <1>11
<1>13. U[(i + 1) - 1] <= n /\ (k + 1) + Len(d) <= U[(i + 1) - 1]
  <2>1. (k + 1) + Len(d) <= U[i]
    <3> DEFINE b == U[i]
    <3>1. b = a + 2
      BY <1>5
    <3> HIDE DEF a, b, d
    <3>2. (k + 1) + Len(d) <= b
      BY <1>1, <1>2, <1>3, <1>8, <3>1
    <3> QED BY <3>2 DEF b
  <2> QED BY <1>6, <1>11, <2>1
<1> HIDE DEF new, d
<1>14. Walks(items, n, k + 1, new, i + 1, d)
  BY <1>7, <1>11, <1>12, <1>13 DEF Walks
<1>15. Walking(items, n, k + 1, new)
  BY <1>14, WalkingBy
<1> QED BY <1>15 DEF new

(* Past an item, and what is inside it. *)
LEMMA WalkPast ==
  ASSUME NEW items \in Tracks, NEW n \in 0 .. Len(Cells(items)), NEW k \in Nat,
         NEW st, NEW i \in 1 .. Len(items), NEW c, Walks(items, n, k, st, i, c),
         c # <<>> => i <= LastIn(items, c[1]), Whole(items, n, i),
         NEW found, found = Found(items, n, LastIn(items, i) + 1)
  PROVE  Walking(items, n, k + 1,
                 At(CellsOf(items)[LastIn(items, i)], Ends(items, n, c), found))
<1> DEFINE L == Len(items)
           U == CellsOf(items)
           a == U[i - 1]
           last == LastIn(items, i)
           e == last + 1
           new == At(U[last], Ends(items, n, c), found)
<1>1. /\ L \in Nat /\ i \in Nat /\ a \in Nat /\ U[last] \in Nat /\ last \in Nat
      /\ last \in i .. L /\ U[i] \in Nat /\ a + 2 <= U[i]
  BY SumsAre
<1>2. Open(items, n, i, c) /\ k + Len(c) <= a
  BY DEF Walks
<1>3. c \in Seq(1 .. Len(items)) /\ Len(c) \in Nat
  BY <1>2 DEF Open
<1>4. Open(items, n, e, c)
  BY <1>2, OpenPass
<1>5. U[last] <= n
  BY DEF Whole
<1>6. U[i] <= U[last]
  <2>1. i \in 0 .. L /\ last \in 0 .. L /\ i <= last
    BY <1>1
  <2> HIDE DEF last
  <2> QED BY <2>1, SumsAre
<1>7. found = Found(items, n, e)
  OBVIOUS
<1>8. e - 1 = last /\ e \in 1 .. Len(items) + 1
  <2> HIDE DEF last
  <2> QED BY <1>1
<1>9. new = At(U[e - 1], Ends(items, n, c), Found(items, n, e))
  BY <1>7, <1>8
<1>10. U[e - 1] <= n /\ (k + 1) + Len(c) <= U[e - 1]
  <2> DEFINE b == U[last]
             h == U[i]
  <2>1. a + 2 <= h /\ h <= b /\ h \in Nat /\ b \in Nat
    BY <1>1, <1>6
  <2> HIDE DEF a, b, h
  <2>2. (k + 1) + Len(c) <= b
    BY <1>1, <1>2, <1>3, <2>1
  <2> QED BY <1>5, <1>8, <2>2 DEF b
<1> HIDE DEF new, e
<1>11. Walks(items, n, k + 1, new, e, c)
  BY <1>4, <1>8, <1>9, <1>10 DEF Walks
<1>12. Walking(items, n, k + 1, new)
  BY <1>11, WalkingBy
<1> QED BY <1>12 DEF new

(* The texts between item i and item e, which follows it and what is in it. *)
LEMMA FoundPast ==
  ASSUME NEW items \in Tracks, NEW n \in 0 .. Len(Cells(items)), NEW i \in 1 .. Len(items),
         NEW c, Open(items, n, i, c), c # <<>> => i <= LastIn(items, c[1]),
         items[i].tag \notin Fields,
         items[i].tag = "mlit" => Len(c) + 1 > MaxDepth
  PROVE  Found(items, n, LastIn(items, i) + 1) = Found(items, n, i)
<1> DEFINE last == LastIn(items, i)
<1>1. /\ Len(items) \in Nat /\ i \in Nat /\ last \in Nat /\ last \in i .. Len(items)
      /\ items[i].inside \in Nat
      /\ items[i].inside > 0 => items[i].tag = "mlit"
  BY SumsAre, TrackIs
<1>2. Cardinality(Around(items, i)) = Len(c) /\ Len(c) \in Nat /\ MaxDepth \in Nat
  <2>1. c \in Seq(1 .. Len(items))
    BY DEF Open
  <2>2. Cardinality(Around(items, i)) = Len(c)
    BY OpenAround
  <2> QED BY <2>1, <2>2, ControlAssumption
<1>3. ASSUME NEW f \in Fields, NEW j \in i .. (last + 1) - 1
      PROVE  j \notin Texts(items, n, f)
  <2>1. CASE j = i
    BY <2>1 DEF Texts
  <2>2. CASE j # i
    <3>1. j \in i + 1 .. last
      <4> HIDE DEF last
      <4> QED BY <1>1, <2>2
    <3>2. items[i].tag = "mlit"
      <4>1. items[i].inside > 0
        <5>1. last = i + items[i].inside
          BY DEF LastIn
        <5> HIDE DEF last
        <5> QED BY <1>1, <3>1, <5>1
      <4> QED BY <1>1, <4>1
    <3>3. Cardinality(Around(items, i)) >= MaxDepth
      BY <1>2, <3>2
    <3> QED BY <3>1, <3>3, TooDeep
  <2> QED BY <2>1, <2>2
<1>4. last + 1 \in Nat /\ i <= last + 1
  <2> HIDE DEF last
  <2> QED BY <1>1
<1> QED BY <1>1, <1>3, <1>4, FoundStays

LEMMA FoundTaken ==
  ASSUME NEW items \in Tracks, NEW n \in 0 .. Len(Cells(items)), NEW i \in 1 .. Len(items),
         NEW c, Open(items, n, i, c), c # <<>> => i <= LastIn(items, c[1]),
         items[i].tag \in Fields, Whole(items, n, i)
  PROVE  /\ LastIn(items, i) = i
         /\ Found(items, n, i + 1) =
              [Found(items, n, i) EXCEPT ![items[i].tag] = <<Bounded(items[i].value, StrMax)>>]
<1> DEFINE tag == items[i].tag
<1>1. /\ Len(items) \in Nat /\ i \in Nat /\ i \in DOMAIN items /\ items[i].inside \in Nat
      /\ items[i].inside > 0 => tag = "mlit"
  BY TrackIs
<1>2. tag # "mlit" /\ MaxDepth \in Nat
  BY ControlAssumption
<1>3. LastIn(items, i) = i
  BY <1>1, <1>2 DEF LastIn
<1>4. i \in Texts(items, n, tag)
  <2>1. Around(items, i) = Images(c, 1, Len(c)) /\ Cardinality(Around(items, i)) = Len(c)
    BY OpenAround
  <2>2. Len(c) <= MaxDepth /\ \A m \in 1 .. Len(c) : Whole(items, n, c[m])
    BY DEF Open
  <2>3. \A j \in Around(items, i) \cup {i} : Whole(items, n, j)
    BY <2>1, <2>2 DEF Images
  <2> QED BY <1>1, <2>1, <2>2, <2>3 DEF Texts
<1>5. Newest(items, n, tag, i + 1) = <<Bounded(items[i].value, StrMax)>>
  BY <1>4, NewestTaken
<1>6. \A f \in Fields : f # tag => Newest(items, n, f, i + 1) = Newest(items, n, f, i)
  <2> TAKE f \in Fields
  <2> HAVE f # tag
  <2>1. \A j \in i .. (i + 1) - 1 : j \notin Texts(items, n, f)
    <3>1. \A j \in i .. (i + 1) - 1 : j = i
      BY <1>1
    <3> QED BY <3>1 DEF Texts
  <2>2. i + 1 \in Nat /\ i <= i + 1
    BY <1>1
  <2> QED BY <1>1, <2>1, <2>2, NewestStays
<1> DEFINE v == <<Bounded(items[i].value, StrMax)>>
<1>7. v = Newest(items, n, tag, i + 1)
  BY <1>5
<1> HIDE DEF v, tag
<1>8. [Found(items, n, i) EXCEPT ![tag] = v] = Found(items, n, i + 1)
  BY <1>6, <1>7, Zenon DEF Found
<1> QED BY <1>3, <1>8 DEF v, tag

(* A step in a body, cut off or not. *)
LEMMA WalkOne ==
  ASSUME NEW items \in Tracks, NEW n \in 0 .. Len(Cells(items)), NEW k \in Nat,
         NEW st, NEW i \in 1 .. Len(items) + 1, NEW c, Walks(items, n, k, st, i, c)
  PROVE  Walking(items, n, k + 1, WalkStep(SubSeq(Cells(items), 1, n), st))
<1> DEFINE cells == SubSeq(Cells(items), 1, n)
           a == CellsOf(items)[i - 1]
           ends == Ends(items, n, c)
           found == Found(items, n, i)
           end == Head(ends)
           from == a + 2
           next == from + cells[from]
           tag == cells[a + 1]
           new == WalkStep(cells, st)
<1>1. /\ st = At(a, ends, found) /\ Open(items, n, i, c)
      /\ a <= n
  BY DEF Walks
<1>2. c \in Seq(1 .. Len(items)) /\ n \in Nat
  BY <1>1, CutIs DEF Open
<1>3. ends \in Seq(Nat) /\ Len(ends) = Len(c) + 1 /\ ends # <<>>
  BY <1>2, EndsAre
<1>4. end \in Nat
  BY <1>3
<1>5. a \in Nat /\ Len(c) \in Nat
  <2>1. i - 1 \in 0 .. Len(items)
    BY SumsAre
  <2> QED BY <1>2, <2>1, SumsAre
<1> HIDE DEF ends, found, cells
<1>6. found = [f \in Fields |-> Newest(items, n, f, i)]
  BY DEF found, Found
<1>7. IF from > end \/ next > end THEN new = At(end, Tail(ends), found)
      ELSE IF tag = "mlit" /\ Len(ends) <= MaxDepth
           THEN new = At(from, <<next>> \o ends, found)
      ELSE IF tag \in Fields
           THEN new = At(next, ends,
                         [found EXCEPT ![tag] = <<Bounded(SubSeq(cells, from + 1, next), StrMax)>>])
      ELSE new = At(next, ends, found)
  <2> DEFINE V == {found[f] : f \in Fields}
  <2>1. found \in [Fields -> V]
    BY <1>6
  <2> HIDE DEF V, a
  <2>2. Reads(cells, a, ends, found, WalkStep(cells, At(a, ends, found)))
    BY <1>3, <2>1, WalkStepIs
  <2>3. Reads(cells, a, ends, found, new)
    BY <1>1, <2>2
  <2> HIDE DEF new
  <2> QED BY <2>3, Zenon DEF Reads
<1> HIDE DEF new, end
<1>8. CASE from > end
  <2>1. new = At(end, Tail(ends), found)
    BY <1>7, <1>8
  <2>2. a + 2 > Head(Ends(items, n, c))
    BY <1>8 DEF end, ends
  <2>3. Walking(items, n, k + 1,
                At(Head(Ends(items, n, c)), Tail(Ends(items, n, c)), Found(items, n, i)))
    BY <2>2, WalkPastEnd
  <2> QED BY <2>1, <2>3 DEF new, end, ends, found, cells
<1>9. CASE ~(from > end)
  <2>1. from <= end /\ from \in Nat
    BY <1>4, <1>5, <1>9
  <2>2. a + 2 <= Head(Ends(items, n, c))
    BY <2>1 DEF end, ends
  <2>3. /\ i \in 1 .. Len(items) /\ (c # <<>> => i <= LastIn(items, c[1]))
        /\ Head(Ends(items, n, c)) <= n /\ a + 2 <= n
    BY <1>1, <2>2, AtHeader
  <2>4. tag = items[i].tag /\ next = Claimed(items, i)
    BY <2>3, HeaderCells DEF cells
  <2>5. Claimed(items, i) \in Nat
    <3>1. /\ CellsOf(items)[LastIn(items, i)] \in Nat /\ items[i].excess \in Nat
      BY <2>3, SumsAre
    <3> QED BY <3>1 DEF Claimed
  <2> HIDE DEF next, tag
  <2>6. CASE next > end
    <3>1. new = At(end, Tail(ends), found)
      BY <1>7, <2>6
    <3>2. Claimed(items, i) > Head(Ends(items, n, c))
      BY <2>4, <2>6 DEF end, ends
    <3>3. Walking(items, n, k + 1,
                  At(Head(Ends(items, n, c)), Tail(Ends(items, n, c)), Found(items, n, i)))
      BY <2>2, <3>2, WalkOverrun
    <3> QED BY <3>1, <3>3 DEF new, end, ends, found, cells
  <2>7. CASE ~(next > end)
    <3>1. Claimed(items, i) <= Head(Ends(items, n, c))
      <4>1. next <= end
        BY <1>4, <2>4, <2>5, <2>7
      <4> QED BY <2>4, <4>1 DEF end, ends
    <3>2. Whole(items, n, i) /\ Claimed(items, i) = CellsOf(items)[LastIn(items, i)]
      BY <1>1, <2>3, <3>1, WholeIs
    <3>3. next = CellsOf(items)[LastIn(items, i)]
      BY <2>4, <3>2
    <3>4. CASE tag = "mlit" /\ Len(ends) <= MaxDepth
      <4>1. new = At(from, <<next>> \o ends, found)
        BY <1>7, <1>9, <2>7, <3>4
      <4>2. items[i].tag = "mlit" /\ Len(c) + 1 <= MaxDepth
        BY <1>3, <2>4, <3>4
      <4>3. Walking(items, n, k + 1,
                    At(CellsOf(items)[i - 1] + 2,
                       <<CellsOf(items)[LastIn(items, i)]>> \o Ends(items, n, c),
                       Found(items, n, i)))
        BY <2>3, <3>2, <4>2, WalkInto
      <4> QED BY <3>3, <4>1, <4>3 DEF new, ends, found, cells
    <3>5. CASE ~(tag = "mlit" /\ Len(ends) <= MaxDepth) /\ tag \in Fields
      <4> DEFINE after == [found EXCEPT ![tag] =
                             <<Bounded(SubSeq(cells, from + 1, next), StrMax)>>]
      <4>1. new = At(next, ends, after)
        BY <1>7, <1>9, <2>7, <3>5
      <4>2. items[i].tag \in Fields
        BY <2>4, <3>5
      <4>3. /\ LastIn(items, i) = i
            /\ Found(items, n, i + 1) =
                 [Found(items, n, i) EXCEPT ![items[i].tag] = <<Bounded(items[i].value, StrMax)>>]
        BY <1>1, <2>3, <3>2, <4>2, FoundTaken
      <4>4. SubSeq(cells, from + 1, next) = items[i].value
        <5>1. CellsOf(items)[i] <= n
          BY <3>2, <4>3 DEF Whole
        <5>2. next = CellsOf(items)[i] /\ from + 1 = a + 3
          BY <1>5, <3>3, <4>3
        <5>3. SubSeq(SubSeq(Cells(items), 1, n), a + 3, CellsOf(items)[i]) = items[i].value
          BY <2>3, <5>1, TextCells
        <5> QED BY <5>2, <5>3 DEF cells
      <4>5. after = Found(items, n, LastIn(items, i) + 1)
        BY <2>4, <4>3, <4>4 DEF found
      <4> HIDE DEF after
      <4>6. Walking(items, n, k + 1,
                    At(CellsOf(items)[LastIn(items, i)], Ends(items, n, c), after))
        BY <2>3, <3>2, <4>5, WalkPast
      <4> QED BY <3>3, <4>1, <4>6 DEF new, ends, cells
    <3>6. CASE ~(tag = "mlit" /\ Len(ends) <= MaxDepth) /\ tag \notin Fields
      <4>1. new = At(next, ends, found)
        BY <1>7, <1>9, <2>7, <3>6
      <4>2. items[i].tag \notin Fields
        BY <2>4, <3>6
      <4>3. items[i].tag = "mlit" => Len(c) + 1 > MaxDepth
        BY <1>3, <1>5, <2>4, <3>6, ControlAssumption
      <4>4. found = Found(items, n, LastIn(items, i) + 1)
        BY <1>1, <2>3, <4>2, <4>3, FoundPast DEF found
      <4>5. Walking(items, n, k + 1,
                    At(CellsOf(items)[LastIn(items, i)], Ends(items, n, c), found))
        BY <2>3, <3>2, <4>4, WalkPast
      <4> QED BY <3>3, <4>1, <4>5 DEF new, ends, cells
    <3> QED BY <3>4, <3>5, <3>6
  <2> QED BY <2>6, <2>7
<1> QED BY <1>8, <1>9

LEMMA WalkingStep ==
  ASSUME NEW items \in Tracks, NEW n \in 0 .. Len(Cells(items)), NEW k \in Nat,
         NEW st, Walking(items, n, k, st)
  PROVE  Walking(items, n, k + 1, WalkStep(SubSeq(Cells(items), 1, n), st))
<1> DEFINE cells == SubSeq(Cells(items), 1, n)
<1>1. CASE Ended(items, n, st)
  <2>1. st.ends = <<>>
    BY <1>1 DEF Ended, At
  <2>2. WalkStep(cells, st) = st
    BY <2>1 DEF WalkStep
  <2> QED BY <1>1, <2>2 DEF Walking
<1>2. CASE \E i \in 1 .. Len(items) + 1, c \in Seq(1 .. Len(items)) : Walks(items, n, k, st, i, c)
  BY <1>2, WalkOne
<1> QED BY <1>1, <1>2 DEF Walking

LEMMA WalkingStart ==
  ASSUME NEW items \in Tracks, NEW n \in 0 .. Len(Cells(items))
  PROVE  Walking(items, n, 0, At(0, <<n>>, NoTrack))
<1> DEFINE st == At(0, <<n>>, NoTrack)
           i == 1
           c == <<>>
<1>1. Len(items) \in Nat /\ n \in Nat /\ MaxDepth \in Nat
  BY SumsAre, CutIs, ControlAssumption
<1>2. Found(items, n, i) = NoTrack
  <2>1. \A f \in Fields : Newest(items, n, f, 1) = <<>>
    <3> TAKE f \in Fields
    <3>1. \A j \in Texts(items, n, f) : ~(j < 1)
      <4>1. \A j \in DOMAIN items : j \in Nat /\ ~(j < 1)
        BY TrackIs
      <4> QED BY <4>1 DEF Texts
    <3>2. {j \in Texts(items, n, f) : j < 1} = {}
      BY <3>1
    <3> QED BY <3>2 DEF Newest
  <2> QED BY <2>1 DEF Found, NoTrack
<1>3. c \in Seq(1 .. Len(items)) /\ Len(c) = 0
  OBVIOUS
<1>4. Open(items, n, i, c)
  <2>1. \A k \in 1 .. Len(c) : FALSE
    OBVIOUS
  <2>2. \A k \in 1 .. i - 1 : FALSE
    OBVIOUS
  <2>3. Len(c) <= MaxDepth
    BY <1>1
  <2> HIDE DEF c, i
  <2> QED BY <1>3, <2>1, <2>2, <2>3 DEF Open
<1>5. i - 1 = 0 /\ i \in 1 .. Len(items) + 1
  BY <1>1
<1>6. CellsOf(items)[i - 1] = 0
  BY <1>5, CellsOfIs
<1>7. Ends(items, n, c) = <<n>>
  BY <1>1, EndsTop
<1> HIDE DEF c, i
<1>8. st = At(CellsOf(items)[i - 1], Ends(items, n, c), Found(items, n, i))
  BY <1>2, <1>6, <1>7
<1>9. CellsOf(items)[i - 1] <= n /\ 0 + Len(c) <= CellsOf(items)[i - 1]
  BY <1>1, <1>3, <1>6
<1> HIDE DEF st
<1>10. Walks(items, n, 0, st, i, c)
  BY <1>4, <1>5, <1>8, <1>9 DEF Walks
<1>11. Walking(items, n, 0, st)
  BY <1>10, WalkingBy
<1> QED BY <1>11 DEF st

(* Every step is another cell or container, so the walk ends. *)
LEMMA WalkingEnds ==
  ASSUME NEW items \in Tracks, NEW n \in 0 .. Len(Cells(items)), NEW st,
         Walking(items, n, n + 1, st)
  PROVE  st.found = Found(items, n, Len(items) + 1)
<1>1. n \in Nat
  BY CutIs
<1>2. ASSUME NEW i \in 1 .. Len(items) + 1, NEW c \in Seq(1 .. Len(items)),
             Walks(items, n, n + 1, st, i, c)
      PROVE  FALSE
  <2> DEFINE a == CellsOf(items)[i - 1]
  <2>1. i - 1 \in 0 .. Len(items)
    BY SumsAre
  <2>2. a \in Nat /\ Len(c) \in Nat
    BY <2>1, SumsAre
  <2>3. a <= n /\ (n + 1) + Len(c) <= a
    BY <1>2 DEF Walks
  <2> HIDE DEF a
  <2> QED BY <1>1, <2>2, <2>3
<1>3. Ended(items, n, st)
  BY <1>2 DEF Walking
<1> QED BY <1>3 DEF Ended, At

(* What the walk is made of. *)
Walkers(items) ==
  [at : Nat, ends : Seq(Nat),
   found : [Fields -> {<<>>} \cup {<<Bounded(items[i].value, StrMax)>> : i \in DOMAIN items}]]

LEMMA WalkingType ==
  ASSUME NEW items \in Tracks, NEW n \in 0 .. Len(Cells(items)), NEW k, NEW st,
         Walking(items, n, k, st)
  PROVE  st \in Walkers(items)
<1> DEFINE V == {<<>>} \cup {<<Bounded(items[i].value, StrMax)>> : i \in DOMAIN items}
<1>1. n \in Nat /\ Len(items) \in Nat
  BY CutIs, SumsAre
<1>2. ASSUME NEW i
      PROVE  Found(items, n, i) \in [Fields -> V]
  <2>1. ASSUME NEW f \in Fields PROVE Newest(items, n, f, i) \in V
    <3> DEFINE before == {j \in Texts(items, n, f) : j < i}
    <3>1. before \subseteq 0 .. Len(items) /\ before \subseteq DOMAIN items
      <4>1. DOMAIN items = 1 .. Len(items)
        BY TrackIs
      <4> QED BY <1>1, <4>1 DEF Texts
    <3>2. before # {} => Max(before) \in before
      <4> HIDE DEF before
      <4> QED BY <1>1, <3>1, MaxOf
    <3>3. Newest(items, n, f, i) = IF before = {} THEN <<>>
                                   ELSE <<Bounded(items[Max(before)].value, StrMax)>>
      BY Zenon DEF Newest
    <3> HIDE DEF before
    <3>4. CASE before = {}
      BY <3>3, <3>4
    <3>5. CASE before # {}
      <4>1. Max(before) \in DOMAIN items
        BY <3>1, <3>2, <3>5
      <4> QED BY <3>3, <3>5, <4>1
    <3> QED BY <3>4, <3>5
  <2> HIDE DEF V
  <2> QED BY <2>1, Zenon DEF Found
<1> HIDE DEF V
<1>3. ASSUME NEW at \in Nat, NEW ends \in Seq(Nat), NEW i
      PROVE  At(at, ends, Found(items, n, i)) \in Walkers(items)
  BY <1>2 DEF At, Walkers, V
<1>4. CASE Ended(items, n, st)
  <2>1. <<>> \in Seq(Nat)
    OBVIOUS
  <2> QED BY <1>1, <1>3, <1>4, <2>1 DEF Ended
<1>5. ASSUME NEW i \in 1 .. Len(items) + 1, NEW c \in Seq(1 .. Len(items)),
             Walks(items, n, k, st, i, c)
      PROVE  st \in Walkers(items)
  <2>1. i - 1 \in 0 .. Len(items)
    BY <1>1
  <2>2. CellsOf(items)[i - 1] \in Nat /\ Ends(items, n, c) \in Seq(Nat)
    BY <1>1, <2>1, SumsAre, EndsAre
  <2>3. st = At(CellsOf(items)[i - 1], Ends(items, n, c), Found(items, n, i))
    BY <1>5 DEF Walks
  <2> QED BY <1>3, <2>2, <2>3
<1> QED BY <1>4, <1>5 DEF Walking

LEMMA ParseFinds ==
  ASSUME NEW items \in Tracks, NEW n \in 0 .. Len(Cells(items))
  PROVE  DmapParse(SubSeq(Cells(items), 1, n)) = Found(items, n, Len(items) + 1)
<1> DEFINE cells == SubSeq(Cells(items), 1, n)
           N == Len(cells) + 1
           B == Walkers(items)
           start == At(0, <<n>>, NoTrack)
           step == [p \in B \X (1 .. N) |->
                      IF WalkStep(cells, p[1]) \in B THEN WalkStep(cells, p[1]) ELSE p[1]]
           Body(f) == [m \in 0 .. N |-> IF m = 0 THEN start ELSE WalkStep(cells, f[m - 1])]
<1>1. n \in Nat /\ Len(cells) = n
  BY CutIs
<1>2. N \in Nat /\ N = n + 1
  BY <1>1
<1>3. Walking(items, n, 0, start) /\ start \in B
  BY WalkingStart, WalkingType
<1>4. ASSUME NEW k \in Nat, NEW st, Walking(items, n, k, st)
      PROVE  Walking(items, n, k + 1, WalkStep(cells, st)) /\ WalkStep(cells, st) \in B
  <2>1. Walking(items, n, k + 1, WalkStep(cells, st))
    BY <1>4, WalkingStep
  <2> DEFINE new == WalkStep(cells, st)
             k1 == k + 1
  <2>2. Walking(items, n, k1, new)
    BY <2>1
  <2> HIDE DEF new, k1
  <2>3. new \in B
    BY <2>2, WalkingType
  <2> QED BY <2>1, <2>3 DEF new
<1> DEFINE f == CHOOSE g : g = Body(g)
<1>5. DmapParse(cells) = f[N].found
  BY <1>1 DEF DmapParse, At
<1> HIDE DEF cells, N, B, start
<1>6. step \in [B \X (1 .. N) -> B]
  OBVIOUS
<1>7. PICK run \in Runs(B, start, N, step) : TRUE
  <2> HIDE DEF step
  <2>1. Runs(B, start, N, step) # {}
    BY <1>2, <1>3, <1>6, Iteration
  <2> QED BY <2>1, Zenon
<1>8. /\ run \in [0 .. N -> B] /\ run[0] = start
      /\ \A m \in 1 .. N : run[m] = step[<<run[m - 1], m>>]
  <2> HIDE DEF step
  <2> QED BY <1>7 DEF Runs
<1>9. \A m \in 1 .. N :
        m - 1 \in 0 .. N /\ m \in 0 .. N /\ m # 0 /\ m - 1 \in Nat /\ (m - 1) + 1 = m
  BY <1>2
<1>10. \A m \in 1 .. N : run[m] = IF WalkStep(cells, run[m - 1]) \in B
                                  THEN WalkStep(cells, run[m - 1]) ELSE run[m - 1]
  <2>1. \A m \in 1 .. N : run[m - 1] \in B
    BY <1>8, <1>9
  <2> QED BY <1>8, <2>1
<1> HIDE DEF step
<1>11. \A m \in 0 .. N : Walking(items, n, m, run[m])
  <2> DEFINE S == {m \in 0 .. N : Walking(items, n, m, run[m])}
  <2>1. 0 \in S
    BY <1>2, <1>3, <1>8
  <2>2. ASSUME NEW m \in 1 .. N, m - 1 \in S
        PROVE  m \in S
    <3> DEFINE l == m - 1
    <3>1. l \in Nat /\ l + 1 = m /\ m \in 0 .. N /\ Walking(items, n, l, run[l])
      BY <1>9, <2>2
    <3>2. run[m] = IF WalkStep(cells, run[l]) \in B THEN WalkStep(cells, run[l]) ELSE run[l]
      BY <1>10
    <3> HIDE DEF l
    <3>3. Walking(items, n, l + 1, WalkStep(cells, run[l])) /\ WalkStep(cells, run[l]) \in B
      BY <1>4, <3>1
    <3>4. Walking(items, n, m, run[m])
      BY <3>1, <3>2, <3>3
    <3> QED BY <3>1, <3>4
  <2> HIDE DEF S
  <2>3. \A m \in 0 .. N : m \in S
    BY <1>2, <2>1, <2>2, Steps
  <2> QED BY <2>3 DEF S
<1>12. \A m \in 1 .. N : run[m] = WalkStep(cells, run[m - 1])
  <2> TAKE m \in 1 .. N
  <2> DEFINE l == m - 1
  <2>1. l \in Nat /\ l \in 0 .. N
    BY <1>9
  <2>2. run[m] = IF WalkStep(cells, run[l]) \in B THEN WalkStep(cells, run[l]) ELSE run[l]
    BY <1>10
  <2> HIDE DEF l
  <2>3. WalkStep(cells, run[l]) \in B
    BY <1>4, <1>11, <2>1
  <2> QED BY <2>2, <2>3 DEF l
<1>13. run = Body(run)
  <2>1. \A m \in 0 .. N : m # 0 => m \in 1 .. N
    BY <1>2
  <2> QED BY <1>8, <1>12, <2>1
<1>14. f = Body(f)
  BY <1>13
<1> HIDE DEF f
<1>15. f[0] = start /\ \A m \in 1 .. N : f[m] = WalkStep(cells, f[m - 1])
  BY <1>2, <1>9, <1>14
<1>16. \A m \in 0 .. N : Walking(items, n, m, f[m])
  <2> DEFINE S == {m \in 0 .. N : Walking(items, n, m, f[m])}
  <2>1. 0 \in S
    BY <1>2, <1>3, <1>15
  <2>2. ASSUME NEW m \in 1 .. N, m - 1 \in S
        PROVE  m \in S
    <3> DEFINE l == m - 1
    <3>1. l \in Nat /\ l + 1 = m /\ m \in 0 .. N /\ Walking(items, n, l, f[l])
      BY <1>9, <2>2
    <3>2. f[m] = WalkStep(cells, f[l])
      BY <1>15
    <3> HIDE DEF l
    <3>3. Walking(items, n, l + 1, WalkStep(cells, f[l]))
      BY <1>4, <3>1
    <3> QED BY <3>1, <3>2, <3>3
  <2> HIDE DEF S
  <2>3. \A m \in 0 .. N : m \in S
    BY <1>2, <2>1, <2>2, Steps
  <2> QED BY <2>3 DEF S
<1>17. Walking(items, n, n + 1, f[N])
  BY <1>2, <1>16
<1>18. f[N].found = Found(items, n, Len(items) + 1)
  BY <1>17, WalkingEnds
<1> QED BY <1>5, <1>18 DEF cells

(* Of each field, what the walk found is what the body gives. *)
LEMMA FoundIsGiven ==
  ASSUME NEW items \in Tracks, NEW n, NEW f \in Fields
  PROVE  LET found == Found(items, n, Len(items) + 1)[f]
         IN  /\ Given(items, n, f) = {} => found = <<>>
             /\ Given(items, n, f) # {} =>
                  /\ found # <<>>
                  /\ found[1] = Bounded(CHOOSE v \in Given(items, n, f) : TRUE, StrMax)
<1> DEFINE T == Texts(items, n, f)
           before == {j \in T : j < Len(items) + 1}
           x == items[Max(T)].value
<1>1. before = T
  <2>1. \A j \in DOMAIN items : j < Len(items) + 1
    BY TrackIs
  <2> QED BY <2>1 DEF Texts
<1>2. Given(items, n, f) = IF T = {} THEN {} ELSE {x}
  BY Zenon DEF Given, Texts, Whole
<1>3. Found(items, n, Len(items) + 1)[f] = Newest(items, n, f, Len(items) + 1)
  BY DEF Found
<1>4. Newest(items, n, f, Len(items) + 1) =
        IF before = {} THEN <<>> ELSE <<Bounded(items[Max(before)].value, StrMax)>>
  BY Zenon DEF Newest
<1> HIDE DEF before, T
<1>5. Found(items, n, Len(items) + 1)[f] = IF T = {} THEN <<>> ELSE <<Bounded(x, StrMax)>>
  BY <1>1, <1>3, <1>4
<1> HIDE DEF x
<1>6. (CHOOSE v \in {x} : TRUE) = x
  OBVIOUS
<1>7. CASE T = {}
  BY <1>2, <1>5, <1>7
<1>8. CASE T # {}
  <2>1. Given(items, n, f) = {x} /\ Found(items, n, Len(items) + 1)[f] = <<Bounded(x, StrMax)>>
    BY <1>2, <1>5, <1>8
  <2>2. (CHOOSE v \in Given(items, n, f) : TRUE) = x
    BY <1>6, <2>1
  <2> QED BY <2>1, <2>2
<1> QED BY <1>7, <1>8

LEMMA TrackGiven ==
  ASSUME MetadataIsTheNewest, NEW t \in Types, NEW items \in Tracks,
         NEW n \in 0 .. Len(Cells(items)), SetParameterTrack(t, items, n)
  PROVE  MetadataIsTheNewest'
<1> DEFINE dmap == "application/x-dmap-tagged"
           found == Found(items, n, Len(items) + 1)
<1>1. Kind(t) = dmap <=> t.means = dmap
  BY KindIs DEF MediaTypes
<1>2. meta = given /\ given' = Gives(t, items, n)
  BY DEF MetadataIsTheNewest, SetParameterTrack
<1>3. CASE t.means # dmap
  BY <1>1, <1>2, <1>3 DEF SetParameterTrack, Gives, MetadataIsTheNewest
<1>4. CASE t.means = dmap
  <2>1. MetadataUpdate(DmapParse(SubSeq(Cells(items), 1, n)))
    BY <1>1, <1>4 DEF SetParameterTrack
  <2>2. MetadataUpdate(found)
    BY <2>1, ParseFinds
  <2>3. meta' = [f \in Fields |-> IF found[f] # <<>> THEN found[f][1] ELSE meta[f]]
    BY <2>2 DEF MetadataUpdate
  <2>4. given' = [f \in Fields |-> IF Given(items, n, f) = {} THEN given[f]
                                   ELSE Bounded(CHOOSE v \in Given(items, n, f) : TRUE, StrMax)]
    BY <1>2, <1>4 DEF Gives
  <2>5. \A f \in Fields : (IF found[f] # <<>> THEN found[f][1] ELSE meta[f]) =
                            IF Given(items, n, f) = {} THEN given[f]
                            ELSE Bounded(CHOOSE v \in Given(items, n, f) : TRUE, StrMax)
    <3> TAKE f \in Fields
    <3>1. /\ Given(items, n, f) = {} => found[f] = <<>>
          /\ Given(items, n, f) # {} =>
               /\ found[f] # <<>>
               /\ found[f][1] = Bounded(CHOOSE v \in Given(items, n, f) : TRUE, StrMax)
      BY FoundIsGiven
    <3> HIDE DEF found
    <3> QED BY <1>2, <3>1
  <2> HIDE DEF found
  <2>6. meta' = given'
    BY <2>3, <2>4, <2>5
  <2> QED BY <2>6 DEF MetadataIsTheNewest
<1> QED BY <1>3, <1>4

LEMMA MetadataNext == MetadataIsTheNewest /\ [Next]_vars => MetadataIsTheNewest'
<1> SUFFICES ASSUME MetadataIsTheNewest, [Next]_vars PROVE MetadataIsTheNewest'
  OBVIOUS
<1>1. ASSUME NEW q \in Questions, Options(q) PROVE MetadataIsTheNewest'
  BY <1>1 DEF Options, MetadataIsTheNewest
<1>2. ASSUME NEW body \in Announcements, Announce(body) PROVE MetadataIsTheNewest'
  BY <1>2 DEF Announce, MetadataIsTheNewest
<1>3. ASSUME NEW t \in Transports, Setup(t) PROVE MetadataIsTheNewest'
  BY <1>3 DEF Setup, MetadataIsTheNewest
<1>4. ASSUME NEW t \in Types, NEW lines \in Volumes, SetParameterText(t, lines)
      PROVE  MetadataIsTheNewest'
  BY <1>4 DEF SetParameterText, MetadataIsTheNewest
<1>5. ASSUME NEW t \in Types, NEW items \in Tracks, NEW n \in 0 .. Len(Cells(items)),
             SetParameterTrack(t, items, n)
      PROVE  MetadataIsTheNewest'
  BY <1>5, TrackGiven
<1>6. CASE Teardown
  BY <1>6 DEF Teardown, MetadataIsTheNewest
<1>7. CASE UNCHANGED vars
  BY <1>7 DEF vars, MetadataIsTheNewest
<1> QED BY <1>1, <1>2, <1>3, <1>4, <1>5, <1>6, <1>7 DEF Next
-----------------------------------------------------------------------------
(* The stream that RECORD would start is the one that was agreed on: for any   *)
(* length of keys, sizes of buffers and bound of numbers, and any messages of *)
(* senders that write base64, codecs and ports as their readers expect        *)
(* (handle_announce, handle_setup of raop.c).                               *)
THEOREM StreamIsAgreed == Spec => []StreamIsTheAgreed
<1>1. StreamIInv => StreamIsTheAgreed
  BY DEF StreamIInv
<1> QED BY <1>1, StreamInit, StreamNext, PTL DEF Spec

(* A sender that asks for the receiver's proof gets it, whole (handle_options).*)
THEOREM ChallengesAreMet == Spec => []ChallengeIsMet
<1>1. Init => ChallengeIsMet
  BY DEF Init, ChallengeIsMet
<1> QED BY <1>1, ChallengeNext, PTL DEF Spec

(* Playback follows the slider, for any gain that powf gives and at any fixed  *)
(* point (raop_parse_volume, audio_volume.c).                               *)
THEOREM GainFollowsSlider == Spec => []VolumeFollowsSlider
<1> QED BY VolumeInit, VolumeNext, VolumeFollows, PTL DEF Spec

(* The track shown is the newest that this connection gave: however deep the  *)
(* containers of its bodies, whatever is unknown or too long in them, and      *)
(* wherever they are cut off (dmap_parse, raop_metadata_update).             *)
THEOREM TrackIsTheNewest == Spec => []MetadataIsTheNewest
<1>1. Init => MetadataIsTheNewest
  BY DEF Init, MetadataIsTheNewest
<1> QED BY <1>1, MetadataNext, PTL DEF Spec
=============================================================================
