---------------------------- MODULE ControlMessages ---------------------------
(***************************************************************************)
(* What a connection's requests say and leave behind (components/raop/src/  *)
(* raop.c).  To get a stream: the Apple-Challenge of OPTIONS, the SDP         *)
(* attributes of ANNOUNCE (sdp.c) with their base64 (base64.c) and the codec  *)
(* they describe (alac_config.c, build_decoder of raop_rtp.c), and the ports  *)
(* of SETUP.  To show what plays, by SET_PARAMETER: the DMAP items of the     *)
(* track (dmap.c, raop_metadata.c), and the volume line (raop_volume.c) as    *)
(* the gain that playback applies (audio_volume.c).                         *)
(*                                                                         *)
(* A base64 character is its value, or Pad, Space or Junk.  A line of text or *)
(* a header is its name and its value; a Transport or Content-Type header is  *)
(* its words; a codec description is its words, a number each, <<>> when it   *)
(* is none; a DMAP header is two cells instead of eight bytes, and text in it *)
(* is cells.  A body of DMAP items is the sequence of its items, each before  *)
(* the items inside it.  Names are compared without case, and have one case here.  RSA   *)
(* and powf are external: a signature tells any two buffers apart, a key is  *)
(* given back, and powf is any gain that grows with the dB.                  *)
(***************************************************************************)
EXTENDS Integers, Sequences, SequencesExt, FiniteSetsExt

CONSTANTS
  Questions,      \* headers of OPTIONS: records [headers, challenge], which mean the
                  \* bytes of the challenge, or <<>>
  Announcements,  \* bodies of ANNOUNCE: records [lines, key, iv, format, valid], where
                  \* the text of the lines means key, iv and at most one format, and
                  \* key and iv in full if it is valid
  Transports,     \* headers of SETUP: records [headers, ports], where ports are meant
  Types,          \* headers of SET_PARAMETER: records [headers, means], the media type
  Tracks,         \* bodies of SET_PARAMETER with DMAP items: sequences of records
                  \* [tag, value, inside, excess]: how many of those that follow are
                  \* inside it, and by how much its length is too large
  Volumes,        \* bodies of SET_PARAMETER with text: sequences of lines
                  \* [name, number, db]
  Ip, Mac,        \* the receiver's addresses, 4 and 6 bytes
  MaxHeaders,     \* RTSP_MAX_HEADERS (20)
  Word,           \* UINT32_MAX
  KeyLen,         \* 16
  EncMax,         \* sizeof enc in handle_announce (256)
  TextMax,        \* what the fields of sdp_media_t hold: [rsaaeskey, aesiv, fmtp]
  AccMod,         \* 2^32, how many values base64_decode's acc has
  Fields,         \* the recognised tags: minm, asar, asal
  MaxDepth,       \* DMAP_MAX_DEPTH (4)
  StrMax,         \* DMAP_STR_MAX - 1 (127)
  Gain,           \* powf: the gain of -30 .. 0 dB
  Unity           \* AUDIO_VOL_UNITY (65536)

MinDb == -30
MuteDb == -144
ChallengeLen == 16
ChallengeMax == 32   \* cbuf and buf32
SigLen == 256
B64Max == 400
(* What is left of `extra` for the text of Apple-Response: 512 bytes but for   *)
(* the Public line, the header's name, its CRLF and the final zero.          *)
ResponseMax == 512 - 96 - 16 - 1
FrameMax == 4096
UInt8 == 255
UInt16 == 65535
Byte == 0 .. UInt8

ASSUME ControlAssumption ==
  /\ KeyLen \in Nat \ {0} /\ EncMax \in Nat /\ KeyLen <= EncMax
  /\ AccMod \in Nat \ {0} /\ AccMod % 4096 = 0
  /\ TextMax \in [{"rsaaeskey", "aesiv", "fmtp"} -> Nat]
  /\ Ip \in [1 .. 4 -> Byte] /\ Mac \in [1 .. 6 -> Byte]
  /\ MaxHeaders \in Nat /\ Word \in Nat /\ Word >= FrameMax
  /\ "mlit" \notin Fields /\ MaxDepth \in Nat /\ StrMax \in Nat
  /\ Unity \in Nat \ {0}
  /\ Gain \in [MinDb .. 0 -> 1 .. Unity] /\ Gain[0] = Unity
  /\ \A d, e \in MinDb .. 0 : d <= e => Gain[d] <= Gain[e]

VARIABLES
  key, iv,  \* s_session.aeskey, aesiv
  haveKey,  \* s_session.have_key
  fmtp,     \* s_session.fmtp
  ports,    \* s_session.client_control_port, client_timing_port
  response, \* Apple-Response of the last answer, <<>> without
  meta,     \* s_cur of raop_metadata.c
  gain,     \* s_fix_q16
  talk,     \* what the sender's messages are about; a bound of the model only
  challenge,\* history: the challenge of the last request, <<>> without
  agreed,   \* history: what the newest ANNOUNCE meant, if it is valid or was answered 200
  format,   \* history: the newest format such an ANNOUNCE meant, {} before or if none
  offered,  \* history: the newest ports a Transport header of this connection meant
  given,    \* history: the newest value of each field that this connection gave
  slider    \* history: the newest volume given, in dB

session == <<key, iv, haveKey, fmtp, ports>>
options == <<response, challenge>>
meant == <<agreed, format, offered>>
vars == <<session, meta, gain, options, talk, meant, given, slider>>

Zero == [i \in 1 .. KeyLen |-> 0]
NoTrack == [f \in Fields |-> <<>>]
Nothing == [valid |-> FALSE]
NoPorts == [control |-> 0, timing |-> 0]

Init ==
  /\ key = Zero /\ iv = Zero /\ haveKey = FALSE /\ fmtp = <<>> /\ ports = NoPorts
  /\ meta = NoTrack /\ gain = Unity /\ response = <<>>
  /\ talk \in {"challenge", "stream", "track", "volume"}
  /\ challenge = <<>> /\ agreed = Nothing /\ format = {} /\ offered = NoPorts
  /\ given = NoTrack /\ slider = 0

Bounded(s, max) == SubSeq(s, 1, Min({Len(s), max}))
-----------------------------------------------------------------------------
(* base64_decode into out, of which cap bytes may be written; bytes written  *)
(* before a failure stay.                                                   *)
Pad == 64
Space == 65
Junk == 66

DecodeCharMutant(cap, st, c) ==
  IF st.end # "no" \/ c = Space THEN st
  ELSE IF c \in {Pad, Junk} THEN [st EXCEPT !.end = IF c = Pad THEN "done" ELSE "failed"]
  ELSE LET acc == (st.acc * 64 + c) % AccMod
           nbits == st.nbits + 6
       IN  IF nbits < 8 THEN [st EXCEPT !.acc = acc, !.nbits = nbits]
           ELSE IF st.o + 1 >= cap THEN [st EXCEPT !.end = "failed"]
           ELSE [st EXCEPT !.acc = acc, !.nbits = nbits - 8, !.o = @ + 1,
                           !.out[st.o + 1] = (acc \div 2^(nbits - 8)) % 256]
DecodeChar(cap, st, c) ==
  IF st.end # "no" \/ c = Space THEN st
  ELSE IF c \in {Pad, Junk} THEN [st EXCEPT !.end = IF c = Pad THEN "done" ELSE "failed"]
  ELSE LET acc == (st.acc * 64 + c) % AccMod
           nbits == st.nbits + 6
       IN  IF nbits < 8 THEN [st EXCEPT !.acc = acc, !.nbits = nbits]
           ELSE IF st.o >= cap THEN [st EXCEPT !.end = "failed"]
           ELSE [st EXCEPT !.acc = acc, !.nbits = nbits - 8, !.o = @ + 1,
                           !.out[st.o + 1] = (acc \div 2^(nbits - 8)) % 256]

DecodeInto(out, cap, text) ==
  LET st[n \in 0 .. Len(text)] ==
        IF n = 0 THEN [acc |-> 0, nbits |-> 0, o |-> 0, out |-> out, end |-> "no"]
        ELSE DecodeChar(cap, st[n - 1], text[n])
  IN  st[Len(text)]
(* base64_encode: groups of three bytes, zeros for those the last one lacks,  *)
(* whose characters are Pad.                                                *)
Group(in, g) ==
  LET b(i) == IF 3 * g + i <= Len(in) THEN in[3 * g + i] ELSE 0
  IN  65536 * b(1) + 256 * b(2) + b(3)
EncodeMutant(in) ==
  [k \in 1 .. 4 * ((Len(in) + 2) \div 3) |->
     IF k > (4 * Len(in)) \div 3 THEN Pad
     ELSE (Group(in, (k - 1) \div 4) \div 64^(3 - ((k - 1) % 4))) % 64]
Encode(in) ==
  [k \in 1 .. 4 * ((Len(in) + 2) \div 3) |->
     IF k > (4 * Len(in) + 2) \div 3 THEN Pad
     ELSE (Group(in, (k - 1) \div 4) \div 64^(3 - ((k - 1) % 4))) % 64]
-----------------------------------------------------------------------------
(* rtsp_header_get: the first of that name among the headers kept. *)
FirstOf(list, name) ==
  LET at == {i \in DOMAIN list : list[i].name = name}
  IN  IF at = {} THEN <<>> ELSE <<list[Min(at)]>>
HeaderGet(headers, name) == FirstOf(Bounded(headers, MaxHeaders), name)

(* raop_challenge_assemble, and raop_crypto_sign_challenge (external). *)
Assemble(chal) ==
  [i \in 1 .. 32 |-> IF i <= 16 THEN chal[i]
                     ELSE IF i <= 20 THEN Ip[i - 16]
                     ELSE IF i <= 26 THEN Mac[i - 20] ELSE 0]
Sign(buf) == [i \in 1 .. SigLen |-> (buf[1 + ((i - 1) % Len(buf))] + i) % 256]

(* handle_options: a challenge of the right length is signed and answered    *)
(* without padding.                                                         *)
Unpadded(text) ==
  LET pads == {i \in DOMAIN text : text[i] = Pad}
  IN  IF pads = {} THEN text ELSE SubSeq(text, 1, Min(pads) - 1)

Options(q) ==
  LET chal == HeaderGet(q.headers, "Apple-Challenge")
      dec == DecodeInto([i \in 1 .. ChallengeMax |-> 0], ChallengeMax, chal[1].value)
      text == Encode(Sign(Assemble(dec.out)))
  IN  /\ response' = IF /\ chal # <<>> /\ dec.end # "failed" /\ dec.o = ChallengeLen
                        /\ Len(text) + 1 <= B64Max
                     THEN Bounded(Unpadded(text), ResponseMax)
                     ELSE <<>>
      /\ challenge' = q.challenge
      /\ UNCHANGED <<session, meta, gain, talk, meant, given, slider>>
-----------------------------------------------------------------------------
(* sdp_parse: the last line of each attribute counts, cut to its field.      *)
Has(lines, attr) == \E i \in DOMAIN lines : lines[i].name = attr
Attr(lines, attr) ==
  LET last == Max({i \in DOMAIN lines : lines[i].name = attr})
  IN  Bounded(lines[last].value, TextMax[attr])

(* raop_crypto_decrypt_aeskey: it fails on anything but a key of KeyLen.     *)
AesKey(lines) ==
  LET dec == DecodeInto([i \in 1 .. EncMax |-> 0], EncMax, Attr(lines, "rsaaeskey"))
  IN  IF dec.end # "failed" /\ dec.o = KeyLen THEN {SubSeq(dec.out, 1, KeyLen)} ELSE {}

(* handle_announce: a key that decodes is stored before the IV is looked at,  *)
(* and the IV is decoded in place.                                          *)
Announce(body) ==
  LET lines == body.lines
      newKey == IF Has(lines, "rsaaeskey") THEN AesKey(lines) ELSE {}
      dec == DecodeInto(iv, KeyLen, Attr(lines, "aesiv"))
      ivOk == ~Has(lines, "aesiv") \/ (dec.end # "failed" /\ dec.o = KeyLen)
      ok == newKey # {} /\ ivOk
  IN  /\ key' = IF newKey # {} THEN CHOOSE k \in newKey : TRUE ELSE key
      /\ iv' = IF newKey # {} /\ Has(lines, "aesiv") THEN dec.out ELSE iv
      /\ haveKey' = IF ok THEN Has(lines, "aesiv") ELSE haveKey
      /\ fmtp' = IF ok /\ Has(lines, "fmtp") THEN Attr(lines, "fmtp") ELSE fmtp
      /\ agreed' = IF ok \/ body.valid
                    THEN [valid |-> body.valid, key |-> body.key, iv |-> body.iv] ELSE Nothing
      /\ format' = IF (ok \/ body.valid) /\ Has(lines, "fmtp") THEN body.format ELSE format
      /\ response' = <<>> /\ challenge' = <<>>
      /\ UNCHANGED <<ports, meta, gain, talk, offered, given, slider>>

(* alac_cfg_from_fmtp: twelve numbers and nothing else, each after the first  *)
(* no larger than its field holds; and what build_decoder takes of them.     *)
FieldMax ==
  <<Word, UInt8, UInt8, UInt8, UInt8, UInt8, UInt8, UInt16, Word, Word, Word>>
Codec(v) ==
  [max_samples_per_frame |-> v[2], c7a |-> v[3], sample_size |-> v[4],
   rice_historymult |-> v[5], rice_initialhistory |-> v[6], rice_kmodifier |-> v[7],
   c7f |-> v[8], c80 |-> v[9], c82 |-> v[10], c86 |-> v[11], rate |-> v[12]]
AlacCfg(text) ==
  IF Len(text) = 12 /\ \A i \in 1 .. 12 : text[i] # <<>>
  THEN LET v == [i \in 1 .. 12 |-> text[i][1]]
       IN  IF \A i \in 2 .. 12 : v[i] \in 0 .. FieldMax[i - 1] THEN {Codec(v)} ELSE {}
  ELSE {}
PcmMax == FrameMax * 2
BuildDecoder(text) ==
  {c \in AlacCfg(text) :
     /\ c.sample_size = 16 /\ c.c7f = 2
     /\ c.max_samples_per_frame \in 1 .. PcmMax \div c.c7f}

(* rtsp_transport_port: the first whole word of that name with a value.      *)
NamedBy(text, name) ==
  {i \in 1 .. Len(text) - 1 : text[i].word = name /\ text[i + 1].word = "="}
PortAfter(text, at) == IF at = {} THEN -1 ELSE text[Min(at) + 2].number
TransportPort(text, name) ==
  PortAfter(text, {i \in NamedBy(text, name) : i = 1 \/ text[i - 1].word \in {";", " "}})

(* handle_setup, as far as the sender's ports go, whether it binds or not.    *)
Setup(t) ==
  LET text == HeaderGet(t.headers, "Transport")
  IN  /\ ports' = IF text = <<>> THEN ports
                  ELSE [control |-> TransportPort(text[1].value, "control_port"),
                        timing |-> TransportPort(text[1].value, "timing_port")]
      /\ offered' = IF text = <<>> THEN offered ELSE t.ports
      /\ response' = <<>> /\ challenge' = <<>>
      /\ UNCHANGED <<key, iv, haveKey, fmtp, meta, gain, talk, agreed, format, given, slider>>
-----------------------------------------------------------------------------
(* dmap_parse over the cells of a body: `at` of them are read, and `ends` are  *)
(* where the containers end in which it is, the innermost first.  A container *)
(* is left at its end, or at a tag whose length overruns it.                 *)
WalkStep(cells, st) ==
  IF st.ends = <<>> THEN st
  ELSE LET end == Head(st.ends)
           tag == cells[st.at + 1]
           from == st.at + 2
           next == from + cells[from]
       IN  IF from > end \/ next > end THEN [st EXCEPT !.at = end, !.ends = Tail(@)]
           ELSE IF tag = "mlit" /\ Len(st.ends) <= MaxDepth
                THEN [st EXCEPT !.at = from, !.ends = <<next>> \o @]
           ELSE IF tag \in Fields
                THEN [st EXCEPT !.at = next,
                                !.found[tag] = <<Bounded(SubSeq(cells, from + 1, next), StrMax)>>]
           ELSE [st EXCEPT !.at = next]

DmapParse(cells) ==
  LET st[n \in 0 .. Len(cells) + 1] ==
        IF n = 0 THEN [at |-> 0, ends |-> <<Len(cells)>>, found |-> NoTrack]
        ELSE WalkStep(cells, st[n - 1])
  IN  st[Len(cells) + 1].found

(* raop_metadata_update: a field without the tag keeps what it had.          *)
MetadataUpdate(found) ==
  meta' = [f \in Fields |-> IF found[f] # <<>> THEN found[f][1] ELSE meta[f]]
-----------------------------------------------------------------------------
(* setparam_classify: the media type, after any spaces, as a whole word.      *)
Classify(text) ==
  LET from == {i \in DOMAIN text : text[i].word # " "}
      first == Min(from)
  IN  IF from # {} /\ (first = Len(text) \/ text[first + 1].word \in {";", " "})
      THEN text[first].word ELSE "other"

(* raop_parse_volume: the first line of that name, if it is a number.        *)
VolumeLine(lines) == FirstOf(lines, "volume")

(* audio_volume_db_to_q16 *)
Q16(db) == IF db <= MuteDb THEN 0 ELSE Gain[Max({MinDb, Min({db, 0})})]

AudioSetVolume(db) == gain' = Q16(db)

(* The volume of a body, if it has one. *)
SetVolume(lines) ==
  LET line == VolumeLine(lines)
  IN  IF line # <<>> /\ line[1].number
      THEN AudioSetVolume(line[1].db) ELSE UNCHANGED gain

(* audio_volume_apply on one sample; at unity playback leaves it out.  The    *)
(* clamp at the end of it has nothing to clamp.                             *)
Half == Unity \div 2
Magnitude(n) == IF n < 0 THEN -n ELSE n
ScaleMutant(sample, fix) == (sample * fix + Half) \div Unity
Scale(sample, fix) ==
  LET v == (Magnitude(sample * fix) + Half) \div Unity
  IN  IF sample < 0 THEN -v ELSE v
Played(sample) == IF gain = Unity THEN sample ELSE Scale(sample, gain)
-----------------------------------------------------------------------------
(* The senders (external).  DMAP items lie one after the other; a container's *)
(* length takes in what is inside it.                                       *)
CellsOf(items) ==
  LET c[n \in 0 .. Len(items)] == IF n = 0 THEN 0 ELSE c[n - 1] + 2 + Len(items[n].value)
  IN  c
LastIn(items, i) == i + items[i].inside
Cells(items) ==
  LET upTo == CellsOf(items)
      Of(p) == CHOOSE i \in DOMAIN items : upTo[i - 1] < p /\ p <= upTo[i]
      Cell(i, c) == CASE c = 1 -> items[i].tag
                      [] c = 2 -> upTo[LastIn(items, i)] - upTo[i - 1] - 2 + items[i].excess
                      [] OTHER -> items[i].value[c - 2]
  IN  [p \in 1 .. upTo[Len(items)] |-> Cell(Of(p), p - upTo[Of(p) - 1])]

(* Containers are within containers, and an item is too long only where its   *)
(* container or the body ends.                                              *)
Around(items, i) == {j \in 1 .. i - 1 : i <= LastIn(items, j)}
WellNested(items) ==
  \A i \in DOMAIN items :
    /\ LastIn(items, i) <= Len(items)
    /\ items[i].inside > 0 => items[i].tag = "mlit"
    /\ items[i].tag = "mlit" => items[i].value = <<>>
    /\ \A j \in Around(items, i) : LastIn(items, i) <= LastIn(items, j)
    /\ items[i].excess > 0 =>
         LastIn(items, i) \in {Len(items)} \cup {LastIn(items, j) : j \in Around(items, i)}

(* The newest text of field f in a body, {} without: of the items that are    *)
(* whole within its first n cells, as deep as DMAP_MAX_DEPTH.                *)
Given(items, n, f) ==
  LET Whole(i) == items[i].excess = 0 /\ CellsOf(items)[LastIn(items, i)] <= n
      texts == {i \in DOMAIN items :
                  /\ items[i].tag = f
                  /\ \A j \in Around(items, i) \cup {i} : Whole(j)
                  /\ Cardinality(Around(items, i)) <= MaxDepth}
  IN  IF texts = {} THEN {} ELSE {items[Max(texts)].value}

Gives(t, items, n) ==
  IF t.means # "application/x-dmap-tagged" THEN given
  ELSE [f \in Fields |-> IF Given(items, n, f) = {} THEN given[f]
                         ELSE Bounded(CHOOSE v \in Given(items, n, f) : TRUE, StrMax)]

Slides(t, lines) ==
  LET line == VolumeLine(lines)
  IN  IF t.means = "text/parameters" /\ line # <<>> /\ line[1].number
      THEN line[1].db ELSE slider

(* Base64 as RFC 4648 has it: the bits of the bytes, six to a character, the   *)
(* last one filled up with zeros.  Read back, text counts up to its first     *)
(* Pad, but for its spaces, and what is left over of a byte does not.        *)
Bit(seq, w, n) ==
  IF n < w * Len(seq) THEN (seq[1 + (n \div w)] \div 2^(w - 1 - (n % w))) % 2 ELSE 0
Six(bytes, n) ==
  32 * Bit(bytes, 8, n) + 16 * Bit(bytes, 8, n + 1) + 8 * Bit(bytes, 8, n + 2)
    + 4 * Bit(bytes, 8, n + 3) + 2 * Bit(bytes, 8, n + 4) + Bit(bytes, 8, n + 5)
Eight(sextets, n) ==
  128 * Bit(sextets, 6, n) + 64 * Bit(sextets, 6, n + 1) + 32 * Bit(sextets, 6, n + 2)
    + 16 * Bit(sextets, 6, n + 3) + 8 * Bit(sextets, 6, n + 4) + 4 * Bit(sextets, 6, n + 5)
    + 2 * Bit(sextets, 6, n + 6) + Bit(sextets, 6, n + 7)

Rfc4648(bytes) == [k \in 1 .. (4 * Len(bytes) + 2) \div 3 |-> Six(bytes, 6 * (k - 1))]
Octets(sextets) == [k \in 1 .. (3 * Len(sextets)) \div 4 |-> Eight(sextets, 8 * (k - 1))]
Sextets(text) ==
  LET s[n \in 0 .. Len(text)] ==
        IF n = 0 THEN <<>>
        ELSE IF text[n] = Space \/ \E i \in 1 .. n : text[i] = Pad THEN s[n - 1]
        ELSE Append(s[n - 1], text[n])
  IN  s[Len(text)]

(* The bytes that a text of `len` bytes means; {} if it means none. *)
Means(text, len) ==
  LET s == Sextets(text)
  IN  {b \in {Octets(s)} : Len(b) = len /\ \A i \in DOMAIN s : s[i] # Junk}

(* What a sender that has the codec c writes for it, and which can be played. *)
CodecFields ==
  {"max_samples_per_frame", "c7a", "sample_size", "rice_historymult", "rice_initialhistory",
   "rice_kmodifier", "c7f", "c80", "c82", "c86", "rate"}
Written(c, payload) ==
  <<<<payload>>, <<c.max_samples_per_frame>>, <<c.c7a>>, <<c.sample_size>>,
    <<c.rice_historymult>>, <<c.rice_initialhistory>>, <<c.rice_kmodifier>>, <<c.c7f>>,
    <<c.c80>>, <<c.c82>>, <<c.c86>>, <<c.rate>>>>
Playable(c) ==
  /\ c.sample_size = 16 /\ c.c7f = 2 /\ c.max_samples_per_frame \in 1 .. FrameMax
  /\ {c.c7a, c.rice_historymult, c.rice_initialhistory, c.rice_kmodifier} \subseteq 0 .. UInt8
  /\ c.c80 \in 0 .. UInt16 /\ {c.c82, c.c86, c.rate} \subseteq 0 .. Word
Numbers(text) == Len(text) = 12 /\ \A i \in 1 .. 12 : text[i] # <<>>

(* Port p is what text gives first under that name. *)
GivenAt(text, name, i) ==
  /\ text[i].word = name /\ text[i + 1].word = "=" /\ (i > 1 => text[i - 1].word \in {";", " "})
GivesPort(text, name, p) ==
  IF \E i \in 1 .. Len(text) - 1 : GivenAt(text, name, i)
  THEN \E i \in 1 .. Len(text) - 2 :
         /\ GivenAt(text, name, i) /\ p = text[i + 2].number
         /\ \A j \in 1 .. i - 1 : ~GivenAt(text, name, j)
  ELSE p = -1

(* The media type of a header, whatever its spaces and parameters.           *)
HasType(text, type) ==
  \E i \in DOMAIN text :
    /\ text[i].word = type /\ \A j \in 1 .. i - 1 : text[j].word = " "
    /\ i < Len(text) => text[i + 1].word \in {";", " "}
MediaTypes == {"text/parameters", "application/x-dmap-tagged"}

(* What a sender says fits where the receiver keeps it, and means what comes  *)
(* beside it.                                                               *)
IsList(list, max) == list \in Seq(Range(list)) /\ Len(list) <= max
Char == 0 .. Junk

ASSUME QuestionsMean ==
  \A q \in Questions :
    LET chal == FirstOf(q.headers, "Apple-Challenge")
    IN  /\ IsList(q.headers, MaxHeaders)
        /\ chal # <<>> => chal[1].value \in Seq(Char)
        /\ q.challenge # <<>> =>
             chal # <<>> /\ Means(chal[1].value, ChallengeLen) = {q.challenge}

ASSUME AnnouncementsMean ==
  \A body \in Announcements :
    LET lines == body.lines
        Key(attr) == IF Has(lines, attr) THEN Means(Attr(lines, attr), KeyLen) ELSE {}
        text == Attr(lines, "fmtp")
    IN  /\ IsList(lines, Len(lines))
        /\ \A i \in DOMAIN lines :
             /\ IsList(lines[i].value, TextMax[lines[i].name])
             /\ lines[i].name # "fmtp" => lines[i].value \in Seq(Char)
        /\ Key("rsaaeskey") \subseteq {body.key} /\ Key("aesiv") \subseteq {body.iv}
        /\ body.valid <=> Key("rsaaeskey") # {} /\ Key("aesiv") # {}
        /\ Has(lines, "fmtp") =>
             \/ \E c \in body.format :
                  /\ body.format = {c} /\ Playable(c) /\ c = [f \in CodecFields |-> c[f]]
                  /\ text # <<>> /\ text[1] # <<>> /\ text = Written(c, text[1][1])
             \/ /\ body.format = {}
                /\ ~(Numbers(text) /\ Playable(Codec([i \in 1 .. 12 |-> text[i][1]])))

ASSUME TransportsMean ==
  \A t \in Transports :
    LET text == FirstOf(t.headers, "Transport")
    IN  /\ IsList(t.headers, MaxHeaders)
        /\ t.ports \in [control : Int, timing : Int]
        /\ text # <<>> => /\ IsList(text[1].value, Len(text[1].value))
                          /\ GivesPort(text[1].value, "control_port", t.ports.control)
                          /\ GivesPort(text[1].value, "timing_port", t.ports.timing)

ASSUME TypesMean ==
  \A t \in Types :
    LET text == FirstOf(t.headers, "Content-Type")
    IN  /\ IsList(t.headers, MaxHeaders)
        /\ text # <<>> => IsList(text[1].value, Len(text[1].value))
        /\ \A m \in MediaTypes :
             t.means = m <=> (text # <<>> /\ HasType(text[1].value, m))

ASSUME TracksMean ==
  \A items \in Tracks :
    /\ IsList(items, Len(items)) /\ WellNested(items)
    /\ \A i \in DOMAIN items :
         /\ IsList(items[i].value, Len(items[i].value))
         /\ items[i].inside \in Nat /\ items[i].excess \in Nat

ASSUME VolumesMean ==
  \A lines \in Volumes :
    /\ IsList(lines, Len(lines))
    /\ \A i \in DOMAIN lines : lines[i].number \in BOOLEAN /\ lines[i].db \in Int
-----------------------------------------------------------------------------
(* handle_set_parameter, for a body of text and for a body of DMAP items; of   *)
(* either, what its Content-Type says counts.  The progress line is logged   *)
(* only, and artwork and the rest are ignored.                              *)
Kind(t) ==
  LET type == HeaderGet(t.headers, "Content-Type")
  IN  IF type = <<>> THEN "other" ELSE Classify(type[1].value)

SetParameterText(t, lines) ==
  /\ Kind(t) # "application/x-dmap-tagged"
  /\ IF Kind(t) = "text/parameters" THEN SetVolume(lines) ELSE UNCHANGED gain
  /\ slider' = Slides(t, lines)
  /\ UNCHANGED <<session, meta, options, talk, meant, given>>

SetParameterTrack(t, items, n) ==
  /\ Kind(t) # "text/parameters"
  /\ IF Kind(t) = "application/x-dmap-tagged"
     THEN MetadataUpdate(DmapParse(SubSeq(Cells(items), 1, n))) ELSE UNCHANGED meta
  /\ given' = Gives(t, items, n)
  /\ UNCHANGED <<session, gain, options, talk, meant, slider>>

(* session_teardown_full, as far as these go: the gain stays. *)
TeardownMutant ==
  /\ key' = Zero /\ iv' = Zero /\ haveKey' = FALSE /\ fmtp' = <<>> /\ ports' = NoPorts
  /\ response' = <<>> /\ challenge' = <<>>
  /\ agreed' = Nothing /\ format' = {} /\ offered' = NoPorts /\ given' = NoTrack
  /\ UNCHANGED <<meta, gain, talk, slider>>
Teardown ==
  /\ key' = Zero /\ iv' = Zero /\ haveKey' = FALSE /\ fmtp' = <<>> /\ ports' = NoPorts
  /\ meta' = NoTrack
  /\ response' = <<>> /\ challenge' = <<>>
  /\ agreed' = Nothing /\ format' = {} /\ offered' = NoPorts /\ given' = NoTrack
  /\ UNCHANGED <<gain, talk, slider>>

(* A behaviour is about one of the four: they share nothing but the teardown. *)
Next ==
  \/ talk = "challenge" /\ \E q \in Questions : Options(q)
  \/ talk = "stream" /\ \E body \in Announcements : Announce(body)
  \/ talk = "stream" /\ \E t \in Transports : Setup(t)
  \/ talk = "volume" /\ \E t \in Types, lines \in Volumes : SetParameterText(t, lines)
  \/ talk = "track" /\ \E t \in Types, items \in Tracks :
       \E n \in 0 .. Len(Cells(items)) : SetParameterTrack(t, items, n)
  \/ Teardown

Spec == Init /\ [][Next]_vars
-----------------------------------------------------------------------------
(***************************************************************************)
(* What RECORD would start is what the sender meant: with the key and the IV  *)
(* of its newest ANNOUNCE, byte for byte and of one announcement, whatever    *)
(* was accepted or refused before it; with the codec of its newest format,   *)
(* or none for one that is out of bounds; to the ports its newest Transport  *)
(* names for timing and control.  And an ANNOUNCE that gives key and IV is   *)
(* accepted, padded or not, wrapped or not.                                 *)
(***************************************************************************)
StreamIsTheAgreed ==
  /\ agreed # Nothing =>
       /\ agreed.valid => haveKey
       /\ haveKey => key = agreed.key /\ iv = agreed.iv
  /\ BuildDecoder(fmtp) = format
  /\ ports = offered

(***************************************************************************)
(* A sender that challenges the receiver gets the proof it asks for: as it    *)
(* decodes Apple-Response, the signature over its own challenge and the       *)
(* receiver's addresses, whole (raop.c:97-139: four buffers it has to fit).  *)
(***************************************************************************)
ChallengeIsMet ==
  challenge # <<>> =>
    response = Rfc4648(Sign(challenge \o Ip \o Mac \o <<0, 0, 0, 0, 0, 0>>))

(***************************************************************************)
(* The track shown has, of each field, the newest text this connection gave, *)
(* cut to what fits, whether it came flat or wrapped, before or after an     *)
(* unknown or a broken item; nothing of an earlier connection ("forget the    *)
(* last now-playing", raop.c:79).                                           *)
(***************************************************************************)
MetadataIsTheNewest == meta = given

(***************************************************************************)
(* Playback follows the slider: silence at the mute sentinel only, the very  *)
(* samples at full volume and above, never louder than the source, and as    *)
(* loud below zero as above it ("keep +v and -v symmetric",                  *)
(* audio_volume.c:26).  Samples of every size up to Unity are looked at.     *)
(***************************************************************************)
VolumeFollowsSlider ==
  /\ (gain = 0) <=> (slider <= MuteDb)
  /\ \A sample \in -Unity .. Unity :
       /\ slider >= 0 => Played(sample) = sample
       /\ Magnitude(Played(sample)) <= Magnitude(sample)
       /\ Played(-sample) = -Played(sample)
=============================================================================
