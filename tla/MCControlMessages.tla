--------------------------- MODULE MCControlMessages --------------------------
(* Senders that write base64 as RFC 4648 does, padded, unpadded or wrapped,   *)
(* and some that get it wrong; codecs at and past every bound; ports under    *)
(* other words, or none; tracks flat, wrapped, nested too deep, broken and cut off; *)
(* volumes in and out of range.                                             *)
EXTENDS ControlMessages

Padded(text) == text \o [i \in 1 .. (4 - (Len(text) % 4)) % 4 |-> Pad]
Wrapped(text) == SubSeq(text, 1, 2) \o <<Space>> \o SubSeq(text, 3, Len(text))
Forms(bytes) == {Rfc4648(bytes), Padded(Rfc4648(bytes)), Wrapped(Padded(Rfc4648(bytes)))}

Line(attr, text) == [name |-> attr, value |-> text]
Sdp(lines, k, v, f, valid) ==
  [lines |-> lines, key |-> k, iv |-> v, format |-> f, valid |-> valid]
(* "96 352 0 16 40 10 14 2 255 0 0 44100", and others. *)
Common == <<96, 352, 0, 16, 40, 10, 14, 2, 255, 0, 0, 44100>>
Spoken(ns) == [i \in DOMAIN ns |-> <<ns[i]>>]
Meaning(ns) ==
  [max_samples_per_frame |-> ns[2], sample_size |-> ns[4], c7f |-> ns[8], rate |-> ns[12],
   rice_historymult |-> ns[5], rice_initialhistory |-> ns[6], rice_kmodifier |-> ns[7],
   c7a |-> ns[3], c80 |-> ns[9], c82 |-> ns[10], c86 |-> ns[11]]
Longest == [Common EXCEPT ![1] = -1, ![2] = 4096, ![9] = 65535, ![12] = 100000]
Formats ==
  {[text |-> Spoken(ns), means |-> {Meaning(ns)}] : ns \in {Common, Longest}}
  \cup {[text |-> t, means |-> {}] :
          t \in {Spoken(Append(Common, 1)), SubSeq(Spoken(Common), 1, 11),
                 [Spoken(Common) EXCEPT ![11] = <<>>], <<>>}
                \cup {Spoken([Common EXCEPT ![i] = 256]) : i \in {2, 3, 4, 5, 6, 7, 8} \ {2}}
                \cup {Spoken([Common EXCEPT ![2] = n]) : n \in {0, 4097}}
                \cup {Spoken([Common EXCEPT ![i] = 100001]) : i \in {2, 9, 10, 11, 12}}
                \cup {Spoken([Common EXCEPT ![4] = 24]), Spoken([Common EXCEPT ![8] = 1]),
                      Spoken([Common EXCEPT ![11] = -1])}}
Fmtp(f) == Line("fmtp", f.text)
First == CHOOSE f \in Formats : f.text = Spoken(Common)
Second == CHOOSE f \in Formats : f.text = Spoken(Longest)
Pairs == {<<<<0, 255, 128, 1>>, <<127, 1, 0, 254>>>>, <<<<251, 239, 190, 255>>, <<85, 170, 15, 240>>>>}
Good(k, v) ==
  UNION {{Sdp(<<Line("rsaaeskey", t), Fmtp(First), Line("aesiv", u)>>, k, v, First.means, TRUE),
          Sdp(<<Line("aesiv", <<Junk>>), Line("aesiv", u), Line("rsaaeskey", t)>>, k, v, {}, TRUE),
          Sdp(<<Line("rsaaeskey", t), Fmtp(Second)>>, k, v, Second.means, FALSE)} :
         <<t, u>> \in Forms(k) \X Forms(v)}
  \cup {Sdp(<<Line("rsaaeskey", Rfc4648(k)), Fmtp(f), Line("aesiv", Rfc4648(v))>>,
            k, v, f.means, TRUE) : f \in Formats}
Bad(k, v) ==
  {Sdp(<<Line("rsaaeskey", Rfc4648(k)), Line("aesiv", u)>>, k, v, {}, FALSE) :
     u \in {Rfc4648(v \o <<7>>), SubSeq(Rfc4648(v), 1, 3) \o <<Junk>>}}
  \cup {Sdp(<<Line("aesiv", Rfc4648(v))>>, k, v, {}, FALSE),
        Sdp(<<Line("rsaaeskey", SubSeq(Rfc4648(k), 1, 4))>>, k, v, {}, FALSE)}
MCAnnouncements == UNION {Good(k, v) \cup Bad(k, v) : <<k, v>> \in Pairs}

Header(name, value) == [name |-> name, value |-> value]
CSeq == Header("CSeq", <<>>)
Bytes(n, from) == [i \in 1 .. n |-> (from + 37 * i) % 256]
Asking(text) == {<<CSeq, Header("Apple-Challenge", text)>>,
                 <<Header("Apple-Challenge", text), CSeq, Header("Apple-Challenge", <<>>)>>}
MCQuestions ==
  UNION {{[headers |-> hs, challenge |-> Bytes(16, from)] :
            hs \in UNION {Asking(t) : t \in Forms(Bytes(16, from))}} : from \in {0, 200}}
  \cup UNION {{[headers |-> hs, challenge |-> <<>>] : hs \in Asking(Rfc4648(Bytes(n, 5)))} :
               n \in {15, 17, 33}}
  \cup {[headers |-> <<CSeq>>, challenge |-> <<>>]}
MCIp == <<192, 168, 4, 1>>
MCMac == <<2, 255, 0, 128, 127, 1>>

Words(ws) == [i \in DOMAIN ws |-> [word |-> ws[i], number |-> 0]]
Value(n) == <<[word |-> "value", number |-> n]>>
Param(name, n) == Words(<<name, "=">>) \o Value(n)
Ports(c, t) == [control |-> c, timing |-> t]
Transport(text, p) == [headers |-> <<CSeq, Header("Transport", text)>>, ports |-> p]
MCTransports ==
  {Transport(Words(<<"RTP/AVP/UDP", ";">>) \o Param("control_port", 6001) \o Words(<<";">>)
               \o Param("timing_port", 6002), Ports(6001, 6002)),
   Transport(Words(<<"RTP/AVP/UDP", ";", "server_">>) \o Param("control_port", 1)
               \o Words(<<";", "timing_port", ";", " ">>) \o Param("timing_port", 7)
               \o Words(<<";">>) \o Param("control_port", 8), Ports(8, 7)),
   Transport(Param("timing_port", 9), Ports(-1, 9)),
   [headers |-> <<CSeq>>, ports |-> NoPorts]}

Type(text, means) == [headers |-> <<CSeq, Header("Content-Type", Words(text))>>, means |-> means]
MCTypes ==
  {Type(<<"text/parameters">>, "text/parameters"),
   Type(<<" ", "application/x-dmap-tagged", ";", "charset">>, "application/x-dmap-tagged"),
   Type(<<"text/parameters", "X">>, "other"), Type(<<"image/jpeg">>, "other"),
   Type(<<" ">>, "other"), [headers |-> <<CSeq>>, means |-> "other"]}

Item(tag, value) == <<[tag |-> tag, value |-> value, inside |-> 0, excess |-> 0]>>
Listing(items) ==
  <<[tag |-> "mlit", value |-> <<>>, inside |-> Len(items), excess |-> 0]>> \o items
Broken == <<[tag |-> "minm", value |-> <<"z">>, inside |-> 0, excess |-> 1]>>
Unknown == Item("asgn", <<"minm", "x">>)
Fits == {Item("minm", <<>>), Item("minm", <<"a", "b", "c">>), Item("asar", <<"b">>)}
Seqs == {<<>>} \cup Fits \cup {a \o b : <<a, b>> \in Fits \X Fits}
Flat == Seqs \cup {s \o Broken : s \in Seqs}
Listings == {Listing(s) : s \in Flat}
MCTracks ==
  Flat
  \cup {Unknown \o l : l \in Listings}
  \cup {Listing(l \o Item("minm", <<"q">>)) : l \in Listings}

Number(name, db) == [name |-> name, number |-> TRUE, db |-> db]
MCVolumes ==
  {<<Number("volume", db)>> : db \in {-144, -143, -7, 6}}
  \cup {<<Number("progress", 1), Number("volume", -7), Number("volume", 6)>>,
        <<[name |-> "volume", number |-> FALSE, db |-> 0], Number("volume", -7)>>,
        <<Number("volumes", -5)>>, <<>>}

MCGain == [d \in -30 .. 0 |-> 64 + 2 * d]
MCTextMax == [rsaaeskey |-> 12, aesiv |-> 12, fmtp |-> 13]
=============================================================================
