------------------------------ MODULE PortalForm ------------------------------
(***************************************************************************)
(* The page of the setup portal and the form that comes back                *)
(* (components/network/src/wifi_provisioning.c): the networks it lists, as   *)
(* HTML, and the name and password it reads out of the form, or refuses.     *)
(*                                                                         *)
(* Text is a sequence of bytes, none of them zero.  The browser between the  *)
(* two is external: it decodes the page, which says charset=utf-8, reads the *)
(* HTML, and sends the three fields URL-encoded.                            *)
(* A body is the sequence of its fields [key, text].                        *)
(***************************************************************************)
EXTENDS Integers, Sequences, FiniteSetsExt

MaxScanResults == 16
EscapedSize == 180
EncodedSize == 192
FormBodyMax == 384
NameSize == 33   \* selected and manual
PassSize == 64
PassMin == 8

Space == 32
Quote == 34
Percent == 37
Ampersand == 38
Plus == 43
Semicolon == 59

Byte == 1 .. 255   \* of a text
Field == [key : {"ssid", "manual", "pass"}, text : Seq(Byte)]
KeyLength == [ssid |-> 4, manual |-> 6, pass |-> 4]

(* The state a loop over a sequence ends in: the step of an item is a function *)
(* from states to states.                                                   *)
Loop(step, start, items) ==
  LET state[n \in 0 .. Len(items)] ==
        IF n = 0 THEN start ELSE step[items[n]][state[n - 1]]
  IN  state[Len(items)]
-----------------------------------------------------------------------------
(* html_escape: what replaces a byte, and as much of the text as fits.       *)
Entity(c) ==
  CASE c = 38 -> <<38, 97, 109, 112, 59>>
    [] c = 60 -> <<38, 108, 116, 59>>
    [] c = 62 -> <<38, 103, 116, 59>>
    [] c = 34 -> <<38, 113, 117, 111, 116, 59>>
    [] c = 39 -> <<38, 35, 51, 57, 59>>
    [] OTHER -> <<c>>

EscapeByte ==
  [c \in Byte |-> [st \in [text : Seq(Byte), full : BOOLEAN] |->
     IF st.full \/ Len(st.text) + Len(Entity(c)) >= EscapedSize
     THEN [st EXCEPT !.full = TRUE]
     ELSE [st EXCEPT !.text = @ \o Entity(c)]]]
Escape(src) == Loop(EscapeByte, [text |-> <<>>, full |-> FALSE], src)
HtmlEscape(src) == Escape(src).text

(* portal_get_handler: the options of the list, each name once.              *)
Results(scan) == SubSeq(scan, 1, Min({Len(scan), MaxScanResults}))
IsDuplicate(scan, i) == \E j \in 1 .. i - 1 : scan[j] = scan[i]
Options(scan) ==
  LET found == Results(scan)
  IN  {HtmlEscape(found[i]) : i \in {j \in DOMAIN found : found[j] # <<>> /\ ~IsDuplicate(found, j)}}
-----------------------------------------------------------------------------
(* url_decode: the byte that a text begins with, {} if none, and its width.   *)
HexValue(c) ==
  CASE c \in 48 .. 57 -> {c - 48} [] c \in 97 .. 102 -> {c - 87}
    [] c \in 65 .. 70 -> {c - 55} [] OTHER -> {}
Decoded(src) ==
  IF src[1] = Plus THEN {Space}
  ELSE IF src[1] # Percent THEN {src[1]}
  ELSE IF Len(src) < 3 THEN {}
  ELSE {16 * hi + lo : hi \in HexValue(src[2]), lo \in HexValue(src[3])}
Width(src) == IF src[1] = Percent THEN 3 ELSE 1

(* One turn of its loop: what is left of the source, and what it has made.  It *)
(* stays where it fails, and ends in size turns.                             *)
DecodeCharMutant(size) ==
  [turn \in Nat |-> [st \in [src : Seq(Byte), dst : Seq(0 .. 255)] |->
     IF st.src = <<>> \/ Len(st.dst) >= size \/ Decoded(st.src) = {} THEN st
     ELSE [src |-> SubSeq(st.src, Width(st.src) + 1, Len(st.src)),
           dst |-> Append(st.dst, CHOOSE b \in Decoded(st.src) : TRUE)]]]
DecodeChar(size) ==
  [turn \in Nat |-> [st \in [src : Seq(Byte), dst : Seq(0 .. 255)] |->
     IF st.src = <<>> \/ Len(st.dst) + 1 >= size \/ Decoded(st.src) = {} THEN st
     ELSE [src |-> SubSeq(st.src, Width(st.src) + 1, Len(st.src)),
           dst |-> Append(st.dst, CHOOSE b \in Decoded(st.src) : TRUE)]]]

UrlDecode(src, size) ==
  LET end == Loop(DecodeChar(size), [src |-> src, dst |-> <<>>], [turn \in 1 .. size |-> turn])
  IN  IF end.src # <<>> THEN {} ELSE {end.dst}

(* form_value, over httpd_query_key_value, which finds the first of that key. *)
FormValue(body, key, size) ==
  LET found == {i \in DOMAIN body : body[i].key = key}
      encoded == body[Min(found)].text
  IN  IF found = {} \/ Len(encoded) >= EncodedSize THEN {} ELSE UrlDecode(encoded, size)

(* The length of a body: the fields, = after the key and & between them. *)
ContentLen(body) ==
  Loop([f \in Field |-> [n \in Int |-> n + KeyLength[f.key] + 1 + Len(f.text)]],
       Len(body) - 1, body)

(* save_post_handler up to the save: the credentials it goes on with, if any. *)
Submitted(body) ==
  {c \in {[ssid |-> IF manual # <<>> THEN manual ELSE selected, pass |-> password] :
            selected \in FormValue(body, "ssid", NameSize),
            manual \in FormValue(body, "manual", NameSize),
            password \in FormValue(body, "pass", PassSize)} :
     /\ ContentLen(body) \in 1 .. FormBodyMax
     /\ c.ssid # <<>> /\ (c.pass = <<>> \/ Len(c.pass) >= PassMin)}
-----------------------------------------------------------------------------
(* The browser (external).  A name is the bytes of a beacon, of any encoding, *)
(* and a page is UTF-8 (wifi_provisioning.c:29, 89): the decoder puts U+FFFD  *)
(* for what is none.  CR, LF and CR LF are one line end, sent as CR LF.       *)
(* Spans is how many bytes the character or line end takes that begins with b, *)
(* 0 if none does; After, the bytes that may come next in it.                *)
Spans(b) ==
  CASE b \in (1 .. 127) \ {10, 13} -> 1
    [] b = 13 \/ b \in 194 .. 223 -> 2
    [] b \in 224 .. 239 -> 3
    [] b \in 240 .. 244 -> 4
    [] OTHER -> 0
After(char) ==
  IF Len(char) > 1 THEN 128 .. 191
  ELSE CASE char[1] = 13 -> {10}
         [] char[1] = 224 -> 160 .. 191
         [] char[1] = 237 -> 128 .. 159
         [] char[1] = 240 -> 144 .. 191
         [] char[1] = 244 -> 128 .. 143
         [] OTHER -> 128 .. 191

(* What a byte comes to that begins nothing, or nothing that is finished.    *)
Instead(b) == IF b \in {10, 13} THEN <<13, 10>> ELSE <<239, 191, 189>>
Broken(char) == IF char = <<>> THEN <<>> ELSE Instead(char[1])

(* With a character begun, if any, the next byte goes on with it or begins    *)
(* another: what is pending then, and what is finished.                      *)
GoesOn(char, c) == char # <<>> /\ c \in After(char)
Begun(char, c) == IF GoesOn(char, c) THEN Append(char, c) ELSE <<c>>
Pending(char, c) ==
  IF Spans(Begun(char, c)[1]) > Len(Begun(char, c)) THEN Begun(char, c) ELSE <<>>
Finished(char, c) ==
  (IF GoesOn(char, c) THEN <<>> ELSE Broken(char))
  \o CASE Pending(char, c) # <<>> -> <<>>
       [] Spans(Begun(char, c)[1]) = 0 -> Instead(c)
       [] OTHER -> Begun(char, c)
ShowByte ==
  [c \in Byte |-> [st \in [text : Seq(Byte), char : Seq(Byte)] |->
     [text |-> st.text \o Finished(st.char, c), char |-> Pending(st.char, c)]]]
Shown(text) ==
  LET end == Loop(ShowByte, [text |-> <<>>, char |-> <<>>], text)
  IN  end.text \o Broken(end.char)

(* A name that a page can show, and a form send, as it is.                   *)
Legible(text) == Shown(text) = text

(* It reads an attribute up to its quote.                                    *)
ReadByte ==
  [c \in Byte |-> [st \in [text : Seq(Byte), entity : Seq(Byte), closed : BOOLEAN] |->
     IF st.closed \/ c = Quote THEN [st EXCEPT !.closed = TRUE]
     ELSE IF c = Ampersand THEN [st EXCEPT !.text = @ \o st.entity, !.entity = <<c>>]
     ELSE IF st.entity = <<>> THEN [st EXCEPT !.text = Append(@, c)]
     ELSE IF c # Semicolon THEN [st EXCEPT !.entity = Append(@, c)]
     ELSE LET name == Append(st.entity, c)
              meant == {d \in {34, 38, 39, 60, 62} : Entity(d) = name}
          IN  [st EXCEPT !.text = @ \o IF meant = {} THEN name ELSE <<CHOOSE d \in meant : TRUE>>,
                         !.entity = <<>>]]]
ReadHtml(text) ==
  LET end == Loop(ReadByte, [text |-> <<>>, entity |-> <<>>, closed |-> FALSE], text)
  IN  end.text \o end.entity

(* What it sends as it is, and the digits that it, or another client, uses.   *)
Unreserved == (48 .. 57) \cup (65 .. 90) \cup (97 .. 122) \cup {42, 45, 46, 95}
Upper(v) == IF v < 10 THEN v + 48 ELSE v + 55
Lower(v) == IF v < 10 THEN v + 48 ELSE v + 87
Browser ==
  [c \in Byte |-> IF c \in Unreserved THEN <<c>>
                  ELSE IF c = Space THEN <<Plus>>
                  ELSE <<Percent, Upper(c \div 16), Upper(c % 16)>>]
Script == [c \in Byte |-> <<Percent, Lower(c \div 16), Lower(c % 16)>>]
UrlEncode(text, char) ==
  Loop([c \in Byte |-> [out \in Seq(Byte) |-> out \o char[c]]], <<>>, text)

(* The form that sends an entry [selected, manual, pass]. *)
Form(entry, char) ==
  <<[key |-> "ssid", text |-> UrlEncode(entry.selected, char)],
    [key |-> "manual", text |-> UrlEncode(entry.manual, char)],
    [key |-> "pass", text |-> UrlEncode(entry.pass, char)]>>
=============================================================================
