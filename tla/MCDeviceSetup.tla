---------------------------- MODULE MCDeviceSetup -----------------------------
(* Names and passwords with every byte that HTML or a URL treats on its own,  *)
(* at and past their limits, selected, typed or both.                        *)
EXTENDS DeviceSetup

Plain(n) == [i \in 1 .. n |-> 97 + (i % 26)]
Symbols == <<38, 60, 62, 34, 39, 43, 37, 32, 59, 61, 35, 195, 169, 42, 65,
             226, 130, 172, 240, 159, 142, 181>>
Escaped(n) == [i \in 1 .. n |-> IF i % 3 = 0 THEN 38 ELSE IF i % 3 = 1 THEN 195 ELSE 128 + i]
Latin1 == <<67, 97, 102, 233>>

(* More results than fit, a name twice, a hidden one, one that is not UTF-8.  *)
MCScan ==
  <<Symbols, Plain(32), <<>>, Symbols, Escaped(32), Latin1>> \o [i \in 1 .. 12 |-> <<48, 64 + i>>]
Choice(s, m, p) == [selected |-> s, manual |-> m, pass |-> p]
MCEntries ==
  {Choice(s, m, p) :
     s \in {<<>>, Symbols, Plain(32), Escaped(32), Latin1},
     m \in {<<>>, <<32>>, Symbols, Escaped(32), Plain(33)},
     p \in {<<>>, Plain(7), Plain(8), Symbols, Escaped(63), Plain(63), Plain(64)}}
MCSaves == {Choice(Symbols, <<>>, Escaped(63)), Choice(Plain(32), <<32>>, <<>>),
            Choice(<<>>, <<>>, Plain(8)), Choice(Symbols, <<>>, Plain(7))}
(* The names fit, as DeviceChoiceIsTaken takes for granted. *)
ASSUME MCNamesFit == \A entry \in Entries : ~Escape(entry.selected).full
(* What a browser makes of some bytes that are not UTF-8, and of line ends.   *)
ASSUME MCDecoder ==
  LET U == <<239, 191, 189>>
  IN  /\ ~Legible(Latin1) /\ Shown(Latin1) = <<67, 97, 102>> \o U
      /\ Shown(<<237, 160, 128>>) = U \o U \o U
      /\ Shown(<<240, 159, 142, 65>>) = Append(U, 65)
      /\ Shown(<<192, 175, 226, 130>>) = U \o U \o U
      /\ Shown(<<10, 65, 13, 65, 13, 10>>) = <<13, 10, 65, 13, 10, 65, 13, 10>>
      /\ Legible(U) /\ Legible(Symbols)
=============================================================================
