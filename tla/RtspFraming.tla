----------------------------- MODULE RtspFraming ------------------------------
(***************************************************************************)
(* How the RTSP server cuts the byte stream of its one connection into      *)
(* requests (the receive half of server_task in components/raop/src/raop.c  *)
(* and rtsp_parse_request in rtsp_parser.c).  TCP hands the bytes over in    *)
(* pieces of any size; several requests may be pipelined; a body that does   *)
(* not fit the receive buffer is drained off the socket and acknowledged.   *)
(*                                                                         *)
(* A request is its number of header bytes, the blank line included, and of *)
(* body bytes.  A position is a count of bytes from the start of the stream. *)
(* Senders are taken to list Content-Length among the first RTSP_MAX_HEADERS *)
(* headers, and bodies to hold no blank line where parsing could start.     *)
(* When the server ends the connection (idle, TEARDOWN) is in RtspServer.   *)
(***************************************************************************)
EXTENDS Integers, Sequences

CONSTANTS
  Cap,     \* RAOP_RX_CAP (2048)
  Sizes,   \* the requests a sender may send: records [hdr, body]
  Length   \* requests in the stream (bounds the model only)

ASSUME FramingAssumption ==
  /\ Cap \in Nat \ {0} /\ Length \in Nat
  /\ Sizes \subseteq [hdr : Nat \ {0}, body : Nat]

VARIABLES
  stream,   \* the sender: the requests it sends on this connection
  wire,     \* how far the socket has received
  hungup,   \* has the sender closed after that?
  pc,       \* where the server is
  base,     \* position of rx[0]
  used,     \* bytes in rx
  todrain,  \* bytes of an oversized body still to be drained
  answers,  \* history: the requests answered, by number and by what was done
  lost      \* history: has a drain been given up?

sender == <<stream, wire, hungup>>
server == <<pc, base, used, todrain, answers, lost>>
vars == <<sender, server>>

Request == 1 .. Length
Size(i) == stream[i].hdr + stream[i].body
Start == LET start[i \in 1 .. Length + 1] == IF i = 1 THEN 0 ELSE start[i - 1] + Size(i - 1)
         IN  start
BlankLine(i) == Start[i] + stream[i].hdr
Received == base + used
Least(a, b) == IF a <= b THEN a ELSE b

Init ==
  /\ stream \in [Request -> Sizes] /\ wire = 0 /\ hungup = FALSE
  /\ pc = "select" /\ base = 0 /\ used = 0 /\ todrain = 0
  /\ answers = <<>> /\ lost = FALSE
-----------------------------------------------------------------------------
(* The sender and TCP (external). *)
Deliver ==
  /\ ~hungup
  /\ wire' \in wire + 1 .. Start[Length + 1]
  /\ UNCHANGED <<stream, hungup, server>>

HangUp ==
  /\ ~hungup /\ hungup' = TRUE
  /\ UNCHANGED <<stream, wire, server>>
-----------------------------------------------------------------------------
(* rtsp_parse_request at rx[0]: the first blank line ends the header, whose  *)
(* Content-Length says where the body ends.                                 *)
Ends == {i \in Request : BlankLine(i) > base}
Front == CHOOSE i \in Ends : \A j \in Ends : i <= j
HeaderSeen == Ends # {} /\ BlankLine(Front) <= Received
FrontEndMutant == BlankLine(Front)
FrontEnd == BlankLine(Front) + stream[Front].body
Complete == HeaderSeen /\ FrontEnd <= Received

(* What is cut out is request i only if it is cut at its first byte. *)
Cut == IF base = Start[Front] THEN Front ELSE 0
Answered(how) == answers' = Append(answers, [of |-> Cut, how |-> how])

Full == used >= Cap
Readable == pc = "select" /\ (Received < wire \/ hungup)

Recv ==
  /\ Readable /\ ~Full /\ Received < wire
  /\ used' \in used + 1 .. Least(Cap, used + (wire - Received))
  /\ pc' = "parse"
  /\ UNCHANGED <<sender, base, todrain, answers, lost>>

RecvEnd ==
  /\ Readable /\ ~Full /\ Received = wire
  /\ pc' = "closed"
  /\ UNCHANGED <<sender, base, used, todrain, answers, lost>>

(* Every complete request is dispatched before the next recv. *)
DispatchMutant ==
  /\ pc = "parse" /\ Complete
  /\ Answered("dispatched")
  /\ base' = FrontEnd /\ used' = Received - FrontEnd
  /\ pc' = "select"
  /\ UNCHANGED <<sender, todrain, lost>>
Dispatch ==
  /\ pc = "parse" /\ Complete
  /\ Answered("dispatched")
  /\ base' = FrontEnd /\ used' = Received - FrontEnd
  /\ UNCHANGED <<sender, pc, todrain, lost>>

NeedsMore ==
  /\ pc = "parse" /\ ~Complete
  /\ pc' = "select"
  /\ UNCHANGED <<sender, base, used, todrain, answers, lost>>
-----------------------------------------------------------------------------
(* The buffer is full and its request is not complete.                      *)
Oversized ==
  /\ Readable /\ Full /\ HeaderSeen
  /\ todrain' = stream[Front].body - (Received - BlankLine(Front))
  /\ pc' = "drain"
  /\ UNCHANGED <<sender, base, used, answers, lost>>

HugeHeaders ==
  /\ Readable /\ Full /\ ~HeaderSeen
  /\ pc' = "closed"
  /\ UNCHANGED <<sender, base, used, todrain, answers, lost>>

(* What the socket has given so far, of the request being drained. *)
Drained == FrontEnd - todrain

Drain ==
  /\ pc = "drain" /\ todrain > 0 /\ Drained < wire
  /\ \E n \in 1 .. Least(todrain, wire - Drained) : todrain' = todrain - n
  /\ UNCHANGED <<sender, pc, base, used, answers, lost>>

(* 200, whatever came: on to the next byte the socket gives. *)
Acknowledge ==
  /\ Answered("drained")
  /\ base' = Drained /\ used' = 0 /\ todrain' = 0
  /\ pc' = "select"

DrainDone ==
  /\ pc = "drain" /\ todrain = 0
  /\ Acknowledge
  /\ UNCHANGED <<sender, lost>>

(* SO_RCVTIMEO, or the end of the connection, in the middle of a body. *)
DrainGivesUp ==
  /\ pc = "drain" /\ todrain > 0 /\ Drained = wire
  /\ Acknowledge
  /\ lost' = TRUE
  /\ UNCHANGED sender
-----------------------------------------------------------------------------
Server ==
  \/ Recv \/ RecvEnd \/ Dispatch \/ NeedsMore
  \/ Oversized \/ HugeHeaders \/ Drain \/ DrainDone \/ DrainGivesUp

Next == Deliver \/ HangUp \/ Server

(* The server task is scheduled.  The sender may stop anywhere. *)
Spec == Init /\ [][Next]_vars /\ WF_vars(Server)
-----------------------------------------------------------------------------
(* How far the stream of requests goes before one whose header does not fit. *)
Fits(i) == stream[i].hdr <= Cap
Served == {i \in Request : \A j \in 1 .. i : Fits(j)}

(***************************************************************************)
(* Whatever pieces TCP makes of the stream, the requests answered are the    *)
(* requests sent, one by one from the first, each dispatched whole when it  *)
(* fits the buffer (to the last byte) and drained when it does not: the      *)
(* server never loses its place, never takes a body for a request, and its   *)
(* memmove and drain arithmetic agree (raop.c:474-527).  Only a drain given  *)
(* up in the middle of a body may lose the place.                           *)
(***************************************************************************)
AnswersFollowTheStream ==
  ~lost =>
    /\ DOMAIN answers \subseteq Served
    /\ \A i \in DOMAIN answers :
         answers[i] = [of |-> i, how |-> IF Size(i) <= Cap THEN "dispatched" ELSE "drained"]

(***************************************************************************)
(* A request that is complete in the buffer never waits for more bytes to   *)
(* arrive, and the buffer never fills up for good: it is full only with     *)
(* the front part of a request that does not fit ("Drain every complete      *)
(* pipelined request currently buffered", raop.c:517).                      *)
(***************************************************************************)
NothingCompleteWaits ==
  pc = "select" =>
    /\ ~Complete
    /\ Full /\ ~lost => Size(Front) > Cap

(***************************************************************************)
(* A request that has arrived is answered ("a sender that gets no ack for a *)
(* control message stalls", raop.c:209), those too large for the buffer      *)
(* included, unless the connection ends or a drain was given up before.     *)
(***************************************************************************)
Arrived(i) == i \in Served /\ wire >= Start[i + 1]
ArrivedIsAnswered ==
  \A i \in Request : Arrived(i) ~> (Len(answers) >= i \/ lost)

(***************************************************************************)
(* What makes the first two inductive: as long as no drain was given up, the *)
(* buffer starts where the request to be answered next does; and the server  *)
(* never has more than was sent.                                            *)
(***************************************************************************)
FramingTypes ==
  /\ stream \in [Request -> Sizes] /\ wire \in Int /\ wire <= Start[Length + 1]
  /\ base \in Int /\ used \in 0 .. Cap /\ todrain \in Int
  /\ pc \in {"select", "parse", "drain", "closed"} /\ lost \in BOOLEAN
  /\ answers \in Seq([of : 0 .. Length, how : {"dispatched", "drained"}])

(* Nothing is taken before it has come; a drain knows its request.          *)
Draining ==
  /\ pc # "drain" => Received <= wire
  /\ pc = "drain" =>
       /\ Ends # {} /\ todrain >= 0 /\ Drained <= wire
       /\ ~lost => Size(Front) > Cap /\ Fits(Front)

NextRequest == Len(answers) + 1
InPlace == NextRequest \in 1 .. Length + 1 /\ base = Start[NextRequest]

FramingIInv ==
  /\ FramingTypes /\ Draining /\ (~lost => InPlace)
  /\ pc = "select" => ~Complete
  /\ AnswersFollowTheStream
=============================================================================
