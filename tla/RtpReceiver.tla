----------------------------- MODULE RtpReceiver ------------------------------
(***************************************************************************)
(* The RTP receive task of the RAOP receiver (components/raop/src/          *)
(* raop_rtp.c) over its reorder buffer: audio datagrams and resent ones     *)
(* arrive on two sockets, are buffered by sequence number, drained in order *)
(* to the PCM ring, and a hole at the play cursor is asked for again.       *)
(*                                                                         *)
(* A third socket carries timing: many a sender sends no audio until it has  *)
(* seen a timing request, and gives the session up if none comes.           *)
(*                                                                         *)
(* The sender and the network are external.  A datagram under way is the     *)
(* position of its packet in the stream, 0 .. N-1; what the receiver gets of *)
(* it are bytes with the sequence number SeqOf(position), which wraps.        *)
(* Datagrams are lost, reordered and, since a resent packet may cross a late *)
(* one, duplicated.  A packet's timestamp and SSRC, which nothing reads, are *)
(* left out of its header; so are datagrams that are not of the formats.    *)
(***************************************************************************)
EXTENDS RtpReorder, Sequences

CONSTANTS
  N,            \* packets in the stream
  FirstSeq,     \* the sequence number of position 0
  Outage,       \* at most this many packets in a row fail to arrive
  Lifetime,     \* nothing about a packet is under way once this many newer
                \* ones are sent (in the code's terms: well below 2^15)
  Throttle,     \* RESEND_MIN_INTERVAL_MS, in steps of the clock
  Cadence,      \* TIMING_INTERVAL_MS, in steps of another clock
  Patience,     \* how long a sender waits for timing, in steps of that clock
  Byte,         \* the values of each byte of a sequence number (256)
  BadLen,       \* positions whose payload insert refuses (length)
  Undecodable   \* positions whose payload decodes to no frame

Position == 0 .. N - 1

ASSUME StreamAssumption ==
  /\ N \in Nat /\ FirstSeq \in SeqNo
  /\ Outage \in Nat \ {0} /\ Lifetime \in Nat \ {0} /\ Throttle \in Nat
  /\ BadLen \subseteq Position /\ Undecodable \subseteq Position \ BadLen
  /\ Payload = Position \ BadLen
  /\ Byte \in Nat \ {0} /\ SeqMod = Byte * Byte
  /\ Cadence \in Nat \ {0} /\ Patience \in Nat \ {0}

VARIABLES
  sent,     \* the sender: position of the next packet to send
  air,      \* audio datagrams under way
  wanted,   \* sequence numbers asked for, requests under way
  back,     \* resent packets under way to the control socket
  run,      \* s_run
  pc,       \* where the task is in its select loop
  ctl,      \* did select also report the control socket?
  handler,  \* the handler that is draining
  asked,    \* s_resend_valid, s_resend_first
  age,      \* clock steps since s_resend_tick, up to Throttle
  peer,     \* s_peer_known
  due,      \* clock steps until the next timing request
  timing,   \* the sender and its timing channel, see Senders
  quiet,    \* clock steps the sender has waited for timing
  cursor,   \* history: the position at the play cursor
  fed,      \* history: frames handed to the PCM ring
  duds,     \* history: packets popped that gave no frame
  anchor,   \* history: the position the cursor was anchored at
  newest    \* history: the newest position anchored at or acceptable so far

net == <<sent, air, wanted, back>>
task == <<run, pc, ctl, handler, asked, age>>
channel == <<peer, due, timing, quiet>>
history == <<cursor, fed, duds, anchor, newest>>
vars == <<rbVars, net, task, channel, history>>

SeqOf(p) == (FirstSeq + p) % SeqMod
(* A sender waits for the receiver's timing requests, or polls the receiver  *)
(* itself, or asks for no timing ("heard" from the start).  A request is     *)
(* under way when "asked", a poll when "polled", its answer when "answered". *)
Senders == {"waits", "polls", "heard"}

Data(p) == IF p \in BadLen THEN BadPayload ELSE p
Later(a, b) == IF a >= b THEN a ELSE b

Init ==
  /\ RbInit
  /\ sent = 0 /\ air = {} /\ wanted = {} /\ back = {}
  /\ run = TRUE /\ pc = "begin" /\ ctl = FALSE /\ handler = "audio"
  /\ asked = [valid |-> FALSE, first |-> 0] /\ age = Throttle
  /\ peer \in BOOLEAN /\ due = Cadence /\ timing \in Senders /\ quiet = 0
  /\ cursor = 0 /\ fed = 0 /\ duds = 0 /\ anchor = 0 /\ newest = -1
-----------------------------------------------------------------------------
(* The packets, as bytes: rtp_parse, rtp_resend_build, rtp_resend_unwrap.    *)
AudioType == 96
ResendType == 86
TypeOf(pkt) == pkt[2] % 128
Parse(pkt) == [seq |-> Byte * pkt[3] + pkt[4], data |-> pkt[5]]
ResendBuildMutant(first, n) ==
  <<128, 213, 0, 1, first \div Byte, first % Byte, 0, n - 1>>
ResendBuild(first, n) ==
  <<128, 213, 0, 1, first \div Byte, first % Byte, n \div Byte, n % Byte>>
Unwrap(pkt) == SubSeq(pkt, 5, Len(pkt))

(* What the sender writes, and how it reads a request (external): the first  *)
(* packet of the stream has the marker bit set.                             *)
AudioPacket(p) ==
  <<128, IF p = 0 THEN 128 + AudioType ELSE AudioType,
    SeqOf(p) \div Byte, SeqOf(p) % Byte, Data(p)>>
ResentPacket(p) == <<128, 128 + ResendType, 0, 1>> \o AudioPacket(p)
Requested(req) ==
  {(Byte * req[5] + req[6] + j) % SeqMod : j \in 0 .. Byte * req[7] + req[8] - 1}
-----------------------------------------------------------------------------
(* The sender and the network (external).                                   *)

Fresh(p) == sent - p < Lifetime

Send ==
  /\ timing = "heard" /\ sent < N /\ sent <= newest + Outage
  /\ sent' = sent + 1
  /\ air' = {p \in air : Fresh(p)} \cup {sent}
  /\ back' = {p \in back : Fresh(p)}
  /\ wanted' = {s \in wanted : \E p \in 0 .. sent - 1 : SeqOf(p) = s /\ Fresh(p)}
  /\ UNCHANGED <<rbVars, task, channel, history>>

(* The packet that ends an outage of the longest kind arrives. *)
LastChance(p) ==
  p \notin BadLen /\ \A q \in (p + 1) .. (newest + Outage) : q \in BadLen

Lose ==
  /\ \/ \E p \in air : ~LastChance(p) /\ air' = air \ {p} /\ UNCHANGED <<wanted, back>>
     \/ \E s \in wanted : wanted' = wanted \ {s} /\ UNCHANGED <<air, back>>
     \/ \E p \in back : back' = back \ {p} /\ UNCHANGED <<air, wanted>>
  /\ UNCHANGED <<rbVars, sent, task, channel, history>>

(* The sender answers a request from what it sent under that number. *)
Answer ==
  /\ \E s \in wanted, p \in Position :
       /\ SeqOf(p) = s /\ p < sent /\ sent - p <= Lifetime
       /\ wanted' = wanted \ {s}
       /\ back' = back \cup {p}
  /\ UNCHANGED <<rbVars, sent, air, task, channel, history>>

Clock ==
  /\ age < Throttle /\ age' = age + 1
  /\ UNCHANGED <<rbVars, net, run, pc, ctl, handler, asked, channel, history>>
-----------------------------------------------------------------------------
(* raop_rtp_stop, called by the RTSP task, clears s_run. *)
Stop ==
  /\ run /\ run' = FALSE
  /\ UNCHANGED <<rbVars, net, pc, ctl, handler, asked, age, channel, history>>

(* The select loop sees s_run cleared and ends. *)
Exit ==
  /\ pc = "select" /\ ~run
  /\ pc' = "done"
  /\ UNCHANGED <<rbVars, net, run, ctl, handler, asked, age, channel, history>>

(***************************************************************************)
(* handle_audio, up to the drain: the first audio packet anchors the        *)
(* cursor, whatever its payload is, and its source is the sender if RECORD   *)
(* did not find out the sender's address.                                   *)
(***************************************************************************)
HandleAudioMutant ==
  /\ pc = "select" /\ run
  /\ ctl' \in {c \in BOOLEAN : c => back # {}}
  /\ \E p \in air : LET h == Parse(AudioPacket(p)) IN
       /\ TypeOf(AudioPacket(p)) = AudioType
       /\ IF h.data \notin Payload
          THEN Anchor(h.seq)
          ELSE Insert(h.seq, h.data)
       /\ air' = air \ {p}
       /\ newest' = IF started /\ p \in BadLen THEN newest ELSE Later(newest, p)
       /\ cursor' = IF started THEN cursor ELSE p
       /\ anchor' = IF started THEN anchor ELSE p
  /\ peer' = TRUE
  /\ handler' = "audio" /\ pc' = "drain"
  /\ UNCHANGED <<sent, wanted, back, run, asked, age, due, timing, quiet, fed, duds>>
HandleAudio ==
  /\ pc = "select" /\ run
  /\ ctl' \in {c \in BOOLEAN : c => back # {}}
  /\ \E p \in air : LET h == Parse(AudioPacket(p)) IN
       /\ TypeOf(AudioPacket(p)) = AudioType
       /\ IF ~started /\ h.data \notin Payload
          THEN Anchor(h.seq)
          ELSE Insert(h.seq, h.data)
       /\ air' = air \ {p}
       /\ newest' = IF started /\ p \in BadLen THEN newest ELSE Later(newest, p)
       /\ cursor' = IF started THEN cursor ELSE p
       /\ anchor' = IF started THEN anchor ELSE p
  /\ peer' = TRUE
  /\ handler' = "audio" /\ pc' = "drain"
  /\ UNCHANGED <<sent, wanted, back, run, asked, age, due, timing, quiet, fed, duds>>

(* handle_control for a resent packet, up to the drain. *)
HandleControl ==
  /\ \/ pc = "select" /\ run
     \/ pc = "control"
  /\ \E p \in back : LET pkt == ResentPacket(p) h == Parse(Unwrap(pkt)) IN
       /\ TypeOf(pkt) = ResendType /\ TypeOf(Unwrap(pkt)) = AudioType
       /\ Insert(h.seq, h.data)
       /\ back' = back \ {p}
  /\ ctl' = FALSE /\ handler' = "control" /\ pc' = "drain"
  /\ UNCHANGED <<sent, air, wanted, run, asked, age, channel, history>>

(* What select reported is gone by the time of recvfrom. *)
ControlNothing ==
  /\ pc = "control" /\ back = {}
  /\ ctl' = FALSE /\ pc' = "select"
  /\ UNCHANGED <<rbVars, net, run, handler, asked, age, channel, history>>
-----------------------------------------------------------------------------
(* drain_decode: pop, then feed a frame or a frame of silence, and again. *)
DrainPlay ==
  /\ pc = "drain" /\ PopOk
  /\ cursor' = cursor + 1
  /\ IF slots[SlotOf(next)].data \in Undecodable
     THEN duds' = duds + 1 /\ pc' = "drain"
     ELSE duds' = duds /\ pc' = "feed"
  /\ UNCHANGED <<net, run, ctl, handler, asked, age, channel, fed, anchor, newest>>

DrainConcealMutant ==
  /\ pc = "drain" /\ PopConceal
  /\ cursor' = cursor + 1
  /\ pc' = "drain"
  /\ UNCHANGED <<net, run, ctl, handler, asked, age, channel, fed, duds, anchor, newest>>
DrainConceal ==
  /\ pc = "drain" /\ PopConceal
  /\ cursor' = cursor + 1
  /\ pc' = "feed"
  /\ UNCHANGED <<net, run, ctl, handler, asked, age, channel, fed, duds, anchor, newest>>

(* Only handle_audio asks for the hole the drain stopped at. *)
DrainStop ==
  /\ pc = "drain" /\ (PopsWait \/ PopsEmpty)
  /\ pc' = IF handler = "audio" THEN "resend" ELSE "select"
  /\ UNCHANGED <<rbVars, net, run, ctl, handler, asked, age, channel, history>>

(* feed_pcm and feed_silence wait for room while s_run is set, and give the *)
(* frame up when it is not.                                                 *)
Feed ==
  /\ pc = "feed" /\ run
  /\ fed' = fed + 1 /\ pc' = "drain"
  /\ UNCHANGED <<rbVars, net, run, ctl, handler, asked, age, channel, cursor, duds, anchor, newest>>

FeedGivenUp ==
  /\ pc = "feed" /\ ~run
  /\ pc' = "drain"
  /\ UNCHANGED <<rbVars, net, run, ctl, handler, asked, age, channel, history>>
-----------------------------------------------------------------------------
(* maybe_request_resend. *)
AfterAudio == pc' = IF ctl THEN "control" ELSE "select"
Throttled == asked.valid /\ asked.first = next /\ age < Throttle

Request ==
  /\ pc = "resend" /\ peer /\ HasGap /\ ~Throttled
  /\ wanted' = wanted \cup Requested(ResendBuild(next, GapLength))
  /\ asked' = [valid |-> TRUE, first |-> next] /\ age' = 0
  /\ AfterAudio
  /\ UNCHANGED <<rbVars, sent, air, back, run, ctl, handler, channel, history>>

NoRequest ==
  /\ pc = "resend" /\ (~peer \/ ~HasGap \/ Throttled)
  /\ AfterAudio
  /\ UNCHANGED <<rbVars, net, run, ctl, handler, asked, age, channel, history>>
-----------------------------------------------------------------------------
(* The timing channel.  A request and a poll are under way for less than a    *)
(* step of its clock, and the task starts in less.  Once the sender is       *)
(* content the requests go on at their cadence, and nobody minds them.      *)
SendTimingRequest ==
  timing' = IF peer /\ timing \in {"waits", "polls", "lost"} THEN "asked" ELSE timing

(* rtp_task up to its loop: the first request does not wait for the cadence. *)
BeginMutant ==
  /\ pc = "begin" /\ pc' = "select"
  /\ UNCHANGED <<rbVars, net, run, ctl, handler, asked, age, channel, history>>
Begin ==
  /\ pc = "begin" /\ pc' = "select"
  /\ SendTimingRequest
  /\ UNCHANGED <<rbVars, net, run, ctl, handler, asked, age, peer, due, quiet, history>>

(* The end of a round of the loop. *)
Remind ==
  /\ pc = "select" /\ run /\ peer /\ due = 0
  /\ SendTimingRequest /\ due' = Cadence
  /\ UNCHANGED <<rbVars, net, task, peer, quiet, history>>

(* handle_timing: a poll is answered to where it came from; answers of the    *)
(* sender to the task's own requests are discarded.                         *)
HandleTiming ==
  /\ pc = "select" /\ run /\ timing = "polled"
  /\ timing' = "answered"
  /\ UNCHANGED <<rbVars, net, task, peer, due, quiet, history>>

(* The network and the sender (external). *)
Poll ==
  /\ timing = "polls" /\ timing' = "polled"
  /\ UNCHANGED <<rbVars, net, task, peer, due, quiet, history>>

HearTiming ==
  /\ timing \in {"asked", "answered"}
  /\ timing' = "heard" /\ due' = Cadence /\ quiet' = 0
  /\ UNCHANGED <<rbVars, net, task, peer, history>>

LoseTiming ==
  /\ timing \in {"asked", "polled", "answered"} /\ timing' = "lost"
  /\ UNCHANGED <<rbVars, net, task, peer, due, quiet, history>>

TimePasses ==
  /\ timing \in {"waits", "lost"} /\ pc # "begin"
  /\ due' = IF peer /\ due > 0 THEN due - 1 ELSE due
  /\ quiet' = IF quiet < Patience THEN quiet + 1 ELSE quiet
  /\ <<due, quiet>>' # <<due, quiet>>
  /\ UNCHANGED <<rbVars, net, task, peer, timing, history>>

(* A sender that has waited long enough gives the session up. *)
Leave ==
  /\ timing \in {"waits", "lost"} /\ quiet = Patience
  /\ timing' = "left" /\ due' = Cadence /\ quiet' = 0
  /\ UNCHANGED <<rbVars, net, task, peer, history>>

TimingChannel == Poll \/ HearTiming \/ LoseTiming \/ Leave
-----------------------------------------------------------------------------
Task ==
  \/ Begin \/ Remind \/ HandleTiming
  \/ Exit \/ HandleAudio \/ HandleControl \/ ControlNothing
  \/ DrainPlay \/ DrainConceal \/ DrainStop \/ Feed \/ FeedGivenUp
  \/ Request \/ NoRequest

(* The stream is over, nothing is under way, and the task waits or has ended. *)
Rest ==
  /\ pc = "done" \/ (pc = "select" /\ air = {} /\ back = {} /\ (sent = N \/ timing = "left"))
  /\ UNCHANGED vars

RNext ==
  \/ Send \/ Lose \/ Answer \/ Clock \/ TimePasses \/ TimingChannel \/ Stop \/ Task \/ Rest

RSpec ==
  /\ Init /\ [][RNext]_vars
  /\ WF_vars(Task) /\ WF_vars(Send) /\ WF_vars(TimePasses) /\ WF_vars(TimingChannel)
-----------------------------------------------------------------------------
(***************************************************************************)
(* The 16-bit number never makes the receiver take one packet of the stream *)
(* for another: each unread packet is exactly as far ahead in the stream as *)
(* its slot says, and the cursor never passes what has been received.  So   *)
(* packets are decoded in stream order, each at most once, whatever was     *)
(* late, duplicated or resent (insert_audio, drain_decode).                 *)
(***************************************************************************)
PlayedInStreamOrder ==
  /\ \A i \in Unread : slots[i].data = cursor + Ahead(slots[i].seq)
  /\ cursor <= newest + 1

(***************************************************************************)
(* While the session runs, every step of the play cursor has fed one frame, *)
(* sound or silence, except for packets that do not decode: "hold stream    *)
(* duration across the hole" (raop_rtp.c:163-164 and 225).                  *)
(***************************************************************************)
DurationKept == run /\ pc # "feed" => fed + duds = cursor - anchor

(***************************************************************************)
(* After handle_audio, a hole the cursor is stopped at has been asked for:   *)
(* the throttle of lines 241-244 delays a repeated request only, never the   *)
(* first one for a new hole.  And whoever reads the request as the protocol  *)
(* says finds in it the packets of the stream that are missing there, no     *)
(* other, across the wrap of their numbers.                                 *)
(***************************************************************************)
Buffered(p) == \E i \in Unread : slots[i].data = p
Hole ==
  {SeqOf(p) : p \in {q \in cursor .. newest : \A r \in cursor .. q : ~Buffered(r)}}
HoleAskedFor ==
  [][pc = "resend" /\ pc' # "resend" /\ Unread # {} =>
       /\ Hole # {} => asked'.valid /\ asked'.first = SeqOf(cursor)
       /\ wanted' \in {wanted, wanted \cup Hole}
       /\ asked' # asked => wanted' = wanted \cup Hole]_vars

(***************************************************************************)
(* A packet newer than all accepted before is buffered, however many were   *)
(* lost before it: "never stalls forever" (raop_rtp.h:17-18) and the         *)
(* re-anchoring the component's README promises after a flush gap.          *)
(***************************************************************************)
NewestHeld == newest \in BadLen \/ Buffered(newest)
NewestIsBuffered == [][newest' # newest => NewestHeld']_vars

(***************************************************************************)
(* A buffered packet is not held back for ever: while the stream goes on    *)
(* for long enough after it and the session runs, the cursor passes it      *)
(* (drain_decode gives holes up).                                           *)
(***************************************************************************)
BufferedIsPlayed ==
  \A p \in Position :
    p + Hold + Outage < N =>
      (Buffered(p) ~> (cursor > p \/ ~run))

(***************************************************************************)
(* A sender whose address is known gets its timing and begins to stream: it   *)
(* never waits for the first request as the request waits for its audio, and  *)
(* does not tire of waiting before (raop_rtp.c:340-342, 488-492), unless a   *)
(* timing packet is lost.  A sender that polls needs no known address.       *)
(***************************************************************************)
StreamGetsGoing ==
  pc = "begin" /\ (peer \/ timing = "polls") ~> timing \in {"heard", "lost"} \/ ~run
-----------------------------------------------------------------------------
(* What makes the first two inductive.                                      *)
ReceiverTypes ==
  /\ sent \in 0 .. N /\ newest \in -1 .. sent - 1
  /\ cursor \in Nat /\ anchor \in Nat /\ fed \in Nat /\ duds \in Nat
  /\ air \subseteq 0 .. sent - 1 /\ back \subseteq 0 .. sent - 1

(* Before the first audio packet nothing has been asked for or played.      *)
NothingEarly ==
  ~started => /\ wanted = {} /\ back = {} /\ newest = -1
              /\ fed = 0 /\ duds = 0 /\ cursor = anchor

(* Every step of the cursor is accounted for, the one being fed too.        *)
StepsAccounted ==
  run => fed + duds + (IF pc = "feed" THEN 1 ELSE 0) = cursor - anchor

(* Nothing under way is so old that its number has come round again, and     *)
(* what was asked for are holes behind the newest packet.                   *)
NothingStale ==
  /\ sent <= newest + Outage + 1
  /\ \A p \in air : sent - p <= Lifetime
  /\ \A p \in back : sent - p <= Lifetime /\ p <= newest
  /\ \A s \in wanted : \E p \in 0 .. newest : SeqOf(p) = s /\ sent - p <= SeqMod

(* The cursor's number is that of its position, a drain leaves the newest    *)
(* packet no more than Hold ahead, and so on.                               *)
CursorInStream ==
  started =>
    /\ next = SeqOf(cursor)
    /\ \A i \in Unread : slots[i].data <= newest
    /\ newest <= cursor \/ newest < cursor + Ahead(head)
    /\ pc \notin {"drain", "feed"} => Ahead(head) <= Hold

(* What the network and the sender have to keep within for it: an outage     *)
(* shorter than the ring, and shorter than what the hold leaves of it; and    *)
(* no datagram as old as the numbers take to come round, less a ring.        *)
NetworkBounds ==
  Outage < Window /\ Outage + Hold <= Window /\ Lifetime + Window <= SeqMod

(* Where an audio packet ends up asking for a hole, there is whom to ask.    *)
AudioHasPeer ==
  pc = "resend" \/ (pc \in {"drain", "feed"} /\ handler = "audio") => peer

DurationIInv == ReceiverTypes /\ NothingEarly /\ StepsAccounted
ReceiverIInv ==
  /\ IInv /\ ReceiverTypes /\ NothingEarly /\ NothingStale /\ CursorInStream
  /\ PlayedInStreamOrder
=============================================================================
