------------------------------ MODULE RtspServer ------------------------------
(***************************************************************************)
(* The RTSP control server (components/raop/src/raop.c) with its session    *)
(* (rtsp_session.c): one task that selects on the listening socket and on   *)
(* the one active connection, walks a sender through ANNOUNCE, SETUP and    *)
(* RECORD, and starts and stops the RTP receive task by the handoff of      *)
(* ProducerHandoff.                                                        *)
(*                                                                         *)
(* The senders and the network are external: a sender connects, sends       *)
(* requests that may be pipelined, falls silent and hangs up as it likes.   *)
(* Requests are kinds; how they are framed and parsed is left out.  Nothing *)
(* at this commit starts the diagnostic tone (main.cpp:156, raop.c:77,281), *)
(* so audio_diag_tone_stop on RECORD finds no tone to stop.                 *)
(***************************************************************************)
EXTENDS ProducerHandoff, Integers, Sequences, FiniteSets

CONSTANTS
  Sender,    \* the senders
  NoSender,
  Worlds,    \* what surrounds the server, see World
  IdleMax    \* RAOP_CLIENT_IDLE_MS, in steps of the clock

Announces == {"ANNOUNCE", "ANNOUNCE_NO_IV", "ANNOUNCE_NO_FMTP"}
Kinds == Announces \cup {"SETUP", "RECORD", "TEARDOWN", "OTHER",
                         "OVERSIZED", "HUGE_HEADERS"}

(* Who sends what, and whether each sender sends ANNOUNCE, SETUP and RECORD   *)
(* once, in this order; the size of the socket pool (CONFIG_LWIP_MAX_SOCKETS); *)
(* and two bounds of the model only: connections made and requests sent in   *)
(* all, and calls of raop_server_start.  A request that changes nothing      *)
(* (OTHER) is not counted: a sender may go on with those for ever.           *)
World == [senders : SUBSET Sender, requests : SUBSET Kinds, orderly : BOOLEAN,
          sockets : Nat \ {0}, moves : Nat, starts : Nat]

ASSUME ServerAssumption ==
  /\ NoSender \notin Sender
  /\ Worlds \subseteq World
  /\ IdleMax \in Nat \ {0}

VARIABLES
  srv,      \* s_task of raop.c
  srun,     \* s_running
  pc,       \* where server_task is
  then,     \* where session_teardown_full returns to
  lst, cli, \* what select reported: the listening socket, the client's
  lfd,      \* s_listen_fd
  client,   \* the active sender (client_fd >= 0)
  cfd,      \* client_fd
  rx,       \* complete requests received and not dispatched
  idle,     \* clock steps since last_activity, up to IdleMax
  session,  \* s_session
  rtpFds,   \* s_audio_fd, s_control_fd, s_timing_fd of raop_rtp.c
  led,      \* the last event fired to the status LED
  open,     \* the open file descriptors; 0 is the console
  waiting,  \* senders in the listen backlog
  inbox,    \* what the active sender sent that is not received yet
  said,     \* how far an orderly sender is in its requests
  world,    \* what surrounds the server, and what is left of its moves and starts
  conn,     \* history: the number of connections served
  keyConn   \* history: the connection that announced the session's key

life == <<srv, srun, lfd>>
ready == <<lst, cli>>
link == <<client, cfd, conn, idle>>
sess == <<session, keyConn>>
stream == <<rtpFds, led>>
server == <<life, pc, then, ready, link, rx, sess, stream>>
network == <<waiting, inbox, said, world>>
vars == <<handoffVars, server, open, network>>

Fd == 1 .. world.sockets
NoFd == -1
Free == Fd \ open
(* New sockets get the lowest free descriptors: the n lowest of them. *)
Lowest(n) == {f \in Free : Cardinality({g \in Free : g < f}) < n}

(* raop_session_reset leaves this; before the first reset the static        *)
(* s_session is all zero, its three descriptors too.                        *)
NoSession == [state |-> "IDLE", have_key |-> FALSE, fmtp |-> FALSE, fds |-> {}]
ZeroSession == [NoSession EXCEPT !.fds = {0}]

Init ==
  /\ HandoffInit
  /\ srv = "down" /\ srun = FALSE /\ pc = "down" /\ then = "loop"
  /\ lst = FALSE /\ cli = FALSE /\ lfd = NoFd
  /\ client = NoSender /\ cfd = NoFd /\ rx = <<>> /\ idle = 0
  /\ session = ZeroSession /\ rtpFds = {} /\ led = "IDLE"
  /\ open = {0}
  /\ waiting = {} /\ inbox = <<>> /\ said = 0
  /\ world \in Worlds
  /\ conn = 0 /\ keyConn = 0
-----------------------------------------------------------------------------
(* The senders (external).  What a sender in the backlog sends or does before *)
(* it is accepted is taken to come after.                                   *)
Turn(r) == CASE r \in Announces -> 1
             [] r = "SETUP" -> 2
             [] r = "RECORD" -> 3
             [] r = "TEARDOWN" -> 4
             [] OTHER -> 0

Connect(s) ==
  /\ lfd # NoFd /\ client # s /\ s \notin waiting /\ world.moves > 0
  /\ waiting' = waiting \cup {s}
  /\ world' = [world EXCEPT !.moves = @ - 1]
  /\ UNCHANGED <<handoffVars, server, open, inbox, said>>

InTurn(r) ==
  /\ said < 4
  /\ Turn(r) \in {0, 4} \/ Turn(r) = said + 1

Talking == client # NoSender /\ \A i \in DOMAIN inbox : inbox[i] # "EOF"

SendRequest(r) ==
  /\ Talking /\ Len(inbox) < 2
  /\ world.orderly => InTurn(r)
  /\ inbox' = Append(inbox, r)
  /\ said' = IF world.orderly /\ Turn(r) > 0 THEN Turn(r) ELSE said
  /\ \/ r = "OTHER" /\ UNCHANGED world
     \/ r # "OTHER" /\ world.moves > 0 /\ world' = [world EXCEPT !.moves = @ - 1]
  /\ UNCHANGED <<handoffVars, server, open, waiting>>

HangUp ==
  /\ Talking
  /\ inbox' = Append(inbox, "EOF")
  /\ UNCHANGED <<handoffVars, server, open, waiting, said, world>>

Tick ==
  /\ client # NoSender /\ idle < IdleMax
  /\ idle' = idle + 1
  /\ UNCHANGED <<handoffVars, life, pc, then, ready, client, cfd, conn, rx, sess, stream,
                 open, network>>
-----------------------------------------------------------------------------
(* raop_server_start: reset the session, create the task. *)
ServerStart ==
  /\ srv = "down" /\ world.starts > 0
  /\ open' = open \ session.fds
  /\ session' = NoSession
  /\ srv' = "up" /\ srun' = TRUE /\ pc' = "boot"
  /\ world' = [world EXCEPT !.starts = @ - 1]
  /\ UNCHANGED <<handoffVars, then, ready, lfd, link, rx, keyConn, stream,
                 waiting, inbox, said>>

(* The task cannot be created: the session is reset all the same. *)
ServerStartFails ==
  /\ srv = "down" /\ world.starts > 0
  /\ open' = open \ session.fds
  /\ session' = NoSession
  /\ srun' = FALSE
  /\ world' = [world EXCEPT !.starts = @ - 1]
  /\ UNCHANGED <<handoffVars, srv, pc, then, ready, lfd, link, rx, keyConn, stream,
                 waiting, inbox, said>>

(* raop_server_stop.  Nothing in the firmware calls it yet. *)
ServerStop ==
  /\ srun /\ srun' = FALSE
  /\ UNCHANGED <<handoffVars, srv, pc, then, ready, lfd, link, rx, sess, stream,
                 open, network>>

(* server_task up to its loop; a failure ends the task, and only one of the  *)
(* crypto self-test clears s_running.                                       *)
Boot ==
  /\ pc = "boot"
  /\ lfd' \in Lowest(1) /\ open' = open \cup {lfd'}
  /\ pc' = "loop"
  /\ UNCHANGED <<handoffVars, srv, srun, then, ready, link, rx, sess, stream, network>>

BootFails ==
  /\ pc = "boot"
  /\ srun' \in {srun, FALSE} /\ srv' = "down" /\ pc' = "down"
  /\ UNCHANGED <<handoffVars, then, ready, lfd, link, rx, sess, stream, open, network>>
-----------------------------------------------------------------------------
(* One round of the loop: s_running, select, the idle check, the listening  *)
(* socket, the client's.                                                    *)
Loop ==
  /\ pc = "loop"
  /\ pc' = IF srun THEN "select" ELSE "exit"
  /\ lst' = FALSE /\ cli' = FALSE
  /\ UNCHANGED <<handoffVars, life, then, link, rx, sess, stream, open, network>>

(* session_teardown_full, to go on at p afterwards. *)
TeardownThenMutant(p) == pc' = "reset" /\ then' = p
TeardownThen(p) == pc' = "stop" /\ then' = p

CloseClient ==
  /\ client' = NoSender /\ cfd' = NoFd /\ idle' = 0 /\ rx' = <<>>
  /\ open' = open \ {cfd}
  /\ inbox' = <<>> /\ said' = 0
  /\ UNCHANGED conn

ReclaimableMutant == client # NoSender /\ idle = IdleMax
ReclaimableMutant2 == client # NoSender /\ session.state = "IDLE" /\ idle = IdleMax
Reclaimable ==
  client # NoSender /\ session.state # "RECORDING" /\ idle = IdleMax

SelectReclaim ==
  /\ pc = "select" /\ Reclaimable
  /\ CloseClient /\ TeardownThen("loop")
  /\ UNCHANGED <<handoffVars, life, ready, sess, stream, waiting, world>>

(* select itself fails: the loop ends, and the server with it. *)
SelectFails ==
  /\ pc = "select"
  /\ pc' = "exit"
  /\ UNCHANGED <<handoffVars, life, then, ready, link, rx, sess, stream, open, network>>

HasInput == client # NoSender /\ inbox # <<>>

SelectReady ==
  /\ pc = "select" /\ ~Reclaimable
  /\ lst' = (waiting # {}) /\ cli' = HasInput
  /\ lst' \/ cli'
  /\ pc' = "accept"
  /\ UNCHANGED <<handoffVars, life, then, link, rx, sess, stream, open, network>>

SelectTimeout ==
  /\ pc = "select" /\ ~Reclaimable /\ waiting = {} /\ ~HasInput
  /\ pc' = "loop"
  /\ UNCHANGED <<handoffVars, life, then, ready, link, rx, sess, stream, open, network>>
-----------------------------------------------------------------------------
NoAccept ==
  /\ pc = "accept" /\ (~lst \/ Free = {})
  /\ pc' = "client"
  /\ UNCHANGED <<handoffVars, life, then, ready, link, rx, sess, stream, open, network>>

(* A second sender is answered 453 and closed. *)
RefuseBusyMutant ==
  /\ pc = "accept" /\ lst /\ Free # {} /\ client # NoSender
  /\ pc' = "client"
  /\ UNCHANGED <<handoffVars, life, then, ready, link, rx, sess, stream, open,
                 network>>
RefuseBusy ==
  /\ pc = "accept" /\ lst /\ Free # {} /\ client # NoSender
  /\ \E s \in waiting : waiting' = waiting \ {s}
  /\ pc' = "client"
  /\ UNCHANGED <<handoffVars, life, then, ready, link, rx, sess, stream, open,
                 inbox, said, world>>

Accept ==
  /\ pc = "accept" /\ lst /\ Free # {} /\ client = NoSender
  /\ \E s \in waiting : client' = s /\ waiting' = waiting \ {s}
  /\ cfd' \in Lowest(1) /\ open' = open \cup {cfd'}
  /\ rx' = <<>> /\ idle' = 0 /\ conn' = conn + 1
  /\ TeardownThen("client")
  /\ UNCHANGED <<handoffVars, life, ready, sess, stream, inbox, said, world>>
-----------------------------------------------------------------------------
Closing == {"EOF", "HUGE_HEADERS"}

NoData ==
  /\ pc = "client" /\ ~cli
  /\ pc' = "loop"
  /\ UNCHANGED <<handoffVars, life, then, ready, link, rx, sess, stream, open, network>>

(* The sender vanished without TEARDOWN, or its headers fill the buffer. *)
RecvClosing ==
  /\ pc = "client" /\ cli /\ Head(inbox) \in Closing
  /\ CloseClient /\ TeardownThen("loop")
  /\ UNCHANGED <<handoffVars, life, ready, sess, stream, waiting, world>>

(* A body too long for the buffer is drained, and answered 200. *)
RecvOversized ==
  /\ pc = "client" /\ cli /\ Head(inbox) = "OVERSIZED"
  /\ inbox' = Tail(inbox)
  /\ idle' = 0 /\ pc' = "loop"
  /\ UNCHANGED <<handoffVars, life, then, ready, client, cfd, conn, rx, sess, stream, open,
                 waiting, said, world>>

(* One recv may bring several pipelined requests. *)
Recv ==
  /\ pc = "client" /\ cli
  /\ \E n \in 1 .. Len(inbox) :
       /\ \A i \in 1 .. n : inbox[i] \notin Closing \cup {"OVERSIZED"}
       /\ rx' = SubSeq(inbox, 1, n)
       /\ inbox' = SubSeq(inbox, n + 1, Len(inbox))
  /\ idle' = 0 /\ pc' = "dispatch"
  /\ UNCHANGED <<handoffVars, life, then, ready, client, cfd, conn, sess, stream, open,
                 waiting, said, world>>
-----------------------------------------------------------------------------
(* dispatch: the requests received, one after the other. *)
Answer == rx' = Tail(rx)
Requested(r) == pc = "dispatch" /\ rx # <<>> /\ Head(rx) = r

Dispatched ==
  /\ pc = "dispatch" /\ rx = <<>>
  /\ pc' = "loop"
  /\ UNCHANGED <<handoffVars, life, then, ready, link, rx, sess, stream, open, network>>

(* OPTIONS, SET_PARAMETER, GET_PARAMETER, FLUSH, PAUSE, an unknown one, or an *)
(* ANNOUNCE that is refused.                                                *)
Other ==
  /\ Requested("OTHER")
  /\ Answer
  /\ UNCHANGED <<handoffVars, life, pc, then, ready, link, sess, stream, open, network>>

(* handle_announce takes key and state from this request, whatever the state. *)
Announce ==
  /\ \E r \in Announces :
       /\ Requested(r)
       /\ session' = [session EXCEPT !.state = "ANNOUNCED",
                                     !.have_key = (r # "ANNOUNCE_NO_IV"),
                                     !.fmtp = @ \/ r # "ANNOUNCE_NO_FMTP"]
  /\ keyConn' = conn
  /\ Answer
  /\ UNCHANGED <<handoffVars, life, pc, then, ready, link, stream, open, network>>

(* handle_setup binds three new sockets over the descriptors of the old ones. *)
Setup ==
  /\ Requested("SETUP")
  /\ Cardinality(Free) >= 3
  /\ session' = [session EXCEPT !.state = "SETUP", !.fds = Lowest(3)]
  /\ open' = open \cup Lowest(3)
  /\ Answer
  /\ UNCHANGED <<handoffVars, life, pc, then, ready, link, keyConn, stream, network>>

(* One of the three cannot be had: those that were are closed again. *)
SetupFails ==
  /\ Requested("SETUP")
  /\ session' = [session EXCEPT !.fds = {}]
  /\ Answer
  /\ UNCHANGED <<handoffVars, life, pc, then, ready, link, keyConn, stream, open, network>>

TeardownRequest ==
  /\ Requested("TEARDOWN")
  /\ TeardownThen("drop")
  /\ UNCHANGED <<handoffVars, life, ready, link, rx, sess, stream, open, network>>

(* The socket is closed after the session is torn down and the request answered. *)
DropClient ==
  /\ pc = "drop"
  /\ CloseClient /\ pc' = "loop"
  /\ UNCHANGED <<handoffVars, life, then, ready, sess, stream, waiting, world>>
-----------------------------------------------------------------------------
(* RECORD. *)
Decodable == session.have_key /\ session.fmtp
Recording == session.state = "RECORDING"

RecordAgain ==
  /\ Requested("RECORD") /\ Recording
  /\ Answer
  /\ UNCHANGED <<handoffVars, life, pc, then, ready, link, sess, stream, open, network>>

RecordRefused ==
  /\ Requested("RECORD") /\ ~Recording /\ ~Decodable
  /\ Answer
  /\ UNCHANGED <<handoffVars, life, pc, then, ready, link, sess, stream, open, network>>

(* raop_rtp_start fails at once, or cannot build its decoder or take the slot. *)
RecordFails ==
  /\ Requested("RECORD") /\ ~Recording /\ Decodable
  /\ \/ (handle[Rtp] \/ session.fds = {}) /\ UNCHANGED handoffVars
     \/ session.fds # {} /\ StartFails(Rtp)
  /\ Answer
  /\ UNCHANGED <<life, pc, then, ready, link, sess, stream, open, network>>

RecordStarts ==
  /\ Requested("RECORD") /\ ~Recording /\ Decodable
  /\ session.fds # {} /\ Claim(Rtp)
  /\ rtpFds' = session.fds
  /\ pc' = "start"
  /\ UNCHANGED <<life, then, ready, link, rx, sess, led, open, network>>

StartArm ==
  /\ pc = "start" /\ Arm(Rtp)
  /\ UNCHANGED <<server, open, network>>

StartSpawn ==
  /\ pc = "start" /\ Spawn(Rtp)
  /\ session' = [session EXCEPT !.state = "RECORDING"]
  /\ led' = "STREAMING"
  /\ Answer /\ pc' = "dispatch"
  /\ UNCHANGED <<life, then, ready, link, keyConn, rtpFds, open, network>>

StartSpawnFails ==
  /\ pc = "start" /\ SpawnFails(Rtp)
  /\ Answer /\ pc' = "dispatch"
  /\ UNCHANGED <<life, then, ready, link, sess, stream, open, network>>
-----------------------------------------------------------------------------
(* session_teardown_full: stop the RTP task, wait for it, reset the session. *)
StopIdle ==
  /\ pc = "stop" /\ StopNotRunning(Rtp)
  /\ pc' = "reset"
  /\ UNCHANGED <<life, then, ready, link, rx, sess, stream, open, network>>

StopBegin ==
  /\ pc = "stop" /\ StopAsk(Rtp)
  /\ UNCHANGED <<server, open, network>>

StopEnd ==
  /\ pc = "stop" /\ StopReturn(Rtp)
  /\ rtpFds' = {}
  /\ pc' = "reset"
  /\ UNCHANGED <<life, then, ready, link, rx, sess, led, open, network>>

ResetKeyMutant ==
  /\ pc = "reset"
  /\ open' = open \ session.fds
  /\ session' = [session EXCEPT !.state = "IDLE", !.fds = {}] /\ led' = "IDLE"
  /\ pc' = then /\ then' = "loop"
  /\ UNCHANGED <<handoffVars, life, ready, link, rx, keyConn, rtpFds, network>>
ResetLedMutant ==
  /\ pc = "reset"
  /\ open' = open \ session.fds
  /\ session' = NoSession /\ keyConn' = 0
  /\ pc' = then /\ then' = "loop"
  /\ UNCHANGED <<handoffVars, life, ready, link, rx, stream, network>>
ResetFdsMutant ==
  /\ pc = "reset"
  /\ session' = NoSession /\ keyConn' = 0 /\ led' = "IDLE"
  /\ pc' = then /\ then' = "loop"
  /\ UNCHANGED <<handoffVars, life, ready, link, rx, rtpFds, open, network>>
Reset ==
  /\ pc = "reset"
  /\ open' = open \ session.fds
  /\ session' = NoSession /\ keyConn' = 0 /\ led' = "IDLE"
  /\ pc' = then /\ then' = "loop"
  /\ UNCHANGED <<handoffVars, life, ready, link, rx, rtpFds, network>>

(* The end of server_task. *)
Exit ==
  /\ pc = "exit"
  /\ client' = NoSender /\ cfd' = NoFd /\ idle' = 0 /\ rx' = <<>>
  /\ lfd' = NoFd /\ open' = open \ {cfd, lfd}
  /\ inbox' = <<>> /\ said' = 0 /\ waiting' = {}
  /\ TeardownThen("end")
  /\ UNCHANGED <<handoffVars, srv, srun, conn, ready, sess, stream, world>>

End ==
  /\ pc = "end"
  /\ srv' = "down" /\ pc' = "down"
  /\ UNCHANGED <<handoffVars, srun, lfd, then, ready, link, rx, sess, stream, open, network>>
-----------------------------------------------------------------------------
ServerTask ==
  \/ Boot \/ BootFails \/ Loop \/ SelectFails \/ SelectReclaim \/ SelectReady \/ SelectTimeout
  \/ NoAccept \/ RefuseBusy \/ Accept
  \/ NoData \/ RecvClosing \/ RecvOversized \/ Recv
  \/ Dispatched \/ Other \/ Announce \/ Setup \/ SetupFails
  \/ TeardownRequest \/ DropClient
  \/ RecordAgain \/ RecordRefused \/ RecordFails \/ RecordStarts
  \/ StartArm \/ StartSpawn \/ StartSpawnFails
  \/ StopIdle \/ StopBegin \/ StopEnd \/ Reset \/ Exit \/ End

RtpTask == TaskStep(Rtp) /\ UNCHANGED <<server, open, network>>

Next ==
  \/ ServerStart \/ ServerStartFails \/ ServerStop \/ ServerTask \/ RtpTask \/ Tick
  \/ \E s \in world.senders : Connect(s)
  \/ \E r \in world.requests : SendRequest(r)
  \/ HangUp

(* The tasks are scheduled and time passes; the senders may do nothing. *)
Fairness == WF_vars(ServerTask) /\ WF_vars(RtpTask) /\ WF_vars(Tick)
Spec == Init /\ [][Next]_vars /\ Fairness
-----------------------------------------------------------------------------
InService == {"loop", "select", "accept", "client", "dispatch"}

(***************************************************************************)
(* The RTP task reads the three sockets it was started with until it ends:  *)
(* nobody closes them under it, and no connection and no later SETUP gets   *)
(* their descriptors ("The stop joins the decode task BEFORE                *)
(* raop_session_reset() closes the UDP sockets it read from", raop.c:72-74). *)
(***************************************************************************)
RtpReads == tpc[Rtp] \in {"loop", "play"}
RtpSocketsOpen ==
  RtpReads =>
    /\ rtpFds # {} /\ rtpFds \subseteq open
    /\ {lfd, cfd} \cap rtpFds = {}
    /\ session.fds = rtpFds \/ session.fds \cap rtpFds = {}

(***************************************************************************)
(* A stream has its sender: whenever the server is not in the middle of     *)
(* starting or ending one, the RTP task runs only for a connected sender,   *)
(* the LED says STREAMING exactly while it runs, and a session in RECORDING *)
(* has it running on the session's own sockets (or has none, after a SETUP   *)
(* that failed), whatever the senders do.                                   *)
(***************************************************************************)
StreamHasSender ==
  pc \in InService =>
    /\ handle[Rtp] => client # NoSender
    /\ handle[Rtp] <=> led = "STREAMING"
    /\ Recording => handle[Rtp] /\ session.fds \subseteq rtpFds

(***************************************************************************)
(* A key outlives no connection: what RECORD decrypts with was announced on *)
(* the connection that asks for it (accept and every end of a connection    *)
(* reset the session: raop.c:459, 435, 502, 511, 265).                      *)
(***************************************************************************)
KeyIsOfThisConnection ==
  pc \in InService /\ session.have_key => client # NoSender /\ keyConn = conn

(***************************************************************************)
(* A sender that falls silent before its stream runs, or vanishes, does not  *)
(* keep the one session: what it sent is answered, and it is dropped,        *)
(* "freeing the single-session lock instead of holding it until reboot"      *)
(* (raop.c:17-21).  Of one that goes on sending nothing is said: any byte     *)
(* starts the 30 s afresh (raop.c:493, 515), and a sender of OPTIONS keeps   *)
(* the session for as long as it likes, as one may here.                     *)
(***************************************************************************)
QuietSenderDropped ==
  client # NoSender /\ [](inbox = <<>>) ~> (client = NoSender \/ Recording)

(***************************************************************************)
(* No sender waits for ever: among orderly senders, whoever connects is      *)
(* accepted or answered 453 (raop.c:9-11), unless the server itself ends.   *)
(***************************************************************************)
CallerIsAnswered ==
  \A s \in Sender : s \in waiting /\ world.orderly ~> (s \notin waiting \/ ~srun)

(***************************************************************************)
(* "A 30-second idle timeout applies only before RECORD; an active stream's *)
(* RTSP channel may legitimately stay quiet while UDP audio continues"      *)
(* (raop/README.md; raop.c:59-63): the idle check ends no live stream.      *)
(***************************************************************************)
LiveStreamNotReclaimed == [][SelectReclaim => ~handle[Rtp]]_vars

(***************************************************************************)
(* The same of orderly senders only: with ANNOUNCE, SETUP and RECORD sent    *)
(* once each, whatever else comes between and however the sender falls       *)
(* silent, the idle check ends no live stream.                              *)
(***************************************************************************)
OrderlyNotReclaimed == [][SelectReclaim /\ world.orderly => ~handle[Rtp]]_vars

(***************************************************************************)
(* The reset of a session closes "any open sockets" (rtsp_session.h:37):    *)
(* with orderly senders, between two rounds of the loop, every open          *)
(* descriptor belongs to the server, the connection or the session.         *)
(***************************************************************************)
NoSocketLeak ==
  pc = "loop" /\ world.orderly =>
    open \ {0} = ({lfd, cfd} \cup session.fds) \ {NoFd}
-----------------------------------------------------------------------------
(* What makes the first three inductive.                                    *)
Places == InService \cup
          {"down", "boot", "start", "stop", "reset", "drop", "exit", "end"}
ServerTypes ==
  /\ pc \in Places /\ then \in {"loop", "client", "drop", "end"}
  /\ world \in World /\ waiting \subseteq Sender
  /\ session \in [state : {"IDLE", "ANNOUNCED", "SETUP", "RECORDING"},
                   have_key : BOOLEAN, fmtp : BOOLEAN, fds : SUBSET Nat]
  /\ open \subseteq Nat

(* Where the server is inside raop_rtp_start or raop_rtp_stop, and where it  *)
(* can rely on the RTP task being gone.                                     *)
CallsMatch ==
  /\ srv = "down" <=> pc = "down"
  /\ call = At("claimed", Rtp) \/ call = At("armed", Rtp) <=> pc = "start"
  /\ call = At("stopping", Rtp) => pc = "stop"
  /\ call # Idle => pc \in {"start", "stop"}
  /\ pc \in {"reset", "drop", "end", "boot", "down"} => tpc[Rtp] = "none"

(* Requests are read from a sender; a key is its key; and once the session   *)
(* is reset nothing of it is left until the next request.                   *)
KeysMatch ==
  /\ pc \in {"dispatch", "start"} => client # NoSender
  /\ pc \in {"accept", "client"} /\ cli => client # NoSender
  /\ pc \in {"stop", "reset"} /\ then = "client" => client # NoSender
  /\ session.have_key /\ pc \notin {"stop", "reset"} => client # NoSender /\ keyConn = conn
  /\ pc \in {"drop", "end", "boot", "down"} =>
       ~session.have_key /\ session.state = "IDLE" /\ led = "IDLE"

StreamMatches ==
  pc \in InService \cup {"start"} =>
    /\ handle[Rtp] => client # NoSender
    /\ handle[Rtp] <=> led = "STREAMING"
    /\ Recording => handle[Rtp] /\ session.fds \subseteq rtpFds

(* Descriptors in use are open and have one owner; those the task reads stay *)
(* so even when the session has others.                                     *)
SocketsOwned ==
  /\ {lfd, cfd} \subseteq open \cup {NoFd} /\ (lfd = cfd => lfd = NoFd)
  /\ session.fds \subseteq open /\ {lfd, cfd} \cap session.fds = {}
  /\ pc = "start" => rtpFds = session.fds /\ rtpFds # {}

ServerIInv ==
  /\ HandoffIInv /\ ServerTypes /\ CallsMatch /\ KeysMatch /\ StreamMatches
  /\ SocketsOwned /\ RtpSocketsOpen

(***************************************************************************)
(* What makes NoSocketLeak inductive: of an orderly sender at most one SETUP *)
(* is still to be read, and as long as there is one, or none was sent, the   *)
(* session has no sockets that it would lose.  (The first server start finds *)
(* descriptor 0 in the session.)                                            *)
(***************************************************************************)
SetupIn(q) == \E i \in DOMAIN q : q[i] = "SETUP"
OneSetup(q) == \A i, j \in DOMAIN q : q[i] = "SETUP" /\ q[j] = "SETUP" => i = j
Unreset == {"stop", "reset", "down"}
OneSetupToCome ==
  /\ OneSetup(rx) /\ OneSetup(inbox) /\ ~(SetupIn(rx) /\ SetupIn(inbox))
  /\ SetupIn(rx) \/ SetupIn(inbox) => said >= 2
  /\ said < 2 \/ SetupIn(rx) \/ SetupIn(inbox) => session.fds = {} \/ pc \in Unreset
  /\ pc \in {"drop", "end", "boot"} => session.fds = {}

(* Without a sender nothing is left of one, and the server has a listening   *)
(* socket only while it is up.                                              *)
NobodyLeft ==
  /\ client = NoSender => cfd = NoFd /\ said = 0 /\ inbox = <<>> /\ rx = <<>>
  /\ pc \in {"down", "boot", "end"} \/ (pc \in Unreset /\ then = "end") =>
       client = NoSender /\ lfd = NoFd
  /\ 0 \notin {lfd, cfd} /\ (0 \in session.fds => pc = "down")

AllOwned == open \ {0} = ({lfd, cfd} \cup session.fds) \ {NoFd, 0}

Request == Kinds \cup {"EOF"}
Reading == pc \in {"accept", "client"} \/ (pc \in {"stop", "reset"} /\ then = "client")
OrderlyIInv ==
  /\ inbox \in Seq(Request) /\ rx \in Seq(Request) /\ said \in Nat
  /\ pc = "start" => rx # <<>>
  /\ Reading /\ cli => inbox # <<>>
  /\ NobodyLeft
  /\ world.orderly => OneSetupToCome /\ AllOwned

(***************************************************************************)
(* What makes OrderlyNotReclaimed hold: what an orderly sender has sent and   *)
(* the server has not read is in its order, so that once a stream runs        *)
(* neither an ANNOUNCE nor a SETUP is to come, and it stays in RECORDING.    *)
(***************************************************************************)
Before(r, s) == Turn(r) = 0 \/ Turn(s) = 0 \/ Turn(r) < Turn(s)
Ordered(q) == \A i, j \in DOMAIN q : i < j => Before(q[i], q[j])
InOrder(p, q) ==
  /\ Ordered(p) /\ Ordered(q)
  /\ \A i \in DOMAIN p, j \in DOMAIN q : Before(p[i], q[j])
Sent(q) == \A i \in DOMAIN q : Turn(q[i]) <= said
Harmless(q) == \A i \in DOMAIN q : Turn(q[i]) \in {0, 4}
TurnsToCome ==
  /\ InOrder(rx, inbox) /\ Sent(rx) /\ Sent(inbox)
  /\ pc = "start" => Head(rx) = "RECORD"
  /\ handle[Rtp] /\ pc \in InService =>
       Recording /\ said >= 3 /\ Harmless(rx) /\ Harmless(inbox)
=============================================================================
