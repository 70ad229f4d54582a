--------------------------- MODULE RtspServerProofs ---------------------------
(***************************************************************************)
(* The safety of the producer handoff, for any number of producers, and of    *)
(* the RTSP server on top of it, for any senders, any pool of sockets and any *)
(* number of requests.                                                     *)
(***************************************************************************)
EXTENDS RtspServer, TLAPS

-----------------------------------------------------------------------------
(* Distinct calls are distinct values. *)
LEMMA CallsDistinct ==
  /\ \A o1, o2, p, q : At(o1, p) = At(o2, q) <=> o1 = o2 /\ p = q
  /\ \A o, p : o # "idle" => At(o, p) # Idle
<1>1. ASSUME NEW o1, NEW o2, NEW p, NEW q
      PROVE  At(o1, p) = At(o2, q) <=> o1 = o2 /\ p = q
  <2>1. At(o1, p).op = o1 /\ At(o2, q).op = o2 /\ At(o1, p).of = p /\ At(o2, q).of = q
    BY DEF At
  <2>2. o1 = o2 /\ p = q => At(o1, p) = At(o2, q)
    OBVIOUS
  <2> QED BY <2>1, <2>2
<1>2. ASSUME NEW o, NEW p, o # "idle"
      PROVE  At(o, p) # Idle
  <2>1. At(o, p).op = o /\ Idle.op = "idle"
    BY DEF At, Idle
  <2> QED BY <2>1, <1>2
<1> QED BY <1>1, <1>2

LEMMA HandoffInitInv == HandoffInit => HandoffIInv
<1> SUFFICES ASSUME HandoffInit PROVE HandoffIInv
  OBVIOUS
<1> USE ProducerAssumption, CallsDistinct DEF HandoffInit
<1>1. HandoffTypeOK
  <2>1. call \in Calls  BY DEF Calls
  <2>2. tpc \in [Producer -> {"none", "loop", "play", "clear", "publish"}]
    OBVIOUS
  <2> QED BY <2>1, <2>2 DEF HandoffTypeOK
<1>2. SlotHeld       BY DEF SlotHeld, Holder, Starting
<1>3. Handshake      BY DEF Handshake, Starting
<1>4. DecoderKept    BY DEF DecoderKept, Starting
<1> QED BY <1>1, <1>2, <1>3, <1>4 DEF HandoffIInv

LEMMA ClaimStep ==
  ASSUME HandoffIInv, NEW p \in Producer, Claim(p)
  PROVE  HandoffIInv'
<1> USE ProducerAssumption, CallsDistinct DEF Claim, Acquire, HandoffIInv
<1>1. HandoffTypeOK'  BY DEF HandoffTypeOK, Calls
<1>2. SlotHeld'       BY DEF HandoffTypeOK, SlotHeld, Handshake, Holder, Starting
<1>3. Handshake'      BY DEF HandoffTypeOK, Handshake, Starting
<1>4. DecoderKept'
  <2>1. CASE p = Rtp  BY <2>1 DEF DecoderKept, Starting
  <2>2. CASE p # Rtp
    <3>1. decoder' = decoder /\ tpc' = tpc
      BY <2>2 DEF HandoffTypeOK
    <3>2. ~Starting(Rtp)' /\ ~Starting(Rtp)
      BY <2>2 DEF Starting
    <3>3. call' # At("stopping", Rtp) /\ call # At("stopping", Rtp)
      OBVIOUS
    <3> QED BY <3>1, <3>2, <3>3 DEF DecoderKept
  <2> QED BY <2>1, <2>2
<1> QED BY <1>1, <1>2, <1>3, <1>4 DEF HandoffIInv

LEMMA StartFailsStep ==
  ASSUME HandoffIInv, NEW p \in Producer, StartFails(p)
  PROVE  HandoffIInv'
<1> USE ProducerAssumption, CallsDistinct DEF StartFails, HandoffIInv
<1>1. HandoffTypeOK'  BY DEF HandoffTypeOK, Calls
<1>2. SlotHeld'       BY DEF HandoffTypeOK, SlotHeld, Handshake, Holder, Starting
<1>3. Handshake'      BY DEF HandoffTypeOK, Handshake, Starting
<1>4. DecoderKept'    BY DEF HandoffTypeOK, Handshake, DecoderKept, Starting
<1> QED BY <1>1, <1>2, <1>3, <1>4 DEF HandoffIInv

LEMMA ArmStep ==
  ASSUME HandoffIInv, NEW p \in Producer, Arm(p)
  PROVE  HandoffIInv'
<1> USE ProducerAssumption, CallsDistinct DEF Arm, HandoffIInv
<1>1. HandoffTypeOK'  BY DEF HandoffTypeOK, Calls
<1>2. SlotHeld'       BY DEF HandoffTypeOK, SlotHeld, Handshake, Holder, Starting
<1>3. Handshake'      BY DEF HandoffTypeOK, Handshake, Starting
<1>4. DecoderKept'    BY DEF HandoffTypeOK, Handshake, DecoderKept, Starting
<1> QED BY <1>1, <1>2, <1>3, <1>4 DEF HandoffIInv

LEMMA SpawnStep ==
  ASSUME HandoffIInv, NEW p \in Producer, Spawn(p)
  PROVE  HandoffIInv'
<1> USE ProducerAssumption, CallsDistinct DEF Spawn, HandoffIInv
<1>1. HandoffTypeOK'  BY DEF HandoffTypeOK, Calls
<1>2. SlotHeld'       BY DEF HandoffTypeOK, SlotHeld, Handshake, Holder, Starting
<1>3. Handshake'
  <2>1. running[p] /\ ~done[p] /\ tpc[p] = "none"
    BY DEF Handshake, Starting
  <2>2. ASSUME NEW q \in Producer, q # p
        PROVE  /\ handle'[q] = handle[q] /\ tpc'[q] = tpc[q]
               /\ running'[q] = running[q] /\ done'[q] = done[q]
    BY <2>2 DEF HandoffTypeOK
  <2>3. /\ handle'[p] /\ tpc'[p] = "loop"
        /\ \A q : call' # At("stopping", q) /\ call # At("stopping", q)
        /\ \A q : ~Starting(q)'
    BY DEF HandoffTypeOK, Starting
  <2> QED BY <2>1, <2>2, <2>3 DEF Handshake
<1>4. DecoderKept'    BY DEF HandoffTypeOK, Handshake, DecoderKept, Starting
<1> QED BY <1>1, <1>2, <1>3, <1>4 DEF HandoffIInv

LEMMA SpawnFailsStep ==
  ASSUME HandoffIInv, NEW p \in Producer, SpawnFails(p)
  PROVE  HandoffIInv'
<1> USE ProducerAssumption, CallsDistinct DEF SpawnFails, HandoffIInv
<1>1. HandoffTypeOK'  BY DEF HandoffTypeOK, Calls
<1>2. SlotHeld'       BY DEF HandoffTypeOK, SlotHeld, Handshake, Holder, Starting
<1>3. Handshake'      BY DEF HandoffTypeOK, Handshake, Starting
<1>4. DecoderKept'    BY DEF HandoffTypeOK, Handshake, DecoderKept, Starting
<1> QED BY <1>1, <1>2, <1>3, <1>4 DEF HandoffIInv

LEMMA StopNotRunningStep ==
  ASSUME HandoffIInv, NEW p \in Producer, StopNotRunning(p)
  PROVE  HandoffIInv'
<1> USE ProducerAssumption, CallsDistinct DEF StopNotRunning, HandoffIInv
<1>1. HandoffTypeOK'  BY DEF HandoffTypeOK, Calls
<1>2. SlotHeld'       BY DEF HandoffTypeOK, SlotHeld, Handshake, Holder, Starting
<1>3. Handshake'      BY DEF HandoffTypeOK, Handshake, Starting
<1>4. DecoderKept'    BY DEF HandoffTypeOK, Handshake, DecoderKept, Starting
<1> QED BY <1>1, <1>2, <1>3, <1>4 DEF HandoffIInv

LEMMA StopAskStep ==
  ASSUME HandoffIInv, NEW p \in Producer, StopAsk(p)
  PROVE  HandoffIInv'
<1> USE ProducerAssumption, CallsDistinct DEF StopAsk, HandoffIInv
<1>1. HandoffTypeOK'  BY DEF HandoffTypeOK, Calls
<1>2. SlotHeld'       BY DEF HandoffTypeOK, SlotHeld, Handshake, Holder, Starting
<1>3. Handshake'      BY DEF HandoffTypeOK, Handshake, Starting
<1>4. DecoderKept'    BY DEF HandoffTypeOK, Handshake, DecoderKept, Starting
<1> QED BY <1>1, <1>2, <1>3, <1>4 DEF HandoffIInv

LEMMA StopReturnStep ==
  ASSUME HandoffIInv, NEW p \in Producer, StopReturn(p)
  PROVE  HandoffIInv'
<1> USE ProducerAssumption, CallsDistinct DEF StopReturn, HandoffIInv
<1>1. HandoffTypeOK'  BY DEF HandoffTypeOK, Calls
<1>2. SlotHeld'       BY DEF HandoffTypeOK, SlotHeld, Handshake, Holder, Starting
<1>3. Handshake'      BY DEF HandoffTypeOK, Handshake, Starting
<1>4. DecoderKept'    BY DEF HandoffTypeOK, Handshake, DecoderKept, Starting
<1> QED BY <1>1, <1>2, <1>3, <1>4 DEF HandoffIInv

LEMMA ProduceStep ==
  ASSUME HandoffIInv, NEW p \in Producer, Produce(p)
  PROVE  HandoffIInv'
<1> USE ProducerAssumption, CallsDistinct DEF Produce, HandoffIInv
<1>1. HandoffTypeOK'  BY DEF HandoffTypeOK, Calls
<1>2. SlotHeld'       BY DEF HandoffTypeOK, SlotHeld, Handshake, Holder, Starting
<1>3. Handshake'      BY DEF HandoffTypeOK, Handshake, Starting
<1>4. DecoderKept'    BY DEF HandoffTypeOK, Handshake, DecoderKept, Starting
<1> QED BY <1>1, <1>2, <1>3, <1>4 DEF HandoffIInv

LEMMA ProducedStep ==
  ASSUME HandoffIInv, NEW p \in Producer, Produced(p)
  PROVE  HandoffIInv'
<1> USE ProducerAssumption, CallsDistinct DEF Produced, HandoffIInv
<1>1. HandoffTypeOK'  BY DEF HandoffTypeOK, Calls
<1>2. SlotHeld'       BY DEF HandoffTypeOK, SlotHeld, Handshake, Holder, Starting
<1>3. Handshake'      BY DEF HandoffTypeOK, Handshake, Starting
<1>4. DecoderKept'    BY DEF HandoffTypeOK, Handshake, DecoderKept, Starting
<1> QED BY <1>1, <1>2, <1>3, <1>4 DEF HandoffIInv

LEMMA ReleaseStep ==
  ASSUME HandoffIInv, NEW p \in Producer, Release(p)
  PROVE  HandoffIInv'
<1> USE ProducerAssumption, CallsDistinct DEF Release, HandoffIInv
<1>1. HandoffTypeOK'  BY DEF HandoffTypeOK, Calls
<1>2. SlotHeld'       BY DEF HandoffTypeOK, SlotHeld, Handshake, Holder, Starting
<1>3. Handshake'      BY DEF HandoffTypeOK, Handshake, Starting
<1>4. DecoderKept'    BY DEF HandoffTypeOK, Handshake, DecoderKept, Starting
<1> QED BY <1>1, <1>2, <1>3, <1>4 DEF HandoffIInv

LEMMA ClearStep ==
  ASSUME HandoffIInv, NEW p \in Producer, Clear(p)
  PROVE  HandoffIInv'
<1> USE ProducerAssumption, CallsDistinct DEF Clear, HandoffIInv
<1>1. HandoffTypeOK'  BY DEF HandoffTypeOK, Calls
<1>2. SlotHeld'       BY DEF HandoffTypeOK, SlotHeld, Handshake, Holder, Starting
<1>3. Handshake'      BY DEF HandoffTypeOK, Handshake, Starting
<1>4. DecoderKept'    BY DEF HandoffTypeOK, Handshake, DecoderKept, Starting
<1> QED BY <1>1, <1>2, <1>3, <1>4 DEF HandoffIInv

LEMMA PublishStep ==
  ASSUME HandoffIInv, NEW p \in Producer, Publish(p)
  PROVE  HandoffIInv'
<1> USE ProducerAssumption, CallsDistinct DEF Publish, HandoffIInv
<1>1. HandoffTypeOK'  BY DEF HandoffTypeOK, Calls
<1>2. SlotHeld'       BY DEF HandoffTypeOK, SlotHeld, Handshake, Holder, Starting
<1>3. Handshake'      BY DEF HandoffTypeOK, Handshake, Starting
<1>4. DecoderKept'    BY DEF HandoffTypeOK, Handshake, DecoderKept, Starting
<1> QED BY <1>1, <1>2, <1>3, <1>4 DEF HandoffIInv

LEMMA HandoffStutter ==
  ASSUME HandoffIInv, UNCHANGED handoffVars
  PROVE  HandoffIInv'
BY DEF handoffVars, HandoffIInv, HandoffTypeOK, SlotHeld, Handshake, DecoderKept,
       Holder, Starting
-----------------------------------------------------------------------------
(***************************************************************************)
(* The inductive invariant: the slot is held exactly from the claim of a     *)
(* start to the release of the task (or to the failure of the start), and   *)
(* the flags of the handshake say where the task is.                        *)
(***************************************************************************)
THEOREM HandoffInvariant == HandoffSpec => []HandoffIInv
<1>1. HandoffInit => HandoffIInv
  BY HandoffInitInv
<1>2. HandoffIInv /\ [HandoffNext]_handoffVars => HandoffIInv'
  <2> SUFFICES ASSUME HandoffIInv, [HandoffNext]_handoffVars
               PROVE  HandoffIInv'
    OBVIOUS
  <2>1. ASSUME NEW p \in Producer, Control(p)
        PROVE  HandoffIInv'
    BY <2>1, ClaimStep, StartFailsStep, ArmStep, SpawnStep, SpawnFailsStep,
       StopNotRunningStep, StopAskStep, StopReturnStep DEF Control
  <2>2. ASSUME NEW p \in Producer, TaskStep(p)
        PROVE  HandoffIInv'
    BY <2>2, ProduceStep, ProducedStep, ReleaseStep, ClearStep, PublishStep
    DEF TaskStep
  <2>3. CASE UNCHANGED handoffVars
    BY <2>3, HandoffStutter
  <2> QED BY <2>1, <2>2, <2>3 DEF HandoffNext
<1> QED BY <1>1, <1>2, PTL DEF HandoffSpec

(* The variables keep their types. *)
THEOREM HandoffTypes == HandoffSpec => []HandoffTypeOK
<1>1. HandoffIInv => HandoffTypeOK
  BY DEF HandoffIInv
<1> QED BY <1>1, HandoffInvariant, PTL

(***************************************************************************)
(* audio.h: "SINGLE PRODUCER": for any number of producers and any order of *)
(* start and stop calls, no two of them are in audio_play_pcm together.     *)
(***************************************************************************)
THEOREM HandoffExcludes == HandoffSpec => []OneProducer
<1>1. HandoffIInv => OneProducer
  <2> SUFFICES ASSUME HandoffIInv, NEW p \in Playing, NEW q \in Playing
               PROVE  p = q /\ owner = p
    BY DEF OneProducer
  <2>1. owner = p /\ owner = q
    BY DEF Playing, HandoffIInv, SlotHeld, Holder
  <2> QED BY <2>1
<1> QED BY <1>1, HandoffInvariant, PTL

(* raop_rtp_stop frees the decoder, the key and the reorder buffer of no     *)
(* task that may still use them.                                            *)
THEOREM HandoffNoUseAfterFree == HandoffSpec => []NoUseAfterFree
<1>1. HandoffIInv => NoUseAfterFree
  BY DEF HandoffIInv, DecoderKept, NoUseAfterFree
<1> QED BY <1>1, HandoffInvariant, PTL

(* What a start or a stop leaves when it has returned: see NothingLeftBehind. *)
THEOREM HandoffClean == HandoffSpec => []NothingLeftBehind
<1>1. HandoffIInv => NothingLeftBehind
  <2> SUFFICES ASSUME HandoffIInv, call = Idle
               PROVE  /\ \A p \in Producer : handle[p] = (tpc[p] # "none")
                      /\ (\A p \in Producer : ~handle[p]) => owner = "none"
                      /\ ~handle[Rtp] => ~decoder
    BY DEF NothingLeftBehind
  <2>1. \A p \in Producer : ~Starting(p) /\ call # At("stopping", p)
    BY CallsDistinct DEF Starting
  <2>2. ASSUME NEW p \in Producer
        PROVE  /\ handle[p] <=> tpc[p] # "none"
               /\ handle[p] \in BOOLEAN
               /\ owner = p => handle[p]
    <3>1. /\ handle[p] <=> tpc[p] \in {"loop", "play", "clear"}
          /\ tpc[p] \in {"none", "loop", "play"}
          /\ owner = p <=> tpc[p] \in {"loop", "play"}
      BY <2>1 DEF HandoffIInv, Handshake, SlotHeld, Holder
    <3>2. handle[p] \in BOOLEAN
      BY DEF HandoffIInv, HandoffTypeOK
    <3> QED BY <3>1, <3>2
  <2>3. \A p \in Producer : handle[p] = (tpc[p] # "none")
    BY <2>2
  <2>4. (\A p \in Producer : ~handle[p]) => owner = "none"
    BY <2>2 DEF HandoffIInv, HandoffTypeOK
  <2>5. ~handle[Rtp] => ~decoder
    BY <2>1, <2>2, ProducerAssumption DEF HandoffIInv, DecoderKept
  <2> QED BY <2>3, <2>4, <2>5
<1> QED BY <1>1, HandoffInvariant, PTL
-----------------------------------------------------------------------------
(* What the handoff says of the RTP task, in the terms of this module.       *)

LEMMA CallsApart ==
  /\ At("claimed", Rtp) # Idle /\ At("armed", Rtp) # Idle /\ At("stopping", Rtp) # Idle
  /\ At("claimed", Rtp) # At("stopping", Rtp)
  /\ At("armed", Rtp) # At("stopping", Rtp)
  /\ At("armed", Rtp) # At("claimed", Rtp)
BY CallsDistinct

LEMMA TaskAt ==
  ASSUME HandoffIInv
  PROVE  /\ handle[Rtp] \in BOOLEAN
         /\ Starting(Rtp) => tpc[Rtp] = "none"
         /\ call # At("stopping", Rtp) =>
              /\ tpc[Rtp] \in {"none", "loop", "play"}
              /\ handle[Rtp] <=> tpc[Rtp] # "none"
              /\ tpc[Rtp] # "none" => running[Rtp]
         /\ tpc[Rtp] = "none" => ~handle[Rtp]
BY ProducerAssumption DEF HandoffIInv, HandoffTypeOK, Handshake

(* The RTP task makes no call and never starts reading again; and while      *)
(* nobody stops it, it keeps its handle.                                    *)
LEMMA TaskMoves ==
  ASSUME HandoffIInv, TaskStep(Rtp)
  PROVE  /\ HandoffIInv' /\ call' = call /\ tpc[Rtp] # "none"
         /\ RtpReads' => RtpReads
         /\ call # At("stopping", Rtp) => handle' = handle
<1>1. HandoffIInv'
  BY ProducerAssumption, ProduceStep, ProducedStep, ReleaseStep, ClearStep, PublishStep
  DEF TaskStep
<1>2. call' = call /\ tpc[Rtp] # "none"
  BY DEF TaskStep, Produce, Produced, Release, Clear, Publish
<1>3. tpc \in [Producer -> {"none", "loop", "play", "clear", "publish"}]
  BY DEF HandoffIInv, HandoffTypeOK
<1>4. RtpReads' => RtpReads
  BY <1>3, ProducerAssumption
  DEF TaskStep, Produce, Produced, Release, Clear, Publish, RtpReads
<1>5. call # At("stopping", Rtp) => handle' = handle
  BY TaskAt DEF TaskStep, Produce, Produced, Release, Clear, Publish
<1> QED BY <1>1, <1>2, <1>4, <1>5

LEMMA InitHolds == Init => ServerIInv
<1> SUFFICES ASSUME Init PROVE ServerIInv
  OBVIOUS
<1> USE ServerAssumption DEF Init
<1>1. HandoffIInv
  BY HandoffInitInv
<1>2. call = Idle /\ tpc[Rtp] = "none" /\ ~handle[Rtp]
  BY ProducerAssumption DEF HandoffInit
<1>3. /\ session = [state |-> "IDLE", have_key |-> FALSE, fmtp |-> FALSE, fds |-> {0}]
  BY DEF ZeroSession, NoSession
<1>4. ServerTypes
  <2>1. world \in World  OBVIOUS
  <2>2. session \in [state : {"IDLE", "ANNOUNCED", "SETUP", "RECORDING"},
                     have_key : BOOLEAN, fmtp : BOOLEAN, fds : SUBSET Nat]
    BY <1>3
  <2>3. pc \in Places /\ then \in {"loop", "client", "drop", "end"}
    BY DEF Places
  <2>4. waiting \subseteq Sender /\ open \subseteq Nat
    OBVIOUS
  <2> QED BY <2>1, <2>2, <2>3, <2>4 DEF ServerTypes
<1>5. CallsMatch     BY <1>2, CallsApart DEF CallsMatch
<1>6. KeysMatch      BY <1>3 DEF KeysMatch
<1>7. StreamMatches  BY <1>3 DEF StreamMatches, InService
<1>8. SocketsOwned   BY <1>3 DEF SocketsOwned, NoFd
<1>9. RtpSocketsOpen BY <1>2 DEF RtpSocketsOpen, RtpReads
<1> QED BY <1>1, <1>4, <1>5, <1>6, <1>7, <1>8, <1>9 DEF ServerIInv
-----------------------------------------------------------------------------
(* The frames of the steps.                                                 *)

LEMMA MovesSpent ==
  ASSUME world \in World, world.moves > 0
  PROVE  [world EXCEPT !.moves = @ - 1] \in World
BY DEF World

LEMMA StartsSpent ==
  ASSUME world \in World, world.starts > 0
  PROVE  [world EXCEPT !.starts = @ - 1] \in World
BY DEF World

(* New descriptors are those of no open one. *)
LEMMA LowestAreFree ==
  ASSUME ServerTypes, NEW n
  PROVE  /\ Lowest(n) \subseteq Nat /\ Lowest(n) \cap open = {}
         /\ NoFd \notin Lowest(n) /\ NoFd \notin open
<1>1. world.sockets \in Nat
  BY DEF ServerTypes, World
<1>2. Fd \subseteq Nat /\ NoFd \notin Nat
  BY <1>1 DEF Fd, NoFd
<1> QED BY <1>2 DEF Lowest, Free, ServerTypes

(***************************************************************************)
(* A step that concerns neither the session, nor the stream, nor what is     *)
(* open, and at most moves the server on in its loop.                       *)
(***************************************************************************)
LEMMA Bystander ==
  ASSUME ServerIInv,
         UNCHANGED <<handoffVars, srv, then, client, cfd, conn, lfd, sess, stream, open>>,
         pc' # pc => pc \in InService /\ pc' \in InService \cup {"exit"},
         world' \in World, waiting' \subseteq Sender,
         pc' = "dispatch" => client # NoSender,
         pc' \in {"accept", "client"} /\ cli' => client # NoSender
  PROVE  ServerIInv'
<1> USE DEF ServerIInv, sess, stream
<1>1. HandoffIInv'     BY HandoffStutter
<1>2. UNCHANGED <<call, handle, tpc>>  BY DEF handoffVars
<1>3. ServerTypes'     BY DEF ServerTypes, Places, InService
<1>4. CallsMatch'      BY <1>2 DEF CallsMatch, InService
<1>5. KeysMatch'       BY DEF KeysMatch, InService
<1>6. StreamMatches'   BY <1>2 DEF StreamMatches, Recording, InService
<1>7. SocketsOwned'    BY DEF SocketsOwned, InService
<1>8. RtpSocketsOpen'  BY <1>2 DEF RtpSocketsOpen, RtpReads
<1> QED BY <1>1, <1>3, <1>4, <1>5, <1>6, <1>7, <1>8

(***************************************************************************)
(* A step that begins the teardown of the session, whatever it does to the   *)
(* connection, provided it closes nothing of the session or the stream.     *)
(***************************************************************************)
LEMMA BeginTeardown ==
  ASSUME ServerIInv, pc \in InService \cup {"exit"}, pc' = "stop",
         UNCHANGED <<handoffVars, srv, sess, stream, world>>, waiting' \subseteq Sender,
         then' \in {"loop", "client", "drop", "end"},
         then' = "client" => client' # NoSender,
         open' \subseteq Nat, {lfd', cfd'} \subseteq open' \cup {NoFd},
         lfd' = cfd' => lfd' = NoFd,
         session.fds \subseteq open', {lfd', cfd'} \cap session.fds = {},
         RtpReads => rtpFds \subseteq open' /\ {lfd', cfd'} \cap rtpFds = {}
  PROVE  ServerIInv'
<1> USE DEF ServerIInv, sess, stream
<1>1. HandoffIInv'     BY HandoffStutter
<1>2. UNCHANGED <<call, handle, tpc>>  BY DEF handoffVars
<1>3. ServerTypes'     BY DEF ServerTypes, Places
<1>4. CallsMatch'      BY <1>2, CallsApart DEF CallsMatch, InService
<1>5. KeysMatch'       BY DEF KeysMatch
<1>6. StreamMatches'   BY DEF StreamMatches, InService
<1>7. SocketsOwned'    BY DEF SocketsOwned
<1>8. RtpSocketsOpen'  BY <1>2 DEF RtpSocketsOpen, RtpReads
<1> QED BY <1>1, <1>3, <1>4, <1>5, <1>6, <1>7, <1>8
-----------------------------------------------------------------------------
(* The steps, one by one.                                                   *)

LEMMA SenderSteps ==
  ASSUME ServerIInv,
         \/ \E s \in world.senders : Connect(s)
         \/ \E r \in world.requests : SendRequest(r)
         \/ HangUp \/ Tick \/ ServerStop
  PROVE  ServerIInv'
<1> USE DEF server, life, ready, link, sess, stream, network
<1>0. ServerTypes /\ KeysMatch  BY DEF ServerIInv
<1>1. ASSUME NEW s \in world.senders, Connect(s)
      PROVE  ServerIInv'
  <2>1. world' \in World
    BY <1>0, <1>1, MovesSpent DEF Connect, ServerTypes
  <2>2. waiting' \subseteq Sender
    BY <1>0, <1>1 DEF Connect, ServerTypes, World
  <2> QED BY <1>0, <1>1, <2>1, <2>2, Bystander DEF Connect, KeysMatch
<1>2. ASSUME NEW r \in world.requests, SendRequest(r)
      PROVE  ServerIInv'
  <2>1. world' \in World
    BY <1>0, <1>2, MovesSpent DEF SendRequest, ServerTypes
  <2> QED BY <1>0, <1>2, <2>1, Bystander DEF SendRequest, KeysMatch, ServerTypes
<1>3. CASE HangUp
  BY <1>0, <1>3, Bystander DEF HangUp, KeysMatch, ServerTypes
<1>4. CASE Tick
  BY <1>0, <1>4, Bystander DEF Tick, KeysMatch, ServerTypes
<1>5. CASE ServerStop
  BY <1>0, <1>5, Bystander DEF ServerStop, KeysMatch, ServerTypes
<1> QED BY <1>1, <1>2, <1>3, <1>4, <1>5

(* The server is down or comes up: there is no session and no stream.        *)
LEMMA StartSteps ==
  ASSUME ServerIInv, ServerStart \/ ServerStartFails \/ BootFails
  PROVE  ServerIInv'
<1> USE DEF ServerIInv, link, sess, stream, life, ready, network
<1>1. /\ UNCHANGED <<handoffVars, then, client, cfd, lfd, cli, rtpFds, led, waiting>>
      /\ pc \in {"down", "boot"} /\ tpc[Rtp] = "none" /\ led = "IDLE"
      /\ pc' \in {"down", "boot"} /\ (srv' = "down" <=> pc' = "down")
  BY DEF CallsMatch, KeysMatch, ServerStart, ServerStartFails, BootFails
<1>2. UNCHANGED <<call, handle, tpc>>  BY <1>1 DEF handoffVars
<1>3. /\ ~session'.have_key /\ session'.state = "IDLE" /\ world' \in World
      /\ session' \in [state : {"IDLE", "ANNOUNCED", "SETUP", "RECORDING"},
                       have_key : BOOLEAN, fmtp : BOOLEAN, fds : SUBSET Nat]
      /\ open' \subseteq Nat /\ {lfd, cfd} \subseteq open' \cup {NoFd}
      /\ session'.fds \subseteq open' /\ {lfd, cfd} \cap session'.fds = {}
  <2>1. CASE ServerStart \/ ServerStartFails
    <3>1. /\ session' = [state |-> "IDLE", have_key |-> FALSE, fmtp |-> FALSE, fds |-> {}]
          /\ open' = open \ session.fds
      BY <2>1 DEF ServerStart, ServerStartFails, NoSession
    <3>2. world' \in World
      BY <2>1, StartsSpent DEF ServerTypes, ServerStart, ServerStartFails
    <3> QED BY <3>1, <3>2 DEF ServerTypes, SocketsOwned
  <2>2. CASE BootFails
    BY <2>2 DEF BootFails, ServerTypes, SocketsOwned, KeysMatch
  <2> QED BY <2>1, <2>2
<1>4. HandoffIInv'     BY <1>1, HandoffStutter
<1>5. ServerTypes'     BY <1>1, <1>3 DEF ServerTypes, Places
<1>6. CallsMatch'      BY <1>1, <1>2 DEF CallsMatch
<1>7. KeysMatch'       BY <1>1, <1>3 DEF KeysMatch
<1>8. StreamMatches'   BY <1>1 DEF StreamMatches, InService
<1>9. SocketsOwned'    BY <1>1, <1>3 DEF SocketsOwned
<1>10. RtpSocketsOpen' BY <1>1, <1>2 DEF RtpSocketsOpen, RtpReads
<1> QED BY <1>4, <1>5, <1>6, <1>7, <1>8, <1>9, <1>10

LEMMA BootStep ==
  ASSUME ServerIInv, Boot
  PROVE  ServerIInv'
<1> USE DEF ServerIInv, link, sess, stream, life, ready, network, Boot
<1>1. HandoffIInv'     BY HandoffStutter
<1>2. UNCHANGED <<call, handle, tpc>>  BY DEF handoffVars
<1>3. tpc[Rtp] = "none" /\ ~handle[Rtp]  BY TaskAt DEF CallsMatch
<1>4. lfd' \in Nat /\ lfd' \notin open /\ lfd' # NoFd /\ NoFd \notin open
  BY LowestAreFree
<1>5. ServerTypes'     BY <1>4 DEF ServerTypes, Places, InService
<1>6. CallsMatch'      BY <1>2 DEF CallsMatch
<1>7. KeysMatch'       BY DEF KeysMatch
<1>8. StreamMatches'   BY <1>2, <1>3 DEF KeysMatch, StreamMatches, Recording
<1>9. SocketsOwned'    BY <1>4 DEF SocketsOwned
<1>10. RtpSocketsOpen' BY <1>2, <1>3 DEF RtpSocketsOpen, RtpReads
<1> QED BY <1>1, <1>5, <1>6, <1>7, <1>8, <1>9, <1>10

(* The steps that only move the server on in its loop, or answer a request. *)
Onwards ==
  \/ Loop \/ SelectFails \/ SelectReady \/ SelectTimeout \/ NoAccept \/ RefuseBusy
  \/ NoData \/ RecvOversized \/ Recv \/ Dispatched \/ Other \/ RecordAgain \/ RecordRefused

LEMMA LoopSteps ==
  ASSUME ServerIInv, Onwards
  PROVE  ServerIInv'
<1> USE DEF life, ready, link, sess, stream, network, InService, KeysMatch
<1>0. ServerTypes /\ KeysMatch /\ world \in World /\ waiting \subseteq Sender
  BY DEF ServerIInv, ServerTypes
<1>1. CASE Loop           BY <1>0, <1>1, Bystander DEF Loop
<1>2. CASE SelectFails    BY <1>0, <1>2, Bystander DEF SelectFails
<1>3. CASE SelectReady    BY <1>0, <1>3, Bystander DEF SelectReady, HasInput
<1>4. CASE SelectTimeout  BY <1>0, <1>4, Bystander DEF SelectTimeout
<1>5. CASE NoAccept       BY <1>0, <1>5, Bystander DEF NoAccept
<1>6. CASE RefuseBusy     BY <1>0, <1>6, Bystander DEF RefuseBusy
<1>7. CASE NoData         BY <1>0, <1>7, Bystander DEF NoData
<1>8. CASE RecvOversized  BY <1>0, <1>8, Bystander DEF RecvOversized
<1>9. CASE Recv           BY <1>0, <1>9, Bystander DEF Recv
<1>10. CASE Dispatched    BY <1>0, <1>10, Bystander DEF Dispatched
<1>11. CASE Other         BY <1>0, <1>11, Bystander DEF Other, Requested
<1>12. CASE RecordAgain   BY <1>0, <1>12, Bystander DEF RecordAgain, Requested
<1>13. CASE RecordRefused BY <1>0, <1>13, Bystander DEF RecordRefused, Requested
<1> QED BY <1>1, <1>2, <1>3, <1>4, <1>5, <1>6, <1>7, <1>8, <1>9, <1>10, <1>11, <1>12,
           <1>13 DEF Onwards

(* The steps that begin a teardown. *)
LEMMA TeardownSteps ==
  ASSUME ServerIInv,
         SelectReclaim \/ Accept \/ RecvClosing \/ TeardownRequest \/ Exit
  PROVE  ServerIInv'
<1> USE DEF life, ready, link, sess, stream, network, TeardownThen, CloseClient, InService
<1>0. /\ ServerTypes /\ SocketsOwned /\ RtpSocketsOpen
      /\ world \in World /\ waiting \subseteq Sender /\ open \subseteq Nat
      /\ NoFd \notin open
  BY LowestAreFree DEF ServerIInv, ServerTypes
<1> USE DEF SocketsOwned, RtpSocketsOpen
<1>1. CASE SelectReclaim    BY <1>0, <1>1, BeginTeardown DEF SelectReclaim
<1>2. CASE RecvClosing      BY <1>0, <1>2, BeginTeardown DEF RecvClosing
<1>3. CASE TeardownRequest  BY <1>0, <1>3, BeginTeardown DEF TeardownRequest, Requested
<1>4. CASE Exit             BY <1>0, <1>4, BeginTeardown DEF Exit
<1>5. CASE Accept
  <2>1. cfd' \in Nat /\ cfd' \notin open /\ cfd' # NoFd
    BY <1>0, <1>5, LowestAreFree DEF Accept
  <2>2. client' # NoSender
    BY <1>0, <1>5, ServerAssumption DEF Accept
  <2> QED BY <1>0, <1>5, <2>1, <2>2, BeginTeardown DEF Accept
<1> QED BY <1>1, <1>2, <1>3, <1>4, <1>5
-----------------------------------------------------------------------------
(* Requests that change the session.                                        *)

LEMMA AnnounceStep ==
  ASSUME ServerIInv, Announce
  PROVE  ServerIInv'
<1> USE DEF ServerIInv, life, link, stream, ready, network
<1>1. /\ UNCHANGED <<handoffVars, srv, pc, then, client, cfd, conn, lfd, rtpFds, led, open,
                     world, waiting>>
      /\ pc = "dispatch" /\ keyConn' = conn
  BY DEF Announce, Requested
<1>2. UNCHANGED <<call, handle, tpc>>  BY <1>1 DEF handoffVars
<1>3. /\ session' \in [state : {"IDLE", "ANNOUNCED", "SETUP", "RECORDING"},
                       have_key : BOOLEAN, fmtp : BOOLEAN, fds : SUBSET Nat]
      /\ session'.state = "ANNOUNCED" /\ session'.fds = session.fds
  BY DEF Announce, ServerTypes
<1>4. HandoffIInv'     BY <1>1, HandoffStutter
<1>5. ServerTypes'     BY <1>1, <1>3 DEF ServerTypes
<1>6. CallsMatch'      BY <1>1, <1>2 DEF CallsMatch
<1>7. KeysMatch'       BY <1>1 DEF KeysMatch
<1>8. StreamMatches'   BY <1>1, <1>2, <1>3 DEF StreamMatches, Recording
<1>9. SocketsOwned'    BY <1>1, <1>3 DEF SocketsOwned
<1>10. RtpSocketsOpen' BY <1>1, <1>2, <1>3 DEF RtpSocketsOpen, RtpReads
<1> QED BY <1>4, <1>5, <1>6, <1>7, <1>8, <1>9, <1>10

(* A SETUP that finds its sockets takes free ones, so that those of a stream *)
(* that runs are untouched; one that does not leaves the session none.      *)
LEMMA SetupSteps ==
  ASSUME ServerIInv, Setup \/ SetupFails
  PROVE  ServerIInv'
<1> USE DEF ServerIInv, life, link, sess, stream, ready, network
<1>1. /\ UNCHANGED <<handoffVars, srv, pc, then, client, cfd, conn, keyConn, lfd, rtpFds, led,
                     world, waiting>>
      /\ pc = "dispatch"
  BY DEF Setup, SetupFails, Requested
<1>2. UNCHANGED <<call, handle, tpc>>  BY <1>1 DEF handoffVars
<1>3. /\ session' \in [state : {"IDLE", "ANNOUNCED", "SETUP", "RECORDING"},
                       have_key : BOOLEAN, fmtp : BOOLEAN, fds : SUBSET Nat]
      /\ session'.have_key = session.have_key
      /\ session'.state = "RECORDING" => Recording /\ session'.fds = {}
      /\ open \subseteq open' /\ open' \subseteq Nat /\ session'.fds \subseteq open'
      /\ session'.fds \cap open = {} /\ NoFd \notin session'.fds
  <2>1. CASE Setup
    BY <2>1, LowestAreFree DEF Setup, ServerTypes, Recording
  <2>2. CASE SetupFails
    BY <2>2 DEF SetupFails, ServerTypes, Recording
  <2> QED BY <2>1, <2>2
<1>4. HandoffIInv'     BY <1>1, HandoffStutter
<1>5. ServerTypes'     BY <1>1, <1>3 DEF ServerTypes
<1>6. CallsMatch'      BY <1>1, <1>2 DEF CallsMatch
<1>7. KeysMatch'       BY <1>1, <1>3 DEF KeysMatch
<1>8. StreamMatches'   BY <1>1, <1>2, <1>3 DEF StreamMatches, Recording
<1>9. SocketsOwned'    BY <1>1, <1>3 DEF SocketsOwned
<1>10. RtpSocketsOpen' BY <1>1, <1>2, <1>3 DEF RtpSocketsOpen, RtpReads
<1> QED BY <1>4, <1>5, <1>6, <1>7, <1>8, <1>9, <1>10

LEMMA DropClientStep ==
  ASSUME ServerIInv, DropClient
  PROVE  ServerIInv'
<1> USE DEF ServerIInv, life, link, sess, stream, ready, network
<1>1. /\ UNCHANGED <<handoffVars, srv, then, lfd, session, keyConn, rtpFds, led, world, waiting>>
      /\ pc = "drop" /\ pc' = "loop" /\ cfd' = NoFd /\ open' = open \ {cfd}
  BY DEF DropClient, CloseClient
<1>2. UNCHANGED <<call, handle, tpc>>  BY <1>1 DEF handoffVars
<1>3. tpc[Rtp] = "none" /\ ~handle[Rtp]  BY <1>1, TaskAt DEF CallsMatch
<1>4. HandoffIInv'     BY <1>1, HandoffStutter
<1>5. ServerTypes'     BY <1>1 DEF ServerTypes, Places, InService
<1>6. CallsMatch'      BY <1>1, <1>2 DEF CallsMatch
<1>7. KeysMatch'       BY <1>1 DEF KeysMatch
<1>8. StreamMatches'   BY <1>1, <1>2, <1>3 DEF KeysMatch, StreamMatches, Recording
<1>9. SocketsOwned'    BY <1>1, LowestAreFree DEF SocketsOwned
<1>10. RtpSocketsOpen' BY <1>1, <1>2, <1>3 DEF RtpSocketsOpen, RtpReads
<1> QED BY <1>4, <1>5, <1>6, <1>7, <1>8, <1>9, <1>10
-----------------------------------------------------------------------------
(* RECORD.                                                                  *)

LEMMA RecordFailsStep ==
  ASSUME ServerIInv, RecordFails
  PROVE  ServerIInv'
<1> USE DEF ServerIInv, life, link, sess, stream, ready, network
<1>1. /\ UNCHANGED <<srv, pc, then, client, cfd, conn, lfd, cli, session, keyConn, rtpFds, led,
                     open, world, waiting>>
      /\ pc = "dispatch"
  BY DEF RecordFails, Requested
<1>2. UNCHANGED <<call, handle, tpc>>
  BY DEF RecordFails, StartFails, handoffVars
<1>3. HandoffIInv'
  BY HandoffStutter, StartFailsStep, ProducerAssumption DEF RecordFails
<1>4. ServerTypes'     BY <1>1 DEF ServerTypes
<1>5. CallsMatch'      BY <1>1, <1>2 DEF CallsMatch
<1>6. KeysMatch'       BY <1>1 DEF KeysMatch
<1>7. StreamMatches'   BY <1>1, <1>2 DEF StreamMatches, Recording
<1>8. SocketsOwned'    BY <1>1 DEF SocketsOwned
<1>9. RtpSocketsOpen'  BY <1>1, <1>2 DEF RtpSocketsOpen, RtpReads
<1> QED BY <1>3, <1>4, <1>5, <1>6, <1>7, <1>8, <1>9

LEMMA RecordStartsStep ==
  ASSUME ServerIInv, RecordStarts
  PROVE  ServerIInv'
<1> USE DEF ServerIInv, life, link, sess, stream, ready, network
<1>1. /\ UNCHANGED <<srv, then, client, cfd, conn, lfd, cli, session, keyConn, led, open,
                     world, waiting, handle, tpc>>
      /\ pc = "dispatch" /\ pc' = "start" /\ ~Recording
      /\ rtpFds' = session.fds /\ session.fds # {}
      /\ ~handle[Rtp] /\ call = Idle /\ call' = At("claimed", Rtp)
  BY DEF RecordStarts, Requested, Claim
<1>2. tpc[Rtp] = "none"  BY <1>1, TaskAt, CallsApart
<1>3. HandoffIInv'
  BY ClaimStep, ProducerAssumption DEF RecordStarts
<1>4. ServerTypes'     BY <1>1 DEF ServerTypes, Places
<1>5. CallsMatch'      BY <1>1, CallsApart DEF CallsMatch
<1>6. KeysMatch'       BY <1>1 DEF KeysMatch
<1>7. StreamMatches'   BY <1>1 DEF StreamMatches, Recording, InService
<1>8. SocketsOwned'    BY <1>1 DEF SocketsOwned
<1>9. RtpSocketsOpen'  BY <1>1, <1>2 DEF RtpSocketsOpen, RtpReads
<1> QED BY <1>3, <1>4, <1>5, <1>6, <1>7, <1>8, <1>9

LEMMA StartArmStep ==
  ASSUME ServerIInv, StartArm
  PROVE  ServerIInv'
<1> USE DEF ServerIInv, server, life, link, sess, stream, ready, network
<1>1. /\ UNCHANGED <<srv, pc, then, client, cfd, conn, lfd, cli, session, keyConn, rtpFds, led,
                     open, world, waiting, handle, tpc>>
      /\ pc = "start" /\ call' = At("armed", Rtp)
  BY DEF StartArm, Arm
<1>2. HandoffIInv'
  BY ArmStep, ProducerAssumption DEF StartArm
<1>3. ServerTypes'     BY <1>1 DEF ServerTypes
<1>4. CallsMatch'      BY <1>1, CallsApart DEF CallsMatch
<1>5. KeysMatch'       BY <1>1 DEF KeysMatch
<1>6. StreamMatches'   BY <1>1 DEF StreamMatches, Recording
<1>7. SocketsOwned'    BY <1>1 DEF SocketsOwned
<1>8. RtpSocketsOpen'  BY <1>1 DEF RtpSocketsOpen, RtpReads
<1> QED BY <1>2, <1>3, <1>4, <1>5, <1>6, <1>7, <1>8

(* From here on the task reads the session's sockets.                       *)
LEMMA StartSpawnStep ==
  ASSUME ServerIInv, StartSpawn
  PROVE  ServerIInv'
<1> USE DEF ServerIInv, life, link, sess, stream, ready, network
<1>1. /\ UNCHANGED <<srv, then, client, cfd, conn, lfd, cli, keyConn, rtpFds, open, world,
                     waiting>>
      /\ pc = "start" /\ pc' = "dispatch" /\ call' = Idle /\ led' = "STREAMING"
  BY DEF StartSpawn, Spawn
<1>2. /\ session' \in [state : {"IDLE", "ANNOUNCED", "SETUP", "RECORDING"},
                       have_key : BOOLEAN, fmtp : BOOLEAN, fds : SUBSET Nat]
      /\ session'.fds = session.fds /\ session'.have_key = session.have_key
  BY DEF StartSpawn, ServerTypes
<1>3. handle'[Rtp]
  BY ProducerAssumption DEF StartSpawn, Spawn, HandoffIInv, HandoffTypeOK
<1>4. HandoffIInv'
  BY SpawnStep, ProducerAssumption DEF StartSpawn
<1>5. ServerTypes'     BY <1>1, <1>2 DEF ServerTypes, Places, InService
<1>6. CallsMatch'      BY <1>1, CallsApart DEF CallsMatch
<1>7. KeysMatch'       BY <1>1, <1>2 DEF KeysMatch
<1>8. StreamMatches'   BY <1>1, <1>2, <1>3 DEF StreamMatches, KeysMatch, SocketsOwned
<1>9. SocketsOwned'    BY <1>1, <1>2 DEF SocketsOwned
<1>10. RtpSocketsOpen' BY <1>1, <1>2 DEF RtpSocketsOpen, SocketsOwned
<1> QED BY <1>4, <1>5, <1>6, <1>7, <1>8, <1>9, <1>10

LEMMA StartSpawnFailsStep ==
  ASSUME ServerIInv, StartSpawnFails
  PROVE  ServerIInv'
<1> USE DEF ServerIInv, life, link, sess, stream, ready, network
<1>1. /\ UNCHANGED <<srv, then, client, cfd, conn, lfd, cli, session, keyConn, rtpFds, led, open,
                     world, waiting, handle, tpc>>
      /\ pc = "start" /\ pc' = "dispatch" /\ call' = Idle
  BY DEF StartSpawnFails, SpawnFails
<1>2. HandoffIInv'
  BY SpawnFailsStep, ProducerAssumption DEF StartSpawnFails
<1>3. ServerTypes'     BY <1>1 DEF ServerTypes, Places, InService
<1>4. CallsMatch'      BY <1>1, CallsApart DEF CallsMatch
<1>5. KeysMatch'       BY <1>1 DEF KeysMatch
<1>6. StreamMatches'   BY <1>1 DEF StreamMatches, Recording
<1>7. SocketsOwned'    BY <1>1 DEF SocketsOwned
<1>8. RtpSocketsOpen'  BY <1>1 DEF RtpSocketsOpen, RtpReads
<1> QED BY <1>2, <1>3, <1>4, <1>5, <1>6, <1>7, <1>8
-----------------------------------------------------------------------------
(* Teardown.                                                                *)

LEMMA StopBeginStep ==
  ASSUME ServerIInv, StopBegin
  PROVE  ServerIInv'
<1> USE DEF ServerIInv, server, life, link, sess, stream, ready, network
<1>1. /\ UNCHANGED <<srv, pc, then, client, cfd, conn, lfd, cli, session, keyConn, rtpFds, led,
                     open, world, waiting, handle, tpc>>
      /\ pc = "stop" /\ call' = At("stopping", Rtp)
  BY DEF StopBegin, StopAsk
<1>2. HandoffIInv'
  BY StopAskStep, ProducerAssumption DEF StopBegin
<1>3. ServerTypes'     BY <1>1 DEF ServerTypes
<1>4. CallsMatch'      BY <1>1, CallsApart DEF CallsMatch
<1>5. KeysMatch'       BY <1>1 DEF KeysMatch
<1>6. StreamMatches'   BY <1>1 DEF StreamMatches, InService
<1>7. SocketsOwned'    BY <1>1 DEF SocketsOwned
<1>8. RtpSocketsOpen'  BY <1>1 DEF RtpSocketsOpen, RtpReads
<1> QED BY <1>2, <1>3, <1>4, <1>5, <1>6, <1>7, <1>8

(* raop_rtp_stop returns: the task is gone. *)
LEMMA StopReturnsSteps ==
  ASSUME ServerIInv, StopIdle \/ StopEnd
  PROVE  ServerIInv'
<1> USE DEF ServerIInv, life, link, sess, stream, ready, network
<1>1. /\ UNCHANGED <<srv, then, client, cfd, conn, lfd, cli, session, keyConn, led, open, world,
                     waiting, handle, tpc>>
      /\ pc = "stop" /\ pc' = "reset" /\ call' = Idle
  BY DEF StopIdle, StopEnd, StopNotRunning, StopReturn
<1>2. tpc[Rtp] = "none"
  <2>1. CASE StopIdle
    BY <2>1, TaskAt, CallsApart DEF StopIdle, StopNotRunning
  <2>2. CASE StopEnd
    BY <2>2, ProducerAssumption DEF StopEnd, StopReturn, HandoffIInv, Handshake
  <2> QED BY <2>1, <2>2
<1>3. HandoffIInv'
  BY StopNotRunningStep, StopReturnStep, ProducerAssumption DEF StopIdle, StopEnd
<1>4. ServerTypes'     BY <1>1 DEF ServerTypes, Places
<1>5. CallsMatch'      BY <1>1, <1>2, CallsApart DEF CallsMatch
<1>6. KeysMatch'       BY <1>1 DEF KeysMatch
<1>7. StreamMatches'   BY <1>1 DEF StreamMatches, InService
<1>8. SocketsOwned'    BY <1>1 DEF SocketsOwned
<1>9. RtpSocketsOpen'  BY <1>1, <1>2 DEF RtpSocketsOpen, RtpReads
<1> QED BY <1>3, <1>4, <1>5, <1>6, <1>7, <1>8, <1>9

LEMMA ResetStep ==
  ASSUME ServerIInv, Reset
  PROVE  ServerIInv'
<1> USE DEF ServerIInv, life, link, sess, stream, ready, network
<1>1. /\ UNCHANGED <<handoffVars, srv, client, cfd, conn, lfd, cli, rtpFds, world, waiting>>
      /\ pc = "reset" /\ pc' = then /\ then' = "loop" /\ led' = "IDLE"
      /\ session' = [state |-> "IDLE", have_key |-> FALSE, fmtp |-> FALSE, fds |-> {}]
      /\ open' = open \ session.fds
  BY DEF Reset, NoSession
<1>2. UNCHANGED <<call, handle, tpc>>  BY <1>1 DEF handoffVars
<1>3. tpc[Rtp] = "none" /\ ~handle[Rtp]  BY <1>1, TaskAt DEF CallsMatch
<1>4. then \in {"loop", "client", "drop", "end"}  BY DEF ServerTypes
<1>5. HandoffIInv'     BY <1>1, HandoffStutter
<1>6. ServerTypes'     BY <1>1 DEF ServerTypes, Places, InService
<1>7. CallsMatch'      BY <1>1, <1>2, <1>3, <1>4 DEF CallsMatch
<1>8. KeysMatch'       BY <1>1, <1>4 DEF KeysMatch
<1>9. StreamMatches'   BY <1>1, <1>2, <1>3 DEF StreamMatches, Recording
<1>10. SocketsOwned'   BY <1>1, <1>4 DEF SocketsOwned
<1>11. RtpSocketsOpen' BY <1>1, <1>2, <1>3 DEF RtpSocketsOpen, RtpReads
<1> QED BY <1>5, <1>6, <1>7, <1>8, <1>9, <1>10, <1>11

LEMMA EndStep ==
  ASSUME ServerIInv, End
  PROVE  ServerIInv'
<1> USE DEF ServerIInv, link, sess, stream, ready, network
<1>1. /\ UNCHANGED <<handoffVars, then, client, cfd, conn, lfd, cli, session, keyConn, rtpFds,
                     led, open, world, waiting>>
      /\ pc = "end" /\ pc' = "down" /\ srv' = "down"
  BY DEF End
<1>2. UNCHANGED <<call, handle, tpc>>  BY <1>1 DEF handoffVars
<1>3. HandoffIInv'     BY <1>1, HandoffStutter
<1>4. ServerTypes'     BY <1>1 DEF ServerTypes, Places
<1>5. CallsMatch'      BY <1>1, <1>2 DEF CallsMatch
<1>6. KeysMatch'       BY <1>1 DEF KeysMatch
<1>7. StreamMatches'   BY <1>1 DEF StreamMatches, InService
<1>8. SocketsOwned'    BY <1>1 DEF SocketsOwned
<1>9. RtpSocketsOpen'  BY <1>1, <1>2 DEF RtpSocketsOpen, RtpReads
<1> QED BY <1>3, <1>4, <1>5, <1>6, <1>7, <1>8, <1>9

(* The RTP task runs beside the server, and changes nothing that is its.     *)
LEMMA RtpTaskStep ==
  ASSUME ServerIInv, RtpTask
  PROVE  ServerIInv'
<1> USE DEF ServerIInv, server, life, link, sess, stream, ready, network
<1>1. UNCHANGED <<srv, pc, then, client, cfd, conn, lfd, cli, session, keyConn, rtpFds, led,
                  open, world, waiting>>
  BY DEF RtpTask
<1>2. /\ HandoffIInv' /\ call' = call /\ tpc[Rtp] # "none" /\ (RtpReads' => RtpReads)
      /\ pc \in InService => handle' = handle
      /\ pc # "start"
  BY TaskMoves, TaskAt DEF RtpTask, CallsMatch, Starting, InService
<1>3. ServerTypes'     BY <1>1 DEF ServerTypes
<1>4. CallsMatch'      BY <1>1, <1>2 DEF CallsMatch
<1>5. KeysMatch'       BY <1>1 DEF KeysMatch
<1>6. StreamMatches'   BY <1>1, <1>2 DEF StreamMatches, Recording
<1>7. SocketsOwned'    BY <1>1 DEF SocketsOwned
<1>8. RtpSocketsOpen'  BY <1>1, <1>2 DEF RtpSocketsOpen
<1> QED BY <1>2, <1>3, <1>4, <1>5, <1>6, <1>7, <1>8
-----------------------------------------------------------------------------
(***************************************************************************)
(* The inductive invariant: the session, its key, the descriptors, the LED   *)
(* and the RTP task agree with the place in the code where the server is     *)
(* (raop.c:65-85, 255-300, 424-520).                                        *)
(***************************************************************************)
THEOREM ServerInvariant == Spec => []ServerIInv
<1>1. Init => ServerIInv
  BY InitHolds
<1>2. ServerIInv /\ [Next]_vars => ServerIInv'
  <2> SUFFICES ASSUME ServerIInv, [Next]_vars PROVE ServerIInv'
    OBVIOUS
  <2>1. CASE ServerTask
    BY <2>1, StartSteps, BootStep, LoopSteps, TeardownSteps, AnnounceStep, SetupSteps,
       DropClientStep, RecordFailsStep, RecordStartsStep, StartArmStep, StartSpawnStep,
       StartSpawnFailsStep, StopBeginStep, StopReturnsSteps, ResetStep, EndStep
    DEF ServerTask, Onwards
  <2>2. CASE UNCHANGED vars
    <3>1. UNCHANGED <<handoffVars, srv, pc, then, cli, client, cfd, conn, lfd, sess, stream, open,
                      world, waiting>>
      BY <2>2 DEF vars, server, life, ready, link, network
    <3> QED BY <3>1, Bystander DEF ServerIInv, ServerTypes, KeysMatch
  <2> QED BY <2>1, <2>2, StartSteps, SenderSteps, RtpTaskStep DEF Next
<1> QED BY <1>1, <1>2, PTL DEF Spec

(* The RTP task's three sockets stay open, and its own, for as long as it    *)
(* reads them (raop.c:72-74).                                               *)
THEOREM ServerRtpSockets == Spec => []RtpSocketsOpen
<1>1. ServerIInv => RtpSocketsOpen  BY DEF ServerIInv
<1> QED BY <1>1, ServerInvariant, PTL

(* A stream has its sender, the LED shows it, and RECORDING means that it    *)
(* runs: see StreamHasSender (raop.c:65-85, 255-300).                       *)
THEOREM ServerStream == Spec => []StreamHasSender
<1>1. ServerIInv => StreamHasSender
  BY DEF ServerIInv, StreamMatches, StreamHasSender
<1> QED BY <1>1, ServerInvariant, PTL

(* A key is of the connection that announced it (raop.c:459, 435, 502, 511). *)
THEOREM ServerKey == Spec => []KeyIsOfThisConnection
<1>1. ServerIInv => KeyIsOfThisConnection
  BY DEF ServerIInv, KeysMatch, KeyIsOfThisConnection, InService
<1> QED BY <1>1, ServerInvariant, PTL
-----------------------------------------------------------------------------
(* Sequences with at most one SETUP. *)

LEMMA TailSetup ==
  ASSUME NEW q \in Seq(Request), q # <<>>
  PROVE  /\ Tail(q) \in Seq(Request)
         /\ OneSetup(q) => OneSetup(Tail(q))
         /\ SetupIn(Tail(q)) => SetupIn(q)
         /\ OneSetup(q) /\ Head(q) = "SETUP" => ~SetupIn(Tail(q))
<1>1. /\ Tail(q) \in Seq(Request) /\ Len(q) \in Nat \ {0}
      /\ DOMAIN q = 1 .. Len(q) /\ DOMAIN Tail(q) = 1 .. Len(q) - 1
      /\ \A i \in DOMAIN Tail(q) : i + 1 \in DOMAIN q /\ Tail(q)[i] = q[i + 1]
      /\ 1 \in DOMAIN q /\ Head(q) = q[1]
  OBVIOUS
<1>2. OneSetup(q) => OneSetup(Tail(q))
  <2> SUFFICES ASSUME OneSetup(q), NEW i \in DOMAIN Tail(q), NEW j \in DOMAIN Tail(q),
                      Tail(q)[i] = "SETUP", Tail(q)[j] = "SETUP"
               PROVE  i = j
    BY DEF OneSetup
  <2>1. i + 1 = j + 1  BY <1>1 DEF OneSetup
  <2> QED BY <1>1, <2>1
<1>3. SetupIn(Tail(q)) => SetupIn(q)
  BY <1>1 DEF SetupIn
<1>4. OneSetup(q) /\ Head(q) = "SETUP" => ~SetupIn(Tail(q))
  <2> SUFFICES ASSUME OneSetup(q), q[1] = "SETUP", NEW i \in DOMAIN Tail(q),
                      q[i + 1] = "SETUP"
               PROVE  FALSE
    BY <1>1 DEF SetupIn
  <2>1. i + 1 = 1  BY <1>1 DEF OneSetup
  <2> QED BY <1>1, <2>1
<1> QED BY <1>1, <1>2, <1>3, <1>4

LEMMA AppendSetup ==
  ASSUME NEW q \in Seq(Request), NEW r \in Request
  PROVE  /\ Append(q, r) \in Seq(Request)
         /\ OneSetup(q) /\ (r = "SETUP" => ~SetupIn(q)) => OneSetup(Append(q, r))
         /\ SetupIn(Append(q, r)) => SetupIn(q) \/ r = "SETUP"
<1> DEFINE a == Append(q, r)
<1>1. /\ a \in Seq(Request) /\ Len(q) \in Nat
      /\ DOMAIN q = 1 .. Len(q) /\ DOMAIN a = 1 .. Len(q) + 1
      /\ \A i \in DOMAIN q : a[i] = q[i]
      /\ a[Len(q) + 1] = r
      /\ \A i \in DOMAIN a : i \in DOMAIN q \/ i = Len(q) + 1
  OBVIOUS
<1> HIDE DEF a
<1>2. OneSetup(q) /\ (r = "SETUP" => ~SetupIn(q)) => OneSetup(a)
  <2> SUFFICES ASSUME OneSetup(q), r = "SETUP" => ~SetupIn(q),
                      NEW i \in DOMAIN a, NEW j \in DOMAIN a,
                      a[i] = "SETUP", a[j] = "SETUP"
               PROVE  i = j
    BY DEF OneSetup
  <2>1. CASE i \in DOMAIN q /\ j \in DOMAIN q
    BY <1>1, <2>1 DEF OneSetup
  <2>2. CASE i = Len(q) + 1 \/ j = Len(q) + 1
    BY <1>1, <2>2 DEF SetupIn
  <2> QED BY <1>1, <2>1, <2>2
<1>3. SetupIn(a) => SetupIn(q) \/ r = "SETUP"
  BY <1>1 DEF SetupIn
<1> QED BY <1>1, <1>2, <1>3 DEF a

LEMMA CutSetup ==
  ASSUME NEW q \in Seq(Request), NEW n \in 1 .. Len(q)
  PROVE  LET a == SubSeq(q, 1, n)
             b == SubSeq(q, n + 1, Len(q))
         IN  /\ a \in Seq(Request) /\ b \in Seq(Request)
             /\ SetupIn(a) \/ SetupIn(b) => SetupIn(q)
             /\ OneSetup(q) => OneSetup(a) /\ OneSetup(b) /\ ~(SetupIn(a) /\ SetupIn(b))
<1> DEFINE a == SubSeq(q, 1, n)
           b == SubSeq(q, n + 1, Len(q))
<1>1. /\ Len(q) \in Nat /\ DOMAIN q = 1 .. Len(q) /\ n \in Nat /\ n <= Len(q)
      /\ a \in Seq(Request) /\ b \in Seq(Request)
  OBVIOUS
<1>2. /\ DOMAIN a = 1 .. n
      /\ \A i \in DOMAIN a : i \in DOMAIN q /\ a[i] = q[i]
  OBVIOUS
<1>3. /\ DOMAIN b = 1 .. Len(q) - n
      /\ \A i \in DOMAIN b : i + n \in DOMAIN q /\ b[i] = q[i + n]
  OBVIOUS
<1> HIDE DEF a, b
<1>4. SetupIn(a) \/ SetupIn(b) => SetupIn(q)
  BY <1>2, <1>3 DEF SetupIn
<1>5. ASSUME OneSetup(q)
      PROVE  OneSetup(a) /\ OneSetup(b) /\ ~(SetupIn(a) /\ SetupIn(b))
  <2>1. OneSetup(a)
    BY <1>2, <1>5 DEF OneSetup
  <2>2. ASSUME NEW i \in DOMAIN b, NEW j \in DOMAIN b, b[i] = "SETUP", b[j] = "SETUP"
        PROVE  i = j
    <3>1. i + n = j + n  BY <1>3, <1>5, <2>2 DEF OneSetup
    <3> QED BY <1>1, <1>3, <3>1
  <2>3. ASSUME NEW i \in DOMAIN a, NEW j \in DOMAIN b, a[i] = "SETUP", b[j] = "SETUP"
        PROVE  FALSE
    <3>1. i = j + n  BY <1>2, <1>3, <1>5, <2>3 DEF OneSetup
    <3> QED BY <1>1, <1>2, <1>3, <3>1
  <2> QED BY <2>1, <2>2, <2>3 DEF OneSetup, SetupIn
<1> QED BY <1>1, <1>4, <1>5 DEF a, b
-----------------------------------------------------------------------------
(* NoSocketLeak.  A step that leaves requests, connection and descriptors as *)
(* they are.                                                                *)
LEMMA QuietStep ==
  ASSUME OrderlyIInv,
         UNCHANGED <<rx, inbox, said, client, cfd, lfd, open>>,
         session'.fds = session.fds, world'.orderly = world.orderly,
         pc' = "start" => rx # <<>>,
         Reading' /\ cli' => inbox # <<>>,
         pc' \in Unreset \/ pc \notin Unreset \/ session.fds = {},
         pc' \in {"drop", "end", "boot"} => pc = pc' \/ session.fds = {},
         0 \in session.fds => pc' = "down",
         pc' \in {"down", "boot", "end"} \/ (pc' \in Unreset /\ then' = "end") =>
           client = NoSender /\ lfd = NoFd
  PROVE  OrderlyIInv'
BY DEF OrderlyIInv, NobodyLeft, OneSetupToCome, OneSetup, SetupIn, AllOwned, Unreset

LEMMA QuietSteps ==
  ASSUME ServerIInv, OrderlyIInv,
         \/ \E s \in world.senders : Connect(s)
         \/ Tick \/ ServerStop \/ BootFails \/ Loop \/ SelectFails \/ SelectReady
         \/ SelectTimeout \/ NoAccept \/ RefuseBusy \/ NoData \/ Dispatched
         \/ RecordStarts \/ StartArm \/ StopIdle \/ StopBegin \/ StopEnd
         \/ End \/ RtpTask \/ UNCHANGED vars
  PROVE  OrderlyIInv'
<1> USE DEF server, life, ready, link, sess, stream, network, Unreset, Reading
<1>0. /\ NobodyLeft /\ OrderlyIInv /\ world \in World
  BY DEF OrderlyIInv, ServerIInv, ServerTypes
<1>1. ASSUME NEW s \in world.senders, Connect(s)
      PROVE  OrderlyIInv'
  <2>1. world'.orderly = world.orderly  BY <1>0, <1>1 DEF Connect, World
  <2> QED BY <1>0, <1>1, <2>1, QuietStep DEF Connect, NobodyLeft, OrderlyIInv
<1>2. CASE Tick \/ ServerStop \/ StartArm \/ StopBegin \/ RtpTask \/ UNCHANGED vars
  BY <1>0, <1>2, QuietStep
  DEF Tick, ServerStop, StartArm, StopBegin, RtpTask, vars, NobodyLeft, OrderlyIInv
<1>3. CASE Loop \/ SelectFails \/ SelectTimeout \/ NoData \/ Dispatched
  BY <1>0, <1>3, QuietStep
  DEF Loop, SelectFails, SelectTimeout, NoData, Dispatched, NobodyLeft
<1>4. CASE SelectReady
  BY <1>0, <1>4, QuietStep DEF SelectReady, NobodyLeft, HasInput
<1>5. CASE NoAccept \/ RefuseBusy
  BY <1>0, <1>5, QuietStep DEF NoAccept, RefuseBusy, NobodyLeft, OrderlyIInv
<1>6. CASE RecordStarts
  BY <1>0, <1>6, QuietStep DEF RecordStarts, Requested, NobodyLeft, OrderlyIInv
<1>7. CASE StopIdle \/ StopEnd
  BY <1>0, <1>7, QuietStep DEF StopIdle, StopEnd, NobodyLeft, OrderlyIInv
<1>8. CASE End \/ BootFails
  BY <1>0, <1>8, QuietStep DEF End, BootFails, NobodyLeft
<1> QED BY <1>1, <1>2, <1>3, <1>4, <1>5, <1>6, <1>7, <1>8

(* A request answered without a change to the sockets.                      *)
LEMMA AnswerSteps ==
  ASSUME ServerIInv, OrderlyIInv,
         \/ Other \/ Announce \/ RecordAgain \/ RecordRefused \/ RecordFails
         \/ StartSpawn \/ StartSpawnFails
  PROVE  OrderlyIInv'
<1> USE DEF life, ready, link, sess, stream, network
<1>1. /\ UNCHANGED <<inbox, said, client, cfd, lfd, open, world>>
      /\ rx' = Tail(rx) /\ rx # <<>> /\ rx \in Seq(Request)
      /\ pc \in {"dispatch", "start"} /\ pc' = "dispatch"
      /\ client # NoSender
  BY DEF ServerIInv, KeysMatch, OrderlyIInv, Other, Announce, RecordAgain, RecordRefused,
         RecordFails, StartSpawn, StartSpawnFails, Requested, Answer
<1>2. session'.fds = session.fds
  BY DEF ServerIInv, ServerTypes, Other, Announce, RecordAgain, RecordRefused,
         RecordFails, StartSpawn, StartSpawnFails
<1>3. /\ rx' \in Seq(Request) /\ (OneSetup(rx) => OneSetup(rx'))
      /\ SetupIn(rx') => SetupIn(rx)
  BY <1>1, TailSetup
<1>4. (inbox \in Seq(Request) /\ said \in Nat /\ NobodyLeft)'
  BY <1>1, <1>2 DEF OrderlyIInv, NobodyLeft, Unreset
<1>5. AllOwned' <=> AllOwned
  BY <1>1, <1>2 DEF AllOwned
<1>6. OneSetupToCome => OneSetupToCome'
  BY <1>1, <1>2, <1>3 DEF OneSetupToCome, OneSetup, SetupIn, Unreset
<1> QED BY <1>1, <1>3, <1>4, <1>5, <1>6 DEF OrderlyIInv, Reading

(* The end of a connection. *)
LEMMA ClosingSteps ==
  ASSUME ServerIInv, OrderlyIInv,
         SelectReclaim \/ RecvClosing \/ DropClient \/ Exit \/ TeardownRequest
  PROVE  OrderlyIInv'
<1> USE DEF life, ready, link, sess, stream, network
<1>0. /\ SocketsOwned /\ {lfd, cfd} \subseteq open \cup {NoFd}
      /\ {lfd, cfd} \cap session.fds = {} /\ (lfd = cfd => lfd = NoFd)
      /\ NoFd \notin open /\ session.fds \subseteq open
  BY LowestAreFree DEF ServerIInv, SocketsOwned
<1>1. CASE SelectReclaim \/ RecvClosing \/ DropClient
  <2>1. /\ client' = NoSender /\ cfd' = NoFd /\ rx' = <<>> /\ open' = open \ {cfd}
        /\ inbox' = <<>> /\ said' = 0 /\ UNCHANGED <<lfd, session, world>>
        /\ \/ pc' = "stop" /\ then' = "loop" /\ pc \in InService
           \/ pc' = "loop" /\ pc = "drop"
    BY <1>1 DEF SelectReclaim, RecvClosing, DropClient, CloseClient, TeardownThen, InService
  <2>2. rx' \in Seq(Request) /\ inbox' \in Seq(Request) /\ said' \in Nat
    BY <2>1
  <2>3. NobodyLeft'
    BY <2>1 DEF OrderlyIInv, NobodyLeft, NoFd, InService, Unreset
  <2>4. OneSetupToCome => OneSetupToCome'
    BY <2>1 DEF OneSetupToCome, OneSetup, SetupIn, Unreset
  <2>5. AllOwned => AllOwned'
    BY <1>0, <2>1 DEF AllOwned
  <2> QED BY <2>1, <2>2, <2>3, <2>4, <2>5 DEF OrderlyIInv, Reading
<1>2. CASE Exit
  <2>1. /\ client' = NoSender /\ cfd' = NoFd /\ lfd' = NoFd /\ rx' = <<>>
        /\ open' = open \ {cfd, lfd} /\ inbox' = <<>> /\ said' = 0
        /\ UNCHANGED <<session, world>> /\ pc' = "stop" /\ then' = "end" /\ pc = "exit"
    BY <1>2 DEF Exit, TeardownThen
  <2>2. rx' \in Seq(Request) /\ inbox' \in Seq(Request) /\ said' \in Nat
    BY <2>1
  <2>3. NobodyLeft'
    BY <2>1 DEF OrderlyIInv, NobodyLeft, NoFd
  <2>4. OneSetupToCome'
    BY <2>1 DEF OneSetupToCome, OneSetup, SetupIn, Unreset
  <2>5. AllOwned => AllOwned'
    BY <1>0, <2>1 DEF AllOwned
  <2> QED BY <2>1, <2>2, <2>3, <2>4, <2>5 DEF OrderlyIInv, Reading
<1>3. CASE TeardownRequest
  BY <1>3, QuietStep
  DEF TeardownRequest, TeardownThen, Requested, OrderlyIInv, NobodyLeft, Unreset, Reading
<1> QED BY <1>1, <1>2, <1>3

(* Requests on their way. *)
LEMMA RequestSteps ==
  ASSUME ServerIInv, OrderlyIInv,
         (\E r \in world.requests : SendRequest(r)) \/ HangUp \/ Recv \/ RecvOversized
  PROVE  OrderlyIInv'
<1> USE DEF server, life, ready, link, sess, stream, network
<1>0. inbox \in Seq(Request) /\ rx \in Seq(Request) /\ said \in Nat /\ world \in World
  BY DEF OrderlyIInv, ServerIInv, ServerTypes
<1>1. ASSUME NEW r \in world.requests, SendRequest(r)
      PROVE  OrderlyIInv'
  <2>1. /\ UNCHANGED <<rx, client, cfd, lfd, session, open, pc, then>>
        /\ client # NoSender /\ inbox' = Append(inbox, r)
        /\ r \in Request
    BY <1>0, <1>1 DEF SendRequest, Talking, World, Request
  <2>2. world'.orderly = world.orderly
    BY <1>0, <1>1 DEF SendRequest, World
  <2>3. Turn(r) \in Nat /\ (r = "SETUP" => Turn(r) = 2)
    BY DEF Turn, Announces
  <2>4. said' \in Nat
    BY <1>0, <1>1, <2>3 DEF SendRequest
  <2>5. /\ inbox' \in Seq(Request)
        /\ OneSetup(inbox) /\ (r = "SETUP" => ~SetupIn(inbox)) => OneSetup(inbox')
        /\ SetupIn(inbox') => SetupIn(inbox) \/ r = "SETUP"
    BY <1>0, <2>1, AppendSetup
  <2>6. NobodyLeft'
    BY <2>1 DEF OrderlyIInv, NobodyLeft
  <2>7. AllOwned' <=> AllOwned
    BY <2>1 DEF AllOwned
  <2>8. (pc = "start" => rx # <<>>)' /\ (Reading /\ cli => inbox # <<>>)'
    BY <1>0, <1>1, <2>1 DEF SendRequest, OrderlyIInv, Reading
  <2>9. ASSUME world.orderly, OneSetupToCome
        PROVE  OneSetupToCome'
    <3>1. said' >= said /\ (r = "SETUP" => said = 1 /\ said' = 2)
      BY <1>0, <1>1, <2>3, <2>9 DEF SendRequest, InTurn
    <3>2. OneSetup(rx') /\ (SetupIn(rx') <=> SetupIn(rx))
      BY <2>1, <2>9 DEF OneSetupToCome, OneSetup, SetupIn
    <3>3. r = "SETUP" => ~SetupIn(rx) /\ ~SetupIn(inbox)
      BY <2>9, <3>1 DEF OneSetupToCome
    <3> QED BY <1>0, <2>1, <2>4, <2>5, <2>9, <3>1, <3>2, <3>3 DEF OneSetupToCome
  <2> QED BY <1>0, <2>1, <2>2, <2>4, <2>5, <2>6, <2>7, <2>8, <2>9 DEF OrderlyIInv
<1>2. CASE HangUp
  <2>1. /\ UNCHANGED <<rx, said, client, cfd, lfd, session, open, pc, then, world>>
        /\ client # NoSender /\ inbox' = Append(inbox, "EOF")
        /\ "EOF" \in Request
    BY <1>2 DEF HangUp, Talking, Request
  <2>2. /\ inbox' \in Seq(Request) /\ (OneSetup(inbox) => OneSetup(inbox'))
        /\ SetupIn(inbox') => SetupIn(inbox)
    BY <1>0, <2>1, AppendSetup
  <2>3. NobodyLeft'                          BY <2>1 DEF OrderlyIInv, NobodyLeft
  <2>4. AllOwned' <=> AllOwned               BY <2>1 DEF AllOwned
  <2>5. OneSetupToCome => OneSetupToCome'
    BY <2>1, <2>2 DEF OneSetupToCome, OneSetup, SetupIn
  <2>6. (pc = "start" => rx # <<>>)' /\ (Reading /\ cli => inbox # <<>>)'
    BY <1>0, <1>2, <2>1 DEF HangUp, OrderlyIInv, Reading
  <2> QED BY <1>0, <2>1, <2>2, <2>3, <2>4, <2>5, <2>6 DEF OrderlyIInv
<1>3. CASE Recv
  <2>1. /\ UNCHANGED <<said, client, cfd, lfd, session, open, world>>
        /\ pc = "client" /\ pc' = "dispatch" /\ cli
    BY <1>3 DEF Recv
  <2>2. client # NoSender  BY <2>1 DEF ServerIInv, KeysMatch
  <2>3. PICK n \in 1 .. Len(inbox) : /\ rx' = SubSeq(inbox, 1, n)
                                     /\ inbox' = SubSeq(inbox, n + 1, Len(inbox))
    BY <1>3 DEF Recv
  <2>4. /\ inbox' \in Seq(Request) /\ rx' \in Seq(Request)
        /\ SetupIn(rx') \/ SetupIn(inbox') => SetupIn(inbox)
        /\ OneSetup(inbox) => OneSetup(rx') /\ OneSetup(inbox')
                              /\ ~(SetupIn(rx') /\ SetupIn(inbox'))
    BY <1>0, <2>3, CutSetup
  <2>5. NobodyLeft'             BY <2>1, <2>2 DEF OrderlyIInv, NobodyLeft, Unreset
  <2>6. AllOwned' <=> AllOwned  BY <2>1 DEF AllOwned
  <2>7. OneSetupToCome => OneSetupToCome'
    BY <2>1, <2>4 DEF OneSetupToCome, Unreset
  <2> QED BY <1>0, <2>1, <2>4, <2>5, <2>6, <2>7 DEF OrderlyIInv, Reading
<1>4. CASE RecvOversized
  <2>1. /\ UNCHANGED <<rx, said, client, cfd, lfd, session, open, world>>
        /\ pc = "client" /\ pc' = "loop" /\ cli /\ inbox' = Tail(inbox)
    BY <1>4 DEF RecvOversized
  <2>2. client # NoSender /\ inbox # <<>>
    BY <1>4, <2>1 DEF ServerIInv, KeysMatch, OrderlyIInv, Reading
  <2>3. /\ inbox' \in Seq(Request) /\ (OneSetup(inbox) => OneSetup(inbox'))
        /\ SetupIn(inbox') => SetupIn(inbox)
    BY <1>0, <2>1, <2>2, TailSetup
  <2>4. NobodyLeft'             BY <2>1, <2>2 DEF OrderlyIInv, NobodyLeft, Unreset
  <2>5. AllOwned' <=> AllOwned  BY <2>1 DEF AllOwned
  <2>6. OneSetupToCome => OneSetupToCome'
    BY <2>1, <2>3 DEF OneSetupToCome, OneSetup, SetupIn, Unreset
  <2> QED BY <1>0, <2>1, <2>3, <2>4, <2>5, <2>6 DEF OrderlyIInv, Reading
<1> QED BY <1>1, <1>2, <1>3, <1>4

(* A SETUP of an orderly sender finds no sockets that it would lose. *)
LEMMA SetupKeeps ==
  ASSUME ServerIInv, OrderlyIInv, Setup \/ SetupFails
  PROVE  OrderlyIInv'
<1> USE DEF life, ready, link, sess, stream, network
<1>1. /\ UNCHANGED <<inbox, said, client, cfd, lfd, world>>
      /\ rx' = Tail(rx) /\ rx # <<>> /\ Head(rx) = "SETUP" /\ rx \in Seq(Request)
      /\ pc = "dispatch" /\ pc' = "dispatch" /\ client # NoSender
  BY DEF ServerIInv, KeysMatch, OrderlyIInv, Setup, SetupFails, Requested, Answer
<1>2. \/ session'.fds = {} /\ open' = open
      \/ /\ session'.fds \subseteq Nat /\ session'.fds \cap open = {}
         /\ NoFd \notin session'.fds /\ 0 \notin session'.fds
         /\ open' = open \cup session'.fds
  <2>1. CASE SetupFails
    BY <2>1 DEF SetupFails, ServerIInv, ServerTypes
  <2>2. CASE Setup
    <3>1. session'.fds = Lowest(3) /\ open' = open \cup Lowest(3)
      BY <2>2 DEF Setup, ServerIInv, ServerTypes
    <3>2. 0 \notin Lowest(3)
      BY DEF Lowest, Free, Fd, ServerIInv, ServerTypes, World
    <3> QED BY <3>1, <3>2, LowestAreFree DEF ServerIInv
  <2> QED BY <2>1, <2>2
<1>3. /\ rx' \in Seq(Request) /\ (OneSetup(rx) => OneSetup(rx') /\ ~SetupIn(rx'))
  BY <1>1, TailSetup
<1>4. NobodyLeft'
  BY <1>1, <1>2 DEF OrderlyIInv, NobodyLeft, Unreset
<1>5. SetupIn(rx)
  BY <1>1 DEF SetupIn
<1>6. ASSUME OneSetupToCome PROVE OneSetupToCome' /\ session.fds = {}
  <2>1. /\ session.fds = {} /\ said >= 2 /\ ~SetupIn(inbox) /\ ~SetupIn(rx') /\ OneSetup(rx')
    BY <1>1, <1>3, <1>5, <1>6 DEF OneSetupToCome, Unreset
  <2>2. said \in Nat  BY DEF OrderlyIInv
  <2> QED BY <1>1, <1>6, <2>1, <2>2 DEF OneSetupToCome, OneSetup, SetupIn
<1>7. ASSUME AllOwned, session.fds = {} PROVE AllOwned'
  <2>1. CASE session'.fds = {} /\ open' = open
    BY <1>1, <1>7, <2>1 DEF AllOwned
  <2>2. CASE session'.fds \subseteq Nat /\ NoFd \notin session'.fds /\ 0 \notin session'.fds
             /\ open' = open \cup session'.fds
    BY <1>1, <1>7, <2>2 DEF AllOwned
  <2> QED BY <1>2, <2>1, <2>2
<1> QED BY <1>1, <1>3, <1>4, <1>6, <1>7 DEF OrderlyIInv, Reading

LEMMA ResetKeeps ==
  ASSUME ServerIInv, OrderlyIInv, Reset \/ ServerStart \/ ServerStartFails
  PROVE  OrderlyIInv'
<1> USE DEF life, ready, link, sess, stream, network
<1>1. /\ UNCHANGED <<rx, inbox, said, client, cfd, lfd, cli>>
      /\ session'.fds = {} /\ open' = open \ session.fds
      /\ \/ /\ pc = "reset" /\ pc' = then /\ then' = "loop"
            /\ then \in {"loop", "client", "drop", "end"}
         \/ pc = "down" /\ pc' = "boot" /\ UNCHANGED then
         \/ pc = "down" /\ pc' = "down" /\ UNCHANGED then
  BY DEF Reset, ServerStart, ServerStartFails, NoSession, ServerIInv, ServerTypes, CallsMatch
<1>2. world'.orderly = world.orderly
  BY DEF Reset, ServerStart, ServerStartFails, World, ServerIInv, ServerTypes
<1>3. NobodyLeft'
  BY <1>1 DEF OrderlyIInv, NobodyLeft, Unreset
<1>4. OneSetupToCome => OneSetupToCome'
  BY <1>1 DEF OneSetupToCome, OneSetup, SetupIn
<1>5. AllOwned => AllOwned'
  BY <1>1 DEF AllOwned, ServerIInv, SocketsOwned
<1> QED BY <1>1, <1>2, <1>3, <1>4, <1>5 DEF OrderlyIInv, Reading

(* The server's own sockets: the listening one, and that of a new sender. *)
LEMMA OwnSocketSteps ==
  ASSUME ServerIInv, OrderlyIInv, Boot \/ Accept
  PROVE  OrderlyIInv'
<1> USE DEF life, ready, link, sess, stream, network
<1>0. 0 \notin Lowest(1) /\ NoFd \notin Lowest(1)
  BY LowestAreFree DEF Lowest, Free, Fd, ServerIInv, ServerTypes, World
<1>1. CASE Boot
  <2>1. /\ UNCHANGED <<rx, inbox, said, client, cfd, cli, session, world, then>>
        /\ lfd' # 0 /\ lfd' # NoFd /\ open' = open \cup {lfd'}
        /\ pc = "boot" /\ pc' = "loop"
    BY <1>0, <1>1 DEF Boot
  <2>2. lfd = NoFd /\ (session.fds = {} \/ ~world.orderly)
    BY <2>1 DEF OrderlyIInv, NobodyLeft, OneSetupToCome
  <2>3. NobodyLeft'
    BY <2>1 DEF OrderlyIInv, NobodyLeft, Unreset
  <2>4. OneSetupToCome => OneSetupToCome'
    BY <2>1 DEF OneSetupToCome, OneSetup, SetupIn
  <2>5. AllOwned /\ world.orderly => AllOwned'
    BY <2>1, <2>2 DEF AllOwned
  <2> QED BY <2>1, <2>3, <2>4, <2>5 DEF OrderlyIInv, Reading
<1>2. CASE Accept
  <2>1. /\ UNCHANGED <<inbox, said, lfd, cli, session, world>> /\ rx' = <<>>
        /\ client = NoSender /\ pc = "accept" /\ pc' = "stop" /\ then' = "client"
        /\ cfd' # 0 /\ cfd' # NoFd /\ open' = open \cup {cfd'}
    BY <1>0, <1>2 DEF Accept, TeardownThen
  <2>2. cfd = NoFd /\ inbox = <<>> /\ rx = <<>>
    BY <2>1 DEF OrderlyIInv, NobodyLeft
  <2>3. client' # NoSender
    BY <1>2, ServerAssumption DEF Accept, ServerIInv, ServerTypes
  <2>4. ~cli
    BY <2>1 DEF ServerIInv, KeysMatch
  <2>5. NobodyLeft'
    BY <2>1, <2>3 DEF OrderlyIInv, NobodyLeft, Unreset
  <2>6. OneSetupToCome => OneSetupToCome'
    BY <2>1, <2>2 DEF OneSetupToCome, OneSetup, SetupIn, Unreset
  <2>7. AllOwned => AllOwned'
    BY <2>1, <2>2 DEF AllOwned
  <2> QED BY <2>1, <2>2, <2>4, <2>5, <2>6, <2>7 DEF OrderlyIInv, Reading
<1> QED BY <1>1, <1>2

(***************************************************************************)
(* What is left of a sender, and what an orderly one has still to be read     *)
(* (raop.c:65-85, 190-240, 424-520).                                        *)
(***************************************************************************)
THEOREM ServerOrderly == Spec => []OrderlyIInv
<1>1. Init => OrderlyIInv
  <2> SUFFICES ASSUME Init PROVE OrderlyIInv
    OBVIOUS
  <2>1. /\ pc = "down" /\ then = "loop" /\ lfd = NoFd /\ cfd = NoFd /\ client = NoSender
        /\ rx = <<>> /\ inbox = <<>> /\ said = 0 /\ session.fds = {0} /\ open = {0}
    BY DEF Init, ZeroSession, NoSession
  <2> QED BY <2>1 DEF OrderlyIInv, NobodyLeft, OneSetupToCome, OneSetup, SetupIn, AllOwned,
                      NoFd, Unreset, Reading
<1>2. ServerIInv /\ OrderlyIInv /\ [Next]_vars => OrderlyIInv'
  BY QuietSteps, AnswerSteps, ClosingSteps, RequestSteps, SetupKeeps, ResetKeeps,
     OwnSocketSteps
  DEF Next, ServerTask
<1> QED BY <1>1, <1>2, ServerInvariant, PTL DEF Spec

(***************************************************************************)
(* With orderly senders no socket is lost: every descriptor open between     *)
(* two rounds of the loop has its owner, through any number of connections,  *)
(* failures and restarts of the server (rtsp_session.h:37, raop.c:190-240).  *)
(***************************************************************************)
THEOREM ServerKeepsSockets == Spec => []NoSocketLeak
<1>1. OrderlyIInv => NoSocketLeak
  BY DEF OrderlyIInv, NobodyLeft, AllOwned, NoSocketLeak
<1> QED BY <1>1, ServerOrderly, PTL
-----------------------------------------------------------------------------
(* OrderlyNotReclaimed.  Requests in a sender's order.                       *)

LEMMA Turns ==
  /\ \A r : Turn(r) \in 0 .. 4
  /\ \A r \in Announces : Turn(r) = 1
  /\ Turn("SETUP") = 2 /\ Turn("RECORD") = 3
  /\ \A r : Turn(r) # 4 /\ Turn(r) # 0 => Turn(r) <= 3
BY DEF Turn, Announces

LEMMA TailInOrder ==
  ASSUME NEW p \in Seq(Request), NEW q \in Seq(Request), InOrder(p, q), p # <<>>
  PROVE  /\ InOrder(Tail(p), q)
         /\ Sent(p) => Sent(Tail(p))
         /\ Harmless(p) => Harmless(Tail(p)) /\ Turn(Head(p)) \in {0, 4}
         /\ Head(p) = "RECORD" => Harmless(Tail(p)) /\ Harmless(q)
         /\ Sent(p) /\ Head(p) = "RECORD" => 3 <= said
<1> DEFINE t == Tail(p)
<1>1. /\ Len(p) \in Nat \ {0} /\ DOMAIN p = 1 .. Len(p) /\ DOMAIN t = 1 .. Len(p) - 1
      /\ \A i \in DOMAIN t : i + 1 \in DOMAIN p /\ t[i] = p[i + 1]
      /\ 1 \in DOMAIN p /\ Head(p) = p[1]
  OBVIOUS
<1> HIDE DEF t
<1>2. InOrder(t, q)
  <2>1. ASSUME NEW i \in DOMAIN t, NEW j \in DOMAIN t, i < j
        PROVE  Before(t[i], t[j])
    <3>1. i + 1 < j + 1  BY <1>1, <2>1
    <3> QED BY <1>1, <3>1 DEF InOrder, Ordered
  <2> QED BY <1>1, <2>1 DEF InOrder, Ordered
<1>3. (Sent(p) => Sent(t)) /\ (Harmless(p) => Harmless(t) /\ Turn(Head(p)) \in {0, 4})
  BY <1>1 DEF Sent, Harmless
<1>4. ASSUME Head(p) = "RECORD"
      PROVE  Harmless(t) /\ Harmless(q)
  <2>1. ASSUME NEW r, Before("RECORD", r)
        PROVE  Turn(r) \in {0, 4}
    BY <2>1, Turns DEF Before
  <2>2. ASSUME NEW i \in DOMAIN t
        PROVE  Before("RECORD", t[i])
    <3>1. i + 1 \in DOMAIN p /\ 1 \in DOMAIN p /\ 1 < i + 1
      BY <1>1
    <3> QED BY <1>1, <1>4, <3>1 DEF InOrder, Ordered
  <2>3. \A j \in DOMAIN q : Before("RECORD", q[j])
    BY <1>1, <1>4 DEF InOrder
  <2> QED BY <2>1, <2>2, <2>3 DEF Harmless
<1>5. Sent(p) /\ Head(p) = "RECORD" => 3 <= said
  BY <1>1, Turns DEF Sent
<1> QED BY <1>2, <1>3, <1>4, <1>5 DEF t

LEMMA AppendInOrder ==
  ASSUME NEW p \in Seq(Request), NEW q \in Seq(Request), NEW r \in Request, InOrder(p, q),
         said \in Nat, Sent(p), Sent(q), Turn(r) = 0 \/ said < Turn(r)
  PROVE  InOrder(p, Append(q, r))
<1> DEFINE a == Append(q, r)
<1>1. /\ Len(q) \in Nat /\ DOMAIN q = 1 .. Len(q) /\ DOMAIN a = 1 .. Len(q) + 1
      /\ \A i \in DOMAIN q : a[i] = q[i]
      /\ a[Len(q) + 1] = r
      /\ \A i \in DOMAIN a : i \in DOMAIN q \/ i = Len(q) + 1
  OBVIOUS
<1> HIDE DEF a
<1>2. ASSUME NEW x, Turn(x) <= said
      PROVE  Before(x, r)
  BY <1>2, Turns DEF Before
<1>3. ASSUME NEW i \in DOMAIN a, NEW j \in DOMAIN a, i < j
      PROVE  Before(a[i], a[j])
  <2>1. i \in DOMAIN q
    BY <1>1, <1>3
  <2>2. CASE j \in DOMAIN q
    BY <1>1, <1>3, <2>1, <2>2 DEF InOrder, Ordered
  <2>3. CASE j = Len(q) + 1
    BY <1>1, <1>2, <2>1, <2>3 DEF Sent
  <2> QED BY <1>1, <2>2, <2>3
<1>4. ASSUME NEW i \in DOMAIN p, NEW j \in DOMAIN a
      PROVE  Before(p[i], a[j])
  BY <1>1, <1>2 DEF InOrder, Sent
<1> QED BY <1>3, <1>4 DEF InOrder, Ordered, a

LEMMA CutInOrder ==
  ASSUME NEW p, NEW q \in Seq(Request), InOrder(p, q), NEW n \in 1 .. Len(q)
  PROVE  LET a == SubSeq(q, 1, n)
             b == SubSeq(q, n + 1, Len(q))
         IN  /\ InOrder(a, b)
             /\ Sent(q) => Sent(a) /\ Sent(b)
             /\ Harmless(q) => Harmless(a) /\ Harmless(b)
<1> DEFINE a == SubSeq(q, 1, n)
           b == SubSeq(q, n + 1, Len(q))
<1>1. Len(q) \in Nat /\ DOMAIN q = 1 .. Len(q) /\ n \in Nat /\ n <= Len(q)
  OBVIOUS
<1>2. /\ DOMAIN a = 1 .. n
      /\ \A i \in DOMAIN a : i \in DOMAIN q /\ a[i] = q[i]
  OBVIOUS
<1>3. /\ DOMAIN b = 1 .. Len(q) - n
      /\ \A i \in DOMAIN b : i + n \in DOMAIN q /\ b[i] = q[i + n]
  OBVIOUS
<1> HIDE DEF a, b
<1>4. Ordered(q)
  BY DEF InOrder
<1>5. Ordered(a)
  BY <1>2, <1>4 DEF Ordered
<1>6. ASSUME NEW i \in DOMAIN b, NEW j \in DOMAIN b, i < j
      PROVE  Before(b[i], b[j])
  <2>1. i + n < j + n  BY <1>1, <1>3, <1>6
  <2> QED BY <1>3, <1>4, <2>1 DEF Ordered
<1>7. ASSUME NEW i \in DOMAIN a, NEW j \in DOMAIN b
      PROVE  Before(a[i], b[j])
  <2>1. i < j + n  BY <1>1, <1>2, <1>3
  <2> QED BY <1>2, <1>3, <1>4, <2>1 DEF Ordered
<1>8. InOrder(a, b)
  BY <1>5, <1>6, <1>7 DEF InOrder, Ordered
<1>9. (Sent(q) => Sent(a) /\ Sent(b)) /\ (Harmless(q) => Harmless(a) /\ Harmless(b))
  BY <1>2, <1>3 DEF Sent, Harmless
<1> QED BY <1>8, <1>9 DEF a, b

LEMMA DropInOrder ==
  ASSUME NEW p, NEW q \in Seq(Request), InOrder(p, q), q # <<>>
  PROVE  /\ InOrder(p, Tail(q))
         /\ Sent(q) => Sent(Tail(q))
         /\ Harmless(q) => Harmless(Tail(q))
<1> DEFINE t == Tail(q)
<1>1. /\ Len(q) \in Nat \ {0} /\ DOMAIN q = 1 .. Len(q) /\ DOMAIN t = 1 .. Len(q) - 1
      /\ \A i \in DOMAIN t : i + 1 \in DOMAIN q /\ t[i] = q[i + 1]
  OBVIOUS
<1> HIDE DEF t
<1>2. ASSUME NEW i \in DOMAIN t, NEW j \in DOMAIN t, i < j
      PROVE  Before(t[i], t[j])
  <2>1. i + 1 < j + 1  BY <1>1, <1>2
  <2> QED BY <1>1, <2>1 DEF InOrder, Ordered
<1>3. InOrder(p, t)
  BY <1>1, <1>2 DEF InOrder, Ordered
<1> QED BY <1>1, <1>3 DEF t, Sent, Harmless
-----------------------------------------------------------------------------
(* A step that leaves the requests as they are, and starts no stream.        *)
LEMMA QuietTurns ==
  ASSUME TurnsToCome, UNCHANGED <<rx, inbox, said>>,
         pc' = "start" => pc = "start" \/ Head(rx) = "RECORD",
         handle'[Rtp] /\ pc' \in InService =>
           handle[Rtp] /\ pc \in InService /\ session'.state = session.state
  PROVE  TurnsToCome'
BY DEF TurnsToCome, InOrder, Ordered, Before, Sent, Harmless, Recording, Turn

(* A step that leaves none. *)
LEMMA NoTurns ==
  ASSUME rx' = <<>>, inbox' = <<>>, pc' # "start", handle'[Rtp] => pc' \notin InService
  PROVE  TurnsToCome'
BY DEF TurnsToCome, InOrder, Ordered, Sent

LEMMA TurnsQuietSteps ==
  ASSUME ServerIInv, TurnsToCome,
         \/ \E s \in world.senders : Connect(s)
         \/ Tick \/ ServerStop \/ ServerStart \/ ServerStartFails \/ Boot \/ BootFails
         \/ Loop \/ SelectFails \/ SelectReady \/ SelectTimeout \/ NoAccept \/ RefuseBusy
         \/ NoData \/ Dispatched \/ TeardownRequest \/ RecordStarts \/ StartArm
         \/ StopIdle \/ StopBegin \/ StopEnd \/ Reset \/ End \/ RtpTask \/ UNCHANGED vars
  PROVE  TurnsToCome'
<1> USE DEF server, life, ready, link, sess, stream, network, handoffVars
<1>0. /\ HandoffIInv /\ CallsMatch /\ (tpc[Rtp] = "none" => ~handle[Rtp])
      /\ pc \in InService => call # At("stopping", Rtp)
  BY TaskAt DEF ServerIInv, CallsMatch, InService
<1>1. CASE \/ \E s \in world.senders : Connect(s)
           \/ Tick \/ ServerStop \/ StartArm \/ StopBegin \/ UNCHANGED vars
  BY <1>1, QuietTurns
  DEF Connect, Tick, ServerStop, StartArm, Arm, StopBegin, StopAsk, vars, InService
<1>2. CASE Loop \/ SelectFails \/ SelectReady \/ SelectTimeout \/ NoAccept \/ RefuseBusy
           \/ NoData \/ Dispatched
  BY <1>2, QuietTurns
  DEF Loop, SelectFails, SelectReady, SelectTimeout, NoAccept, RefuseBusy, NoData,
      Dispatched, InService
<1>3. CASE TeardownRequest \/ StopIdle \/ StopEnd
  BY <1>3, QuietTurns
  DEF TeardownRequest, TeardownThen, StopIdle, StopEnd, InService
<1>4. CASE End \/ BootFails \/ ServerStart \/ ServerStartFails
  <2>1. UNCHANGED <<rx, inbox, said>> /\ pc' \in {"down", "boot"}
    BY <1>0, <1>4 DEF End, BootFails, ServerStart, ServerStartFails, CallsMatch
  <2> QED BY <2>1, QuietTurns DEF InService
<1>5. CASE Boot \/ Reset
  BY <1>0, <1>5, QuietTurns DEF Boot, Reset, CallsMatch, ServerIInv, ServerTypes
<1>6. CASE RecordStarts
  BY <1>6, QuietTurns DEF RecordStarts, Requested, InService
<1>7. CASE RtpTask
  <2>1. UNCHANGED <<pc, rx, inbox, said, session>> /\ TaskStep(Rtp)
    BY <1>7 DEF RtpTask
  <2>2. pc \in InService => handle' = handle
    BY <1>0, <2>1, TaskMoves
  <2> QED BY <2>1, <2>2, QuietTurns
<1> QED BY <1>1, <1>2, <1>3, <1>4, <1>5, <1>6, <1>7

LEMMA TurnsClosingSteps ==
  ASSUME ServerIInv, OrderlyIInv,
         SelectReclaim \/ RecvClosing \/ DropClient \/ Exit \/ Accept
  PROVE  TurnsToCome'
<1>1. tpc[Rtp] = "none" => ~handle[Rtp]
  BY TaskAt DEF ServerIInv
<1>2. rx' = <<>> /\ inbox' = <<>> /\ UNCHANGED handle
  BY DEF SelectReclaim, RecvClosing, DropClient, Exit, Accept, CloseClient, handoffVars,
         OrderlyIInv, NobodyLeft
<1>3. pc' = "stop" \/ (pc' = "loop" /\ pc = "drop")
  BY DEF SelectReclaim, RecvClosing, DropClient, Exit, Accept, TeardownThen
<1> QED BY <1>1, <1>2, <1>3, NoTurns DEF ServerIInv, CallsMatch, InService

LEMMA TurnsRequestSteps ==
  ASSUME ServerIInv, OrderlyIInv, TurnsToCome, world.orderly,
         (\E r \in world.requests : SendRequest(r)) \/ HangUp \/ Recv \/ RecvOversized
  PROVE  TurnsToCome'
<1> USE DEF server, life, ready, link, sess, stream, network, handoffVars
<1>0. inbox \in Seq(Request) /\ rx \in Seq(Request) /\ said \in Nat /\ world \in World
  BY DEF OrderlyIInv, ServerIInv, ServerTypes
<1>1. ASSUME NEW r \in Request, inbox' = Append(inbox, r), UNCHANGED <<rx, pc, session, handle>>,
             (Turn(r) = 0 /\ said' = said) \/ (Turn(r) > said /\ said' = Turn(r)),
             said >= 3 => Turn(r) \in {0, 4}
      PROVE  TurnsToCome'
  <2>1. InOrder(rx, inbox')
    BY <1>0, <1>1, Turns, AppendInOrder DEF TurnsToCome
  <2>2. /\ Len(inbox) \in Nat /\ DOMAIN inbox' = 1 .. Len(inbox) + 1
        /\ \A i \in DOMAIN inbox' : (i \in DOMAIN inbox /\ inbox'[i] = inbox[i]) \/ inbox'[i] = r
    BY <1>0, <1>1
  <2>3. said' \in Nat /\ said <= said' /\ Turn(r) <= said'
    BY <1>0, <1>1, Turns
  <2>4. \A x : Turn(x) <= said => Turn(x) <= said'
    BY <1>0, <2>3, Turns
  <2>5. /\ \A i \in DOMAIN rx : Turn(rx[i]) <= said'
        /\ \A i \in DOMAIN inbox' : Turn(inbox'[i]) <= said'
    BY <2>2, <2>3, <2>4 DEF TurnsToCome, Sent
  <2>6. said >= 3 /\ Harmless(inbox) => \A i \in DOMAIN inbox' : Turn(inbox'[i]) \in {0, 4}
    BY <1>1, <2>2 DEF Harmless
  <2>7. InOrder(rx, inbox)'
    BY <1>1, <2>1 DEF InOrder, Ordered, Before, Turn
  <2>8. Sent(rx)' /\ Sent(inbox)'
    BY <1>1, <2>5 DEF Sent, Turn
  <2>9. ASSUME handle'[Rtp], pc' \in InService
        PROVE  Recording' /\ said' >= 3 /\ Harmless(rx)' /\ Harmless(inbox)'
    <3>1. Recording /\ said >= 3 /\ Harmless(rx) /\ Harmless(inbox)
      BY <1>1, <2>9 DEF TurnsToCome
    <3>2. Recording' /\ said' >= 3
      BY <1>0, <1>1, <2>3, <3>1 DEF Recording
    <3> QED BY <1>1, <2>6, <3>1, <3>2 DEF Harmless, Turn
  <2> QED BY <1>1, <2>7, <2>8, <2>9 DEF TurnsToCome
<1>2. ASSUME NEW r \in world.requests, SendRequest(r)
      PROVE  TurnsToCome'
  <2>1. r \in Request /\ inbox' = Append(inbox, r) /\ UNCHANGED <<rx, pc, session, handle>>
    BY <1>0, <1>2 DEF SendRequest, World, Request
  <2>2. InTurn(r) /\ said' = IF Turn(r) > 0 THEN Turn(r) ELSE said
    BY <1>2 DEF SendRequest
  <2>3. Turn(r) \in 0 .. 4 /\ said < 4 /\ (Turn(r) \in {0, 4} \/ Turn(r) = said + 1)
    BY <2>2, Turns DEF InTurn
  <2>4. /\ (Turn(r) = 0 /\ said' = said) \/ (Turn(r) > said /\ said' = Turn(r))
        /\ said >= 3 => Turn(r) \in {0, 4}
    BY <1>0, <2>2, <2>3
  <2> QED BY <1>1, <2>1, <2>4
<1>3. CASE HangUp
  <2>1. "EOF" \in Request /\ Turn("EOF") = 0
    BY DEF Request, Turn, Announces
  <2>2. /\ inbox' = Append(inbox, "EOF") /\ UNCHANGED <<rx, pc, session, handle, said>>
    BY <1>3 DEF HangUp
  <2> QED BY <1>1, <2>1, <2>2
<1>4. CASE Recv
  <2>1. UNCHANGED <<said, session, handle>> /\ pc = "client" /\ pc' = "dispatch"
    BY <1>4 DEF Recv
  <2>2. PICK n \in 1 .. Len(inbox) : /\ rx' = SubSeq(inbox, 1, n)
                                     /\ inbox' = SubSeq(inbox, n + 1, Len(inbox))
    BY <1>4 DEF Recv
  <2>3. /\ InOrder(rx', inbox')
        /\ \A i \in DOMAIN rx' : Turn(rx'[i]) <= said
        /\ \A i \in DOMAIN inbox' : Turn(inbox'[i]) <= said
        /\ Harmless(inbox) => /\ \A i \in DOMAIN rx' : Turn(rx'[i]) \in {0, 4}
                              /\ \A i \in DOMAIN inbox' : Turn(inbox'[i]) \in {0, 4}
    BY <1>0, <2>2, CutInOrder DEF TurnsToCome, Sent, Harmless
  <2>4. InOrder(rx, inbox)'
    BY <2>3 DEF InOrder, Ordered, Before, Turn
  <2>5. Sent(rx)' /\ Sent(inbox)'
    BY <2>1, <2>3 DEF Sent, Turn
  <2>6. handle'[Rtp] /\ pc' \in InService =>
          Recording' /\ said' >= 3 /\ Harmless(rx)' /\ Harmless(inbox)'
    BY <2>1, <2>3 DEF TurnsToCome, InService, Recording, Harmless, Turn
  <2> QED BY <2>1, <2>4, <2>5, <2>6 DEF TurnsToCome
<1>5. CASE RecvOversized
  <2>1. /\ UNCHANGED <<rx, said, session, handle>> /\ inbox' = Tail(inbox)
        /\ pc = "client" /\ pc' = "loop"
    BY <1>5 DEF RecvOversized
  <2>2. inbox # <<>>
    BY <1>5, <2>1 DEF RecvOversized, OrderlyIInv, Reading
  <2>3. /\ InOrder(rx, inbox')
        /\ \A i \in DOMAIN inbox' : Turn(inbox'[i]) <= said
        /\ Harmless(inbox) => \A i \in DOMAIN inbox' : Turn(inbox'[i]) \in {0, 4}
    BY <1>0, <2>1, <2>2, DropInOrder DEF TurnsToCome, Sent, Harmless
  <2>4. InOrder(rx, inbox)'
    BY <2>1, <2>3 DEF InOrder, Ordered, Before, Turn
  <2>5. Sent(rx)' /\ Sent(inbox)'
    BY <2>1, <2>3 DEF TurnsToCome, Sent, Turn
  <2>6. handle'[Rtp] /\ pc' \in InService =>
          Recording' /\ said' >= 3 /\ Harmless(rx)' /\ Harmless(inbox)'
    BY <2>1, <2>3 DEF TurnsToCome, InService, Recording, Harmless, Turn
  <2> QED BY <2>1, <2>4, <2>5, <2>6 DEF TurnsToCome
<1> QED BY <1>2, <1>3, <1>4, <1>5

(* A request answered: with a stream running, it is none that ends RECORDING. *)
LEMMA TurnsAnswerSteps ==
  ASSUME ServerIInv, OrderlyIInv, TurnsToCome,
         \/ Other \/ Announce \/ Setup \/ SetupFails \/ RecordAgain \/ RecordRefused
         \/ RecordFails \/ StartSpawn \/ StartSpawnFails
  PROVE  TurnsToCome'
<1> USE DEF life, ready, link, sess, stream, network, handoffVars
<1>1. /\ UNCHANGED <<inbox, said>> /\ rx' = Tail(rx) /\ rx # <<>>
      /\ pc \in {"dispatch", "start"} /\ pc' = "dispatch"
      /\ rx \in Seq(Request) /\ inbox \in Seq(Request)
  BY DEF OrderlyIInv, Other, Announce, Setup, SetupFails, RecordAgain, RecordRefused,
         RecordFails, StartSpawn, StartSpawnFails, Requested, Answer
<1>2. /\ InOrder(rx', inbox)
      /\ \A i \in DOMAIN rx' : Turn(rx'[i]) <= said
      /\ Harmless(rx) => Turn(Head(rx)) \in {0, 4} /\ \A i \in DOMAIN rx' : Turn(rx'[i]) \in {0, 4}
      /\ Head(rx) = "RECORD" => /\ said >= 3 /\ Harmless(inbox)
                                /\ \A i \in DOMAIN rx' : Turn(rx'[i]) \in {0, 4}
  <2>1. said \in Nat  BY DEF OrderlyIInv
  <2> QED BY <1>1, <2>1, TailInOrder DEF TurnsToCome, Sent, Harmless
<1>3. SUFFICES ASSUME handle'[Rtp]
               PROVE  Recording' /\ said >= 3 /\ Harmless(inbox)
                      /\ \A i \in DOMAIN rx' : Turn(rx'[i]) \in {0, 4}
  BY <1>1, <1>2 DEF TurnsToCome, InOrder, Ordered, Before, Sent, Harmless, Turn
<1>4. CASE StartSpawn
  <2>1. Head(rx) = "RECORD"  BY <1>4 DEF StartSpawn, TurnsToCome
  <2>2. Recording'           BY <1>4 DEF StartSpawn, Recording, ServerIInv, ServerTypes
  <2> QED BY <1>2, <2>1, <2>2
<1>5. CASE StartSpawnFails
  <2>1. Starting(Rtp) /\ handle' = handle
    BY <1>5 DEF StartSpawnFails, SpawnFails, ServerIInv, CallsMatch, Starting
  <2> QED BY <1>3, <2>1, TaskAt DEF ServerIInv
<1>6. CASE \/ Other \/ Announce \/ Setup \/ SetupFails \/ RecordAgain \/ RecordRefused
           \/ RecordFails
  <2>1. handle' = handle /\ pc = "dispatch"
    BY <1>6 DEF Other, Announce, Setup, SetupFails, RecordAgain, RecordRefused, RecordFails,
                StartFails, Requested
  <2>2. Recording /\ said >= 3 /\ Harmless(rx) /\ Harmless(inbox)
    BY <1>3, <2>1 DEF TurnsToCome, InService
  <2>3. Turn(Head(rx)) \in {0, 4} /\ \A i \in DOMAIN rx' : Turn(rx'[i]) \in {0, 4}
    BY <1>2, <2>2
  <2>4. ~Announce /\ ~Setup
    <3>1. Head(rx) # "SETUP" /\ Head(rx) \notin Announces
      BY <2>3, Turns
    <3> QED BY <3>1 DEF Announce, Setup, Requested
  <2>5. session'.state = session.state
    BY <1>6, <2>4 DEF Other, SetupFails, RecordAgain, RecordRefused, RecordFails,
                      ServerIInv, ServerTypes
  <2> QED BY <2>2, <2>3, <2>5 DEF Recording
<1> QED BY <1>4, <1>5, <1>6

LEMMA OrderlyKept ==
  ASSUME ServerIInv, [Next]_vars
  PROVE  world'.orderly = world.orderly
<1>1. world \in World
  BY DEF ServerIInv, ServerTypes
<1>2. CASE \/ \E s \in world.senders : Connect(s)
           \/ \E r \in world.requests : SendRequest(r)
           \/ ServerStart \/ ServerStartFails
  BY <1>1, <1>2 DEF Connect, SendRequest, ServerStart, ServerStartFails, World
<1>3. CASE ServerStop \/ RtpTask \/ Tick \/ HangUp \/ UNCHANGED vars
  BY <1>3 DEF ServerStop, RtpTask, Tick, HangUp, vars, network
<1>4. CASE ServerTask
  BY <1>4
  DEF ServerTask, Boot, BootFails, Loop, SelectFails, SelectReclaim, SelectReady,
      SelectTimeout, NoAccept, RefuseBusy, Accept, NoData, RecvClosing, RecvOversized, Recv,
      Dispatched, Other, Announce, Setup, SetupFails, TeardownRequest, DropClient,
      RecordAgain, RecordRefused, RecordFails, RecordStarts, StartArm, StartSpawn,
      StartSpawnFails, StopIdle, StopBegin, StopEnd, Reset, Exit, End, network
<1> QED BY <1>2, <1>3, <1>4 DEF Next

(***************************************************************************)
(* The idle check ends no stream of a sender that keeps the order, however    *)
(* long it is silent and whatever else it sends (raop.c:59-63, 427-436).     *)
(***************************************************************************)
THEOREM ServerKeepsStream == Spec => OrderlyNotReclaimed
<1> DEFINE Inv == ServerIInv /\ OrderlyIInv /\ (world.orderly => TurnsToCome)
<1>1. Init => (world.orderly => TurnsToCome)
  BY ProducerAssumption
  DEF Init, HandoffInit, TurnsToCome, InOrder, Ordered, Sent, InService
<1>2. Inv /\ [Next]_vars => (world.orderly => TurnsToCome)'
  BY OrderlyKept, TurnsQuietSteps, TurnsClosingSteps, TurnsRequestSteps, TurnsAnswerSteps
  DEF Next, ServerTask
<1>3. Inv /\ [Next]_vars => [SelectReclaim /\ world.orderly => ~handle[Rtp]]_vars
  BY DEF TurnsToCome, SelectReclaim, Reclaimable, Recording, InService
<1> QED BY <1>1, <1>2, <1>3, ServerInvariant, ServerOrderly, PTL DEF Spec, OrderlyNotReclaimed
=============================================================================
