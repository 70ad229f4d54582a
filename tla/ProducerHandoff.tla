--------------------------- MODULE ProducerHandoff ----------------------------
(***************************************************************************)
(* The arbitration of the PCM ring's single producer slot between tasks:    *)
(* the RTP receive task (raop_rtp_start, raop_rtp_stop and rtp_task in       *)
(* components/raop/src/raop_rtp.c) and the diagnostic tone (components/      *)
(* audio/src/audio_diag.c), over the test-and-set flag of audio.c.           *)
(*                                                                         *)
(* One controlling task calls start and stop; every producer is a task of   *)
(* its own, created by start, that ends by itself once it is asked to.  The  *)
(* two modules of the code follow the same protocol, which is written once  *)
(* here, for any number of producers.  Only the RTP task has a decoder, a    *)
(* key and a reorder buffer, which start builds and stop frees.             *)
(***************************************************************************)
EXTENDS Naturals

CONSTANTS
  Producer,  \* the tasks that may feed audio_play_pcm
  Rtp        \* the RTP receive task

ASSUME ProducerAssumption == Rtp \in Producer /\ "none" \notin Producer

VARIABLES
  owner,    \* s_producer_held, with s_producer_owner
  handle,   \* s_task, s_diag_task: is the handle set?
  running,  \* s_run, s_diag_run
  done,     \* s_done, s_diag_done
  decoder,  \* are s_alac, s_aes_key and s_slots built?
  tpc,      \* where each producer's task is
  call      \* where the controlling task is in a start or a stop

handoffVars == <<owner, handle, running, done, decoder, tpc, call>>

Idle == [op |-> "idle"]
At(op, p) == [op |-> op, of |-> p]

HandoffInit ==
  /\ owner = "none"
  /\ handle = [p \in Producer |-> FALSE]
  /\ running = [p \in Producer |-> FALSE]
  /\ done = [p \in Producer |-> FALSE]
  /\ decoder = FALSE
  /\ tpc = [p \in Producer |-> "none"]
  /\ call = Idle
-----------------------------------------------------------------------------
(***************************************************************************)
(* start: nothing when the task runs; else build the decoder, claim the     *)
(* slot, arm the two flags, create the task.  Every failure undoes what was *)
(* done before it.                                                          *)
(***************************************************************************)
(* audio_producer_acquire, on a free slot. *)
Acquire(p) == owner = "none" /\ owner' = p

ClaimMutant(p) ==
  /\ call = Idle /\ ~handle[p]
  /\ owner' = p
  /\ decoder' = (decoder \/ p = Rtp)
  /\ call' = At("claimed", p)
  /\ UNCHANGED <<handle, running, done, tpc>>
Claim(p) ==
  /\ call = Idle /\ ~handle[p]
  /\ Acquire(p)
  /\ decoder' = (decoder \/ p = Rtp)
  /\ call' = At("claimed", p)
  /\ UNCHANGED <<handle, running, done, tpc>>

(* The slot is taken, or the decoder, the key or the buffer is not to be had. *)
StartFails(p) ==
  /\ call = Idle /\ ~handle[p] /\ (owner # "none" \/ p = Rtp)
  /\ decoder' = (decoder /\ p # Rtp)
  /\ UNCHANGED <<owner, handle, running, done, tpc, call>>

ArmMutant(p) ==
  /\ call = At("claimed", p)
  /\ running' = [running EXCEPT ![p] = TRUE]
  /\ call' = At("armed", p)
  /\ UNCHANGED <<owner, handle, done, decoder, tpc>>
Arm(p) ==
  /\ call = At("claimed", p)
  /\ running' = [running EXCEPT ![p] = TRUE]
  /\ done' = [done EXCEPT ![p] = FALSE]
  /\ call' = At("armed", p)
  /\ UNCHANGED <<owner, handle, decoder, tpc>>

(* The handle is written before the new task runs. *)
Spawn(p) ==
  /\ call = At("armed", p)
  /\ handle' = [handle EXCEPT ![p] = TRUE]
  /\ tpc' = [tpc EXCEPT ![p] = "loop"]
  /\ call' = Idle
  /\ UNCHANGED <<owner, running, done, decoder>>

SpawnFailsMutant(p) ==
  /\ call = At("armed", p)
  /\ running' = [running EXCEPT ![p] = (p # Rtp)]
  /\ decoder' = (decoder /\ p # Rtp)
  /\ call' = Idle
  /\ UNCHANGED <<owner, handle, done, tpc>>
SpawnFails(p) ==
  /\ call = At("armed", p)
  /\ owner' = "none"
  /\ running' = [running EXCEPT ![p] = (p # Rtp)]
  /\ decoder' = (decoder /\ p # Rtp)
  /\ call' = Idle
  /\ UNCHANGED <<handle, done, tpc>>
-----------------------------------------------------------------------------
(* stop: ask the task to end, and block until it says it has. *)
StopNotRunning(p) ==
  /\ call = Idle /\ ~handle[p]
  /\ decoder' = (decoder /\ p # Rtp)
  /\ UNCHANGED <<owner, handle, running, done, tpc, call>>

StopAsk(p) ==
  /\ call = Idle /\ handle[p]
  /\ running' = [running EXCEPT ![p] = FALSE]
  /\ call' = At("stopping", p)
  /\ UNCHANGED <<owner, handle, done, decoder, tpc>>

StopReturn(p) ==
  /\ call = At("stopping", p) /\ done[p]
  /\ decoder' = (decoder /\ p # Rtp)
  /\ call' = Idle
  /\ UNCHANGED <<owner, handle, running, done, tpc>>
-----------------------------------------------------------------------------
(* A producer's task: produce while asked to; then release the slot, clear  *)
(* the handle and say so, in this order.                                    *)
Produce(p) ==
  /\ tpc[p] = "loop" /\ running[p]
  /\ tpc' = [tpc EXCEPT ![p] = "play"]
  /\ UNCHANGED <<owner, handle, running, done, decoder, call>>

Produced(p) ==
  /\ tpc[p] = "play"
  /\ tpc' = [tpc EXCEPT ![p] = "loop"]
  /\ UNCHANGED <<owner, handle, running, done, decoder, call>>

Release(p) ==
  /\ tpc[p] = "loop" /\ ~running[p]
  /\ owner' = "none"
  /\ tpc' = [tpc EXCEPT ![p] = "clear"]
  /\ UNCHANGED <<handle, running, done, decoder, call>>

ClearMutant(p) ==
  /\ tpc[p] = "clear"
  /\ handle' = [handle EXCEPT ![p] = FALSE]
  /\ tpc' = [tpc EXCEPT ![p] = "none"]
  /\ UNCHANGED <<owner, running, done, decoder, call>>
Clear(p) ==
  /\ tpc[p] = "clear"
  /\ handle' = [handle EXCEPT ![p] = FALSE]
  /\ tpc' = [tpc EXCEPT ![p] = "publish"]
  /\ UNCHANGED <<owner, running, done, decoder, call>>

Publish(p) ==
  /\ tpc[p] = "publish"
  /\ done' = [done EXCEPT ![p] = TRUE]
  /\ tpc' = [tpc EXCEPT ![p] = "none"]
  /\ UNCHANGED <<owner, handle, running, decoder, call>>

TaskStep(p) == Produce(p) \/ Produced(p) \/ Release(p) \/ Clear(p) \/ Publish(p)
-----------------------------------------------------------------------------
Control(p) ==
  \/ Claim(p) \/ StartFails(p) \/ Arm(p) \/ Spawn(p) \/ SpawnFails(p)
  \/ StopNotRunning(p) \/ StopAsk(p) \/ StopReturn(p)

HandoffNext == \E p \in Producer : Control(p) \/ TaskStep(p)

(* The tasks are scheduled, and a caller inside start or stop goes on. *)
HandoffFairness ==
  \A p \in Producer : WF_handoffVars(TaskStep(p)) /\ WF_handoffVars(StopReturn(p))
HandoffSpec == HandoffInit /\ [][HandoffNext]_handoffVars /\ HandoffFairness
-----------------------------------------------------------------------------
Calls == {Idle} \cup
         {At(op, p) : op \in {"claimed", "armed", "stopping"}, p \in Producer}

HandoffTypeOK ==
  /\ owner \in Producer \cup {"none"}
  /\ handle \in [Producer -> BOOLEAN]
  /\ running \in [Producer -> BOOLEAN]
  /\ done \in [Producer -> BOOLEAN]
  /\ decoder \in BOOLEAN
  /\ tpc \in [Producer -> {"none", "loop", "play", "clear", "publish"}]
  /\ call \in Calls

(***************************************************************************)
(* "Only ONE task may call this at a time" (audio.h): no two producers are  *)
(* in audio_play_pcm together, whatever start and stop calls are made, and   *)
(* one that is there has claimed the slot.                                  *)
(***************************************************************************)
Playing == {p \in Producer : tpc[p] = "play"}
OneProducer == \A p, q \in Playing : p = q /\ owner = p

(***************************************************************************)
(* What stop frees is not in use: while the RTP task can decode, its        *)
(* decoder, key and reorder buffer exist (teardown_crypto_decoder runs after *)
(* the task said it is done, and on the failures of start before it exists). *)
(***************************************************************************)
NoUseAfterFree == tpc[Rtp] \in {"loop", "play"} => decoder

(***************************************************************************)
(* A start or a stop that returned leaves nothing behind: a handle is set    *)
(* exactly while its task produces, and when nobody does, the slot is free   *)
(* and the decoder is gone.                                                 *)
(***************************************************************************)
NothingLeftBehind ==
  call = Idle =>
    /\ \A p \in Producer : handle[p] = (tpc[p] # "none")
    /\ (\A p \in Producer : ~handle[p]) => owner = "none"
    /\ ~handle[Rtp] => ~decoder

(* "BLOCK until its task has fully exited" (audio.h, raop_rtp.h): a stop     *)
(* does return.                                                             *)
StopReturns == call.op = "stopping" ~> call.op = "idle"

(* What makes the invariants inductive: who holds the slot, from when to    *)
(* when, and how far a task is that does not hold it.                       *)
Starting(p) == call \in {At("claimed", p), At("armed", p)}
Holder(p) == tpc[p] \in {"loop", "play"} \/ Starting(p)
SlotHeld == \A p \in Producer : owner = p <=> Holder(p)
Handshake ==
  \A p \in Producer :
    /\ handle[p] <=> tpc[p] \in {"loop", "play", "clear"}
    /\ Starting(p) => tpc[p] = "none"
    /\ call = At("armed", p) => running[p] /\ ~done[p]
    /\ call = At("stopping", p) => ~running[p] /\ (done[p] <=> tpc[p] = "none")
    /\ call # At("stopping", p) => tpc[p] \in {"none", "loop", "play"}
    /\ call # At("stopping", p) /\ tpc[p] # "none" => running[p] /\ ~done[p]
DecoderKept ==
  decoder <=> \/ tpc[Rtp] # "none" \/ Starting(Rtp) \/ call = At("stopping", Rtp)
HandoffIInv == HandoffTypeOK /\ SlotHeld /\ Handshake /\ DecoderKept
=============================================================================
