------------------------------ MODULE Playback --------------------------------
(***************************************************************************)
(* The PCM path: the RTP task feeds decoded packets into the ring with      *)
(* backpressure (feed_pcm of raop_rtp.c), and the playback task drains it    *)
(* to the I2S peripheral (audio_playback.c) behind a prefill gate, with a    *)
(* one-frame drift correction per cycle and silence on underrun.            *)
(*                                                                         *)
(* The I2S peripheral is external: it takes what it is given.               *)
(***************************************************************************)
EXTENDS AudioRing

CONSTANTS
  Prefill,   \* PLAYBACK_PREFILL_FRAMES (11025)
  Packet     \* frames of one decoded packet (352)

(* PLAYBACK_CHUNK_FRAMES (256) is ReadMax.  Were the prefill not reachable, *)
(* the playback task would wait for ever in front of a full ring.  A full    *)
(* ring of one frame would be emptied by a DROP.                            *)
ASSUME PrefillAssumption ==
  /\ Capacity > 2
  /\ Prefill \in 1 .. Capacity - 1
  /\ Packet \in 1 .. WriteMax

VARIABLES
  run,      \* s_run of the RTP task
  left,     \* frames of the current packet feed_pcm has not handed over yet
  primed,   \* the playback task's local of that name
  cpc,      \* where the playback task is in its cycle
  snap,     \* its local avail, read at the top of the cycle
  pad,      \* history: the frame repeated by this cycle's DUP, if any
  played,   \* history: the newest frame handed to I2S
  silent,   \* history: was the newest chunk handed to I2S silence?
  mark      \* history: frames written before the last FLUSH or RECORD

feeder == <<run, left>>
drain == <<primed, cpc, snap, pad, played, silent>>
vars == <<ringVars, feeder, drain, mark>>

Init ==
  /\ RingInit
  /\ run = TRUE /\ left = 0
  /\ primed = FALSE /\ cpc = "cycle" /\ snap = 0
  /\ pad = NoFrame /\ played = NoFrame /\ silent = TRUE /\ mark = 0
-----------------------------------------------------------------------------
(* The RTP task: one packet at a time, retried while the ring is full. *)
NextPacket ==
  /\ run /\ left = 0 /\ wpc = "idle" /\ written + Packet <= Frames
  /\ left' = Packet
  /\ UNCHANGED <<ringVars, run, drain, mark>>

FeedCall ==
  /\ run /\ left > 0 /\ WriteBegin(left)
  /\ UNCHANGED <<feeder, drain, mark>>

FeedCopy ==
  /\ WriteCopy \/ WriteWrap
  /\ UNCHANGED <<feeder, drain, mark>>

FeedReturn ==
  /\ WritePublish
  /\ left' = left - wn
  /\ UNCHANGED <<run, drain, mark>>

(* The loops of feed_pcm and of the task see s_run cleared between calls. *)
FeedAbandon ==
  /\ ~run /\ wpc = "idle" /\ left > 0
  /\ left' = 0
  /\ UNCHANGED <<ringVars, run, drain, mark>>

Feeder == NextPacket \/ FeedCall \/ FeedCopy \/ FeedReturn \/ FeedAbandon
-----------------------------------------------------------------------------
(* The RTSP task.  A session ends and another begins; neither touches the   *)
(* ring.  FLUSH only acknowledges.                                          *)
StopSession ==
  /\ run /\ run' = FALSE
  /\ UNCHANGED <<ringVars, left, drain, mark>>

StartSession ==
  /\ ~run /\ left = 0 /\ wpc = "idle"
  /\ run' = TRUE /\ mark' = written
  /\ UNCHANGED <<ringVars, left, drain>>

Flush ==
  /\ run /\ left = 0 /\ wpc = "idle" /\ mark < written
  /\ mark' = written
  /\ UNCHANGED <<ringVars, feeder, drain>>
-----------------------------------------------------------------------------
(* The playback task: one cycle of its endless loop. *)
GateMutant == primed \/ Available > Prefill
Gate == primed \/ Available >= Prefill

CycleSilent ==
  /\ cpc = "cycle" /\ ~Gate
  /\ UNCHANGED vars

CycleStart ==
  /\ cpc = "cycle" /\ Gate
  /\ primed' = TRUE /\ snap' = Available /\ cpc' = "drift"
  /\ pad' = NoFrame
  /\ UNCHANGED <<ringVars, feeder, played, silent, mark>>

(* audio_drift_decide on the snapshot. *)
DropsMutant == snap >= Capacity - 2
Drops == snap >= Capacity - 1
Pads == snap > 0 /\ ~Drops /\ snap <= ReadMax

DriftDrop ==
  /\ cpc = "drift" /\ Drops
  /\ Drop
  /\ cpc' = "read"
  /\ UNCHANGED <<feeder, primed, snap, pad, played, silent, mark>>

DriftPad ==
  /\ cpc = "drift" /\ Pads
  /\ pad' = FirstFrame
  /\ cpc' = "read"
  /\ UNCHANGED <<ringVars, feeder, primed, snap, played, silent, mark>>

DriftNone ==
  /\ cpc = "drift" /\ ~Drops /\ ~Pads
  /\ cpc' = "read"
  /\ UNCHANGED <<ringVars, feeder, primed, snap, pad, played, silent, mark>>

ReadCall ==
  /\ cpc = "read" /\ ReadBegin(ReadMax)
  /\ cpc' = "reading"
  /\ UNCHANGED <<feeder, primed, snap, pad, played, silent, mark>>

ReadOn ==
  /\ cpc = "reading" /\ (ReadCopy \/ ReadWrap)
  /\ UNCHANGED <<feeder, drain, mark>>

ReadReturn ==
  /\ cpc = "reading" /\ ReadPublish
  /\ played' = out[rn - 1] /\ silent' = FALSE
  /\ cpc' = "cycle"
  /\ UNCHANGED <<feeder, primed, snap, pad, mark>>

(* A true underrun: a chunk of silence, and the prefill gate closes again. *)
UnderrunMutant ==
  /\ cpc = "read" /\ Available = 0
  /\ cpc' = "cycle" /\ silent' = TRUE
  /\ UNCHANGED <<ringVars, feeder, primed, snap, pad, played, mark>>
Underrun ==
  /\ cpc = "read" /\ Available = 0
  /\ primed' = FALSE /\ cpc' = "cycle" /\ silent' = TRUE
  /\ UNCHANGED <<ringVars, feeder, snap, pad, played, mark>>

Drain ==
  \/ CycleSilent \/ CycleStart \/ DriftDrop \/ DriftPad \/ DriftNone
  \/ ReadCall \/ ReadOn \/ ReadReturn \/ Underrun
-----------------------------------------------------------------------------
Next == Feeder \/ StopSession \/ StartSession \/ Flush \/ Drain

Spec == Init /\ [][Next]_vars /\ WF_vars(Feeder) /\ WF_vars(Drain)
-----------------------------------------------------------------------------
(***************************************************************************)
(* The frame repeated by a DUP is the very frame played next, whatever the   *)
(* producer does between the snapshot, the repeat and the read               *)
(* (audio_playback.c:99-104).                                               *)
(***************************************************************************)
PadIsNextFrame == pad # NoFrame /\ CopiedOut > 0 => out[0] = pad

(***************************************************************************)
(* Drift correction costs the stream one frame at a time, and only when it   *)
(* must: what a cycle hands to I2S goes on where the last one ended, except  *)
(* that one frame may be left out of it, and then only off a ring so full    *)
(* that the feeder was blocked (audio_playback.c:46-61).  The decision is    *)
(* made on an earlier count; the chunk is read later, with the feeder        *)
(* writing on.  It is the code's mark that is stated: the documents still    *)
(* name 3/4 and 1/4 of the capacity (audio/README.md:22-24 and               *)
(* raop/README.md:91-94), the marks the code gave up for crackling.          *)
(***************************************************************************)
PlaysAllButTheShed ==
  [][ReadReturn => \/ out[0] = played + 1
                   \/ out[0] = played + 2 /\ Available >= Capacity - 2]_vars

(***************************************************************************)
(* After the playback task has put silence out, sound starts again only     *)
(* behind a full prefill: the gate that an underrun closes stays closed      *)
(* until the advertised latency is buffered (audio_playback.c:78-90).        *)
(***************************************************************************)
ResumesPrefilled ==
  [][silent /\ cpc' = "drift" => Available >= Prefill]_vars

(***************************************************************************)
(* Every frame written is consumed in the end, if the session runs on and    *)
(* the stream still has a prefill's worth of frames from it on: only the     *)
(* tail of a stream may stay in the ring.                                   *)
(***************************************************************************)
FrameIsPlayed ==
  \A k \in 1 .. Frames - Packet - Prefill + 2 : written >= k ~> (consumed >= k \/ ~run)

(***************************************************************************)
(* "FLUSH -> drop buffered audio" and "TEARDOWN -> ... silence" (design      *)
(* spec, section 5b): what was buffered before is not played after.          *)
(***************************************************************************)
NothingStaleIsPlayed == [][played' # played => played' >= mark]_vars
-----------------------------------------------------------------------------
(* What makes these inductive.  A packet in the middle of feed_pcm is within *)
(* the stream, and a call of write within the packet.                       *)
FeederBounded ==
  /\ left \in 0 .. Packet
  /\ left > 0 => written + left <= Frames
  /\ wpc # "idle" => wn <= left

(* A snapshot is never more than there is, the producer only adding to it;   *)
(* the frame repeated is the oldest until the read that hands it out ends;   *)
(* after silence the gate is closed, or behind a full prefill; and all that  *)
(* was consumed has been played, or is the frame this cycle shed.            *)
DrainBounded ==
  /\ cpc \in {"cycle", "drift", "read", "reading"} /\ snap \in Nat /\ played \in Int
  /\ cpc # "reading" => rpc = "idle"
  /\ rpc # "idle" => rn > 0
  /\ cpc = "drift" => snap <= Available /\ pad = NoFrame
  /\ cpc \in {"read", "reading"} => pad \in {NoFrame, consumed}
  /\ silent /\ cpc = "cycle" => ~primed
  /\ silent /\ cpc = "drift" => Available >= Prefill
  /\ \/ consumed = played + 1
     \/ /\ consumed = played + 2 /\ cpc \in {"read", "reading"}
        /\ Available >= Capacity - 2
PlaybackIInv == RingIInv /\ FeederBounded /\ DrainBounded
=============================================================================
