# A verification of Conduit Stream

Conduit Stream is the firmware of an AirPlay 1 (RAOP) receiver on an ESP32-S3:
FreeRTOS tasks in C that negotiate a session over RTSP, receive, reorder and
decrypt RTP audio, decode it, and play it through I2S; and, around that, Wi-Fi
with a setup portal, settings in NVS, a button and a status LED. This directory
models its control logic in TLA+, checks it with TLC and proves most of its
safety properties with TLAPS. Paths below are those of the repository; `raop/`,
`audio/`, `system/` and `network/` stand for `framework/components/<name>/`.

## The system

| Component | Code | State | Operations | What makes it correct |
|---|---|---|---|---|
| Reorder buffer | `raop/src/rtp_reorder.c` | slots, `next`, `head`, `count`, `started` | init, anchor, insert, pop, gap | packets come out in order, once each; a hole is held open as long as promised; 16-bit numbers wrap harmlessly |
| RTP task | `raop/src/raop_rtp.c` | run flag, resend throttle, peer, decoder, keys | audio, control and timing handlers, drain, feed, start, stop | plays the stream in order and on time, asks for what is missing, gets a sender that waits for timing going; start and stop are clean |
| PCM ring | `audio/src/audio_ringbuf.c` | storage, `head`, `tail` | write, read, drop, first frame | lock-free between one writer and one reader: nothing unread is overwritten, nothing torn |
| Playback task | `audio/src/audio_playback.c`, `audio_drift.c` | `primed`, fill snapshot | prefill gate, drift correction, read, underrun | never deadlocks with the feeder, restarts behind a full prefill |
| Producer slot, diagnostic tone | `audio/src/audio.c`, `audio_diag.c` | test-and-set flag, handles, run and done flags | acquire, release, start, stop | one producer at a time |
| RTSP server | `raop/src/raop.c`, `rtsp_session.c` | the one connection, the session, descriptors, idle time | accept, one handler per method, idle check, teardown, start, stop | one sender at a time; session, sockets, key and RTP task agree |
| RTSP framing | `raop/src/raop.c` (receive loop), `rtsp_parser.c` | receive buffer | recv, parse, dispatch, drain an oversized body | every request is answered once and in order, however TCP cuts the stream |
| Boot and settings | `framework/src/main.cpp`, `system/src/system_config.c`, `setup_button.c`, `network/src/wifi_provisioning.c` | NVS keys, their copies in RAM, the three tasks | boot decision, fallback, button, portal page, form and save, restart | settings and requests survive restarts; what the user chose is what is saved; the device ends on a network or in the portal |
| Wi-Fi station | `network/src/wifi.c` | reconnect timer, backoff, callback-started flag | start, disconnected, got IP | keeps trying, calls back once |
| Status LED | `system/src/system_led.c`, `led_state.c` | handle, disabled flag, last state | init, set state, disable | shows the state; dark after it is disabled |
| Decoders of bodies and headers | `raop/src/{sdp,setparam,dmap,base64,raop_metadata}.c` | none (metadata: the last title) | parse, convert | bounded, and inverse to what senders encode |
| Volume | `raop/src/raop_volume.c`, `audio/src/audio_volume.c` | the gain | parse, set, apply | grows with the slider, silent at its end, never louder than the source |
| RTP formats | `raop/src/{rtp_parser,rtp_resend,rtp_timing}.c` | none | build, parse | what is asked for, by number and count, is what is missing |
| Crypto | `raop/src/{aes_frame,raop_challenge,raop_crypto,raop_key}.c` | none | decrypt, sign | the answer is to this challenge; a key serves its own connection only |
| ALAC decoder | `alac/src/alac_config.c`; `alac.c` (vendored) | decoder | configure, decode | a decoder is built of the numbers announced, or none is |
| Discovery | `framework/components/discovery/`, `system/src/device_id.c` | none | advertise | |
| I2S | `audio/src/audio_i2s.c` | peripheral | write | |

How they interact:

    sender --TCP--> framing --requests--> RTSP server --start/stop--> RTP task
    sender --UDP--> RTP task --insert/pop--> reorder buffer
                    RTP task --acquire slot, write--> PCM ring --read--> playback task --> I2S
    diagnostic tone --acquire slot, write--> PCM ring
    RTSP server --events--> status LED
    main --settings--> Wi-Fi station --got IP--> RTSP server, discovery, LED
    button, fallback task --request in NVS + restart--> main --> portal --save in NVS + restart--> main

What is hard to test in it: the preemption of the ring's two tasks; the handoff
of decoder, slot and `s_done` between the controlling task and the RTP task;
loss, reordering, duplication and resending around a window of 256 packets with
wrapping numbers; outages; requests out of order, repeated, pipelined or cut
anywhere; a sender that goes quiet; sockets that run out; text at the limit of
a buffer, in HTML, a URL, base64 or DMAP; tasks that set the LED while another
turns it off; and restarts, power cuts and failing NVS between any two steps of
a save or a boot. `PROJECT.json` lists each hazard at its line.

## Modules

| Module | Models | Extends | Run by |
|---|---|---|---|
| `RtpReorder` | `rtp_reorder.c`, every function | | `MCRtpReorder` |
| `JitterBuffer` | abstract: a window of places counted from the play cursor | | instanced by `RtpReorder` |
| `RtpReceiver` | `rtp_task` with its handlers, drain, feed, resend and timing requests; the sender and the network | `RtpReorder` | `MCRtpReceiver` |
| `AudioRing` | `audio_ringbuf.c`, split where a task can be preempted | | through `Playback` |
| `Playback` | `feed_pcm`, `audio_playback_task`, `audio_drift_decide` | `AudioRing` | `Playback` |
| `ProducerHandoff` | `raop_rtp_start`, `raop_rtp_stop`, the end of `rtp_task`, `audio_diag.c`, the slot of `audio.c` | | `ProducerHandoff` |
| `RtspServer` | `server_task`, its handlers and teardown; senders | `ProducerHandoff` | `MCRtspServer` |
| `RtspFraming` | the receive half of `server_task` and `rtsp_parse_request` | | `MCRtspFraming` |
| `ControlMessages` | what OPTIONS, ANNOUNCE, SETUP and SET_PARAMETER say and leave behind, with their decoders | | `MCControlMessages` |
| `WifiStation` | `wifi.c`: event handlers, reconnect timer, ready task | | through `DeviceSetup` |
| `PortalForm` | the portal's list of networks and its form, in `wifi_provisioning.c` | | through `DeviceSetup` |
| `DeviceSetup` | boot, settings, fallback, button, portal save | `WifiStation`, `PortalForm` | `MCDeviceSetup` |
| `StatusLed` | `system_led.c`, `led_state.c` and the tasks of `main.cpp` that call them | | `StatusLed` |
| `*Proofs` of `RtpReorder`, `RtpReceiver`, `Playback` (with the ring), `RtspServer` (with the producer handoff), `RtspFraming`, `DeviceSetup` (with the station and the portal), `ControlMessages` | the theorems | their module and TLAPS | |
| `Recursion` | what the proofs use of numbers, sequences and recursive functions | TLAPS | |

Conventions. A variable has the name of the C variable it stands for where one
exists, and its comment names it otherwise. An action is a function, a handler,
or the part of one up to the next point where another task can see or change
what it uses. Variables marked *history* are not in the code; they remember what
a property speaks of. An operator `XMutant` before `X` is `X` with a plausible
bug, kept to show that the properties notice it; no specification uses it.

**RtpReorder.** `Window`, `HoldArg` and `SeqMod` are parameters (256, the hold
given to `rtp_reorder_init`, and 2^16 in the firmware); all the arithmetic on
sequence numbers is modulo `SeqMod`. `Insert` accepts any number at any time.
`JitterBuffer` says what this is for without slots and numbers; the refinement
mapping reads place *o* at the slot of `next + o`.

**RtpReceiver.** A datagram is the position of its packet in the stream; the
receiver sees only the wrapping number. `handle_audio`, then `drain_decode` one
packet at a time, `feed_pcm`, and `maybe_request_resend` are steps of one task
(`pc`), so that datagrams arrive and `raop_rtp_stop` is called between them. Two
positions stand for payloads that insert refuses and payloads that do not
decode. A resend request is its bytes, built by the receiver and read by the
sender, so that `Byte` squared is `SeqMod`. In the timing exchange the task
asks before its loop, if it knows the sender's address, and then every `Cadence`
steps of a clock; a sender may wait for the request before it sends audio, may
poll the receiver itself, or may need no timing, and leaves after `Patience`
steps without any. Timing packets may be lost.

**AudioRing and Playback.** Each call of write or read is four steps: grant from
a snapshot of the other side's index, copy up to the wrap, copy the rest,
publish. A frame is its number in the stream. `Playback` puts `feed_pcm` (retry
while full, give up when the session ends) on one side, and the playback cycle
(snapshot, gate, drop or repeat one frame, read a chunk, underrun) on the other.
I2S takes what it is given; the gain is modelled in `ControlMessages`. Every
action of `Playback` is one of `AudioRing` or leaves its variables alone, by the
way it is written, so that what is proved of the ring is proved of it in use.

**ProducerHandoff.** Both producers of the code follow one protocol, written for
any number of them: claim the slot, arm the flags, create the task; ask it to
end, wait for `done`. Each start may fail at each of its steps. Only the RTP
task has a decoder, which start builds and stop frees.

**RtspServer.** `server_task` step by step: `select`, idle check, accept, recv,
one action per request. Requests are kinds (an ANNOUNCE without IV or without
`fmtp`, one that fails to decode, and so on). Descriptors are numbers of a
finite pool, given out lowest first as lwip does, so that a descriptor closed by
mistake is soon another socket. RECORD and teardown go through the handoff of
`ProducerHandoff`, whose RTP task runs beside the server. The environment of a
behaviour is chosen at its start from `Worlds`: which senders there are,
what they may send, whether they keep the order ANNOUNCE, SETUP, RECORD, how
many descriptors there are, how many connections and requests are made (`moves`),
and how often the server is started. Hanging up, and a request without effect
(`OTHER`: OPTIONS, an unknown method), are no moves: where a world has `OTHER`, a
sender may go on with it for ever.

**RtspFraming.** The stream is the sizes of its requests; rx is the interval
`base .. base + used` of it. Parsing looks for the first blank line after
`base`, wherever `base` is: a server that lost its place is a state of the
model, which the properties exclude.

**ControlMessages.** A body is a sequence of lines, or of DMAP items, and may be
cut off anywhere; a header is its name and its words; a challenge, a key and an
address are bytes, a base64 character is its value. The items of a DMAP body are
listed each before those inside it, with how many follow that are (`inside`) and
by how much the item's length is too large (`excess`); `Cells` lays them out.
The decoders are operators on these, loops recursive functions: `base64_decode`
a character at a time, `walk` of `dmap.c` a tag at a time with the stack of ends
that its recursion keeps. What the sender meant is computed beside them from
the items or from the bits of RFC 4648, or given with the input, and kept as
history. RSA tells any two buffers apart and gives back a key that was
encrypted; `powf` is any function that grows with the dB. Widths (`KeyLen`,
`EncMax`, `TextMax`, `AccMod`, `StrMax`, `MaxDepth`, `Unity`, `Word`) are
parameters, and so are the messages. `QuestionsMean`, `AnnouncementsMean`,
`TransportsMean`, `TypesMean`, `TracksMean` and `VolumesMean` assume of these
that they fit the receiver's fields and mean what is given beside them; TLC
evaluates all six on the run's messages. `talk` splits the behaviours by what the messages are about, since
the handlers of streams and of tracks touch no common state.

**WifiStation.** The driver posts events in order and may lose the network at
any time; `esp_wifi_connect` and `esp_timer_start_once` refuse what is under way
already, which the code ignores. The events, the timer and the ready task run on
three tasks and interleave. The backoff doubles in units of `BackoffMin`.
`DeviceSetup` starts the station, and is its callback.

**PortalForm.** The page's options are what `html_escape` makes of the scan, and
the form's body is what a browser (external) sends of what it read and the user
typed, URL-encoded; `url_decode` and the checks of the form are operators on
bytes. A loop of the code is `Loop` over a function that maps an item to a
function of states: `EscapeByte` is a turn of `html_escape`, `DecodeChar` one of
`url_decode`, which keeps its state where it fails and so ends within as many
turns as its buffer has bytes. The page declares UTF-8, but a network's name may be
any bytes: the browser decodes the page (`ShowByte`), with U+FFFD for what is no
character and CR LF for every line end, before it reads the HTML (`ReadByte`). A
name is `Legible` if it passes unchanged.

**DeviceSetup.** A settings entry is what `PortalForm` accepted. NVS returns
what was set at once and keeps for certain what was committed; at a restart
every uncommitted key may or may not be there. The restarts of the fallback
task, the button, a save, a failed `ESP_ERROR_CHECK` or a power cut (`Cuts` of
them) come between any two steps. `Failures` says whether NVS may refuse.
`Scan` is what the scan finds, `Entries` what users may choose and type,
`Saves` the few of those with which the whole boot cycle is run, and `Absent` a
key that is not in NVS.

**StatusLed.** `system_led_set_state` is check, set pixel, refresh, remember;
`system_led_disable` is check, clear, delete. `app_main`, the ready task and
the RTSP task set it, `led_off_task` disables it, and nothing locks.

## Runs

| Run | Instance | Shows |
|---|---|---|
| `reorder` | window 4, hold 2, 16 numbers, two payloads | unread packets lie in the window and in their slots; gap is the missing run; an unread packet is never displaced; the jitter buffer is implemented |
| `receiver` | 9 packets from number 12 of 16, outages of up to 2, packets up to 4 late, timing requests every 3 steps and a sender that waits 2 | in stream order, duration kept, every hole asked for, a newer packet is always buffered, a buffered packet is played, a sender that waits for timing starts |
| `receiver_outage` | the same with outages of 5, a window and more | **violated**: see findings |
| `playback` | ring of 6, chunks and packets of 2, prefill 5, 12 frames | the ring's safety under preemption; drift correction on stale counts: what is played goes on where it ended, but for one frame at a time shed off a brim-full ring; prefill after silence; every frame is played, so that neither task waits for the other for ever |
| `playback_stale` | the same with prefill 3 | **violated**: see findings |
| `handoff` | RTP task and two other producers | one producer; no use after free; nothing left behind; stop returns |
| `server` | one sender that sends anything: 5 connections and requests, 8 descriptors; two senders that keep the order: 7 moves, 6 descriptors; and one that keeps it, 5 moves, but sends requests without effect for as long as it likes | session, key, sockets and RTP task agree whatever the sender does; no descriptor is lost and no live stream ended while senders are orderly; one that falls silent before its stream runs is dropped, and every caller answered |
| `server_reclaim` | two senders that need not be orderly | **violated**: see findings |
| `framing` | buffer of 4, every stream of 3 requests of 5 sizes around that, every cut | answered once, in order, whole or drained; none waits; all that arrived is answered |
| `setup` | a scan with more networks than fit, one of them not UTF-8, names and passwords with every special byte, at and past each limit; one power cut; NVS working and failing; backoff 1 to 4 | a save is durable; what was chosen, of names in UTF-8, or typed is what is saved; a request is honoured; an unreachable network ends in the portal; the station always has an attempt coming and starts the services once |
| `messages` | challenges of 15, 16, 17 and 33 bytes; keys of 4 bytes in a 20-bit accumulator, padded, unpadded and wrapped; a codec at and past each bound; ports present, absent and under odd words; tracks of up to 3 items, nested one too deep, broken, cut anywhere; volumes in and out of range | the answer is to the challenge sent; key, IV, codec and ports are those agreed; track and gain are what the sender meant |
| `led_race` | two streams | **violated**: see findings |

Why the bounds are enough. The windows, rings and buffers are the smallest in
which every branch of the code is taken: packets before, in and after the
window, each wrap of the index and of the numbers, a copy that wraps and one
that does not, a request that ends on the last byte of the buffer. The code
compares distances and never absolute sizes, so larger ones repeat these cases,
and the theorems below remove most of the bounds. In `server`, 5 moves (hanging
up and `OTHER` are free) cover a session up to RECORD and one request more, or a second
connection with half a session, and 7 moves of orderly senders a whole session and
a second one up to its SETUP; the reset between connections is total, which
is what `KeyIsOfThisConnection` checks. A 20-bit accumulator overflows in a key
of 4 bytes as one of 32 bits does in 16. The portal's sizes and the lengths of
challenges are the code's own. `Frames`, `N`, `Length`, `Streams`, `Cuts`, and
`moves` and `starts` of a world bound the model only.

Deadlock is checked in `reorder`, `receiver`, `playback`, `handoff`, `setup` and
`messages`, where the system cannot stop; a server whose senders fell silent
(`server`, `server_reclaim`), a stream that is over (`framing`) and a device
whose streams are counted (`led_race`) come to legal ends.

Fairness. Weak fairness of each task: FreeRTOS schedules a ready task in the
end, and every loop blocks or delays (`select` with a timeout, `vTaskDelay`),
so that none starves another. Time passes (`Tick`). The RTP sender goes on
sending until the stream is over, and a timing packet under way arrives or is
lost, whichever comes.
Nothing else is assumed: RTSP senders, users, the network and the power supply
may do anything or nothing. Liveness in `DeviceSetup` also assumes an NVS that
works, and says so in its properties.

## Theorems

Proved for every value of the constants that the named assumptions admit. Each
inductive invariant was first checked by TLC on the instances above.

`RtpReorderProofs` (window at least 1 and at most half the number space, as 256
of 65536 is). `IInv` is `TypeOK`, `UnreadInWindow`, `NewestUnread` and
`CountExact`: that unread packets are within the window needs the write head
within it, and that the head stays there when the cursor gives up a hole needs
the newest packet to be unread (`NewestUnread`). The lemmas are facts about
distances modulo `SeqMod`. From it follow `ReorderTypeOK`, `ReorderWindow`,
`ReorderCount`, `ReorderKeepsUnread` (an action property),
`ReorderImplementsJitterBuffer` (step simulation), and `ReorderGap`, whose loop
stops at the least unread place of the window.

`RtpReceiverProofs`. A sequence number says which packet it is only while the
network is not too bad: every datagram that arrives is less than a window ahead
of the cursor, and not so old that its number has come round again.
`NetworkBounds` (`Outage < Window`, `Outage + Hold <= Window` and
`Lifetime + Window <= SeqMod`) is what this takes. It is a hypothesis of the
theorems and not an assumption of the module, since `receiver_outage` breaks
it on purpose. From it, positions and numbers agree in the buffer, in the
network and in requests, and `ReceiverInOrder`, `ReceiverNewest` and
`ReceiverAsks` follow. `ReceiverDuration` needs no hypothesis.

`PlaybackProofs` (capacity more than 2, calls of any size). `RingIInv` adds to
the properties of the ring that the frames copied in but not published are the
next ones (`CopiedAhead`) and that grants stay within what is free or available
(`IndicesExact`): what a snapshot granted stays granted, since the other side
only gives. From it: `RingTypes`, `RingKeepsUnread`, `RingReadsInOrder`,
`RingNoDataRace`. `PlaybackIInv` adds to `RingIInv` what each task knows of the
ring at each of its steps: a count taken before is at most what is there now on
the reading side, and the frame repeated is the first unread one. From it:
`PlaybackKeepsUnread`, `PlaybackPad`, `PlaybackPrefilled` and `PlaybackSheds`,
which needs the invariant to tell where in the stream the chunk begins that was
read after a frame was dropped or repeated.

`RtspServerProofs` (any worlds, senders and producers). First the handoff:
`HandoffIInv` says exactly from when to when the slot is held, and relates the
flags to the task's progress. From it: `HandoffExcludes`,
`HandoffNoUseAfterFree`, `HandoffClean`. Then the server: `ServerIInv` stands on
`HandoffIInv` and relates the server's step to the session, its descriptors and
the handoff: a task runs only in a session that is recording, with the sockets
of that session open. From it: `ServerRtpSockets`, `ServerStream`, `ServerKey`.
With orderly senders `OrderlyIInv` is inductive too: a connection has one SETUP
to come at most, so each descriptor is the session's, the connection's or free
(`ServerKeepsSockets`); and what is on its way is in order, so nothing that
arrives takes a live stream out of RECORDING (`ServerKeepsStream`).

`RtspFramingProofs` (any buffer, any stream). `FramingIInv`: `rx[0]` is always
the first byte of the request to be answered next, or the server is draining
that request's body. That the recursive `Start`, which adds up sizes, obeys its
defining equation is shown by the least counterexample. From it:
`FramingFollowsTheStream` and `FramingNothingWaits`.

`DeviceSetupProofs`. `StationInv` follows the timer, the pending events and the
ready task through every interleaving of their tasks (`DeviceNeverStranded`,
`DeviceServicesStartOnce`);
`DurableInv` the keys of a save from NVS to the restart
(`DeviceSavedIsDurable`); `RequestInv` the request for setup
(`DeviceRequestHonoured`). `DeviceChoiceIsTaken` is about the text that passes
through the portal, for every scan and every entry:

- HTML. While `html_escape` has left nothing out it has written `Whole` of the
  name (`FitsWhole`), and a browser that has read that is past a whole entity and
  has the name so far (`ReadWhole`, by induction over the name; within an entity,
  `ReadName`). What `html_escape` leaves whole is `Fits`, which the theorem takes
  for granted of the names selected: it holds of every name of up to 29 bytes and
  of every name of up to 32 without a quote (`ShortFits`), and it fails of names
  with 30 quotes (see below). TLC checks it of the entries of `setup`, where it is
  an ASSUME.
- UTF-8. The browser decodes the page, entities and all, before it reads the HTML.
  That comes to the same as decoding the name first (`ShownWhole`): an entity is
  ASCII, which passes as it is and cuts off a character no sooner than the byte it
  stands for would (`ShowAscii`), and what the decoder puts for other bytes needs
  no entity (`WholeClean`). So what is read is what a browser would show of the name
  (`ReadBack`, for a name of any bytes), and of a legible one the name itself.
- URL encoding. A byte is sent as itself, as `+` or as two digits of either case,
  and each decodes to that byte and leaves the rest (`DecodesFirst`). So after
  `k` turns `url_decode` has the first `k` bytes and the encoding of the others
  before it, unless the text or the room for the terminator has ended
  (`Turns`), and it gives back the text or fails (`Decodes`).
- The form. A text that fits its field is encoded in at most 189 bytes, so the
  192 of `form_value` are never too few (`FieldRead`); the rest is the lengths
  that `save_post_handler` compares (`SubmittedIs`).

`ControlMessagesProofs` (any messages, key length, buffers and bounds). The
work is in the decoders; the invariants are short. `StreamIInv` adds to
`StreamIsTheAgreed` that the key and the IV are arrays of `KeyLen` bytes, and
`VolumeIInv` says that the gain is that of the slider; `ChallengeIsMet` and
`MetadataIsTheNewest` are inductive as they stand.

- A recursive function is a CHOOSE, and its equation may be used only once it is
  known to have a solution. `Iteration` of `Recursion` builds the run of any step
  by the least counterexample, and `Steps` (`EverySequence` for sequences) is the
  induction over a set that goes with it: they are stated for sets, which the
  provers can instantiate.
- Base64. After each character the octets written are those of the sextets read
  so far, the newest sextet is still whole in `acc`, whatever of it has wrapped
  (`AccMod` need only be a multiple of 2^12), and `nbits` of it are to come
  (`Said`). So a text is accepted if and only if it means the wanted number of
  bytes (`DecodedMeans`), and `Encode` is RFC 4648 (`Encoded`). With these,
  `StreamIsAgreed` and `ChallengesAreMet`.
- `GainFollowsSlider`, from the growth of the gain and the symmetry of `Scale`.
- DMAP. Before each step the walk is at the start of an item, inside the
  containers of the list `c` (`Walks`): each is whole, `c` is exactly what is
  around the item, and what was found are the newest texts before it. Entering,
  passing and leaving a container keep this (`OpenEnter`, `OpenPass`,
  `OpenLeave`); of an item that does not fit its container, well-nestedness says
  that it is the last one there (`ItemFits`). Every step is another cell or
  container, so `Len(cells) + 1` of them reach the end (`WalkingEnds`), with the
  newest texts of the whole body (`ParseFinds`). With this, `TrackIsTheNewest`.

Only model-checked: liveness, which is out of the prover's reach
(`StreamGetsGoing`, `BufferedIsPlayed`, `FrameIsPlayed`, `StopReturns`,
`QuietSenderDropped`, `CallerIsAnswered`, `ArrivedIsAnswered`,
`UnreachableOpensPortal`). Every safety property of the passing runs is a
theorem.

## Findings

1. After an outage of a window or more (`receiver_outage`) the packets that follow
   are refused as too new, and the cursor moves over buffered packets only: the
   stream stays silent until the next RECORD, or until the numbers have wrapped
   round to the cursor, some nine minutes later, against `raop_rtp.h:17-18` ("it
   never stalls forever") and `raop/README.md:22` (re-anchors after FLUSH).
2. PCM from before a FLUSH, or from the session before, is played after
   (`playback_stale`), against the design spec, line 114.
3. ANNOUNCE or SETUP during a stream takes it out of RECORDING, and the idle
   check ends it (`server_reclaim`), against `raop/README.md:27-28`.
4. The LED stays lit after `system_led_disable` (`led_race`): a
   `system_led_set_state` that passed its check before (`system_led.c:43`) draws
   after the LED was cleared, against `system_led.h:21-22`.

Also contained in the models, without a run of their own:

- The first `raop_server_start` closes descriptor 0, since the session's
  descriptors are zero before their first reset (`ZeroSession`).
- A repeated SETUP binds three new sockets over the descriptors of the old ones,
  which nothing closes any more (`Setup`).
- RECORD is answered 200 when the RTP task could not be started (`RecordFails`).
- A portal request whose erase fails is taken again by the next boot
  (`TakeRequest`).
- A second save interrupted by the restart of the first leaves the SSID of one
  network with the password of another (`SaveRestart` between `SaveSsid` and
  `SavePass`).
- A drain given up after 30 s of silence is acknowledged, and what follows is
  parsed as requests (`DrainGivesUp`).
- Drift correction sheds a frame only off a brim-full ring and repeats one only
  within a chunk of empty (`Drops`, `Pads`; `audio_playback.c:46-61`), marks that
  the code's comment explains: at 3/4 it crackled. `audio/README.md:22-24` and
  `raop/README.md:91-94` still name 3/4 and 1/4 of the ring's capacity.
- A sender that goes on sending, if only OPTIONS, and never gets to RECORD keeps
  the one session for as long as it likes: any byte received, or drained, starts the
  30 s afresh (`raop.c:515`, `raop.c:493`; `SendRequest` of `OTHER`).
  `QuietSenderDropped` is about silent senders, as `raop.c:17-21` is.
- A network whose name is not UTF-8, or has a line end other than CR LF in it,
  cannot be chosen from the portal's list: the form sends U+FFFD, or CR LF, for the
  bytes, and that name is saved (`ShowByte`).
- A name with 30 quotes or more does not fit `html_escape`'s 180 bytes and is
  listed cut; a form whose fields are all escaped at full length (about 400
  bytes) is refused, as it exceeds `FORM_BODY_MAX`.
- Only 20 headers are kept (`RTSP_MAX_HEADERS`); `ControlMessages` ignores a
  header past them as the code does.

Noticed beside the models: a 32-byte SSID, which the portal accepts and says the
device will join (`wifi_provisioning.c:205`), is cut to 31 bytes when it does
(`wifi.c:88`); a Content-Length past the 20 headers is not seen
(`rtsp_parser.c:64`), so that its body is parsed as a request; a resend request
is sent even if SETUP named no control port (`raop_rtp.c:236-250`: -1 becomes
65535), unlike a timing request; `raop_txt.c:10` advertises `et=0,1`, but
`handle_announce` refuses an ANNOUNCE without a key; and the header comment of
`raop.c:13-14` says an over-long request gets 400, which holds for headers,
while an over-long body gets 200.

## Not modelled

- `alac.c` (vendored): a packet decodes or it does not. RSA, AES, the split of a
  packet into cipher blocks and the import of the key: calls into mbedtls.
- Time stamps and SSRC of packets, and the stamps of the timing exchange, which
  the code sends or ignores but never decides on.
- A volume that is not a number (`strtof` reads `nan`, whose conversion at
  `audio_volume.c:13` is undefined), and the progress line, which is only logged.
- `rtsp_build_response` but for the Apple-Response it carries; a `send` that
  blocks on a sender that does not read.
- The portal's access point and DNS responder, `nvs_flash_erase` after a change
  of the partition table, and calls inside the LED driver while it is deleted.
- I2S, mDNS and the names it advertises, and logging: input and output without
  state of their own.

## Plan

Done: the reorder buffer and its abstraction, the receiver with its resend and
timing exchanges, ring and playback, the producer handoff, the server and its
framing, boot and settings with the station and the portal's form, the messages
of a connection, and the status LED; and the theorems of every module but the
last, the decoders of `ControlMessages` among them.

Left: headers past the limit in `RtspFraming`, which would take a stream of
requests with headers rather than sizes; a `send` that blocks, with what it
means for `raop_server_stop`; and `StatusLed` with calls inside the driver.
