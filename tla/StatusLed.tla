------------------------------- MODULE StatusLed ------------------------------
(***************************************************************************)
(* The status LED (components/system/src/system_led.c, led_state.c) and who  *)
(* sets it (src/main.cpp): app_main at boot, the task of the first address,  *)
(* the RTSP task at each stream's start and end, and led_off_task, which     *)
(* turns it off for good some seconds after the first address.              *)
(*                                                                         *)
(* Nothing locks the LED, so the calls are steps between which another task  *)
(* runs.  The LED shows what it was sent last, powered or not (external);    *)
(* the led_strip driver refuses a null handle.  A call inside the driver when *)
(* the device is deleted is left out.                                       *)
(***************************************************************************)
EXTENDS Naturals

CONSTANT Streams   \* streams started in all, a bound of the model only

VARIABLES
  s_led,         \* is the handle set?
  s_disabled, s_last_state,
  pixel,         \* the led_strip driver's buffer
  shown,         \* external: what the LED shows
  pc,            \* where each task is
  arg,           \* the state each task sets
  streams        \* streams left to start

Setters == {"main", "ready", "rtsp"}
States == {"NEEDS_CREDS", "WIFI_CONNECTING", "CONNECTED_IDLE", "STREAMING"}
Off == <<0, 0, 0>>

vars == <<s_led, s_disabled, s_last_state, pixel, shown, pc, arg, streams>>

(* led_state_color *)
Color == [NEEDS_CREDS |-> <<16, 0, 0>>, WIFI_CONNECTING |-> <<16, 6, 0>>,
          CONNECTED_IDLE |-> <<0, 0, 16>>, STREAMING |-> <<0, 16, 0>>]

(* app_main is past system_led_init, which may fail. *)
Init ==
  /\ s_led \in BOOLEAN /\ s_disabled = FALSE /\ s_last_state = "none"
  /\ pixel = Off /\ shown = Off
  /\ pc = [t \in Setters \cup {"led_off"} |-> "wait"]
  /\ arg = [t \in Setters |-> "NEEDS_CREDS"]
  /\ streams = Streams
-----------------------------------------------------------------------------
(* system_led_set_state(st), called by task t, which is at p afterwards. *)
Ignored(st) == ~s_led \/ s_disabled \/ s_last_state = st

Call(t, st, p) ==
  /\ pc' = [pc EXCEPT ![t] = IF Ignored(st) THEN p ELSE "draw"]
  /\ arg' = [arg EXCEPT ![t] = st]

SetPixel(t) ==
  /\ pc[t] = "draw" /\ pc' = [pc EXCEPT ![t] = "refresh"]
  /\ pixel' = IF s_led THEN Color[arg[t]] ELSE pixel
  /\ UNCHANGED <<s_led, s_disabled, s_last_state, shown, arg, streams>>

Refresh(t) ==
  /\ pc[t] = "refresh" /\ pc' = [pc EXCEPT ![t] = "drawn"]
  /\ shown' = IF s_led THEN pixel ELSE shown
  /\ UNCHANGED <<s_led, s_disabled, s_last_state, pixel, arg, streams>>

Remember(t) ==
  /\ pc[t] = "drawn" /\ pc' = [pc EXCEPT ![t] = "idle"]
  /\ s_last_state' = arg[t]
  /\ UNCHANGED <<s_led, s_disabled, pixel, shown, arg, streams>>

SetState(t) == SetPixel(t) \/ Refresh(t) \/ Remember(t)
-----------------------------------------------------------------------------
(* app_main *)
Boot ==
  /\ pc["main"] = "wait"
  /\ \E st \in {"NEEDS_CREDS", "WIFI_CONNECTING"} : Call("main", st, "idle")
  /\ UNCHANGED <<s_led, s_disabled, s_last_state, pixel, shown, streams>>

(* on_got_ip; then the server's task starts, and led_off_task unless it cannot *)
(* be created.                                                              *)
GotIp ==
  /\ pc["main"] = "idle" /\ arg["main"] = "WIFI_CONNECTING" /\ pc["ready"] = "wait"
  /\ Call("ready", "CONNECTED_IDLE", "idle")
  /\ UNCHANGED <<s_led, s_disabled, s_last_state, pixel, shown, streams>>

StartTasks ==
  /\ pc["ready"] = "idle"
  /\ \E off \in {"on", "wait"} :
       pc' = [pc EXCEPT !["ready"] = "done", !["rtsp"] = "idle", !["led_off"] = off]
  /\ UNCHANGED <<s_led, s_disabled, s_last_state, pixel, shown, arg, streams>>

(* on_raop_event: every reset of a session is an end. *)
Streaming ==
  /\ pc["rtsp"] = "idle" /\ streams > 0
  /\ streams' = streams - 1
  /\ Call("rtsp", "STREAMING", "idle")
  /\ UNCHANGED <<s_led, s_disabled, s_last_state, pixel, shown>>

Ended ==
  /\ pc["rtsp"] = "idle"
  /\ Call("rtsp", "CONNECTED_IDLE", "idle")
  /\ UNCHANGED <<s_led, s_disabled, s_last_state, pixel, shown, streams>>
-----------------------------------------------------------------------------
(* system_led_disable, called by led_off_task. *)
Disable ==
  /\ pc["led_off"] = "on"
  /\ IF ~s_led \/ s_disabled
     THEN pc' = [pc EXCEPT !["led_off"] = "done"] /\ UNCHANGED s_disabled
     ELSE pc' = [pc EXCEPT !["led_off"] = "clear"] /\ s_disabled' = TRUE
  /\ UNCHANGED <<s_led, s_last_state, pixel, shown, arg, streams>>

Clear ==
  /\ pc["led_off"] = "clear" /\ pc' = [pc EXCEPT !["led_off"] = "delete"]
  /\ pixel' = Off /\ shown' = Off
  /\ UNCHANGED <<s_led, s_disabled, s_last_state, arg, streams>>

(* The device is deleted, its handle cleared, and the pin held low. *)
Delete ==
  /\ pc["led_off"] = "delete" /\ pc' = [pc EXCEPT !["led_off"] = "done"]
  /\ s_led' = FALSE
  /\ UNCHANGED <<s_disabled, s_last_state, pixel, shown, arg, streams>>

Next ==
  \/ Boot \/ GotIp \/ StartTasks \/ Streaming \/ Ended
  \/ Disable \/ Clear \/ Delete
  \/ \E t \in Setters : SetState(t)

Spec == Init /\ [][Next]_vars
-----------------------------------------------------------------------------
(***************************************************************************)
(* "Turn the programmable LED off, release RMT, hold GPIO48 low, and ignore  *)
(* later state updates" (system_led.h): once led_off_task is done with it,   *)
(* the LED is dark.                                                         *)
(***************************************************************************)
StaysDark == pc["led_off"] = "done" => shown = Off
=============================================================================
