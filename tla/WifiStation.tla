------------------------------ MODULE WifiStation -----------------------------
(***************************************************************************)
(* The Wi-Fi station (components/network/src/wifi.c): the handlers that the *)
(* system event task runs, the reconnect timer with its backoff, and the     *)
(* one task that tells the application of the first address.  What the       *)
(* driver does with a connection is external: it posts the events, in order. *)
(***************************************************************************)
EXTENDS Naturals, Sequences

CONSTANTS
  BackoffMin,  \* 500
  BackoffMax   \* BACKOFF_MAX_MS (8000)

ASSUME BackoffAssumption ==
  /\ BackoffMin \in Nat \ {0}
  /\ \E n \in 0 .. BackoffMax : BackoffMax = 2^n * BackoffMin

VARIABLES
  radio,      \* the driver's connection
  events,     \* events posted to the system event task
  timer,      \* s_reconnect_timer: is it armed?
  backoff,    \* s_backoff_ms
  readyOnce,  \* s_ready_callback_started
  readyTask   \* where ready_callback_task is

wifiVars == <<radio, events, timer, backoff, readyOnce, readyTask>>

(* No Wi-Fi: after power-on and restarts, and in the setup portal. *)
WifiInit ==
  /\ radio = "off" /\ events = <<>> /\ timer = FALSE
  /\ backoff = BackoffMin /\ readyOnce = FALSE /\ readyTask = "none"
WifiReset ==
  /\ radio' = "off" /\ events' = <<>> /\ timer' = FALSE
  /\ backoff' = BackoffMin /\ readyOnce' = FALSE /\ readyTask' = "none"

(* wifi_start *)
WifiStart ==
  /\ radio' = "idle" /\ events' = <<"START">> /\ readyOnce' = FALSE
  /\ UNCHANGED <<timer, backoff, readyTask>>
-----------------------------------------------------------------------------
(* The driver (external).  A connection attempt fails or succeeds, an address *)
(* comes, and the network may be lost at any time.                          *)
Associated ==
  /\ radio = "connecting" /\ radio' = "associated"
  /\ UNCHANGED <<events, timer, backoff, readyOnce, readyTask>>

AddressComes ==
  /\ radio = "associated" /\ radio' = "up"
  /\ events' = Append(events, "GOT_IP")
  /\ UNCHANGED <<timer, backoff, readyOnce, readyTask>>

Lost ==
  /\ radio \in {"connecting", "associated", "up"} /\ radio' = "idle"
  /\ events' = Append(events, "DISCONNECTED")
  /\ UNCHANGED <<timer, backoff, readyOnce, readyTask>>

(* esp_wifi_connect: an error, which the code ignores, unless it is idle. *)
EspWifiConnect == radio' = IF radio = "idle" THEN "connecting" ELSE radio
-----------------------------------------------------------------------------
Handles(e) == events # <<>> /\ Head(events) = e /\ events' = Tail(events)

OnStart ==
  /\ Handles("START")
  /\ EspWifiConnect
  /\ UNCHANGED <<timer, backoff, readyOnce, readyTask>>

(* schedule_reconnect: arming an armed timer is an error, ignored too. *)
OnDisconnectedMutant ==
  /\ Handles("DISCONNECTED")
  /\ timer' = (timer \/ backoff < BackoffMax)
  /\ backoff' = IF backoff < BackoffMax THEN backoff * 2 ELSE BackoffMax
  /\ UNCHANGED <<radio, readyOnce, readyTask>>
OnDisconnected ==
  /\ Handles("DISCONNECTED")
  /\ timer' = TRUE
  /\ backoff' = IF backoff < BackoffMax THEN backoff * 2 ELSE BackoffMax
  /\ UNCHANGED <<radio, readyOnce, readyTask>>

(* on_ip_event, over whether the task could be created.  The create is after *)
(* the flag, so that the task, which runs at once, finds it set.             *)
OnGotIpMutant(created) ==
  /\ Handles("GOT_IP")
  /\ backoff' = BackoffMin
  /\ readyOnce' = (readyOnce \/ created)
  /\ readyTask' = IF created THEN "run" ELSE readyTask
  /\ UNCHANGED <<radio, timer>>
OnGotIp(created) ==
  /\ Handles("GOT_IP")
  /\ backoff' = BackoffMin
  /\ readyOnce' = (readyOnce \/ created)
  /\ readyTask' = IF ~readyOnce /\ created THEN "run" ELSE readyTask
  /\ UNCHANGED <<radio, timer>>

(* reconnect_cb, on the timer task. *)
Reconnect ==
  /\ timer /\ timer' = FALSE
  /\ EspWifiConnect
  /\ UNCHANGED <<events, backoff, readyOnce, readyTask>>

(* ready_callback_task: the application's callback, which this leaves to it. *)
ReadyTask ==
  /\ readyTask = "run" /\ readyTask' = "done"
  /\ UNCHANGED <<radio, events, timer, backoff, readyOnce>>
-----------------------------------------------------------------------------
Driver == Associated \/ AddressComes \/ Lost

(***************************************************************************)
(* A station without a connection always has one coming: an event still to  *)
(* be handled that leads to an attempt, or the timer armed ("reconnects with *)
(* backoff", wifi.h), whatever events come in between and however often the  *)
(* driver and the timer refuse what is asked of them.                       *)
(***************************************************************************)
NeverStranded ==
  radio = "idle" => timer \/ \E i \in DOMAIN events : events[i] \in {"START", "DISCONNECTED"}
=============================================================================
