-------------------------- MODULE DeviceSetupProofs ---------------------------
(***************************************************************************)
(* Proofs about boots, restarts and saves for every set of networks, number  *)
(* of power cuts and backoff, with NVS and task creation working or failing: *)
(* the Wi-Fi station always has an attempt coming and starts the services     *)
(* once, what was answered as saved stays saved, and a request for the portal *)
(* is honoured.  Then the text that passes through the portal: what a browser *)
(* reads of a name that html_escape wrote, what url_decode reads of what a     *)
(* browser or a script encoded, and so that the portal takes what was chosen. *)
(***************************************************************************)
EXTENDS DeviceSetup, Recursion

-----------------------------------------------------------------------------
(* NVS.  A key keeps its value unless it is set; a restart leaves what NVS    *)
(* returned, or what was committed.                                         *)
Keys == {"ssid", "pass", "setup"}
StoreOK == DOMAIN nvs = Keys /\ DOMAIN flash = Keys

LEMMA RestartStore ==
  ASSUME StoreOK, Restart
  PROVE  /\ StoreOK'
         /\ \A k \in Keys : nvs'[k] \in {nvs[k], flash[k]} /\ flash'[k] = nvs'[k]
BY DEF StoreOK, Restart, Keys

LEMMA SetStore ==
  ASSUME StoreOK, NEW k \in Keys, NEW v, Set(k, v)
  PROVE  /\ StoreOK' /\ flash' = flash /\ nvs'[k] = v
         /\ \A j \in Keys : j # k => nvs'[j] = nvs[j]
BY DEF StoreOK, Set, Keys

LEMMA SetCommittedStore ==
  ASSUME StoreOK, NEW k \in Keys, NEW v, SetCommitted(k, v)
  PROVE  /\ StoreOK' /\ flash' = nvs' /\ nvs'[k] = v
         /\ \A j \in Keys : j # k => nvs'[j] = nvs[j]
BY DEF StoreOK, SetCommitted, Keys

LEMMA SetFailsStore ==
  ASSUME StoreOK, NEW k \in Keys, NEW v, SetFails(k, v)
  PROVE  /\ StoreOK' /\ failing /\ flash' = flash
         /\ \A j \in Keys : j # k => nvs'[j] = nvs[j]
BY SetStore DEF StoreOK, SetFails, store

(* The five ways to restart. *)
Restarting == PowerCut \/ BootAborts \/ FallbackRestart \/ ButtonRestart \/ SaveRestart
LEMMA RestartingIsRestart ==
  ASSUME Restarting
  PROVE  Restart /\ Volatile /\ UNCHANGED <<failing, saved, asked>>
BY DEF Restarting, PowerCut, BootAborts, FallbackRestart, ButtonRestart, SaveRestart,
       Restart, world, history

-----------------------------------------------------------------------------
(* The Wi-Fi station and the services. *)
Event == {"START", "DISCONNECTED", "GOT_IP"}
StationInv ==
  /\ events \in Seq(Event)
  /\ readyTask \in {"none", "run", "done"}
  /\ at # "station" =>
       radio = "off" /\ events = <<>> /\ timer = FALSE /\ readyTask = "none"
  /\ readyOnce <=> readyTask # "none"
  /\ services = IF readyTask = "done" THEN 1 ELSE 0
  /\ NeverStranded /\ ServicesStartOnce

LEMMA StationInitial == Init => StationInv
BY DEF Init, WifiInit, StationInv, NeverStranded, ServicesStartOnce

LEMMA StationRestarts == ASSUME Restarting PROVE StationInv'
BY RestartingIsRestart
   DEF Volatile, WifiReset, StationInv, NeverStranded, ServicesStartOnce

(* Handling an event takes it off the queue; the others stay. *)
LEMMA HandlesKeeps ==
  ASSUME events \in Seq(Event), NEW e \in Event, Handles(e)
  PROVE  /\ events' \in Seq(Event)
         /\ \A f \in Event : f # e /\ (\E i \in DOMAIN events : events[i] = f)
              => \E i \in DOMAIN events' : events'[i] = f
<1>1. events # <<>> /\ events[1] = e /\ events' = Tail(events)
  BY DEF Handles
<1>2. events' \in Seq(Event) /\ Len(events') = Len(events) - 1
      /\ \A i \in 1 .. Len(events) - 1 : events'[i] = events[i + 1]
  BY <1>1
<1>3. ASSUME NEW f \in Event, f # e, NEW i \in DOMAIN events, events[i] = f
      PROVE  \E j \in DOMAIN events' : events'[j] = f
  <2>1. i \in 2 .. Len(events)
    BY <1>1, <1>3
  <2>2. i - 1 \in DOMAIN events' /\ events'[i - 1] = f
    BY <1>2, <1>3, <2>1
  <2> QED BY <2>2
<1> QED BY <1>2, <1>3

LEMMA AppendKeeps ==
  ASSUME events \in Seq(Event), NEW e \in Event, events' = Append(events, e)
  PROVE  /\ events' \in Seq(Event)
         /\ \E i \in DOMAIN events' : events'[i] = e
         /\ \A f : (\E i \in DOMAIN events : events[i] = f)
              => \E i \in DOMAIN events' : events'[i] = f
<1>1. events' \in Seq(Event) /\ Len(events') = Len(events) + 1
      /\ events'[Len(events) + 1] = e
      /\ \A i \in 1 .. Len(events) : events'[i] = events[i]
  OBVIOUS
<1> QED BY <1>1

LEMMA StationDriver == ASSUME StationInv, Wifi, Driver PROVE StationInv'
<1> USE DEF StationInv, NeverStranded, ServicesStartOnce
<1>1. UNCHANGED <<timer, backoff, readyOnce, readyTask, at, services, failing>>
  BY DEF Wifi, Driver, Associated, AddressComes, Lost, main, world
<1>2. CASE Associated
  BY <1>1, <1>2 DEF Associated
<1>3. CASE AddressComes
  <2>1. events' = Append(events, "GOT_IP") /\ radio' = "up" /\ radio # "off"
    BY <1>3 DEF AddressComes
  <2>2. events' \in Seq(Event) /\ \E i \in DOMAIN events' : events'[i] = "GOT_IP"
    BY <2>1, AppendKeeps DEF Event
  <2> QED BY <1>1, <2>1, <2>2
<1>4. CASE Lost
  <2>1. events' = Append(events, "DISCONNECTED") /\ radio' = "idle" /\ radio # "off"
    BY <1>4 DEF Lost
  <2>2. events' \in Seq(Event) /\ \E i \in DOMAIN events' : events'[i] = "DISCONNECTED"
    BY <2>1, AppendKeeps DEF Event
  <2> QED BY <1>1, <2>1, <2>2
<1> QED BY <1>2, <1>3, <1>4 DEF Driver

(* An attempt leaves no station idle, and nothing else of the radio changes. *)
LEMMA Attempt ==
  ASSUME EspWifiConnect
  PROVE  radio' # "idle" /\ (radio' = "up" <=> radio = "up") /\ (radio = "off" => radio' = "off")
BY DEF EspWifiConnect

LEMMA StationEvents ==
  ASSUME StationInv, Wifi, OnStart \/ OnDisconnected \/ OnGotIp(TRUE) \/ (failing /\ OnGotIp(FALSE))
  PROVE  StationInv'
<1> USE DEF StationInv, NeverStranded, ServicesStartOnce
<1>1. UNCHANGED <<at, services, failing>>
  BY DEF Wifi, main, world
<1>2. CASE OnStart
  <2>1. Handles("START") /\ EspWifiConnect /\ UNCHANGED <<timer, readyOnce, readyTask>>
    BY <1>2 DEF OnStart
  <2>2. events # <<>> /\ at = "station"
    BY <2>1 DEF Handles
  <2>3. events' \in Seq(Event)
        /\ ((\E i \in DOMAIN events : events[i] = "GOT_IP")
              => \E i \in DOMAIN events' : events'[i] = "GOT_IP")
    BY <2>1, HandlesKeeps DEF Event
  <2> QED BY <1>1, <2>1, <2>2, <2>3, Attempt
<1>3. CASE OnDisconnected
  <2>1. Handles("DISCONNECTED") /\ timer' = TRUE /\ UNCHANGED <<radio, readyOnce, readyTask>>
    BY <1>3 DEF OnDisconnected
  <2>2. events # <<>> /\ at = "station"
    BY <2>1 DEF Handles
  <2>3. events' \in Seq(Event)
        /\ ((\E i \in DOMAIN events : events[i] = "GOT_IP")
              => \E i \in DOMAIN events' : events'[i] = "GOT_IP")
    BY <2>1, HandlesKeeps DEF Event
  <2> QED BY <1>1, <2>1, <2>2, <2>3
<1>4. ASSUME NEW created \in BOOLEAN, OnGotIp(created), created \/ failing
      PROVE  StationInv'
  <2>1. /\ Handles("GOT_IP") /\ UNCHANGED <<radio, timer>>
        /\ readyOnce' = (readyOnce \/ created)
        /\ readyTask' = IF ~readyOnce /\ created THEN "run" ELSE readyTask
    BY <1>4 DEF OnGotIp
  <2>2. events # <<>> /\ at = "station"
    BY <2>1 DEF Handles
  <2>3. events' \in Seq(Event)
        /\ ((\E i \in DOMAIN events : events[i] \in {"START", "DISCONNECTED"})
              => \E i \in DOMAIN events' : events'[i] \in {"START", "DISCONNECTED"})
    BY <2>1, HandlesKeeps DEF Event
  <2>4. readyTask' \in {"none", "run", "done"} /\ (readyOnce' <=> readyTask' # "none")
    BY <2>1
  <2>5. readyTask' = "done" <=> readyTask = "done"
    BY <2>1
  <2>6. ~failing => services = 1 \/ readyTask' = "run"
    BY <2>1, <1>4
  <2> QED BY <1>1, <2>1, <2>2, <2>3, <2>4, <2>5, <2>6
<1> QED BY <1>2, <1>3, <1>4

LEMMA StationWifi == ASSUME StationInv, Wifi PROVE StationInv'
<1>1. CASE Reconnect
  <2>1. timer /\ EspWifiConnect /\ UNCHANGED <<events, readyOnce, readyTask>>
    BY <1>1 DEF Reconnect
  <2>2. UNCHANGED <<at, services, failing>>
    BY DEF Wifi, main, world
  <2>3. at = "station"
    BY <2>1 DEF StationInv
  <2> QED BY <2>1, <2>2, <2>3, Attempt
          DEF StationInv, NeverStranded, ServicesStartOnce
<1> QED BY <1>1, StationDriver, StationEvents DEF Wifi

LEMMA StationCallback == ASSUME StationInv, OnGotIpCallback PROVE StationInv'
<1>1. /\ readyTask = "run" /\ readyTask' = "done" /\ services' = services + 1
      /\ UNCHANGED <<radio, events, timer, readyOnce, at, failing>>
  BY DEF OnGotIpCallback, ReadyTask, main, world
<1> QED BY <1>1 DEF StationInv, NeverStranded, ServicesStartOnce

LEMMA StationStarts == ASSUME StationInv, StartStation PROVE StationInv'
<1>1. /\ at = "start" /\ at' = "station" /\ radio' = "idle" /\ events' = <<"START">>
      /\ readyOnce' = FALSE /\ UNCHANGED <<timer, readyTask, services, failing>>
  BY DEF StartStation, WifiStart, world
<1>2. events' \in Seq(Event) /\ 1 \in DOMAIN events' /\ events'[1] = "START"
  BY <1>1 DEF Event
<1>3. readyTask = "none"
  BY <1>1 DEF StationInv
<1> QED BY <1>1, <1>2, <1>3 DEF StationInv, NeverStranded, ServicesStartOnce

(* Every other step leaves the station as it is, and app_main out of its mode. *)
StationFrame ==
  /\ UNCHANGED <<wifiVars, services, failing>>
  /\ at' = at \/ "station" \notin {at, at'}
LEMMA StationFramed == ASSUME StationInv, StationFrame PROVE StationInv'
BY DEF StationFrame, wifiVars, StationInv, NeverStranded, ServicesStartOnce

LEMMA StationNext == ASSUME StationInv, [Next]_vars PROVE StationInv'
<1>1. CASE UNCHANGED vars
  BY <1>1, StationFramed DEF StationFrame, vars, station, main, world
<1>2. CASE Press \/ SaveBegin \/ Save
  BY <1>2, StationFramed DEF StationFrame, Press, SaveBegin, Save, SaveSsid, SavePass,
     SaveCommit, SaveFails, station, main, world
<1>3. CASE LoadSsid \/ LoadPass \/ TakeNothing \/ TakeRequest \/ StartPortal
  BY <1>3, StationFramed DEF StationFrame, LoadSsid, LoadPass, TakeNothing, TakeRequest,
     StartPortal, station, world
<1>4. CASE FallbackCheck \/ FallbackAsk \/ ButtonPoll \/ ButtonAsk
  BY <1>4, StationFramed DEF StationFrame, FallbackCheck, FallbackAsk, ButtonPoll, ButtonAsk,
     main, world
<1> QED BY <1>1, <1>2, <1>3, <1>4, StationRestarts, StationWifi, StationCallback, StationStarts
        DEF Next, Main, Fallback, Button, Restarting

(***************************************************************************)
(* In every boot a station without a connection has an attempt coming         *)
(* (wifi.c:23, 31-45), for every order of driver events and every backoff.    *)
(***************************************************************************)
THEOREM DeviceNeverStranded == Spec => []NeverStranded
<1>1. StationInv => NeverStranded
  BY DEF StationInv
<1> QED BY <1>1, StationInitial, StationNext, PTL DEF Spec

(***************************************************************************)
(* In every boot mDNS and the RTSP server are started at most once, and with  *)
(* task creation working the first address starts them (wifi.c:47-65).        *)
(***************************************************************************)
THEOREM DeviceServicesStartOnce == Spec => []ServicesStartOnce
<1>1. StationInv => ServicesStartOnce
  BY DEF StationInv
<1> QED BY <1>1, StationInitial, StationNext, PTL DEF Spec

-----------------------------------------------------------------------------
(* What is saved.  NVS returns what is committed of it, and the portal has     *)
(* set what it is about to commit.                                          *)
Saving == portal \in {"ssid", "pass", "commit"}
DurableInv ==
  /\ StoreOK
  /\ portal # "none" => at = "portal"
  /\ Saving => saved = Nothing /\ form \in Submissions
  /\ portal \in {"pass", "commit"} => nvs["ssid"] = form.ssid
  /\ portal = "commit" => nvs["pass"] = form.pass
  /\ saved # Nothing =>
       /\ saved \in Submissions
       /\ nvs["ssid"] = saved.ssid /\ flash["ssid"] = saved.ssid
       /\ nvs["pass"] = saved.pass /\ flash["pass"] = saved.pass

LEMMA DurableInitial == Init => DurableInv
BY DEF Init, DurableInv, StoreOK, Saving, Keys, Blank

LEMMA DurableRestarts == ASSUME DurableInv, Restarting PROVE DurableInv'
<1>1. Restart /\ portal' = "none" /\ UNCHANGED saved
  BY RestartingIsRestart DEF Volatile
<1>2. StoreOK' /\ \A k \in Keys : nvs'[k] \in {nvs[k], flash[k]} /\ flash'[k] = nvs'[k]
  BY <1>1, RestartStore DEF DurableInv
<1> QED BY <1>1, <1>2 DEF DurableInv, Saving, Keys

(* app_main seeds only a key that NVS has not, and nothing saved is Absent. *)
LEMMA Seeds ==
  ASSUME DurableInv, NEW k \in {"ssid", "pass"}, LoadOrSeed(k), portal = "none",
         UNCHANGED <<portal, saved>>
  PROVE  DurableInv'
<1>1. k \in Keys
  BY DEF Keys
<1>2. CASE UNCHANGED store
  BY <1>2 DEF DurableInv, StoreOK, Saving, store
<1>3. CASE nvs[k] = Absent
  <2>1. saved = Nothing
    BY <1>3, AbsentAssumption DEF DurableInv, Text
  <2>2. StoreOK'
    BY <1>1, <1>2, SetCommittedStore, SetFailsStore DEF LoadOrSeed, DurableInv
  <2> QED BY <2>1, <2>2 DEF DurableInv, Saving
<1> QED BY <1>2, <1>3 DEF LoadOrSeed

(* The key of the request is another one. *)
LEMMA OtherKey ==
  ASSUME DurableInv, NEW v, SetCommitted("setup", v) \/ SetFails("setup", v),
         UNCHANGED <<portal, saved, form>>, portal = "none" \/ at' = at
  PROVE  DurableInv'
<1>1. /\ StoreOK' /\ nvs'["ssid"] = nvs["ssid"] /\ nvs'["pass"] = nvs["pass"]
      /\ flash'["ssid"] \in {flash["ssid"], nvs'["ssid"]}
      /\ flash'["pass"] \in {flash["pass"], nvs'["pass"]}
  BY SetCommittedStore, SetFailsStore DEF DurableInv, Keys
<1> QED BY <1>1 DEF DurableInv, Saving

LEMMA DurableFramed ==
  ASSUME DurableInv, UNCHANGED <<nvs, flash, portal, form, saved>>,
         portal = "none" \/ at' = at
  PROVE  DurableInv'
BY DEF DurableInv, StoreOK, Saving

LEMMA DurableBoot == ASSUME DurableInv, Main PROVE DurableInv'
<1>1. CASE LoadSsid
  <2>1. at = "ssid" /\ LoadOrSeed("ssid") /\ UNCHANGED <<portal, saved>>
    BY <1>1 DEF LoadSsid, web, history
  <2> QED BY <2>1, Seeds DEF DurableInv
<1>2. CASE LoadPass
  <2>1. at = "pass" /\ LoadOrSeed("pass") /\ UNCHANGED <<portal, saved>>
    BY <1>2 DEF LoadPass, web, history
  <2> QED BY <2>1, Seeds DEF DurableInv
<1>3. CASE TakeNothing
  BY <1>3, DurableFramed DEF TakeNothing, DurableInv, store, web, history
<1>4. CASE TakeRequest
  <2>1. /\ SetCommitted("setup", Absent) \/ SetFails("setup", Absent)
        /\ at = "take" /\ UNCHANGED <<portal, form, saved>>
    BY <1>4 DEF TakeRequest, web
  <2> QED BY <2>1, OtherKey DEF DurableInv
<1>5. CASE StartStation
  BY <1>5, DurableFramed DEF StartStation, DurableInv, store, web, history
<1>6. CASE StartPortal
  BY <1>6 DEF StartPortal, DurableInv, StoreOK, Saving, store, history
<1> QED BY <1>1, <1>2, <1>3, <1>4, <1>5, <1>6 DEF Main

LEMMA DurableSave == ASSUME DurableInv, SaveBegin \/ Save PROVE DurableInv'
<1>1. CASE SaveBegin
  BY <1>1 DEF SaveBegin, DurableInv, StoreOK, Saving, store, main
<1>2. CASE SaveSsid
  <2>1. /\ portal = "ssid" /\ portal' = "pass" /\ Set("ssid", form.ssid)
        /\ UNCHANGED <<at, form, saved>>
    BY <1>2 DEF SaveSsid, main, history
  <2>2. StoreOK' /\ nvs'["ssid"] = form.ssid
    BY <2>1, SetStore DEF DurableInv, Keys
  <2> QED BY <2>1, <2>2 DEF DurableInv, Saving
<1>3. CASE SavePass
  <2>1. /\ portal = "pass" /\ portal' = "commit" /\ Set("pass", form.pass)
        /\ UNCHANGED <<at, form, saved>>
    BY <1>3 DEF SavePass, main, history
  <2>2. StoreOK' /\ nvs'["pass"] = form.pass /\ nvs'["ssid"] = nvs["ssid"]
    BY <2>1, SetStore DEF DurableInv, Keys
  <2> QED BY <2>1, <2>2 DEF DurableInv, Saving
<1>4. CASE SaveCommit
  <2>1. /\ portal = "commit" /\ portal' = "idle" /\ flash' = nvs /\ nvs' = nvs
        /\ saved' = form /\ UNCHANGED <<at, form>>
    BY <1>4 DEF SaveCommit, Commit
  <2> QED BY <2>1 DEF DurableInv, StoreOK, Saving
<1>5. CASE SaveFails
  BY <1>5 DEF SaveFails, DurableInv, StoreOK, Saving, store, main, history
<1> QED BY <1>1, <1>2, <1>3, <1>4, <1>5 DEF Save

LEMMA Asks ==
  ASSUME DurableInv, FallbackAsk \/ ButtonAsk
  PROVE  DurableInv'
<1>1. /\ SetCommitted("setup", "one") \/ SetFails("setup", "one")
      /\ UNCHANGED <<at, portal, form, saved>>
  BY DEF FallbackAsk, ButtonAsk, RequestAccepted, RequestFails, main, web
<1> QED BY <1>1, OtherKey

LEMMA DurableNext == ASSUME DurableInv, [Next]_vars PROVE DurableInv'
<1>1. CASE UNCHANGED vars
  BY <1>1, DurableFramed DEF vars, store, main, web, history
<1>2. CASE Press \/ Wifi \/ OnGotIpCallback \/ FallbackCheck \/ ButtonPoll
  BY <1>2, DurableFramed DEF Press, Wifi, OnGotIpCallback, FallbackCheck, ButtonPoll,
     store, main, web, history
<1> QED BY <1>1, <1>2, DurableRestarts, DurableBoot, DurableSave, Asks
        DEF Next, Fallback, Button, Restarting

(***************************************************************************)
(* What the portal answered as saved is on flash, both halves of it, until    *)
(* another save begins (system_config.c:76-98).                              *)
(***************************************************************************)
THEOREM DeviceSavedIsDurable == Spec => []SavedIsDurable
<1>1. DurableInv => SavedIsDurable
  BY DEF DurableInv, SavedIsDurable
<1> QED BY <1>1, DurableInitial, DurableNext, PTL DEF Spec

-----------------------------------------------------------------------------
(* Requests for the portal.  One that was accepted is committed until app_main *)
(* takes it, and only a device in station mode asks.                        *)
RequestInv ==
  /\ StoreOK
  /\ at # "station" => fallback = "none" /\ button = "none"
  /\ asked = "accepted" /\ ~failing =>
       nvs["setup"] = "one" /\ flash["setup"] = "one" /\ at # "start"

LEMMA RequestInitial == Init => RequestInv
BY DEF Init, RequestInv, StoreOK, Keys, Blank

LEMMA RequestRestarts == ASSUME RequestInv, Restarting PROVE RequestInv'
<1>1. /\ Restart /\ at' = "ssid" /\ fallback' = "none" /\ button' = "none"
      /\ UNCHANGED <<asked, failing>>
  BY RestartingIsRestart DEF Volatile
<1>2. StoreOK' /\ nvs'["setup"] \in {nvs["setup"], flash["setup"]} /\ flash'["setup"] = nvs'["setup"]
  BY <1>1, RestartStore DEF RequestInv, Keys
<1> QED BY <1>1, <1>2 DEF RequestInv

(* Setting another key leaves the request. *)
LEMMA RequestOtherKey ==
  ASSUME RequestInv, NEW k \in {"ssid", "pass"}, NEW v,
         Set(k, v) \/ SetCommitted(k, v) \/ SetFails(k, v),
         UNCHANGED <<asked, failing, fallback, button>>,
         at' = at \/ (at # "station" /\ at' \notin {"station", "start"})
  PROVE  RequestInv'
<1>1. StoreOK' /\ nvs'["setup"] = nvs["setup"] /\ flash'["setup"] \in {flash["setup"], nvs'["setup"]}
  BY SetStore, SetCommittedStore, SetFailsStore DEF RequestInv, Keys
<1> QED BY <1>1 DEF RequestInv

LEMMA RequestFramed ==
  ASSUME RequestInv, UNCHANGED <<nvs, asked, failing>>,
         flash' \in {flash, nvs},
         at' = at \/ (at' # "start" /\ at # "station"),
         at # "station" => UNCHANGED <<fallback, button>> \/ at' = "station"
  PROVE  RequestInv'
BY DEF RequestInv, StoreOK

LEMMA RequestBoot == ASSUME RequestInv, Main PROVE RequestInv'
<1>1. CASE LoadSsid
  <2>1. /\ at = "ssid" /\ at' = "pass" /\ LoadOrSeed("ssid")
        /\ UNCHANGED <<asked, failing, fallback, button>>
    BY <1>1 DEF LoadSsid, station, world, history
  <2>2. CASE UNCHANGED store
    BY <2>1, <2>2, RequestFramed DEF store
  <2> QED BY <2>1, <2>2, RequestOtherKey DEF LoadOrSeed
<1>2. CASE LoadPass
  <2>1. /\ at = "pass" /\ at' = "take" /\ LoadOrSeed("pass")
        /\ UNCHANGED <<asked, failing, fallback, button>>
    BY <1>2 DEF LoadPass, station, world, history
  <2>2. CASE UNCHANGED store
    BY <2>1, <2>2, RequestFramed DEF store
  <2> QED BY <2>1, <2>2, RequestOtherKey DEF LoadOrSeed
<1>3. CASE TakeNothing
  <2>1. /\ at = "take" /\ at' = "start"
        /\ nvs["setup"] = Absent \/ failing
        /\ UNCHANGED <<nvs, flash, asked, failing, fallback, button>>
    BY <1>3 DEF TakeNothing, store, station, world, history
  <2> QED BY <2>1, SetupAssumption DEF RequestInv, StoreOK
<1>4. CASE TakeRequest
  <2>1. /\ at = "take" /\ at' = "start" /\ asked' = "no"
        /\ SetCommitted("setup", Absent) \/ SetFails("setup", Absent)
        /\ UNCHANGED <<failing, fallback, button>>
    BY <1>4 DEF TakeRequest, station, world
  <2>2. StoreOK'
    BY <2>1, SetCommittedStore, SetFailsStore DEF RequestInv, Keys
  <2> QED BY <2>1, <2>2 DEF RequestInv
<1>5. CASE StartStation
  BY <1>5, RequestFramed DEF StartStation, store, world, history
<1>6. CASE StartPortal
  BY <1>6, RequestFramed DEF StartPortal, store, station, world, history
<1> QED BY <1>1, <1>2, <1>3, <1>4, <1>5, <1>6 DEF Main

LEMMA RequestAsks == ASSUME RequestInv, FallbackAsk \/ ButtonAsk PROVE RequestInv'
<1>1. at = "station" /\ at' = at /\ failing' = failing
      /\ (RequestAccepted \/ RequestFails)
  BY DEF FallbackAsk, ButtonAsk, RequestInv, main, world
<1>2. CASE RequestAccepted
  <2>1. StoreOK' /\ nvs'["setup"] = "one" /\ flash' = nvs'
    BY <1>2, SetCommittedStore DEF RequestAccepted, RequestInv, Keys
  <2> QED BY <1>1, <2>1 DEF RequestInv
<1>3. CASE RequestFails
  <2>1. StoreOK' /\ failing
    BY <1>3, SetFailsStore DEF RequestFails, RequestInv, Keys
  <2> QED BY <1>1, <2>1 DEF RequestInv
<1> QED BY <1>1, <1>2, <1>3

LEMMA RequestSave == ASSUME RequestInv, SaveBegin \/ Save PROVE RequestInv'
<1>1. UNCHANGED <<at, asked, failing, fallback, button>>
  BY DEF SaveBegin, Save, SaveSsid, SavePass, SaveCommit, SaveFails, main, station, world, history
<1>2. CASE SaveBegin \/ SaveFails \/ SaveCommit
  BY <1>1, <1>2, RequestFramed DEF SaveBegin, SaveFails, SaveCommit, Commit, store
<1>3. CASE SaveSsid \/ SavePass
  BY <1>1, <1>3, RequestOtherKey DEF SaveSsid, SavePass
<1> QED BY <1>2, <1>3 DEF Save

LEMMA RequestNext == ASSUME RequestInv, [Next]_vars PROVE RequestInv'
<1>1. CASE UNCHANGED vars
  BY <1>1, RequestFramed DEF vars, store, main, station, world, history
<1>2. CASE Press \/ Wifi \/ OnGotIpCallback
  BY <1>2, RequestFramed DEF Press, Wifi, OnGotIpCallback, store, main, station, world, history
<1>3. CASE FallbackCheck \/ ButtonPoll
  <2>1. at = "station" /\ UNCHANGED <<nvs, flash, at, asked, failing>>
    BY <1>3 DEF FallbackCheck, ButtonPoll, RequestInv, store, main, world, history
  <2> QED BY <2>1, RequestFramed
<1> QED BY <1>1, <1>2, <1>3, RequestRestarts, RequestBoot, RequestSave, RequestAsks
        DEF Next, Fallback, Button, Restarting

(***************************************************************************)
(* With NVS working, no boot joins a network past an accepted request for the *)
(* portal (system_config.c:100-133, main.cpp:167-187).                       *)
(***************************************************************************)
THEOREM DeviceRequestHonoured == Spec => RequestHonoured
<1>1. RequestInv => [StartStation /\ asked = "accepted" => failing]_vars
  BY DEF RequestInv, StartStation
<1> QED BY <1>1, RequestInitial, RequestNext, PTL DEF Spec, RequestHonoured
-----------------------------------------------------------------------------
(* The loop over a sequence: its states are those of the recursion, and one    *)
(* item more is one step more.                                              *)
LoopRuns(B, b, step, s) ==
  {f \in [0 .. Len(s) -> B] :
     /\ f[0] = b /\ \A i \in 1 .. Len(s) : f[i] = step[s[i]][f[i - 1]]
     /\ Loop(step, b, s) = f[Len(s)]}

LEMMA LoopIs ==
  ASSUME NEW B, NEW C, NEW b \in B, NEW step \in [C -> [B -> B]], NEW s \in Seq(C)
  PROVE  LoopRuns(B, b, step, s) # {}
<1> DEFINE N == Len(s)
           turn == [p \in B \X (1 .. N) |-> step[s[p[2]]][p[1]]]
           Body(g) == [n \in 0 .. N |-> IF n = 0 THEN b ELSE step[s[n]][g[n - 1]]]
           f == CHOOSE g : g = Body(g)
<1>1. N \in Nat /\ \A i \in 1 .. N : s[i] \in C
  OBVIOUS
<1>2. Loop(step, b, s) = f[N]
  BY DEF Loop
<1> HIDE DEF N
<1>3. turn \in [B \X (1 .. N) -> B]
  BY <1>1
<1>4. \A x \in B, i \in 1 .. N : turn[<<x, i>>] = step[s[i]][x]
  OBVIOUS
<1> HIDE DEF turn
<1>5. PICK g \in Runs(B, b, N, turn) : TRUE
  <2>1. Runs(B, b, N, turn) # {}
    BY <1>1, <1>3, Iteration
  <2> QED BY <2>1, Zenon
<1>6. /\ g \in [0 .. N -> B] /\ g[0] = b
      /\ \A i \in 1 .. N : g[i] = turn[<<g[i - 1], i>>]
  BY <1>5 DEF Runs
<1>7. \A i \in 1 .. N : i - 1 \in 0 .. N /\ i \in 0 .. N /\ i # 0
  BY <1>1
<1>8. \A i \in 1 .. N : g[i] = step[s[i]][g[i - 1]]
  BY <1>4, <1>6, <1>7
<1>9. \A i \in 0 .. N : i # 0 => i \in 1 .. N
  BY <1>1
<1>10. g = Body(g)
  BY <1>6, <1>8, <1>9
<1>11. f = Body(f)
  BY <1>10
<1> HIDE DEF f
<1>12. f[0] = b /\ \A i \in 1 .. N : f[i] = step[s[i]][f[i - 1]]
  BY <1>1, <1>7, <1>11
<1> DEFINE S == {i \in 0 .. N : f[i] \in B}
<1>13. 0 \in S
  BY <1>1, <1>12
<1>14. ASSUME NEW i \in 1 .. N, i - 1 \in S
       PROVE  i \in S
  <2>1. f[i] \in B
    BY <1>1, <1>12, <1>14
  <2> QED BY <1>7, <2>1
<1>15. \A i \in 0 .. N : i \in S
  <2> HIDE DEF S
  <2> QED BY <1>1, <1>13, <1>14, Steps
<1>16. f \in [0 .. N -> B]
  BY <1>11, <1>15
<1>17. f \in LoopRuns(B, b, step, s)
  BY <1>2, <1>12, <1>16 DEF N, LoopRuns
<1> QED BY <1>17

LEMMA LoopEmpty ==
  ASSUME NEW B, NEW C, NEW b \in B, NEW step \in [C -> [B -> B]]
  PROVE  Loop(step, b, <<>>) = b
<1>1. <<>> \in Seq(C) /\ Len(<<>>) = 0
  OBVIOUS
<1>2. PICK f : f \in LoopRuns(B, b, step, <<>>)
  <2>1. LoopRuns(B, b, step, <<>>) # {}
    BY <1>1, LoopIs
  <2> QED BY <2>1, Zenon
<1> QED BY <1>1, <1>2 DEF LoopRuns

LEMMA LoopAppend ==
  ASSUME NEW B, NEW C, NEW b \in B, NEW step \in [C -> [B -> B]], NEW s \in Seq(C), NEW c \in C
  PROVE  /\ Loop(step, b, s) \in B
         /\ Loop(step, b, Append(s, c)) = step[c][Loop(step, b, s)]
<1> DEFINE N == Len(s)
           t == Append(s, c)
<1>1. N \in Nat /\ t \in Seq(C) /\ Len(t) = N + 1 /\ t[N + 1] = c /\ \A i \in 1 .. N : t[i] = s[i]
  OBVIOUS
<1>2. PICK f \in [0 .. N -> B] :
        /\ f[0] = b /\ \A i \in 1 .. N : f[i] = step[s[i]][f[i - 1]]
        /\ Loop(step, b, s) = f[N]
  <2>1. PICK f : f \in LoopRuns(B, b, step, s)
    BY LoopIs
  <2> QED BY <2>1 DEF LoopRuns
<1> HIDE DEF N, t
<1>3. PICK g \in [0 .. N + 1 -> B] :
        /\ g[0] = b /\ \A i \in 1 .. N + 1 : g[i] = step[t[i]][g[i - 1]]
        /\ Loop(step, b, t) = g[N + 1]
  <2>1. PICK g : g \in LoopRuns(B, b, step, t)
    <3>1. t \in Seq(C)
      BY <1>1
    <3>2. LoopRuns(B, b, step, t) # {}
      BY <3>1, LoopIs
    <3> QED BY <3>2, Zenon
  <2> QED BY <1>1, <2>1 DEF LoopRuns
<1> DEFINE S == {i \in 0 .. N : f[i] = g[i]}
<1>4. 0 \in S
  BY <1>1, <1>2, <1>3
<1>5. ASSUME NEW i \in 1 .. N, i - 1 \in S
      PROVE  i \in S
  <2>1. i \in 1 .. N + 1 /\ i \in 0 .. N
    BY <1>1
  <2> QED BY <1>1, <1>2, <1>3, <1>5, <2>1
<1>6. \A i \in 0 .. N : i \in S
  <2> HIDE DEF S
  <2> QED BY <1>1, <1>4, <1>5, Steps
<1>7. f[N] = g[N]
  BY <1>1, <1>6
<1>8. g[N + 1] = step[c][g[N + 1 - 1]] /\ N + 1 - 1 = N /\ f[N] \in B
  BY <1>1, <1>2, <1>3
<1> QED BY <1>2, <1>3, <1>7, <1>8 DEF t

-----------------------------------------------------------------------------
(* The page: what a browser reads of what html_escape wrote. *)
Special == {34, 38, 39, 60, 62}
Escaping == [text : Seq(Byte), full : BOOLEAN]
Reading == [text : Seq(Byte), entity : Seq(Byte), closed : BOOLEAN]
Within(text, entity) == [text |-> text, entity |-> entity, closed |-> FALSE]
Reader(s) == Loop(ReadByte, Within(<<>>, <<>>), s)

LEMMA Bytes ==
  /\ Special \subseteq Byte /\ Byte \subseteq Nat
  /\ {35, 51, 57, 59, 97, 103, 108, 109, 111, 112, 113, 116, 117} \subseteq Byte
BY DEF Byte, Special

Second == [d \in Special |-> CASE d = 34 -> 113 [] d = 38 -> 97 [] d = 39 -> 35
                               [] d = 60 -> 108 [] d = 62 -> 103]
LEMMA EntityShape ==
  ASSUME NEW d \in Special
  PROVE  /\ Entity(d) \in Seq(Byte) /\ Len(Entity(d)) \in 4 .. 6
         /\ Entity(d)[1] = Ampersand /\ Entity(d)[Len(Entity(d))] = Semicolon
         /\ \A i \in 2 .. Len(Entity(d)) - 1 :
              Entity(d)[i] \notin {Quote, Ampersand, Semicolon}
         /\ Entity(d)[2] = Second[d] /\ (d = Quote \/ Len(Entity(d)) <= 5)
<1>1. CASE d = 34
  <2>1. Entity(d) = <<38, 113, 117, 111, 116, 59>>
    BY <1>1 DEF Entity
  <2> QED BY <2>1, <1>1, Bytes DEF Ampersand, Semicolon, Quote, Special, Second
<1>2. CASE d = 38
  <2>1. Entity(d) = <<38, 97, 109, 112, 59>>
    BY <1>2 DEF Entity
  <2> QED BY <2>1, <1>2, Bytes DEF Ampersand, Semicolon, Quote, Special, Second
<1>3. CASE d = 39
  <2>1. Entity(d) = <<38, 35, 51, 57, 59>>
    BY <1>3 DEF Entity
  <2> QED BY <2>1, <1>3, Bytes DEF Ampersand, Semicolon, Quote, Special, Second
<1>4. CASE d = 60
  <2>1. Entity(d) = <<38, 108, 116, 59>>
    BY <1>4 DEF Entity
  <2> QED BY <2>1, <1>4, Bytes DEF Ampersand, Semicolon, Quote, Special, Second
<1>5. CASE d = 62
  <2>1. Entity(d) = <<38, 103, 116, 59>>
    BY <1>5 DEF Entity
  <2> QED BY <2>1, <1>5, Bytes DEF Ampersand, Semicolon, Quote, Special, Second
<1> QED BY <1>1, <1>2, <1>3, <1>4, <1>5 DEF Special

LEMMA EntitiesApart ==
  ASSUME NEW c \in Special, NEW d \in Special, Entity(c) = Entity(d)
  PROVE  c = d
<1>1. Second[c] = Second[d]
  BY EntityShape
<1> QED BY <1>1 DEF Second, Special

LEMMA EntityIs ==
  ASSUME NEW c \in Byte
  PROVE  /\ Entity(c) \in Seq(Byte) /\ Len(Entity(c)) \in 1 .. 6
         /\ c \notin Special => Entity(c) = <<c>>
         /\ c # Quote => Len(Entity(c)) <= 5
<1>1. ASSUME c \notin Special
      PROVE  Entity(c) = <<c>>
  <2>1. c # 34 /\ c # 38 /\ c # 39 /\ c # 60 /\ c # 62
    BY <1>1 DEF Special
  <2> QED BY <2>1 DEF Entity
<1>2. CASE c \notin Special
  <2>1. <<c>> \in Seq(Byte) /\ Len(<<c>>) = 1
    OBVIOUS
  <2>2. Entity(c) = <<c>>
    BY <1>1, <1>2
  <2>3. Entity(c) \in Seq(Byte) /\ Len(Entity(c)) = 1
    BY <2>1, <2>2
  <2> QED BY <2>2, <2>3
<1>3. CASE c \in Special
  BY <1>3, EntityShape
<1> QED BY <1>1, <1>2, <1>3

Escaped(st, c) ==
  IF st.full \/ Len(st.text) + Len(Entity(c)) >= EscapedSize
  THEN [st EXCEPT !.full = TRUE]
  ELSE [st EXCEPT !.text = @ \o Entity(c)]

LEMMA EscapeByteIs ==
  /\ EscapeByte \in [Byte -> [Escaping -> Escaping]]
  /\ \A st \in Escaping, c \in Byte : EscapeByte[c][st] = Escaped(st, c)
<1>1. EscapeByte = [c \in Byte |-> [st \in Escaping |-> Escaped(st, c)]]
  BY DEF EscapeByte, Escaping, Escaped
<1>2. ASSUME NEW st \in Escaping, NEW c \in Byte
      PROVE  Escaped(st, c) \in Escaping
  <2>1. st.text \o Entity(c) \in Seq(Byte)
    BY EntityIs DEF Escaping
  <2> QED BY <2>1 DEF Escaping, Escaped
<1> QED BY <1>1, <1>2

ReadStep(st, c) ==
  LET name == Append(st.entity, c)
      meant == {d \in Special : Entity(d) = name}
  IN  IF st.closed \/ c = Quote THEN [st EXCEPT !.closed = TRUE]
      ELSE IF c = Ampersand THEN [st EXCEPT !.text = @ \o st.entity, !.entity = <<c>>]
      ELSE IF st.entity = <<>> THEN [st EXCEPT !.text = Append(@, c)]
      ELSE IF c # Semicolon THEN [st EXCEPT !.entity = Append(@, c)]
      ELSE [st EXCEPT !.text = @ \o IF meant = {} THEN name ELSE <<CHOOSE d \in meant : TRUE>>,
                      !.entity = <<>>]

LEMMA ReadByteType ==
  /\ ReadByte \in [Byte -> [Reading -> Reading]]
  /\ \A st \in Reading, c \in Byte : ReadByte[c][st] = ReadStep(st, c)
<1>1. ReadByte = [c \in Byte |-> [st \in Reading |-> ReadStep(st, c)]]
  BY DEF ReadByte, Reading, ReadStep, Special
<1>2. ASSUME NEW st \in Reading, NEW c \in Byte
      PROVE  ReadStep(st, c) \in Reading
  <2> DEFINE name == Append(st.entity, c)
             meant == {d \in Special : Entity(d) = name}
             read == IF meant = {} THEN name ELSE <<CHOOSE d \in meant : TRUE>>
  <2>1. /\ st.text \in Seq(Byte) /\ st.entity \in Seq(Byte) /\ name \in Seq(Byte)
        /\ <<c>> \in Seq(Byte) /\ <<>> \in Seq(Byte) /\ st.text \o st.entity \in Seq(Byte)
        /\ Append(st.text, c) \in Seq(Byte)
    BY DEF Reading
  <2>2. read \in Seq(Byte)
    <3>1. CASE meant # {}
      <4>1. (CHOOSE d \in meant : TRUE) \in meant
        BY <3>1
      <4>2. (CHOOSE d \in meant : TRUE) \in Byte
        BY <4>1, Bytes
      <4> HIDE DEF meant, name
      <4> QED BY <3>1, <4>2
    <3> HIDE DEF name
    <3> QED BY <2>1, <3>1
  <2>3. st.text \o read \in Seq(Byte)
    <3> HIDE DEF read
    <3> QED BY <2>1, <2>2
  <2>4. ReadStep(st, c) =
          IF st.closed \/ c = Quote THEN [st EXCEPT !.closed = TRUE]
          ELSE IF c = Ampersand THEN [st EXCEPT !.text = @ \o st.entity, !.entity = <<c>>]
          ELSE IF st.entity = <<>> THEN [st EXCEPT !.text = Append(@, c)]
          ELSE IF c # Semicolon THEN [st EXCEPT !.entity = name]
          ELSE [st EXCEPT !.text = @ \o read, !.entity = <<>>]
    BY DEF ReadStep
  <2> HIDE DEF read, name
  <2> QED BY <2>1, <2>3, <2>4 DEF Reading
<1> HIDE DEF ReadStep
<1> QED BY <1>1, <1>2

LEMMA ReadByteIs ==
  ASSUME NEW t \in Seq(Byte), NEW e \in Seq(Byte), NEW c \in Byte
  PROVE  /\ c \notin {Quote, Ampersand} /\ e = <<>> =>
              ReadByte[c][Within(t, e)] = Within(Append(t, c), <<>>)
         /\ c = Ampersand /\ e = <<>> =>
              ReadByte[c][Within(t, e)] = Within(t, <<c>>)
         /\ c \notin {Quote, Ampersand, Semicolon} /\ e # <<>> =>
              ReadByte[c][Within(t, e)] = Within(t, Append(e, c))
         /\ c = Semicolon /\ e # <<>> =>
              \A d \in Special : Entity(d) = Append(e, c) =>
                ReadByte[c][Within(t, e)] = Within(Append(t, d), <<>>)
<1> DEFINE st == Within(t, e)
           name == Append(e, c)
           meant == {d \in Special : Entity(d) = name}
           read == IF meant = {} THEN name ELSE <<CHOOSE d \in meant : TRUE>>
<1>1. st \in Reading /\ st.text = t /\ st.entity = e /\ st.closed = FALSE
  BY DEF Within, Reading
<1>2. ReadByte[c][st] =
        IF st.closed \/ c = Quote THEN [st EXCEPT !.closed = TRUE]
        ELSE IF c = Ampersand THEN [st EXCEPT !.text = @ \o st.entity, !.entity = <<c>>]
        ELSE IF st.entity = <<>> THEN [st EXCEPT !.text = Append(@, c)]
        ELSE IF c # Semicolon THEN [st EXCEPT !.entity = Append(@, c)]
        ELSE [st EXCEPT !.text = @ \o read, !.entity = <<>>]
  <2>1. ReadByte[c][st] = ReadStep(st, c)
    <3> HIDE DEF st
    <3> QED BY <1>1, ReadByteType
  <2>2. ReadStep(st, c) =
          IF st.closed \/ c = Quote THEN [st EXCEPT !.closed = TRUE]
          ELSE IF c = Ampersand THEN [st EXCEPT !.text = @ \o st.entity, !.entity = <<c>>]
          ELSE IF st.entity = <<>> THEN [st EXCEPT !.text = Append(@, c)]
          ELSE IF c # Semicolon THEN [st EXCEPT !.entity = Append(@, c)]
          ELSE [st EXCEPT !.text = @ \o read, !.entity = <<>>]
    BY <1>1 DEF ReadStep
  <2> HIDE DEF st, read
  <2> QED BY <2>1, <2>2
<1>3. t \o <<>> = t
  OBVIOUS
<1>4. ASSUME NEW d \in Special, Entity(d) = name
      PROVE  read = <<d>>
  <2>1. meant = {d}
    BY <1>4, EntitiesApart
  <2> HIDE DEF meant
  <2> QED BY <2>1
<1>5. \A d \in Special : Entity(d) = name => t \o read = Append(t, d)
  <2>1. \A d : t \o <<d>> = Append(t, d)
    OBVIOUS
  <2> HIDE DEF name, read
  <2> QED BY <1>4, <2>1
<1> HIDE DEF read, name
<1>6. Quote # Ampersand /\ Ampersand # Semicolon /\ Quote # Semicolon
  BY DEF Quote, Ampersand, Semicolon
<1>7. c \notin {Quote, Ampersand} /\ e = <<>> =>
        ReadByte[c][st] = Within(Append(t, c), <<>>)
  BY <1>1, <1>2 DEF Within
<1>8. c = Ampersand /\ e = <<>> => ReadByte[c][st] = Within(t, <<c>>)
  BY <1>1, <1>2, <1>3, <1>6 DEF Within
<1>9. c \notin {Quote, Ampersand, Semicolon} /\ e # <<>> =>
        ReadByte[c][st] = Within(t, Append(e, c))
  BY <1>1, <1>2 DEF Within
<1>10. ASSUME c = Semicolon, e # <<>>, NEW d \in Special, Entity(d) = name
       PROVE  ReadByte[c][st] = Within(Append(t, d), <<>>)
  <2>1. ReadByte[c][st] = [st EXCEPT !.text = t \o read, !.entity = <<>>]
    BY <1>1, <1>2, <1>6, <1>10
  <2>2. t \o read = Append(t, d)
    BY <1>5, <1>10
  <2> QED BY <2>1, <2>2 DEF Within
<1> QED BY <1>7, <1>8, <1>9, <1>10 DEF name

LEMMA ReadPlain ==
  ASSUME NEW t \in Seq(Byte), NEW c \in Byte, c \notin {Quote, Ampersand}
  PROVE  ReadByte[c][Within(t, <<>>)] = Within(Append(t, c), <<>>)
<1>1. <<>> \in Seq(Byte)
  OBVIOUS
<1> QED BY <1>1, ReadByteIs

LEMMA ReadOpens ==
  ASSUME NEW t \in Seq(Byte)
  PROVE  ReadByte[Ampersand][Within(t, <<>>)] = Within(t, <<Ampersand>>)
<1>1. <<>> \in Seq(Byte) /\ Ampersand \in Byte
  BY Bytes DEF Special, Ampersand
<1> QED BY <1>1, ReadByteIs

LEMMA ReadLetter ==
  ASSUME NEW t \in Seq(Byte), NEW e \in Seq(Byte), e # <<>>,
         NEW c \in Byte, c \notin {Quote, Ampersand, Semicolon}
  PROVE  ReadByte[c][Within(t, e)] = Within(t, Append(e, c))
BY ReadByteIs

LEMMA ReadCloses ==
  ASSUME NEW t \in Seq(Byte), NEW e \in Seq(Byte), e # <<>>,
         NEW d \in Special, Entity(d) = Append(e, Semicolon)
  PROVE  ReadByte[Semicolon][Within(t, e)] = Within(Append(t, d), <<>>)
<1>1. Semicolon \in Byte
  BY Bytes DEF Semicolon
<1> QED BY <1>1, ReadByteIs

LEMMA ReaderAppend ==
  ASSUME NEW s \in Seq(Byte), NEW c \in Byte
  PROVE  Reader(s) \in Reading /\ Reader(Append(s, c)) = ReadByte[c][Reader(s)]
<1>1. Within(<<>>, <<>>) \in Reading
  BY DEF Within, Reading
<1> QED BY <1>1, ReadByteType, LoopAppend DEF Reader

LEMMA ReadName ==
  ASSUME NEW s \in Seq(Byte), NEW t \in Seq(Byte), Reader(s) = Within(t, <<>>),
         NEW d \in Special
  PROVE  Reader(s \o Entity(d)) = Within(Append(t, d), <<>>)
<1> DEFINE e == Entity(d)
           L == Len(e)
           S == {k \in 0 .. L - 1 :
                   k = 0 \/ Reader(s \o SubSeq(e, 1, k)) = Within(t, SubSeq(e, 1, k))}
<1>1. /\ e \in Seq(Byte) /\ L \in 4 .. 6 /\ e[1] = Ampersand /\ e[L] = Semicolon
      /\ \A i \in 2 .. L - 1 : e[i] \notin {Quote, Ampersand, Semicolon}
  BY EntityShape
<1> HIDE DEF e
<1>2. /\ SubSeq(e, 1, 0) = <<>> /\ SubSeq(e, 1, L) = e /\ s \o <<>> = s
      /\ \A k \in 0 .. L : SubSeq(e, 1, k) \in Seq(Byte) /\ Len(SubSeq(e, 1, k)) = k
  BY <1>1
<1> HIDE DEF L
<1>3. ASSUME NEW k \in 1 .. L
      PROVE  /\ e[k] \in Byte
             /\ SubSeq(e, 1, k) = Append(SubSeq(e, 1, k - 1), e[k])
             /\ s \o SubSeq(e, 1, k - 1) \in Seq(Byte)
             /\ s \o SubSeq(e, 1, k) = Append(s \o SubSeq(e, 1, k - 1), e[k])
  <2>1. e[k] \in Byte /\ SubSeq(e, 1, k) = Append(SubSeq(e, 1, k - 1), e[k])
        /\ SubSeq(e, 1, k - 1) \in Seq(Byte)
    BY <1>1, PrefixGrows DEF L
  <2> QED BY <2>1, AppendAfter
<1>4. ASSUME NEW k \in 1 .. L - 1, k - 1 \in S
      PROVE  k \in S
  <2> DEFINE p == SubSeq(e, 1, k - 1)
             q == SubSeq(e, 1, k)
  <2>1. k \in 1 .. L /\ k - 1 \in 0 .. L
    BY <1>1
  <2>2. /\ e[k] \in Byte /\ q = Append(p, e[k]) /\ p \in Seq(Byte) /\ Len(p) = k - 1
        /\ s \o p \in Seq(Byte) /\ s \o q = Append(s \o p, e[k])
    BY <1>2, <1>3, <2>1
  <2>3. k = 1 \/ Reader(s \o p) = Within(t, p)
    BY <1>4, <2>1
  <2>4. k = 1 => p = <<>> /\ s \o p = s
    BY <1>2
  <2> HIDE DEF p, q
  <2>5. Reader(s \o q) = ReadByte[e[k]][Within(t, p)]
    <3>1. Reader(s \o p) = Within(t, p)
      BY <2>3, <2>4
    <3> QED BY <2>2, <3>1, ReaderAppend
  <2>6. CASE k = 1
    <3>1. ReadByte[e[k]][Within(t, p)] = Within(t, <<e[k]>>)
      BY <1>1, <2>4, <2>6, ReadOpens
    <3>2. q = <<e[k]>>
      BY <2>2, <2>4, <2>6
    <3>3. Reader(s \o q) = Within(t, q)
      BY <2>5, <3>1, <3>2
    <3> QED BY <3>3, <1>1 DEF q
  <2>7. CASE k # 1
    <3>1. k \in 2 .. L - 1 /\ p # <<>>
      BY <1>1, <2>2, <2>7
    <3>2. ReadByte[e[k]][Within(t, p)] = Within(t, Append(p, e[k]))
      <4>1. e[k] \in Byte /\ e[k] \notin {Quote, Ampersand, Semicolon} /\ p \in Seq(Byte)
        BY <1>1, <2>2, <3>1
      <4> QED BY <3>1, <4>1, ReadLetter
    <3>3. Reader(s \o q) = Within(t, q)
      BY <2>2, <2>5, <3>2
    <3> QED BY <3>3, <1>1 DEF q
  <2> QED BY <2>6, <2>7
<1>5. 0 \in S
  BY <1>1
<1>6. \A k \in 0 .. L - 1 : k \in S
  <2> HIDE DEF S
  <2>1. L - 1 \in Nat
    BY <1>1
  <2> QED BY <1>4, <1>5, <2>1, Steps
<1> DEFINE p == SubSeq(e, 1, L - 1)
<1>7. Reader(s \o p) = Within(t, p)
  <2>1. L - 1 \in S /\ L - 1 # 0
    BY <1>1, <1>6
  <2> QED BY <2>1
<1>8. /\ L \in 1 .. L /\ L - 1 \in 0 .. L /\ L - 1 # 0
  BY <1>1
<1>9. /\ p \in Seq(Byte) /\ p # <<>> /\ Semicolon \in Byte
      /\ e = Append(p, Semicolon) /\ s \o p \in Seq(Byte)
      /\ s \o e = Append(s \o p, Semicolon)
  <2>1. Len(p) = L - 1 /\ p \in Seq(Byte)
    BY <1>2, <1>8
  <2>2. p # <<>>
    BY <1>8, <2>1
  <2> QED BY <1>1, <1>2, <1>3, <1>8, <2>1, <2>2
<1> HIDE DEF p
<1>10. Reader(s \o e) = ReadByte[Semicolon][Within(t, p)]
  BY <1>7, <1>9, ReaderAppend
<1>11. ReadByte[Semicolon][Within(t, p)] = Within(Append(t, d), <<>>)
  <2>1. Entity(d) = Append(p, Semicolon)
    BY <1>9 DEF e
  <2> QED BY <1>9, <2>1, ReadCloses
<1> QED BY <1>10, <1>11 DEF e

LEMMA EscapeAppend ==
  /\ Escape(<<>>) = [text |-> <<>>, full |-> FALSE]
  /\ \A t \in Seq(Byte), c \in Byte :
       Escape(t) \in Escaping /\ Escape(Append(t, c)) = Escaped(Escape(t), c)
<1>1. [text |-> <<>>, full |-> FALSE] \in Escaping
  BY DEF Escaping
<1>2. Escape(<<>>) = [text |-> <<>>, full |-> FALSE]
  BY <1>1, EscapeByteIs, LoopEmpty DEF Escape
<1>3. ASSUME NEW t \in Seq(Byte), NEW c \in Byte
      PROVE  Escape(t) \in Escaping /\ Escape(Append(t, c)) = EscapeByte[c][Escape(t)]
  BY <1>1, EscapeByteIs, LoopAppend DEF Escape
<1> QED BY <1>2, <1>3, EscapeByteIs

(* A text of which html_escape leaves nothing out, and what it writes of it. *)
Fits(text) == ~Escape(text).full
WriteByte == [c \in Byte |-> [out \in Seq(Byte) |-> out \o Entity(c)]]
Whole(text) == Loop(WriteByte, <<>>, text)

LEMMA WholeAppend ==
  /\ Whole(<<>>) = <<>>
  /\ \A t \in Seq(Byte), c \in Byte :
       Whole(t) \in Seq(Byte) /\ Whole(Append(t, c)) = Whole(t) \o Entity(c)
<1> DEFINE B == Seq(Byte)
<1>1. \A c \in Byte, out \in B : out \o Entity(c) \in B
  BY EntityIs
<1>2. /\ WriteByte \in [Byte -> [B -> B]]
      /\ \A c \in Byte, out \in B : WriteByte[c][out] = out \o Entity(c)
  BY <1>1 DEF WriteByte
<1>3. <<>> \in B
  OBVIOUS
<1>4. \A t \in B : t \in Seq(Byte)
  OBVIOUS
<1> HIDE DEF B
<1>5. Whole(<<>>) = <<>>
  BY <1>2, <1>3, LoopEmpty DEF Whole
<1>6. ASSUME NEW t \in Seq(Byte), NEW c \in Byte
      PROVE  Whole(t) \in B /\ Whole(Append(t, c)) = WriteByte[c][Whole(t)]
  BY <1>2, <1>3, LoopAppend DEF Whole
<1> QED BY <1>2, <1>5, <1>6 DEF B

LEMMA FitsWhole ==
  ASSUME NEW text \in Seq(Byte), Fits(text)
  PROVE  HtmlEscape(text) = Whole(text)
<1> DEFINE S == {t \in Seq(Byte) : Fits(t) => Escape(t).text = Whole(t)}
<1>1. <<>> \in S
  BY EscapeAppend, WholeAppend
<1>2. ASSUME NEW t \in Seq(Byte), NEW c \in Byte, t \in S
      PROVE  Append(t, c) \in S
  <2>1. Escape(t) \in Escaping /\ Escape(Append(t, c)) = Escaped(Escape(t), c)
    BY EscapeAppend
  <2>2. ASSUME Fits(Append(t, c))
        PROVE  Escape(Append(t, c)).text = Whole(Append(t, c))
    <3>1. Fits(t) /\ Escape(Append(t, c)).text = Escape(t).text \o Entity(c)
      BY <2>1, <2>2 DEF Fits, Escaped, Escaping
    <3>2. Escape(t).text = Whole(t)
      BY <1>2, <3>1
    <3> QED BY <3>1, <3>2, WholeAppend
  <2> QED BY <2>2
<1>3. text \in S
  <2> HIDE DEF S
  <2> QED BY <1>1, <1>2, EverySequence
<1> QED BY <1>3 DEF HtmlEscape

(* A browser reads it back, if it gets it as it is. *)
LEMMA ReadWhole ==
  ASSUME NEW text \in Seq(Byte)
  PROVE  ReadHtml(Whole(text)) = text
<1> DEFINE S == {t \in Seq(Byte) : Reader(Whole(t)) = Within(t, <<>>)}
<1>1. <<>> \in S
  <2>1. Reader(<<>>) = Within(<<>>, <<>>)
    <3>1. Within(<<>>, <<>>) \in Reading
      BY DEF Within, Reading
    <3> QED BY <3>1, ReadByteType, LoopEmpty DEF Reader
  <2> QED BY <2>1, WholeAppend
<1>2. ASSUME NEW t \in Seq(Byte), NEW c \in Byte, t \in S
      PROVE  Append(t, c) \in S
  <2> DEFINE s == Whole(t)
  <2>1. s \in Seq(Byte) /\ Whole(Append(t, c)) = s \o Entity(c) /\ Reader(s) = Within(t, <<>>)
    BY <1>2, WholeAppend
  <2> HIDE DEF s
  <2>2. Reader(s \o Entity(c)) = Within(Append(t, c), <<>>)
    <3>1. CASE c \in Special
      BY <2>1, <3>1, ReadName
    <3>2. CASE c \notin Special
      <4>1. s \o Entity(c) = Append(s, c)
        <5>1. s \o <<c>> = Append(s, c)
          BY <2>1
        <5> QED BY <3>2, <5>1, EntityIs
      <4>2. c \notin {Quote, Ampersand}
        BY <3>2 DEF Special, Quote, Ampersand
      <4>3. ReadByte[c][Within(t, <<>>)] = Within(Append(t, c), <<>>)
        BY <4>2, ReadPlain
      <4> QED BY <2>1, <4>1, <4>3, ReaderAppend
    <3> QED BY <3>1, <3>2
  <2>3. Append(t, c) \in Seq(Byte)
    OBVIOUS
  <2> QED BY <2>1, <2>2, <2>3
<1>3. Reader(Whole(text)) = Within(text, <<>>)
  <2>1. text \in S
    <3> HIDE DEF S
    <3> QED BY <1>1, <1>2, EverySequence
  <2> QED BY <2>1
<1>4. ReadHtml(Whole(text)) = text \o <<>>
  <2>1. /\ Loop(ReadByte, [text |-> <<>>, entity |-> <<>>, closed |-> FALSE], Whole(text))
             = Within(text, <<>>)
        /\ Within(text, <<>>).text = text /\ Within(text, <<>>).entity = <<>>
    BY <1>3 DEF Reader, Within
  <2> QED BY <2>1 DEF ReadHtml
<1> QED BY <1>4

-----------------------------------------------------------------------------
(* The decoder of the page. *)
Showing == [text : Seq(Byte), char : Seq(Byte)]
Show(s) == Loop(ShowByte, [text |-> <<>>, char |-> <<>>], s)

LEMMA ShowParts ==
  ASSUME NEW C, {13, 10, 239, 191, 189} \subseteq C, NEW char \in Seq(C), NEW c \in C
  PROVE  Broken(char) \in Seq(C) /\ Finished(char, c) \in Seq(C) /\ Pending(char, c) \in Seq(C)
<1>1. <<>> \in Seq(C) /\ <<c>> \in Seq(C) /\ Append(char, c) \in Seq(C)
  OBVIOUS
<1>2. ASSUME NEW b
      PROVE  Instead(b) \in Seq(C)
  <2>1. <<13, 10>> \in Seq(C) /\ <<239, 191, 189>> \in Seq(C)
    OBVIOUS
  <2> QED BY <2>1 DEF Instead
<1>3. Broken(char) \in Seq(C)
  BY <1>1, <1>2 DEF Broken
<1>4. Begun(char, c) \in Seq(C)
  BY <1>1 DEF Begun
<1>5. Pending(char, c) \in Seq(C)
  BY <1>1, <1>4 DEF Pending
<1> DEFINE before == IF GoesOn(char, c) THEN <<>> ELSE Broken(char)
           done == CASE Pending(char, c) # <<>> -> <<>>
                     [] Spans(Begun(char, c)[1]) = 0 -> Instead(c)
                     [] OTHER -> Begun(char, c)
<1>6. before \in Seq(C)
  BY <1>1, <1>3
<1>7. done \in Seq(C)
  <2>1. done \in {<<>>, Instead(c), Begun(char, c)}
    OBVIOUS
  <2> HIDE DEF done
  <2> QED BY <1>1, <1>2, <1>4, <2>1
<1>8. Finished(char, c) = before \o done
  BY DEF Finished
<1> HIDE DEF before, done
<1> QED BY <1>3, <1>5, <1>6, <1>7, <1>8

LEMMA ShowAppend ==
  /\ Show(<<>>) = [text |-> <<>>, char |-> <<>>]
  /\ \A s \in Seq(Byte), c \in Byte :
       /\ Show(s) \in Showing
       /\ Show(Append(s, c)) = [text |-> Show(s).text \o Finished(Show(s).char, c),
                                char |-> Pending(Show(s).char, c)]
<1> DEFINE Shows(st, c) == [text |-> st.text \o Finished(st.char, c), char |-> Pending(st.char, c)]
<1>1. ASSUME NEW st \in Showing, NEW c \in Byte
      PROVE  Shows(st, c) \in Showing
  <2>1. {13, 10, 239, 191, 189} \subseteq Byte
    BY DEF Byte
  <2>2. st.text \in Seq(Byte) /\ st.char \in Seq(Byte)
    BY DEF Showing
  <2>3. Finished(st.char, c) \in Seq(Byte) /\ Pending(st.char, c) \in Seq(Byte)
    BY <2>1, <2>2, ShowParts
  <2>4. st.text \o Finished(st.char, c) \in Seq(Byte)
    BY <2>2, <2>3
  <2> QED BY <2>3, <2>4 DEF Showing
<1>2. ShowByte = [c \in Byte |-> [st \in Showing |-> Shows(st, c)]]
  BY DEF ShowByte, Showing
<1>3. [text |-> <<>>, char |-> <<>>] \in Showing
  BY DEF Showing
<1> HIDE DEF Shows
<1>4. /\ ShowByte \in [Byte -> [Showing -> Showing]]
      /\ \A st \in Showing, c \in Byte : ShowByte[c][st] = Shows(st, c)
  BY <1>1, <1>2
<1>5. Show(<<>>) = [text |-> <<>>, char |-> <<>>]
  BY <1>3, <1>4, LoopEmpty DEF Show
<1>6. ASSUME NEW s \in Seq(Byte), NEW c \in Byte
      PROVE  Show(s) \in Showing /\ Show(Append(s, c)) = ShowByte[c][Show(s)]
  BY <1>3, <1>4, LoopAppend DEF Show
<1>7. ASSUME NEW s \in Seq(Byte), NEW c \in Byte
      PROVE  Show(s) \in Showing /\ Show(Append(s, c)) = Shows(Show(s), c)
  BY <1>4, <1>6
<1> QED BY <1>5, <1>7 DEF Shows

(* ASCII passes as it is, after what stands for a character that it cuts off. *)
Ascii == (1 .. 127) \ {10, 13}
Clean == Byte \ Special

LEMMA Alphabets ==
  /\ Ascii \subseteq Byte /\ Clean \subseteq Byte /\ Special \subseteq Ascii
  /\ Seq(Ascii) \subseteq Seq(Byte) /\ Seq(Clean) \subseteq Seq(Byte)
  /\ {13, 10, 239, 191, 189} \subseteq Clean
  /\ \A d \in Special : Entity(d) \in Seq(Ascii) /\ Entity(d) # <<>>
<1>1. /\ Ascii \subseteq Byte /\ Clean \subseteq Byte /\ Special \subseteq Ascii
      /\ {13, 10, 239, 191, 189} \subseteq Clean
      /\ {35, 38, 51, 57, 59, 97, 103, 108, 109, 111, 112, 113, 116, 117} \subseteq Ascii
  BY DEF Ascii, Clean, Byte, Special
<1>2. ASSUME NEW d \in Special
      PROVE  Entity(d) \in Seq(Ascii) /\ Entity(d) # <<>>
  <2>1. d = 34 => Entity(d) \in Seq(Ascii)
    <3>1. <<38, 113, 117, 111, 116, 59>> \in Seq(Ascii)
      BY <1>1
    <3> QED BY <3>1 DEF Entity
  <2>2. d = 38 => Entity(d) \in Seq(Ascii)
    <3>1. <<38, 97, 109, 112, 59>> \in Seq(Ascii)
      BY <1>1
    <3> QED BY <3>1 DEF Entity
  <2>3. d = 39 => Entity(d) \in Seq(Ascii)
    <3>1. <<38, 35, 51, 57, 59>> \in Seq(Ascii)
      BY <1>1
    <3> QED BY <3>1 DEF Entity
  <2>4. d = 60 => Entity(d) \in Seq(Ascii)
    <3>1. <<38, 108, 116, 59>> \in Seq(Ascii)
      BY <1>1
    <3> QED BY <3>1 DEF Entity
  <2>5. d = 62 => Entity(d) \in Seq(Ascii)
    <3>1. <<38, 103, 116, 59>> \in Seq(Ascii)
      BY <1>1
    <3> QED BY <3>1 DEF Entity
  <2>6. Entity(d) \in Seq(Ascii)
    BY <2>1, <2>2, <2>3, <2>4, <2>5 DEF Special
  <2>7. Len(Entity(d)) # 0 /\ Len(<<>>) = 0
    BY EntityShape
  <2> QED BY <2>6, <2>7
<1>3. ASSUME NEW C, C \subseteq Byte
      PROVE  Seq(C) \subseteq Seq(Byte)
  BY <1>3
<1> QED BY <1>1, <1>2, <1>3

LEMMA AsciiStep ==
  ASSUME NEW char \in Seq(Byte), NEW c \in Ascii
  PROVE  Pending(char, c) = <<>> /\ Finished(char, c) = Broken(char) \o <<c>>
<1>1. c \notin 128 .. 191 /\ c # 10
  BY DEF Ascii
<1>2. ~GoesOn(char, c)
  <2>1. After(char) \subseteq (128 .. 191) \cup {10}
    BY DEF After
  <2> QED BY <1>1, <2>1 DEF GoesOn
<1>3. Begun(char, c) = <<c>>
  BY <1>2 DEF Begun
<1>4. Spans(c) = 1
  <2>1. /\ c \in (1 .. 127) \ {10, 13}
        /\ ~(c = 13 \/ c \in 194 .. 223) /\ c \notin 224 .. 239 /\ c \notin 240 .. 244
    BY DEF Ascii
  <2> QED BY <2>1 DEF Spans
<1>5. Len(<<c>>) = 1 /\ <<c>>[1] = c
  OBVIOUS
<1>6. Pending(char, c) = <<>>
  BY <1>3, <1>4, <1>5 DEF Pending
<1>7. Finished(char, c) = Broken(char) \o <<c>>
  BY <1>2, <1>3, <1>4, <1>5, <1>6 DEF Finished
<1> QED BY <1>6, <1>7

LEMMA ShowAscii ==
  ASSUME NEW s \in Seq(Byte), NEW word \in Seq(Ascii), word # <<>>
  PROVE  Show(s \o word) = [text |-> (Show(s).text \o Broken(Show(s).char)) \o word, char |-> <<>>]
<1> DEFINE before == Show(s).text \o Broken(Show(s).char)
           S == {w \in Seq(Ascii) :
                   w # <<>> => Show(s \o w) = [text |-> before \o w, char |-> <<>>]}
<1>1. /\ Show(s) \in Showing /\ Show(s).text \in Seq(Byte) /\ Show(s).char \in Seq(Byte)
      /\ Broken(Show(s).char) \in Seq(Byte) /\ before \in Seq(Byte)
  <2>1. 1 \in Byte
    BY DEF Byte
  <2>2. Show(s) \in Showing
    BY <2>1, ShowAppend
  <2>3. Show(s).text \in Seq(Byte) /\ Show(s).char \in Seq(Byte)
    BY <2>2 DEF Showing
  <2>4. {13, 10, 239, 191, 189} \subseteq Byte
    BY DEF Byte
  <2>5. Broken(Show(s).char) \in Seq(Byte)
    BY <2>1, <2>3, <2>4, ShowParts
  <2> QED BY <2>2, <2>3, <2>5
<1>2. <<>> \in S
  OBVIOUS
<1>3. ASSUME NEW w \in Seq(Ascii), NEW c \in Ascii, w \in S
      PROVE  Append(w, c) \in S
  <2>1. c \in Byte /\ w \in Seq(Byte)
    BY Alphabets
  <2>2. s \o w \in Seq(Byte) /\ s \o Append(w, c) = Append(s \o w, c)
    BY <2>1, AppendAfter
  <2>3. Show(s \o Append(w, c)) = [text |-> Show(s \o w).text \o Finished(Show(s \o w).char, c),
                                   char |-> Pending(Show(s \o w).char, c)]
    BY <2>1, <2>2, ShowAppend
  <2>4. CASE w = <<>>
    <3>1. s \o w = s /\ Append(w, c) = <<c>>
      BY <2>4
    <3>2. Show(s \o Append(w, c)) = [text |-> Show(s).text \o (Broken(Show(s).char) \o <<c>>),
                                     char |-> <<>>]
      BY <1>1, <2>3, <3>1, AsciiStep
    <3>3. Show(s).text \o (Broken(Show(s).char) \o <<c>>) = before \o <<c>>
      <4> DEFINE x == Show(s).text
                 k == Broken(Show(s).char)
      <4>1. <<c>> \in Seq(Byte) /\ x \in Seq(Byte) /\ k \in Seq(Byte)
        BY <1>1, <2>1
      <4> HIDE DEF x, k
      <4>2. x \o Append(k, c) = Append(x \o k, c) /\ x \o k \in Seq(Byte)
        BY <2>1, <4>1, AppendAfter
      <4>3. k \o <<c>> = Append(k, c) /\ (x \o k) \o <<c>> = Append(x \o k, c)
        BY <4>1, <4>2
      <4> QED BY <4>2, <4>3 DEF x, k
    <3>4. Show(s \o Append(w, c)) = [text |-> before \o Append(w, c), char |-> <<>>]
      BY <3>1, <3>2, <3>3
    <3>5. Append(w, c) \in Seq(Ascii)
      OBVIOUS
    <3> QED BY <3>4, <3>5
  <2>5. CASE w # <<>>
    <3>1. Show(s \o w) = [text |-> before \o w, char |-> <<>>]
      BY <1>3, <2>5
    <3> HIDE DEF before
    <3>2. Show(s \o Append(w, c)) = [text |-> (before \o w) \o (Broken(<<>>) \o <<c>>),
                                     char |-> <<>>]
      <4>1. <<>> \in Seq(Byte)
        OBVIOUS
      <4>2. Pending(<<>>, c) = <<>> /\ Finished(<<>>, c) = Broken(<<>>) \o <<c>>
        BY <4>1, AsciiStep
      <4>3. Show(s \o w).text = before \o w /\ Show(s \o w).char = <<>>
        BY <3>1
      <4> QED BY <2>3, <4>2, <4>3
    <3>3. Broken(<<>>) \o <<c>> = <<c>>
      BY DEF Broken
    <3>4. (before \o w) \o <<c>> = before \o Append(w, c)
      <4>1. before \o w \in Seq(Byte) /\ before \o Append(w, c) = Append(before \o w, c)
        <5>1. before \in Seq(Byte)
          BY <1>1
        <5> QED BY <2>1, <5>1, AppendAfter
      <4>2. (before \o w) \o <<c>> = Append(before \o w, c)
        BY <4>1
      <4> QED BY <4>1, <4>2
    <3>5. Append(w, c) \in Seq(Ascii)
      OBVIOUS
    <3> QED BY <3>2, <3>3, <3>4, <3>5 DEF before
  <2> QED BY <2>4, <2>5
<1>4. word \in S
  <2> HIDE DEF S
  <2> QED BY <1>2, <1>3, EverySequence
<1> QED BY <1>4

LEMMA WholeClean ==
  ASSUME NEW s \in Seq(Byte), NEW x \in Seq(Clean)
  PROVE  Whole(s \o x) = Whole(s) \o x
<1> DEFINE S == {w \in Seq(Clean) : Whole(s \o w) = Whole(s) \o w}
<1>1. Whole(s) \in Seq(Byte)
  <2>1. 1 \in Byte
    BY DEF Byte
  <2> QED BY <2>1, WholeAppend
<1>2. <<>> \in S
  <2>1. s \o <<>> = s /\ Whole(s) \o <<>> = Whole(s) /\ <<>> \in Seq(Clean)
    BY <1>1
  <2> QED BY <2>1
<1>3. ASSUME NEW w \in Seq(Clean), NEW c \in Clean, w \in S
      PROVE  Append(w, c) \in S
  <2>1. c \in Byte /\ w \in Seq(Byte) /\ c \notin Special
    BY Alphabets DEF Clean
  <2>2. s \o w \in Seq(Byte) /\ s \o Append(w, c) = Append(s \o w, c)
    BY <2>1, AppendAfter
  <2>3. Whole(s \o Append(w, c)) = (Whole(s) \o w) \o <<c>>
    BY <1>3, <2>1, <2>2, WholeAppend, EntityIs
  <2>4. /\ Whole(s) \o w \in Seq(Byte)
        /\ Whole(s) \o Append(w, c) = Append(Whole(s) \o w, c)
    BY <1>1, <2>1, AppendAfter
  <2>5. (Whole(s) \o w) \o <<c>> = Append(Whole(s) \o w, c)
    BY <2>4
  <2>6. Append(w, c) \in Seq(Clean)
    OBVIOUS
  <2> QED BY <2>3, <2>4, <2>5, <2>6
<1>4. x \in S
  <2> HIDE DEF S
  <2> QED BY <1>2, <1>3, EverySequence
<1> QED BY <1>4

(* Decoding what html_escape wrote of a text is writing what is decoded of it. *)
LEMMA ShownWhole ==
  ASSUME NEW text \in Seq(Byte)
  PROVE  Shown(text) \in Seq(Byte) /\ Shown(Whole(text)) = Whole(Shown(text))
<1> DEFINE S == {t \in Seq(Byte) :
                   /\ Show(t).char \in Seq(Clean)
                   /\ Show(Whole(t)) = [text |-> Whole(Show(t).text), char |-> Show(t).char]}
<1>1. \A t \in Seq(Byte) : Show(t).text \in Seq(Byte) /\ Whole(t) \in Seq(Byte)
  <2>1. 1 \in Byte
    BY DEF Byte
  <2>2. \A t \in Seq(Byte) : Show(t) \in Showing /\ Whole(t) \in Seq(Byte)
    BY <2>1, ShowAppend, WholeAppend
  <2> QED BY <2>2 DEF Showing
<1>2. \A char \in Seq(Clean) : Broken(char) \in Seq(Clean)
  <2>1. 10 \in Clean
    BY Alphabets
  <2> QED BY <2>1, Alphabets, ShowParts
<1>3. <<>> \in S
  <2>1. Show(<<>>) = [text |-> <<>>, char |-> <<>>] /\ Whole(<<>>) = <<>>
    BY ShowAppend, WholeAppend
  <2>2. <<>> \in Seq(Clean) /\ <<>> \in Seq(Byte)
    OBVIOUS
  <2>3. Show(<<>>).text = <<>> /\ Show(<<>>).char = <<>>
    BY <2>1
  <2>4. Show(Whole(<<>>)) = [text |-> Whole(Show(<<>>).text), char |-> Show(<<>>).char]
    BY <2>1, <2>3
  <2> QED BY <2>2, <2>3, <2>4
<1>4. ASSUME NEW t \in Seq(Byte), NEW c \in Byte, t \in S
      PROVE  Append(t, c) \in S
  <2> DEFINE x == Show(t).text
             k == Show(t).char
  <2>1. /\ x \in Seq(Byte) /\ k \in Seq(Clean) /\ Whole(t) \in Seq(Byte) /\ Whole(x) \in Seq(Byte)
        /\ Show(Whole(t)) = [text |-> Whole(x), char |-> k]
    BY <1>1, <1>4
  <2>2. Append(t, c) \in Seq(Byte) /\ Whole(Append(t, c)) = Whole(t) \o Entity(c)
    BY WholeAppend
  <2>3. Show(Append(t, c)) = [text |-> x \o Finished(k, c), char |-> Pending(k, c)]
    BY ShowAppend
  <2> HIDE DEF x, k
  <2>4. k \in Seq(Byte)
    BY <2>1, Alphabets
  <2>5. CASE c \in Special
    <3>1. c \in Ascii /\ Entity(c) \in Seq(Ascii) /\ Entity(c) # <<>> /\ Entity(c) \in Seq(Byte)
      BY <2>5, Alphabets, EntityIs
    <3>2. Show(Append(t, c)) = [text |-> x \o (Broken(k) \o <<c>>), char |-> <<>>]
      BY <2>3, <2>4, <3>1, AsciiStep
    <3>3. Show(Whole(Append(t, c))) = [text |-> (Whole(x) \o Broken(k)) \o Entity(c), char |-> <<>>]
      <4>1. Show(Whole(t)).text = Whole(x) /\ Show(Whole(t)).char = k
        BY <2>1
      <4>2. Show(Whole(t) \o Entity(c))
              = [text |-> (Show(Whole(t)).text \o Broken(Show(Whole(t)).char)) \o Entity(c),
                 char |-> <<>>]
        BY <2>1, <3>1, ShowAscii
      <4> QED BY <2>2, <4>1, <4>2
    <3>4. Whole(x \o (Broken(k) \o <<c>>)) = (Whole(x) \o Broken(k)) \o Entity(c)
      <4>1. Broken(k) \in Seq(Clean) /\ Broken(k) \in Seq(Byte)
        BY <1>2, <2>1, Alphabets
      <4>2. Whole(x \o Broken(k)) = Whole(x) \o Broken(k)
        BY <2>1, <4>1, WholeClean
      <4>3. x \o Broken(k) \in Seq(Byte)
        BY <2>1, <4>1
      <4>4. x \o (Broken(k) \o <<c>>) = Append(x \o Broken(k), c)
        <5>1. Broken(k) \o <<c>> = Append(Broken(k), c)
          BY <4>1
        <5>2. x \in Seq(Byte) /\ Broken(k) \in Seq(Byte)
          BY <2>1, <4>1
        <5>3. x \o Append(Broken(k), c) = Append(x \o Broken(k), c)
          BY <5>2, AppendAfter
        <5> QED BY <5>1, <5>3
      <4> QED BY <4>2, <4>3, <4>4, WholeAppend
    <3>5. <<>> \in Seq(Clean)
      OBVIOUS
    <3>6. /\ Show(Append(t, c)).text = x \o (Broken(k) \o <<c>>)
          /\ Show(Append(t, c)).char = <<>>
      BY <3>2
    <3> QED BY <2>2, <3>3, <3>4, <3>5, <3>6
  <2>6. CASE c \notin Special
    <3>1. c \in Clean
      BY <2>6 DEF Clean
    <3>2. Finished(k, c) \in Seq(Clean) /\ Pending(k, c) \in Seq(Clean)
      BY <2>1, <3>1, Alphabets, ShowParts
    <3>3. Whole(Append(t, c)) = Append(Whole(t), c)
      <4>1. Entity(c) = <<c>>
        BY <2>6, EntityIs
      <4> QED BY <2>1, <2>2, <4>1
    <3>4. Show(Whole(Append(t, c))) = [text |-> Whole(x) \o Finished(k, c), char |-> Pending(k, c)]
      <4>1. Show(Whole(t)).text = Whole(x) /\ Show(Whole(t)).char = k
        BY <2>1
      <4>2. Show(Append(Whole(t), c))
              = [text |-> Show(Whole(t)).text \o Finished(Show(Whole(t)).char, c),
                 char |-> Pending(Show(Whole(t)).char, c)]
        BY <2>1, ShowAppend
      <4> QED BY <3>3, <4>1, <4>2
    <3>5. Whole(x \o Finished(k, c)) = Whole(x) \o Finished(k, c)
      BY <2>1, <3>2, WholeClean
    <3>6. /\ Show(Append(t, c)).text = x \o Finished(k, c)
          /\ Show(Append(t, c)).char = Pending(k, c)
      BY <2>3
    <3> QED BY <2>2, <3>2, <3>4, <3>5, <3>6
  <2> QED BY <2>5, <2>6
<1>5. text \in S
  <2> HIDE DEF S
  <2> QED BY <1>3, <1>4, EverySequence
<1> DEFINE x == Show(text).text
           k == Show(text).char
<1>6. /\ x \in Seq(Byte) /\ Broken(k) \in Seq(Clean) /\ Broken(k) \in Seq(Byte)
      /\ Show(Whole(text)) = [text |-> Whole(x), char |-> k]
  BY <1>1, <1>2, <1>5, Alphabets
<1>7. Shown(text) = x \o Broken(k) /\ Shown(Whole(text)) = Whole(x) \o Broken(k)
  <2>1. Show(Whole(text)).text = Whole(x) /\ Show(Whole(text)).char = k
    BY <1>6
  <2>2. \A t : Shown(t) = Show(t).text \o Broken(Show(t).char)
    BY DEF Shown, Show
  <2> QED BY <2>1, <2>2
<1> HIDE DEF x, k
<1>8. Whole(x \o Broken(k)) = Whole(x) \o Broken(k) /\ x \o Broken(k) \in Seq(Byte)
  BY <1>6, WholeClean
<1> QED BY <1>7, <1>8

(***************************************************************************)
(* What a browser reads of the name that html_escape wrote                   *)
(* (wifi_provisioning.c:55-78, 29), of whatever bytes, is what it would show of *)
(* the name itself, unless something was left out.                          *)
(***************************************************************************)
LEMMA ReadBack ==
  ASSUME NEW text \in Seq(Byte), Fits(text)
  PROVE  ReadHtml(Shown(HtmlEscape(text))) = Shown(text)
<1>1. Shown(HtmlEscape(text)) = Whole(Shown(text)) /\ Shown(text) \in Seq(Byte)
  BY FitsWhole, ShownWhole
<1> QED BY <1>1, ReadWhole

(***************************************************************************)
(* What fits in the 180 bytes of html_escape's buffer                       *)
(* (wifi_provisioning.c:104-106): names of up to 29 bytes, and of up to 32     *)
(* without a quote, which takes six.                                        *)
(***************************************************************************)
LEMMA ShortFits ==
  ASSUME NEW text \in Seq(Byte),
         \/ Len(text) <= 29
         \/ Len(text) <= 32 /\ \A i \in 1 .. Len(text) : text[i] # Quote
  PROVE  Fits(text)
<1>1. PICK w \in {5, 6} : w * Len(text) < EscapedSize
                          /\ \A i \in 1 .. Len(text) : Len(Entity(text[i])) <= w
  <2>1. \A i \in 1 .. Len(text) : text[i] \in Byte
    OBVIOUS
  <2>2. CASE Len(text) <= 29
    <3>1. 6 * Len(text) < EscapedSize
      BY <2>2 DEF EscapedSize
    <3>2. \A i \in 1 .. Len(text) : Len(Entity(text[i])) <= 6
      <4>1. ASSUME NEW c \in Byte
            PROVE  Len(Entity(c)) <= 6
        <5> DEFINE n == Len(Entity(c))
        <5>1. n \in 1 .. 6
          BY EntityIs
        <5> HIDE DEF n
        <5>2. n <= 6
          BY <5>1
        <5> QED BY <5>2 DEF n
      <4> QED BY <2>1, <4>1
    <3> QED BY <3>1, <3>2
  <2>3. CASE Len(text) <= 32 /\ \A i \in 1 .. Len(text) : text[i] # Quote
    <3>1. 5 * Len(text) < EscapedSize
      BY <2>3 DEF EscapedSize
    <3>2. \A i \in 1 .. Len(text) : Len(Entity(text[i])) <= 5
      BY <2>1, <2>3, EntityIs
    <3> QED BY <3>1, <3>2
  <2> QED BY <2>2, <2>3
<1> DEFINE S == {t \in Seq(Byte) :
                   w * Len(t) < EscapedSize /\ (\A i \in 1 .. Len(t) : Len(Entity(t[i])) <= w)
                     => ~Escape(t).full /\ Len(Escape(t).text) <= w * Len(t)}
<1>2. <<>> \in S
  BY EscapeAppend
<1>3. ASSUME NEW t \in Seq(Byte), NEW c \in Byte, t \in S
      PROVE  Append(t, c) \in S
  <2> DEFINE u == Append(t, c)
             n == Len(t)
  <2>1. u \in Seq(Byte) /\ Len(u) = n + 1 /\ n \in Nat /\ u[n + 1] = c
        /\ \A i \in 1 .. n : u[i] = t[i] /\ i \in 1 .. n + 1
    OBVIOUS
  <2>2. ASSUME w * Len(u) < EscapedSize, \A i \in 1 .. Len(u) : Len(Entity(u[i])) <= w
        PROVE  ~Escape(u).full /\ Len(Escape(u).text) <= w * Len(u)
    <3>1. Len(Entity(c)) <= w /\ Len(Entity(c)) \in Nat
      <4>1. n + 1 \in 1 .. Len(u)
        BY <2>1
      <4> HIDE DEF u, n
      <4> QED BY <2>1, <2>2, <4>1, EntityIs
    <3>2. w * Len(u) = w * n + w /\ w * n \in Nat
      BY <2>1
    <3>3. w * n < EscapedSize /\ \A i \in 1 .. n : Len(Entity(t[i])) <= w
      <4> HIDE DEF u, n
      <4>1. \A i \in 1 .. n : i \in 1 .. Len(u) /\ u[i] = t[i]
        BY <2>1
      <4>2. w * n < EscapedSize
        BY <2>1, <2>2, <3>2 DEF EscapedSize
      <4>3. \A i \in 1 .. n : Len(Entity(t[i])) <= w
        BY <2>2, <4>1
      <4> QED BY <4>2, <4>3
    <3>4. ~Escape(t).full /\ Len(Escape(t).text) <= w * n
      BY <1>3, <3>3
    <3>5. Escape(t) \in Escaping /\ Escape(u) = Escaped(Escape(t), c)
      BY EscapeAppend
    <3>6. Entity(c) \in Seq(Byte) /\ Escape(t).text \in Seq(Byte)
      BY <3>5, EntityIs DEF Escaping
    <3>7. Len(Escape(t).text) + Len(Entity(c)) < EscapedSize
      <4>1. Len(Escape(t).text) \in Nat
        BY <3>6
      <4> HIDE DEF u, n
      <4> QED BY <2>2, <3>1, <3>2, <3>4, <4>1 DEF EscapedSize
    <3>8. Escape(u) = [Escape(t) EXCEPT !.text = @ \o Entity(c)]
      <4>1. ~(Len(Escape(t).text) + Len(Entity(c)) >= EscapedSize)
        BY <3>6, <3>7 DEF EscapedSize
      <4> QED BY <3>4, <3>5, <4>1 DEF Escaped
    <3>9. ~Escape(u).full /\ Escape(u).text = Escape(t).text \o Entity(c)
      BY <3>4, <3>5, <3>8 DEF Escaping
    <3>10. Len(Escape(u).text) = Len(Escape(t).text) + Len(Entity(c))
      BY <3>6, <3>9
    <3>11. Len(Escape(u).text) <= w * n + w
      <4>1. Len(Escape(t).text) \in Nat
        BY <3>6
      <4> HIDE DEF u, n
      <4> QED BY <3>1, <3>2, <3>4, <3>10, <4>1
    <3> QED BY <3>2, <3>9, <3>11
  <2> QED BY <2>1, <2>2
<1>4. text \in S
  <2> HIDE DEF S
  <2> QED BY <1>2, <1>3, EverySequence
<1> QED BY <1>1, <1>4 DEF Fits

-----------------------------------------------------------------------------
(* The form: what url_decode reads of what a browser, or a script, encoded.   *)
Octet == 0 .. 255
Digit == 0 .. 15
Turning == [src : Seq(Byte), dst : Seq(Octet)]

LEMMA HexIs ==
  /\ \A c \in Byte : HexValue(c) \subseteq Digit
  /\ \A v \in Digit : /\ Upper(v) \in Byte /\ Lower(v) \in Byte
                      /\ HexValue(Upper(v)) = {v} /\ HexValue(Lower(v)) = {v}
<1>1. ASSUME NEW c \in Byte
      PROVE  HexValue(c) \subseteq Digit
  <2>1. c \in Int
    BY DEF Byte
  <2>2. CASE c \in 48 .. 57
    <3>1. HexValue(c) = {c - 48} /\ c - 48 \in Digit
      BY <2>1, <2>2 DEF HexValue, Digit
    <3> QED BY <3>1
  <2>3. CASE c \in 97 .. 102
    <3>1. HexValue(c) = {c - 87} /\ c - 87 \in Digit
      BY <2>1, <2>3 DEF HexValue, Digit
    <3> QED BY <3>1
  <2>4. CASE c \in 65 .. 70
    <3>1. HexValue(c) = {c - 55} /\ c - 55 \in Digit
      BY <2>1, <2>4 DEF HexValue, Digit
    <3> QED BY <3>1
  <2>5. CASE c \notin 48 .. 57 /\ c \notin 97 .. 102 /\ c \notin 65 .. 70
    BY <2>5 DEF HexValue
  <2> QED BY <2>2, <2>3, <2>4, <2>5
<1>2. ASSUME NEW v \in Digit
      PROVE  /\ Upper(v) \in Byte /\ Lower(v) \in Byte
             /\ HexValue(Upper(v)) = {v} /\ HexValue(Lower(v)) = {v}
  <2>1. v \in Int /\ 0 <= v /\ v <= 15
    BY DEF Digit
  <2>2. CASE v < 10
    <3>1. Upper(v) = v + 48 /\ Lower(v) = v + 48 /\ v + 48 \in 48 .. 57
      BY <2>1, <2>2 DEF Upper, Lower
    <3>2. HexValue(v + 48) = {v + 48 - 48} /\ v + 48 - 48 = v
      BY <2>1, <3>1 DEF HexValue
    <3> QED BY <2>1, <3>1, <3>2 DEF Byte
  <2>3. CASE ~(v < 10)
    <3>1. Upper(v) = v + 55 /\ Lower(v) = v + 87 /\ v + 55 \in 65 .. 70 /\ v + 87 \in 97 .. 102
      BY <2>1, <2>3 DEF Upper, Lower
    <3>2. HexValue(v + 55) = {v + 55 - 55} /\ v + 55 - 55 = v
      BY <2>1, <3>1 DEF HexValue
    <3>3. HexValue(v + 87) = {v + 87 - 87} /\ v + 87 - 87 = v
      BY <2>1, <3>1 DEF HexValue
    <3> QED BY <2>1, <3>1, <3>2, <3>3 DEF Byte
  <2> QED BY <2>2, <2>3
<1> QED BY <1>1, <1>2

LEMMA Halves ==
  ASSUME NEW c \in Byte
  PROVE  c \div 16 \in Digit /\ c % 16 \in Digit /\ 16 * (c \div 16) + (c % 16) = c
<1>1. c \in Int /\ 1 <= c /\ c <= 255
  BY DEF Byte
<1> DEFINE q == c \div 16
           r == c % 16
<1>2. q \in Int /\ r \in Int /\ 0 <= r /\ r <= 15 /\ 16 * q + r = c
  BY <1>1
<1> HIDE DEF q, r
<1>3. 0 <= q /\ q <= 15
  BY <1>1, <1>2
<1>4. q \in 0 .. 15 /\ r \in 0 .. 15
  BY <1>2, <1>3
<1> QED BY <1>2, <1>4 DEF Digit, q, r

(* What the decoder makes of a text that begins as one of the two writes c. *)
InHex(char, c) ==
  \E h, l \in Byte : \E v, w \in Digit :
    char[c] = <<Percent, h, l>> /\ HexValue(h) = {v} /\ HexValue(l) = {w} /\ 16 * v + w = c
Written(char, c) ==
  \/ char[c] = <<c>> /\ c \notin {Plus, Percent}
  \/ char[c] = <<Plus>> /\ c = Space
  \/ InHex(char, c)

LEMMA CharIs ==
  ASSUME NEW char \in {Browser, Script}, NEW c \in Byte
  PROVE  /\ char[c] \in Seq(Byte) /\ Len(char[c]) \in 1 .. 3 /\ Written(char, c)
<1> DEFINE hi == c \div 16
           lo == c % 16
<1>1. hi \in Digit /\ lo \in Digit /\ 16 * hi + lo = c
  BY Halves
<1>2. Plus \in Byte /\ Percent \in Byte
  BY DEF Plus, Percent, Byte
<1> HIDE DEF hi, lo
<1>3. ASSUME NEW h \in Byte, NEW l \in Byte, HexValue(h) = {hi}, HexValue(l) = {lo},
             char[c] = <<Percent, h, l>>
      PROVE  char[c] \in Seq(Byte) /\ Len(char[c]) \in 1 .. 3 /\ Written(char, c)
  <2>1. Written(char, c)
    BY <1>1, <1>3 DEF Written, InHex
  <2>2. <<Percent, h, l>> \in Seq(Byte) /\ Len(<<Percent, h, l>>) = 3
    BY <1>2
  <2> QED BY <1>3, <2>1, <2>2
<1>4. CASE char = Script
  <2>1. char[c] = <<Percent, Lower(hi), Lower(lo)>>
    BY <1>4 DEF Script, hi, lo
  <2> QED BY <1>1, <1>3, <2>1, HexIs
<1>5. CASE char = Browser
  <2>1. char[c] = IF c \in Unreserved THEN <<c>>
                  ELSE IF c = Space THEN <<Plus>>
                  ELSE <<Percent, Upper(hi), Upper(lo)>>
    BY <1>5 DEF Browser, hi, lo
  <2>2. CASE c \in Unreserved
    <3>1. c \notin {Plus, Percent}
      BY <2>2 DEF Unreserved, Plus, Percent
    <3>2. char[c] = <<c>> /\ <<c>> \in Seq(Byte) /\ Len(<<c>>) = 1
      BY <2>1, <2>2
    <3>3. Written(char, c)
      BY <3>1, <3>2 DEF Written
    <3> QED BY <3>2, <3>3
  <2>3. CASE c \notin Unreserved /\ c = Space
    <3>1. char[c] = <<Plus>> /\ <<Plus>> \in Seq(Byte) /\ Len(<<Plus>>) = 1
      BY <1>2, <2>1, <2>3
    <3>2. Written(char, c)
      BY <2>3, <3>1 DEF Written
    <3> QED BY <3>1, <3>2
  <2>4. CASE c \notin Unreserved /\ c # Space
    <3>1. char[c] = <<Percent, Upper(hi), Upper(lo)>>
      BY <2>1, <2>4
    <3> QED BY <1>1, <1>3, <3>1, HexIs
  <2> QED BY <2>2, <2>3, <2>4
<1> QED BY <1>4, <1>5

LEMMA DecodesFirst ==
  ASSUME NEW char \in {Browser, Script}, NEW c \in Byte, NEW rest \in Seq(Byte)
  PROVE  LET src == char[c] \o rest
         IN  /\ src \in Seq(Byte) /\ src # <<>> /\ Decoded(src) = {c}
             /\ SubSeq(src, Width(src) + 1, Len(src)) = rest
<1> DEFINE src == char[c] \o rest
<1>1. char[c] \in Seq(Byte) /\ Len(char[c]) \in 1 .. 3 /\ Written(char, c)
  BY CharIs
<1>2. src \in Seq(Byte) /\ Len(src) = Len(char[c]) + Len(rest) /\ src[1] = char[c][1]
  BY <1>1
<1>3. src # <<>>
  BY <1>1, <1>2
<1>4. ASSUME NEW k \in {1, 3}, Len(char[c]) = k
      PROVE  SubSeq(src, k + 1, Len(src)) = rest
  BY <1>1, <1>4, AfterFirst
<1>5. Plus # Percent
  BY DEF Plus, Percent
<1>6. ASSUME char[c] = <<c>>, c \notin {Plus, Percent}
      PROVE  Decoded(src) = {c} /\ SubSeq(src, Width(src) + 1, Len(src)) = rest
  <2>1. src[1] = c /\ Len(char[c]) = 1
    BY <1>2, <1>6
  <2> HIDE DEF src
  <2>2. Decoded(src) = {c} /\ Width(src) = 1
    BY <1>6, <2>1 DEF Decoded, Width
  <2> QED BY <1>2, <1>3, <1>4, <2>1, <2>2 DEF src
<1>7. ASSUME char[c] = <<Plus>>, c = Space
      PROVE  Decoded(src) = {c} /\ SubSeq(src, Width(src) + 1, Len(src)) = rest
  <2>1. src[1] = Plus /\ Len(char[c]) = 1
    BY <1>2, <1>7
  <2> HIDE DEF src
  <2>2. Decoded(src) = {c} /\ Width(src) = 1
    BY <1>5, <1>7, <2>1 DEF Decoded, Width
  <2> QED BY <1>2, <1>3, <1>4, <2>1, <2>2 DEF src
<1>8. ASSUME NEW h \in Byte, NEW l \in Byte, char[c] = <<Percent, h, l>>,
             NEW v \in Digit, NEW w \in Digit, HexValue(h) = {v}, HexValue(l) = {w},
             16 * v + w = c
      PROVE  Decoded(src) = {c} /\ SubSeq(src, Width(src) + 1, Len(src)) = rest
  <2>1. Len(char[c]) = 3 /\ src[1] = Percent /\ src[2] = h /\ src[3] = l /\ ~(Len(src) < 3)
    BY <1>1, <1>2, <1>8
  <2> HIDE DEF src
  <2>2. Decoded(src) = {16 * a + b : a \in HexValue(src[2]), b \in HexValue(src[3])}
        /\ Width(src) = 3
    BY <1>5, <2>1 DEF Decoded, Width
  <2>3. {16 * a + b : a \in {v}, b \in {w}} = {16 * v + w}
    OBVIOUS
  <2>4. Decoded(src) = {c}
    BY <1>8, <2>1, <2>2, <2>3
  <2> QED BY <1>4, <2>1, <2>2, <2>4 DEF src
<1> HIDE DEF src
<1>9. Decoded(src) = {c} /\ SubSeq(src, Width(src) + 1, Len(src)) = rest
  <2>1. CASE InHex(char, c)
    <3>1. PICK h \in Byte, l \in Byte, v \in Digit, w \in Digit :
             /\ char[c] = <<Percent, h, l>>
             /\ HexValue(h) = {v} /\ HexValue(l) = {w} /\ 16 * v + w = c
      BY <2>1 DEF InHex
    <3> QED BY <1>8, <3>1
  <2> QED BY <1>1, <1>6, <1>7, <2>1 DEF Written
<1> QED BY <1>2, <1>3, <1>9 DEF src

LEMMA EncodeAppend ==
  ASSUME NEW char \in {Browser, Script}
  PROVE  /\ UrlEncode(<<>>, char) = <<>>
         /\ \A t \in Seq(Byte), c \in Byte :
              /\ UrlEncode(t, char) \in Seq(Byte)
              /\ UrlEncode(Append(t, c), char) = UrlEncode(t, char) \o char[c]
<1> DEFINE step == [c \in Byte |-> [out \in Seq(Byte) |-> out \o char[c]]]
<1>1. \A c \in Byte : char[c] \in Seq(Byte)
  BY CharIs
<1>2. step \in [Byte -> [Seq(Byte) -> Seq(Byte)]]
  BY <1>1
<1>3. \A c \in Byte, out \in Seq(Byte) : step[c][out] = out \o char[c]
  OBVIOUS
<1>4. <<>> \in Seq(Byte)
  OBVIOUS
<1>5. \A t : UrlEncode(t, char) = Loop(step, <<>>, t)
  BY DEF UrlEncode
<1> HIDE DEF step
<1>6. UrlEncode(<<>>, char) = <<>>
  <2> DEFINE B == Seq(Byte)
  <2>1. <<>> \in B /\ step \in [Byte -> [B -> B]]
    BY <1>2, <1>4
  <2> HIDE DEF B
  <2>2. Loop(step, <<>>, <<>>) = <<>>
    BY <2>1, LoopEmpty
  <2> QED BY <1>5, <2>2
<1>7. ASSUME NEW t \in Seq(Byte), NEW c \in Byte
      PROVE  /\ UrlEncode(t, char) \in Seq(Byte)
             /\ UrlEncode(Append(t, c), char) = UrlEncode(t, char) \o char[c]
  <2> DEFINE B == Seq(Byte)
  <2>1. <<>> \in B /\ step \in [Byte -> [B -> B]]
    BY <1>2, <1>4
  <2>2. t \in Seq(Byte)
    OBVIOUS
  <2> HIDE DEF B
  <2>3. Loop(step, <<>>, t) \in B
    BY <2>1, <2>2, LoopAppend
  <2>4. Loop(step, <<>>, Append(t, c)) = step[c][Loop(step, <<>>, t)]
    BY <2>1, <2>2, LoopAppend
  <2> QED BY <1>3, <1>5, <2>3, <2>4 DEF B
<1> QED BY <1>6, <1>7

(* Encoding byte by byte, from the other end. *)
LEMMA EncodeFirst ==
  ASSUME NEW char \in {Browser, Script}, NEW c \in Byte, NEW text \in Seq(Byte)
  PROVE  UrlEncode(<<c>> \o text, char) = char[c] \o UrlEncode(text, char)
<1> DEFINE S == {t \in Seq(Byte) :
                   UrlEncode(<<c>> \o t, char) = char[c] \o UrlEncode(t, char)}
<1>1. <<>> \in S
  <2>1. <<c>> \o <<>> = Append(<<>>, c) /\ <<>> \in Seq(Byte)
    OBVIOUS
  <2>2. UrlEncode(Append(<<>>, c), char) = UrlEncode(<<>>, char) \o char[c]
    BY <2>1, EncodeAppend
  <2>3. UrlEncode(<<>>, char) = <<>>
    BY EncodeAppend
  <2>4. char[c] \in Seq(Byte)
    BY CharIs
  <2>5. <<>> \o char[c] = char[c] \o <<>>
    BY <2>4
  <2> QED BY <2>1, <2>2, <2>3, <2>5
<1>2. ASSUME NEW t \in Seq(Byte), NEW d \in Byte, t \in S
      PROVE  Append(t, d) \in S
  <2> DEFINE e == UrlEncode(t, char)
  <2>1. <<c>> \in Seq(Byte)
    OBVIOUS
  <2>2. <<c>> \o t \in Seq(Byte) /\ <<c>> \o Append(t, d) = Append(<<c>> \o t, d)
        /\ Append(t, d) \in Seq(Byte)
    BY <2>1, AppendAfter
  <2>3. UrlEncode(Append(<<c>> \o t, d), char) = UrlEncode(<<c>> \o t, char) \o char[d]
    BY <2>2, EncodeAppend
  <2>4. UrlEncode(<<c>> \o t, char) = char[c] \o e
    BY <1>2
  <2>5. UrlEncode(Append(t, d), char) = e \o char[d] /\ e \in Seq(Byte)
    BY EncodeAppend
  <2>6. char[c] \in Seq(Byte) /\ char[d] \in Seq(Byte)
    BY CharIs
  <2>7. (char[c] \o e) \o char[d] = char[c] \o (e \o char[d])
    <3> DEFINE p == char[c]
               q == char[d]
    <3> HIDE DEF e, p, q
    <3>1. e \in Seq(Byte) /\ p \in Seq(Byte) /\ q \in Seq(Byte)
      BY <2>5, <2>6 DEF p, q
    <3>2. (p \o e) \o q = p \o (e \o q)
      BY <3>1, ConcatAssociative, SMTT(30)
    <3> QED BY <3>2 DEF p, q
  <2> HIDE DEF e
  <2> QED BY <2>2, <2>3, <2>4, <2>5, <2>7
<1>3. text \in S
  <2> HIDE DEF S
  <2> QED BY <1>1, <1>2, EverySequence
<1> QED BY <1>3

LEMMA EncodeRest ==
  ASSUME NEW char \in {Browser, Script}, NEW text \in Seq(Byte), NEW n \in 1 .. Len(text)
  PROVE  /\ text[n] \in Byte /\ SubSeq(text, n + 1, Len(text)) \in Seq(Byte)
         /\ UrlEncode(SubSeq(text, n, Len(text)), char)
              = char[text[n]] \o UrlEncode(SubSeq(text, n + 1, Len(text)), char)
<1> DEFINE c == text[n]
           r == SubSeq(text, n + 1, Len(text))
<1>1. c \in Byte /\ r \in Seq(Byte)
  OBVIOUS
<1>2. SubSeq(text, n, Len(text)) = <<c>> \o r
  <2>1. Len(text) \in n .. Len(text)
    OBVIOUS
  <2> QED BY <2>1, SubSeqRecursiveFirst
<1> HIDE DEF c, r
<1>3. UrlEncode(<<c>> \o r, char) = char[c] \o UrlEncode(r, char)
  BY <1>1, EncodeFirst
<1> QED BY <1>1, <1>2, <1>3 DEF c, r

LEMMA EncodedLength ==
  ASSUME NEW char \in {Browser, Script}, NEW text \in Seq(Byte)
  PROVE  UrlEncode(text, char) \in Seq(Byte) /\ Len(UrlEncode(text, char)) <= 3 * Len(text)
<1> DEFINE S == {t \in Seq(Byte) : Len(UrlEncode(t, char)) <= 3 * Len(t)}
<1>1. <<>> \in S
  BY EncodeAppend
<1>2. ASSUME NEW t \in Seq(Byte), NEW c \in Byte, t \in S
      PROVE  Append(t, c) \in S
  <2> DEFINE e == UrlEncode(t, char)
  <2>1. e \in Seq(Byte) /\ UrlEncode(Append(t, c), char) = e \o char[c]
    BY EncodeAppend
  <2>2. char[c] \in Seq(Byte) /\ Len(char[c]) \in 1 .. 3
    BY CharIs
  <2>3. Len(e) <= 3 * Len(t)
    BY <1>2
  <2> HIDE DEF e
  <2>4. Len(e \o char[c]) = Len(e) + Len(char[c]) /\ Len(Append(t, c)) = Len(t) + 1
        /\ Append(t, c) \in Seq(Byte)
    BY <2>1, <2>2
  <2>5. Len(e) + Len(char[c]) <= 3 * (Len(t) + 1)
    <3> DEFINE n == Len(e)
               m == Len(char[c])
               k == Len(t)
    <3>1. n \in Int /\ k \in Int
      BY <2>1
    <3>2. m \in Int /\ m <= 3
      <4> HIDE DEF m
      <4>1. m \in 1 .. 3
        BY <2>2 DEF m
      <4> QED BY <4>1
    <3>3. n <= 3 * k
      BY <2>3
    <3> HIDE DEF n, m, k
    <3>4. n + m <= 3 * (k + 1)
      BY <3>1, <3>2, <3>3
    <3> QED BY <3>4 DEF n, m, k
  <2> QED BY <2>1, <2>4, <2>5
<1>3. text \in S
  <2> HIDE DEF S
  <2> QED BY <1>1, <1>2, EverySequence
<1>4. UrlEncode(text, char) \in Seq(Byte)
  <2>1. 1 \in Byte
    BY DEF Byte
  <2> QED BY <2>1, EncodeAppend
<1> QED BY <1>3, <1>4

DecodeStep(st, size) ==
  IF st.src = <<>> \/ Len(st.dst) + 1 >= size \/ Decoded(st.src) = {} THEN st
  ELSE [src |-> SubSeq(st.src, Width(st.src) + 1, Len(st.src)),
        dst |-> Append(st.dst, CHOOSE b \in Decoded(st.src) : TRUE)]

LEMMA Octets == Byte \subseteq Octet /\ Space \in Octet
BY DEF Byte, Octet, Space

LEMMA DecodedIs ==
  ASSUME NEW src \in Seq(Byte), src # <<>>
  PROVE  /\ Decoded(src) \subseteq Octet
         /\ SubSeq(src, Width(src) + 1, Len(src)) \in Seq(Byte)
<1>1. src[1] \in Byte /\ Len(src) \in Nat /\ Len(src) >= 1
  OBVIOUS
<1>2. SubSeq(src, Width(src) + 1, Len(src)) \in Seq(Byte)
  <2>1. Width(src) \in {1, 3}
    BY DEF Width
  <2> QED BY <2>1
<1>3. CASE src[1] = Plus
  BY <1>2, <1>3, Octets DEF Decoded
<1>4. CASE src[1] # Plus /\ src[1] # Percent
  BY <1>1, <1>2, <1>4, Octets DEF Decoded
<1>5. CASE src[1] # Plus /\ src[1] = Percent /\ ~(Len(src) < 3)
  <2>1. src[2] \in Byte /\ src[3] \in Byte
    BY <1>5
  <2>2. Decoded(src) = {16 * hi + lo : hi \in HexValue(src[2]), lo \in HexValue(src[3])}
    BY <1>5 DEF Decoded
  <2>3. HexValue(src[2]) \subseteq Digit /\ HexValue(src[3]) \subseteq Digit
    BY <2>1, HexIs
  <2>4. \A hi, lo \in Digit : 16 * hi + lo \in Octet
    BY DEF Digit, Octet
  <2> QED BY <1>2, <2>2, <2>3, <2>4
<1>6. CASE src[1] # Plus /\ src[1] = Percent /\ Len(src) < 3
  BY <1>2, <1>6 DEF Decoded
<1> QED BY <1>3, <1>4, <1>5, <1>6

LEMMA DecodeCharIs ==
  ASSUME NEW size \in Nat
  PROVE  /\ DecodeChar(size) \in [Nat -> [Turning -> Turning]]
         /\ \A turn \in Nat, st \in Turning : DecodeChar(size)[turn][st] = DecodeStep(st, size)
<1>1. DecodeChar(size) = [turn \in Nat |-> [st \in Turning |-> DecodeStep(st, size)]]
  BY DEF DecodeChar, Turning, DecodeStep, Octet
<1>2. ASSUME NEW st \in Turning
      PROVE  DecodeStep(st, size) \in Turning
  <2>1. st.src \in Seq(Byte) /\ st.dst \in Seq(Octet)
    BY DEF Turning
  <2>2. CASE st.src = <<>> \/ Len(st.dst) + 1 >= size \/ Decoded(st.src) = {}
    BY <2>2 DEF DecodeStep
  <2>3. CASE ~(st.src = <<>> \/ Len(st.dst) + 1 >= size \/ Decoded(st.src) = {})
    <3> DEFINE b == CHOOSE b \in Decoded(st.src) : TRUE
               rest == SubSeq(st.src, Width(st.src) + 1, Len(st.src))
    <3>1. b \in Octet /\ rest \in Seq(Byte)
      BY <2>1, <2>3, DecodedIs
    <3>2. DecodeStep(st, size) = [src |-> rest, dst |-> Append(st.dst, b)]
      BY <2>3 DEF DecodeStep
    <3> HIDE DEF b, rest
    <3>3. Append(st.dst, b) \in Seq(Octet)
      BY <2>1, <3>1
    <3> QED BY <3>1, <3>2, <3>3 DEF Turning
  <2> QED BY <2>2, <2>3
<1> HIDE DEF DecodeStep
<1> QED BY <1>1, <1>2

(* The decoder after its k-th turn, when that has not met the end.           *)
Turned(text, char, k) ==
  [src |-> UrlEncode(SubSeq(text, k + 1, Len(text)), char), dst |-> SubSeq(text, 1, k)]

LEMMA TurnedIs ==
  ASSUME NEW char \in {Browser, Script}, NEW text \in Seq(Byte), NEW k \in 0 .. Len(text)
  PROVE  /\ Turned(text, char, k) \in Turning
         /\ Len(Turned(text, char, k).dst) = k
         /\ Turned(text, char, 0) = [src |-> UrlEncode(text, char), dst |-> <<>>]
         /\ Turned(text, char, Len(text)) = [src |-> <<>>, dst |-> text]
<1>1. /\ SubSeq(text, k + 1, Len(text)) \in Seq(Byte)
      /\ SubSeq(text, 1, k) \in Seq(Byte) /\ Len(SubSeq(text, 1, k)) = k
  OBVIOUS
<1>2. SubSeq(text, 1, k) \in Seq(Octet)
  <2> DEFINE p == SubSeq(text, 1, k)
  <2> HIDE DEF p
  <2>1. p \in Seq(Byte)
    BY <1>1 DEF p
  <2>2. p \in Seq(Octet)
    BY <2>1, Octets
  <2> QED BY <2>2 DEF p
<1>3. UrlEncode(SubSeq(text, k + 1, Len(text)), char) \in Seq(Byte)
  BY <1>1, EncodedLength
<1>4. /\ SubSeq(text, 0 + 1, Len(text)) = text /\ SubSeq(text, 1, 0) = <<>>
      /\ SubSeq(text, Len(text) + 1, Len(text)) = <<>> /\ SubSeq(text, 1, Len(text)) = text
  OBVIOUS
<1>5. UrlEncode(<<>>, char) = <<>>
  BY EncodeAppend
<1> QED BY <1>1, <1>2, <1>3, <1>4, <1>5 DEF Turned, Turning

(* A turn takes the byte the text goes on with, if the buffer has room for it. *)
LEMMA Turns ==
  ASSUME NEW char \in {Browser, Script}, NEW text \in Seq(Byte), NEW size \in Nat,
         NEW k \in 1 .. Len(text)
  PROVE  /\ Turned(text, char, k - 1).src # <<>>
         /\ k < size =>
              DecodeStep(Turned(text, char, k - 1), size) = Turned(text, char, k)
<1> DEFINE N == Len(text)
           st == Turned(text, char, k - 1)
           rest == UrlEncode(SubSeq(text, k + 1, N), char)
           c == text[k]
<1>1. N \in Nat /\ k - 1 \in 0 .. N /\ k - 1 + 1 = k
  OBVIOUS
<1>2. c \in Byte /\ SubSeq(text, k + 1, N) \in Seq(Byte)
      /\ UrlEncode(SubSeq(text, k, N), char) = char[c] \o rest
  BY EncodeRest
<1>3. rest \in Seq(Byte)
  BY <1>2, EncodedLength
<1>4. st.src = char[c] \o rest
  BY <1>1, <1>2 DEF Turned
<1>5. Len(st.dst) = k - 1 /\ st.dst = SubSeq(text, 1, k - 1)
  BY <1>1, TurnedIs DEF Turned
<1> HIDE DEF rest, st, N
<1>6. st.src # <<>> /\ Decoded(st.src) = {c}
      /\ SubSeq(st.src, Width(st.src) + 1, Len(st.src)) = rest
  <2> DEFINE src == char[c] \o rest
  <2>1. /\ src # <<>> /\ Decoded(src) = {c}
        /\ SubSeq(src, Width(src) + 1, Len(src)) = rest
    <3>1. c \in Byte
      BY <1>2
    <3> HIDE DEF c
    <3> QED BY <1>3, <3>1, DecodesFirst
  <2>2. st.src = src
    BY <1>4
  <2> HIDE DEF src
  <2> QED BY <2>1, <2>2
<1>7. (CHOOSE b \in Decoded(st.src) : TRUE) = c
  BY <1>6
<1>8. SubSeq(text, 1, k) = Append(SubSeq(text, 1, k - 1), c)
  BY PrefixGrows
<1>9. ASSUME k < size
      PROVE  DecodeStep(st, size) = Turned(text, char, k)
  <2>1. ~(Len(st.dst) + 1 >= size) /\ Decoded(st.src) # {}
    BY <1>1, <1>5, <1>6, <1>9
  <2>2. DecodeStep(st, size) = [src |-> rest, dst |-> Append(st.dst, c)]
    BY <1>6, <1>7, <2>1 DEF DecodeStep
  <2> QED BY <1>5, <1>8, <2>2 DEF Turned, rest, N
<1> QED BY <1>6, <1>9 DEF st

(***************************************************************************)
(* url_decode (wifi_provisioning.c:124-144) gives back the text that was        *)
(* encoded, if it leaves room for the terminator in its buffer, and fails       *)
(* otherwise: for every text, buffer and either way to write the digits.       *)
(***************************************************************************)
LEMMA Decodes ==
  ASSUME NEW char \in {Browser, Script}, NEW text \in Seq(Byte), NEW size \in Nat \ {0}
  PROVE  UrlDecode(UrlEncode(text, char), size) = IF Len(text) < size THEN {text} ELSE {}
<1> DEFINE N == Len(text)
           M == IF N < size THEN N ELSE size - 1
           items == [turn \in 1 .. size |-> turn]
           start == [src |-> UrlEncode(text, char), dst |-> <<>>]
           end == Loop(DecodeChar(size), start, items)
           State(k) == Turned(text, char, k)
           Cut(k) == IF k < M THEN k ELSE M
<1>1. /\ N \in Nat /\ size \in Nat /\ size >= 1 /\ M \in 0 .. N /\ M < size
      /\ N < size => M = N
      /\ N >= size => M = size - 1 /\ M + 1 \in 1 .. N
  OBVIOUS
<1>2. items \in Seq(Nat) /\ Len(items) = size /\ \A i \in 1 .. size : items[i] = i
  OBVIOUS
<1> HIDE DEF N, M, items
<1>3. start = State(0) /\ \A k \in 0 .. N : State(k) \in Turning /\ Len(State(k).dst) = k
  <2>1. 0 \in 0 .. N
    BY <1>1
  <2> QED BY <2>1, TurnedIs DEF N
<1> HIDE DEF start
<1>4. start \in Turning
  BY <1>1, <1>3
<1>5. PICK f \in [0 .. size -> Turning] :
        /\ f[0] = start /\ \A i \in 1 .. size : f[i] = DecodeChar(size)[items[i]][f[i - 1]]
        /\ end = f[size]
  <2>1. LoopRuns(Turning, start, DecodeChar(size), items) # {}
    <3>1. DecodeChar(size) \in [Nat -> [Turning -> Turning]]
      BY DecodeCharIs
    <3> QED BY <1>2, <1>4, <3>1, LoopIs
  <2>2. PICK f : f \in LoopRuns(Turning, start, DecodeChar(size), items)
    BY <2>1, Zenon
  <2> QED BY <1>2, <2>2 DEF LoopRuns
<1> HIDE DEF end
<1>6. ASSUME NEW i \in 1 .. size
      PROVE  f[i] = DecodeStep(f[i - 1], size)
  <2>1. i \in Nat /\ i - 1 \in 0 .. size
    BY <1>1
  <2>2. f[i - 1] \in Turning /\ items[i] = i
    BY <1>2, <1>5, <2>1
  <2> QED BY <1>5, <2>1, <2>2, DecodeCharIs
<1>7. DecodeStep(State(M), size) = State(M)
  <2>1. CASE N < size
    <3>1. State(M).src = <<>>
      BY <1>1, <2>1, TurnedIs DEF N
    <3> HIDE DEF State
    <3> QED BY <3>1 DEF DecodeStep
  <2>2. CASE N >= size
    <3>1. Len(State(M).dst) = size - 1 /\ size - 1 + 1 >= size
      BY <1>1, <1>3, <2>2
    <3> HIDE DEF State
    <3>2. Len(State(M).dst) + 1 >= size
      BY <3>1
    <3> QED BY <3>2 DEF DecodeStep
  <2> QED BY <1>1, <2>1, <2>2
<1>8. ASSUME NEW k \in 1 .. N, k < size
      PROVE  DecodeStep(State(k - 1), size) = State(k)
  BY <1>8, Turns DEF N
<1> HIDE DEF State
<1> DEFINE S == {k \in 0 .. size : f[k] = State(Cut(k))}
<1>9. 0 \in S
  <2>1. Cut(0) = 0
    BY <1>1
  <2> QED BY <1>1, <1>3, <1>5, <2>1
<1>10. ASSUME NEW k \in 1 .. size, k - 1 \in S
       PROVE  k \in S
  <2>1. f[k] = DecodeStep(State(Cut(k - 1)), size)
    BY <1>6, <1>10
  <2>2. CASE k <= M
    <3>1. Cut(k - 1) = k - 1 /\ Cut(k) = k /\ k \in 1 .. N /\ k < size
      BY <1>1, <2>2
    <3>2. f[k] = State(Cut(k))
      BY <1>8, <2>1, <3>1
    <3> QED BY <3>2
  <2>3. CASE ~(k <= M)
    <3>1. Cut(k - 1) = M /\ Cut(k) = M
      BY <1>1, <2>3
    <3>2. f[k] = State(Cut(k))
      BY <1>7, <2>1, <3>1
    <3> QED BY <3>2
  <2> QED BY <2>2, <2>3
<1>11. \A k \in 0 .. size : k \in S
  <2> HIDE DEF S
  <2> QED BY <1>1, <1>9, <1>10, Steps
<1>12. end = State(M)
  <2>1. size \in S /\ Cut(size) = M
    BY <1>1, <1>11
  <2> QED BY <1>5, <2>1
<1>13. UrlDecode(UrlEncode(text, char), size) = IF end.src # <<>> THEN {} ELSE {end.dst}
  BY DEF UrlDecode, end, start, items
<1>14. CASE N < size
  <2>1. State(M).src = <<>> /\ State(M).dst = text
    BY <1>1, <1>14, TurnedIs DEF N, State
  <2> QED BY <1>12, <1>13, <1>14, <2>1 DEF N
<1>15. CASE N >= size
  <2>1. M + 1 \in 1 .. N /\ M + 1 - 1 = M
    BY <1>1, <1>15
  <2>2. State(M).src # <<>>
    BY <2>1, Turns DEF N, State
  <2>3. ~(N < size)
    BY <1>1, <1>15
  <2> QED BY <1>12, <1>13, <2>2, <2>3 DEF N
<1> QED BY <1>1, <1>14, <1>15

(* form_value's own buffer is never the one that is too small.               *)
LEMMA FieldRead ==
  ASSUME NEW char \in {Browser, Script}, NEW text \in Seq(Byte), NEW size \in 1 .. 64
  PROVE  (IF Len(UrlEncode(text, char)) >= EncodedSize THEN {}
          ELSE UrlDecode(UrlEncode(text, char), size))
           = IF Len(text) < size THEN {text} ELSE {}
<1> DEFINE e == UrlEncode(text, char)
           n == Len(e)
           m == Len(text)
<1>1. n \in Nat /\ m \in Nat /\ n <= 3 * m
  BY EncodedLength
<1>2. UrlDecode(e, size) = IF m < size THEN {text} ELSE {}
  <2>1. size \in Nat \ {0}
    OBVIOUS
  <2> QED BY <2>1, Decodes
<1> HIDE DEF n, m
<1>3. m < size => ~(n >= EncodedSize)
  BY <1>1 DEF EncodedSize
<1> HIDE DEF e
<1> QED BY <1>2, <1>3 DEF n, m, e

Typed == [selected : Seq(Byte), manual : Seq(Byte), pass : Seq(Byte)]

LEMMA FormIs ==
  ASSUME NEW char \in {Browser, Script}, NEW entry \in Typed
  PROVE  LET body == Form(entry, char)
             Read(text, size) == IF Len(text) < size THEN {text} ELSE {}
         IN  /\ FormValue(body, "ssid", NameSize) = Read(entry.selected, 33)
             /\ FormValue(body, "manual", NameSize) = Read(entry.manual, 33)
             /\ FormValue(body, "pass", PassSize) = Read(entry.pass, 64)
             /\ ContentLen(body) \in Int /\ ContentLen(body) >= 1
<1> DEFINE s == UrlEncode(entry.selected, char)
           m == UrlEncode(entry.manual, char)
           p == UrlEncode(entry.pass, char)
           a == [key |-> "ssid", text |-> s]
           b == [key |-> "manual", text |-> m]
           c == [key |-> "pass", text |-> p]
           body == <<a, b, c>>
           Read(text, size) == IF Len(text) < size THEN {text} ELSE {}
<1>1. entry.selected \in Seq(Byte) /\ entry.manual \in Seq(Byte) /\ entry.pass \in Seq(Byte)
  BY DEF Typed
<1>2. s \in Seq(Byte) /\ m \in Seq(Byte) /\ p \in Seq(Byte)
  BY <1>1, EncodedLength
<1>3. Form(entry, char) = body
  BY DEF Form
<1>5. Min({1}) = 1 /\ Min({2}) = 2 /\ Min({3}) = 3
  BY DEF Min
<1>6. /\ {i \in DOMAIN body : body[i].key = "ssid"} = {1}
      /\ {i \in DOMAIN body : body[i].key = "manual"} = {2}
      /\ {i \in DOMAIN body : body[i].key = "pass"} = {3}
      /\ body[1].text = s /\ body[2].text = m /\ body[3].text = p
  OBVIOUS
<1> HIDE DEF body
<1>7. /\ FormValue(body, "ssid", NameSize)
           = IF Len(s) >= EncodedSize THEN {} ELSE UrlDecode(s, NameSize)
      /\ FormValue(body, "manual", NameSize)
           = IF Len(m) >= EncodedSize THEN {} ELSE UrlDecode(m, NameSize)
      /\ FormValue(body, "pass", PassSize)
           = IF Len(p) >= EncodedSize THEN {} ELSE UrlDecode(p, PassSize)
  <2> HIDE DEF s, m, p
  <2> QED BY <1>5, <1>6 DEF FormValue
<1>8. NameSize = 33 /\ PassSize = 64
  BY DEF NameSize, PassSize
<1>9. /\ FormValue(body, "ssid", NameSize) = Read(entry.selected, 33)
      /\ FormValue(body, "manual", NameSize) = Read(entry.manual, 33)
      /\ FormValue(body, "pass", PassSize) = Read(entry.pass, 64)
  <2>1. 33 \in 1 .. 64 /\ 64 \in 1 .. 64
    OBVIOUS
  <2>2. (IF Len(s) >= EncodedSize THEN {} ELSE UrlDecode(s, 33)) = Read(entry.selected, 33)
    BY <1>1, <2>1, FieldRead, ZenonT(30)
  <2>3. (IF Len(m) >= EncodedSize THEN {} ELSE UrlDecode(m, 33)) = Read(entry.manual, 33)
    BY <1>1, <2>1, FieldRead, ZenonT(30)
  <2>4. (IF Len(p) >= EncodedSize THEN {} ELSE UrlDecode(p, 64)) = Read(entry.pass, 64)
    BY <1>1, <2>1, FieldRead, ZenonT(30)
  <2> HIDE DEF s, m, p, Read
  <2> QED BY <1>7, <1>8, <2>2, <2>3, <2>4
<1> DEFINE step == [f \in Field |-> [n \in Int |-> n + KeyLength[f.key] + 1 + Len(f.text)]]
<1>10. ASSUME NEW f \in Field, NEW n \in Int
       PROVE  n + KeyLength[f.key] + 1 + Len(f.text) \in Int
              /\ n + KeyLength[f.key] + 1 + Len(f.text) >= n
  <2>1. KeyLength[f.key] \in Nat
    BY DEF Field, KeyLength
  <2>2. Len(f.text) \in Nat
    BY DEF Field
  <2> QED BY <2>1, <2>2
<1>11. step \in [Field -> [Int -> Int]]
  BY <1>10
<1>12. \A f \in Field, n \in Int : step[f][n] >= n
  BY <1>10
<1>13. body \in Seq(Field) /\ Len(body) = 3
       /\ body[1] \in Field /\ body[2] \in Field /\ body[3] \in Field
  <2>1. a \in Field /\ b \in Field /\ c \in Field
    <3> HIDE DEF s, m, p
    <3> QED BY <1>2 DEF Field
  <2> HIDE DEF a, b, c
  <2> QED BY <2>1 DEF body
<1>14. ContentLen(body) = Loop(step, 2, body)
  BY <1>13 DEF ContentLen
<1> HIDE DEF step
<1>15. PICK f \in [0 .. 3 -> Int] :
         /\ f[0] = 2 /\ \A i \in 1 .. 3 : f[i] = step[body[i]][f[i - 1]]
         /\ ContentLen(body) = f[3]
  <2>1. LoopRuns(Int, 2, step, body) # {}
    <3>1. 2 \in Int
      OBVIOUS
    <3> QED BY <1>11, <1>13, <3>1, LoopIs
  <2>2. PICK f : f \in LoopRuns(Int, 2, step, body)
    BY <2>1, Zenon
  <2> QED BY <1>13, <1>14, <2>2 DEF LoopRuns
<1>16. f[0] \in Int /\ f[1] \in Int /\ f[2] \in Int /\ f[3] \in Int
  BY <1>15
<1>17. f[1] = step[body[1]][f[0]] /\ f[2] = step[body[2]][f[1]] /\ f[3] = step[body[3]][f[2]]
  BY <1>15
<1>18. f[1] >= f[0] /\ f[2] >= f[1] /\ f[3] >= f[2]
  BY <1>12, <1>13, <1>16, <1>17
<1>19. ContentLen(body) \in Int /\ ContentLen(body) >= 1
  BY <1>15, <1>16, <1>18
<1> HIDE DEF Read
<1> QED BY <1>3, <1>9, <1>19 DEF Read

(* Of one form: what save_post_handler goes on with.                         *)
LEMMA SubmittedIs ==
  ASSUME NEW char \in {Browser, Script}, NEW entry \in Typed
  PROVE  LET body == Form(entry, char)
         IN  Submitted(body) = IF Proper(entry, body) THEN {Meant(entry)} ELSE {}
<1> DEFINE body == Form(entry, char)
           s == entry.selected
           m == entry.manual
           p == entry.pass
           size == ContentLen(body)
           made == {[ssid |-> IF manual # <<>> THEN manual ELSE selected, pass |-> password] :
                      selected \in FormValue(body, "ssid", NameSize),
                      manual \in FormValue(body, "manual", NameSize),
                      password \in FormValue(body, "pass", PassSize)}
           Kept(c) == /\ size \in 1 .. FormBodyMax
                      /\ c.ssid # <<>> /\ (c.pass = <<>> \/ Len(c.pass) >= PassMin)
           meant == Meant(entry)
<1>1. Submitted(body) = {c \in made : Kept(c)}
  BY DEF Submitted
<1>2. /\ FormValue(body, "ssid", NameSize) = IF Len(s) < 33 THEN {s} ELSE {}
      /\ FormValue(body, "manual", NameSize) = IF Len(m) < 33 THEN {m} ELSE {}
      /\ FormValue(body, "pass", PassSize) = IF Len(p) < 64 THEN {p} ELSE {}
      /\ size \in Int /\ size >= 1
  BY FormIs
<1>3. s \in Seq(Byte) /\ m \in Seq(Byte) /\ p \in Seq(Byte)
  BY DEF Typed
<1>4. /\ Len(s) \in Nat /\ Len(m) \in Nat /\ Len(p) \in Nat
      /\ p = <<>> <=> Len(p) = 0
  BY <1>3
<1>5. meant = [ssid |-> IF m # <<>> THEN m ELSE s, pass |-> p]
  BY DEF Meant, Empty
<1>6. meant.pass = p
  BY <1>5
<1>7. Proper(entry, body) <=>
        /\ meant.ssid # <<>> /\ Len(s) <= 32 /\ Len(m) <= 32
        /\ Len(p) \in {0} \cup 8 .. 63 /\ size <= FormBodyMax
  BY DEF Proper, Empty
<1>8. made = IF Len(s) < 33 /\ Len(m) < 33 /\ Len(p) < 64 THEN {meant} ELSE {}
  <2> HIDE DEF body, s, m, p, meant
  <2>1. CASE Len(s) < 33 /\ Len(m) < 33 /\ Len(p) < 64
    <3>1. /\ FormValue(body, "ssid", NameSize) = {s}
          /\ FormValue(body, "manual", NameSize) = {m}
          /\ FormValue(body, "pass", PassSize) = {p}
      BY <1>2, <2>1
    <3>2. ASSUME NEW x \in made
          PROVE  x = meant
      <4>1. PICK selected \in {s}, manual \in {m}, password \in {p} :
              x = [ssid |-> IF manual # <<>> THEN manual ELSE selected, pass |-> password]
        BY <3>1
      <4>2. selected = s /\ manual = m /\ password = p
        OBVIOUS
      <4> QED BY <1>5, <4>1, <4>2
    <3>3. meant \in made
      <4>1. s \in {s} /\ m \in {m} /\ p \in {p}
        OBVIOUS
      <4> QED BY <1>5, <3>1, <4>1
    <3> HIDE DEF made
    <3>4. made = {meant}
      BY <3>2, <3>3
    <3> QED BY <2>1, <3>4
  <2>2. CASE ~(Len(s) < 33)
    BY <1>2, <2>2
  <2>3. CASE ~(Len(m) < 33)
    BY <1>2, <2>3
  <2>4. CASE ~(Len(p) < 64)
    BY <1>2, <2>4
  <2> QED BY <2>1, <2>2, <2>3, <2>4
<1> HIDE DEF body, s, m, p, size, made, meant
<1>9. Proper(entry, body) <=> Len(s) < 33 /\ Len(m) < 33 /\ Len(p) < 64 /\ Kept(meant)
  <2>1. Kept(meant) <=> /\ size <= FormBodyMax /\ meant.ssid # <<>>
                        /\ (Len(p) = 0 \/ Len(p) >= 8)
    BY <1>2, <1>4, <1>6 DEF FormBodyMax, PassMin
  <2> HIDE DEF Kept
  <2>2. /\ Len(s) < 33 <=> Len(s) <= 32
        /\ Len(m) < 33 <=> Len(m) <= 32
        /\ Len(p) \in {0} \cup 8 .. 63 <=> Len(p) < 64 /\ (Len(p) = 0 \/ Len(p) >= 8)
    <3> DEFINE i == Len(s)
               j == Len(m)
               k == Len(p)
    <3>1. i \in Nat /\ j \in Nat /\ k \in Nat
      BY <1>4
    <3> HIDE DEF i, j, k
    <3>2. /\ i < 33 <=> i <= 32
          /\ j < 33 <=> j <= 32
          /\ k \in {0} \cup 8 .. 63 <=> k < 64 /\ (k = 0 \/ k >= 8)
      BY <3>1
    <3> QED BY <3>2 DEF i, j, k
  <2> QED BY <1>7, <2>1, <2>2
<1> HIDE DEF Kept
<1>10. {c \in made : Kept(c)} = IF Proper(entry, body) THEN {meant} ELSE {}
  BY <1>8, <1>9
<1> QED BY <1>1, <1>10 DEF body, meant

-----------------------------------------------------------------------------
(***************************************************************************)
(* The portal takes the network and the password that the user chose, to the *)
(* byte, and refuses an entry only if nothing is chosen, or for its length:   *)
(* for every scan and every entry of which the name selected, if any, is one   *)
(* that a page can show as it is (UTF-8, no line end but CR LF), when          *)
(* html_escape leaves the names whole (ShortFits), whether a browser or a      *)
(* script sends the form (wifi_provisioning.c:29, 55-192).                   *)
(***************************************************************************)
THEOREM DeviceChoiceIsTaken ==
  ASSUME \A entry \in Entries : Fits(entry.selected)
  PROVE  Spec => []ChoiceIsTaken
<1>1. ASSUME NEW entry \in Entries, Legible(entry.selected)
      PROVE  /\ entry \in Typed
             /\ Sent(entry) = {Form(entry, Browser), Form(entry, Script)}
  <2>1. entry \in Typed
    BY SetupAssumption DEF Typed
  <2>2. ReadHtml(Shown(HtmlEscape(entry.selected))) = entry.selected
    <3>1. entry.selected \in Seq(Byte) /\ Fits(entry.selected)
      BY <2>1 DEF Typed
    <3>2. Shown(entry.selected) = entry.selected
      BY <1>1 DEF Legible
    <3> QED BY <3>1, <3>2, ReadBack
  <2>3. [entry EXCEPT !.selected = ReadHtml(Shown(HtmlEscape(@)))] = entry
    BY <2>1, <2>2 DEF Typed
  <2> QED BY <2>1, <2>3 DEF Sent
<1>2. ReadAsMeant
  <2> SUFFICES ASSUME NEW entry \in Entries, Legible(entry.selected), NEW body \in Sent(entry)
               PROVE  Submitted(body) = IF Proper(entry, body) THEN {Meant(entry)} ELSE {}
    BY DEF ReadAsMeant
  <2>1. PICK char \in {Browser, Script} : body = Form(entry, char)
    BY <1>1
  <2> QED BY <1>1, <2>1, SubmittedIs
<1>3. ChoiceIsTaken
  BY <1>2 DEF ChoiceIsTaken
<1> QED BY <1>3, PTL
=============================================================================
