----------------------------- MODULE DeviceSetup ------------------------------
(***************************************************************************)
(* How the device decides, boot after boot, between joining the saved Wi-Fi *)
(* network and opening the setup portal: app_main and its fallback task     *)
(* (src/main.cpp), the settings in NVS (system_config.c), the BOOT button   *)
(* (setup_button.c), the portal and its save (wifi_provisioning.c) and the   *)
(* Wi-Fi station, which tells of the first address it gets.                *)
(*                                                                         *)
(* NVS is external: what is set can be read at once, and survives a restart *)
(* for certain when it is committed.  A restart, asked for or not, may come *)
(* between any two steps.  The Kconfig seeds are empty.                     *)
(***************************************************************************)
EXTENDS WifiStation, PortalForm

CONSTANTS
  Scan,     \* what scan_networks finds: a sequence of names; a scan that fails
            \* lists none, and the user types
  Entries,  \* what the user may put in the page: records [selected, manual, pass]
  Saves,    \* those of them that a run has come in (bounds the model only)
  Absent,   \* no value under an NVS key
  Failures, \* may NVS operations and task creations fail?
  Cuts      \* power cuts (bounds the model only)

ASSUME SetupAssumption ==
  /\ Saves \subseteq Entries
  /\ Entries \subseteq [selected : Seq(Byte), manual : Seq(Byte), pass : Seq(Byte)]
  /\ \A e \in Entries : e.selected = <<>> \/ HtmlEscape(e.selected) \in Options(Scan)
  /\ \A e \in Entries : Legible(e.manual) /\ Legible(e.pass)   \* typed in a browser
  /\ Absent \notin {"one", <<>>}
  /\ Failures \subseteq BOOLEAN /\ Cuts \in Nat

VARIABLES
  nvs,        \* what NVS returns: the keys wifi_ssid, wifi_pass, setup_once
  flash,      \* what is committed of it
  at,         \* where app_main is, or the mode it has ended in
  ssid, pass, \* s_ssid, s_pass
  requested,  \* setup_requested
  button,     \* where setup_button_task is
  pressed,    \* GPIO0 is low
  fallback,   \* where wifi_fallback_task is
  connected,  \* s_wifi_connected
  services,   \* history: how often this boot has started mDNS and the RTSP server
  portal,     \* where save_post_handler is
  form,       \* the credentials it is saving
  restarting, \* is a restart_task waiting?
  failing,    \* the answer to Failures
  cuts,       \* what is left of Cuts
  saved,      \* history: the credentials saved last, while no other save has begun
  asked       \* history: was a request accepted that no boot has taken yet?

store == <<nvs, flash>>
main == <<at, ssid, pass, requested>>
station == <<button, fallback, connected, services, wifiVars>>
web == <<portal, form, restarting>>
world == <<pressed, failing, cuts>>
history == <<saved, asked>>
vars == <<store, main, station, web, world, history>>

Empty == <<>>
Nothing == [ssid |-> Empty, pass |-> Empty]
Blank == [ssid |-> Absent, pass |-> Absent, setup |-> Absent]
Volatile ==
  /\ at' = "ssid" /\ ssid' = Empty /\ pass' = Empty /\ requested' = FALSE
  /\ button' = "none" /\ fallback' = "none" /\ connected' = FALSE
  /\ services' = 0 /\ WifiReset
  /\ portal' = "none" /\ form' = Nothing /\ restarting' = FALSE

Init ==
  /\ nvs = Blank /\ flash = Blank
  /\ at = "ssid" /\ ssid = Empty /\ pass = Empty /\ requested = FALSE
  /\ button = "none" /\ pressed = FALSE
  /\ fallback = "none" /\ connected = FALSE /\ services = 0 /\ WifiInit
  /\ portal = "none" /\ form = Nothing /\ restarting = FALSE
  /\ failing \in Failures /\ cuts = Cuts /\ saved = Nothing /\ asked = "no"
-----------------------------------------------------------------------------
(* NVS (external).  Keys that are not committed may or may not survive.     *)
Restart ==
  /\ \E kept \in SUBSET DOMAIN nvs :
       nvs' = [k \in DOMAIN nvs |-> IF k \in kept THEN nvs[k] ELSE flash[k]]
  /\ flash' = nvs'
  /\ Volatile

Set(k, v) == nvs' = [nvs EXCEPT ![k] = v] /\ UNCHANGED flash
SetCommitted(k, v) == nvs' = [nvs EXCEPT ![k] = v] /\ flash' = nvs'
Commit == flash' = nvs /\ UNCHANGED nvs
(* A set and its commit, of which one fails. *)
SetFails(k, v) == failing /\ (Set(k, v) \/ UNCHANGED store)

PowerCut ==
  /\ cuts > 0 /\ cuts' = cuts - 1
  /\ Restart
  /\ UNCHANGED <<pressed, failing, history>>

Press == pressed' = ~pressed /\ UNCHANGED <<store, main, station, web, failing, cuts, history>>
-----------------------------------------------------------------------------
(* app_main: system_config_init loads or seeds the two keys, one after the  *)
(* other; then the setup request is taken, and the mode chosen.             *)
LoadOrSeed(k) ==
  \/ nvs[k] # Absent /\ UNCHANGED store
  \/ nvs[k] = Absent /\ (SetCommitted(k, Empty) \/ SetFails(k, Empty))

(* A key that cannot be read is taken to be its seed. *)
Loaded(k) == {IF nvs[k] = Absent THEN Empty ELSE nvs[k]}
             \cup IF failing THEN {Empty} ELSE {}

LoadSsid ==
  /\ at = "ssid" /\ at' = "pass"
  /\ LoadOrSeed("ssid") /\ ssid' \in Loaded("ssid")
  /\ UNCHANGED <<pass, requested, station, web, world, history>>

LoadPass ==
  /\ at = "pass" /\ at' = "take"
  /\ LoadOrSeed("pass") /\ pass' \in Loaded("pass")
  /\ UNCHANGED <<ssid, requested, station, web, world, history>>

(* system_config_take_setup_mode_request: the request counts even when it    *)
(* cannot be erased.                                                        *)
TakeNothingMutant ==
  /\ at = "take" /\ at' = "start"
  /\ requested' = FALSE
  /\ UNCHANGED <<store, ssid, pass, station, web, world, history>>
TakeNothing ==
  /\ at = "take" /\ at' = "start"
  /\ nvs.setup = Absent \/ failing
  /\ requested' = FALSE
  /\ UNCHANGED <<store, ssid, pass, station, web, world, history>>

TakeRequest ==
  /\ at = "take" /\ at' = "start"
  /\ nvs.setup = "one" /\ requested' = TRUE
  /\ SetCommitted("setup", Absent) \/ SetFails("setup", Absent)
  /\ asked' = "no"
  /\ UNCHANGED <<ssid, pass, station, web, world, saved>>

HasCredentials == ssid # Empty

(* ESP_ERROR_CHECK: NVS does not open, or the button's task is not created. *)
BootAborts ==
  /\ failing /\ Restart
  /\ at = "ssid" \/ (at = "start" /\ HasCredentials /\ ~requested)
  /\ UNCHANGED <<world, history>>

StartStation ==
  /\ at = "start" /\ HasCredentials /\ ~requested
  /\ at' = "station" /\ button' = "unarmed" /\ WifiStart
  /\ fallback' \in IF failing THEN {"wait", "none"} ELSE {"wait"}
  /\ UNCHANGED <<store, ssid, pass, requested, connected, services, web, world, history>>

StartPortal ==
  /\ at = "start" /\ (~HasCredentials \/ requested)
  /\ at' = "portal" /\ portal' = "idle"
  /\ UNCHANGED <<store, ssid, pass, requested, station, form, restarting, world, history>>
-----------------------------------------------------------------------------
(* system_config_request_setup_mode. *)
RequestAccepted == SetCommitted("setup", "one") /\ asked' = "accepted"
RequestFails == SetFails("setup", "one") /\ UNCHANGED asked

(* The Wi-Fi station, and main.cpp's on_got_ip as its callback. *)
Wifi ==
  /\ \/ Driver \/ OnStart \/ OnDisconnected \/ Reconnect
     \/ OnGotIp(TRUE)
     \/ failing /\ OnGotIp(FALSE)
  /\ UNCHANGED <<store, main, button, fallback, connected, services, web, world, history>>

OnGotIpCallback ==
  /\ ReadyTask
  /\ connected' = TRUE /\ services' = services + 1
  /\ UNCHANGED <<store, main, button, fallback, web, world, history>>

(* wifi_fallback_task, after its 15 seconds. *)
FallbackCheck ==
  /\ fallback = "wait"
  /\ fallback' = IF connected THEN "done" ELSE "ask"
  /\ UNCHANGED <<store, main, button, connected, services, wifiVars, web, world, history>>

FallbackAskMutant ==
  /\ fallback = "ask" /\ fallback' = "restart"
  /\ Set("setup", "one") /\ asked' = "accepted"
  /\ UNCHANGED <<main, button, connected, services, wifiVars, web, world, saved>>
FallbackAsk ==
  /\ fallback = "ask"
  /\ \/ RequestAccepted /\ fallback' = "restart"
     \/ RequestFails /\ fallback' = "done"
  /\ UNCHANGED <<main, button, connected, services, wifiVars, web, world, saved>>

FallbackRestart ==
  /\ fallback = "restart" /\ Restart
  /\ UNCHANGED <<world, history>>

(* setup_button_task: one poll of the button. *)
ButtonPoll ==
  /\ \/ button = "unarmed" /\ ~pressed /\ button' = "armed"
     \/ button = "armed" /\ pressed /\ button' = "held"
     \/ button \in {"held", "wait"} /\ ~pressed /\ button' = "armed"
  /\ UNCHANGED <<store, main, fallback, connected, services, wifiVars, web, world, history>>

ButtonAsk ==
  /\ button = "held" /\ pressed
  /\ \/ RequestAccepted /\ button' = "restart"
     \/ RequestFails /\ button' = "wait"
  /\ UNCHANGED <<main, fallback, connected, services, wifiVars, web, world, saved>>

ButtonRestart ==
  /\ button = "restart" /\ Restart
  /\ UNCHANGED <<world, history>>
-----------------------------------------------------------------------------
(* A form by which the browser, or a script, sends an entry: of a network      *)
(* selected, its option on the page.                                        *)
Sent(entry) ==
  LET seen == [entry EXCEPT !.selected = ReadHtml(Shown(HtmlEscape(@)))]
  IN  {Form(seen, Browser), Form(seen, Script)}
Taken(entry) == UNION {Submitted(body) : body \in Sent(entry)}
Submissions == UNION {Taken(entry) : entry \in Saves}
Text == {Empty} \cup {c.ssid : c \in Submissions} \cup {c.pass : c \in Submissions}
ASSUME AbsentAssumption == Absent \notin Text

(* save_post_handler, over system_config_save_wifi.  A form that is refused  *)
(* changes nothing.                                                         *)
SaveBegin ==
  /\ portal = "idle" /\ portal' = "ssid" /\ form' \in Submissions
  /\ saved' = Nothing
  /\ UNCHANGED <<store, main, station, restarting, world, asked>>

SaveSsid ==
  /\ portal = "ssid" /\ portal' = "pass"
  /\ Set("ssid", form.ssid)
  /\ UNCHANGED <<main, station, form, restarting, world, history>>

SavePass ==
  /\ portal = "pass" /\ portal' = "commit"
  /\ Set("pass", form.pass)
  /\ UNCHANGED <<main, station, form, restarting, world, history>>

SaveCommitMutant ==
  /\ portal = "commit" /\ portal' = "idle"
  /\ UNCHANGED store
  /\ ssid' = form.ssid /\ pass' = form.pass /\ saved' = form
  /\ restarting' = TRUE
  /\ UNCHANGED <<at, requested, station, form, world, asked>>
SaveCommit ==
  /\ portal = "commit" /\ portal' = "idle"
  /\ Commit
  /\ ssid' = form.ssid /\ pass' = form.pass /\ saved' = form
  /\ restarting' \in {TRUE} \cup IF failing THEN {restarting} ELSE {}
  /\ UNCHANGED <<at, requested, station, form, world, asked>>

(* Any of the three fails: the sender is answered 500. *)
SaveFails ==
  /\ failing /\ portal \in {"ssid", "pass", "commit"} /\ portal' = "idle"
  /\ UNCHANGED <<store, main, station, form, restarting, world, history>>

(* restart_task, 1.5 seconds after a save: the portal serves on meanwhile.   *)
SaveRestart ==
  /\ restarting /\ Restart
  /\ UNCHANGED <<world, history>>
-----------------------------------------------------------------------------
Main == LoadSsid \/ LoadPass \/ TakeNothing \/ TakeRequest \/ StartStation \/ StartPortal
Fallback == FallbackCheck \/ FallbackAsk \/ FallbackRestart
Button == ButtonPoll \/ ButtonAsk \/ ButtonRestart
Save == SaveSsid \/ SavePass \/ SaveCommit \/ SaveFails

Next ==
  \/ PowerCut \/ Press \/ SaveBegin \/ BootAborts
  \/ Wifi \/ OnGotIpCallback
  \/ Main \/ Fallback \/ Button \/ Save \/ SaveRestart

(* Tasks are scheduled and delays end.  The user and the network may do      *)
(* nothing.                                                                 *)
Fairness ==
  /\ WF_vars(Main) /\ WF_vars(Fallback) /\ WF_vars(Save) /\ WF_vars(SaveRestart)
  /\ WF_vars(ButtonRestart)
Spec == Init /\ [][Next]_vars /\ Fairness
-----------------------------------------------------------------------------
(***************************************************************************)
(* What the portal answered as saved is on flash, both halves of it, through *)
(* restarts, power cuts and failures of NVS, until another save begins      *)
(* ("The submitted SSID and password are saved to NVS before restart",       *)
(* components/system/README.md).                                            *)
(***************************************************************************)
SavedIsDurable ==
  saved # Nothing => flash.ssid = saved.ssid /\ flash.pass = saved.pass

(***************************************************************************)
(* The portal takes the network and the password that the user chose, to the *)
(* byte, through HTML, URL encoding and the fields' buffers, a typed name     *)
(* before a selected one; and it refuses an entry only if nothing is chosen,  *)
(* or for its length: the name's, the password's or the whole form's.  This   *)
(* is said of names in UTF-8, as the page is (wifi_provisioning.c:29, 89).    *)
(* Of a network with another name, or with a line end other than CR LF in it,  *)
(* the page shows, and the portal saves, another name.                       *)
(***************************************************************************)
Meant(entry) ==
  [ssid |-> IF entry.manual # Empty THEN entry.manual ELSE entry.selected,
   pass |-> entry.pass]
Proper(entry, body) ==
  /\ Meant(entry).ssid # Empty
  /\ Len(entry.selected) <= 32 /\ Len(entry.manual) <= 32
  /\ Len(entry.pass) \in {0} \cup 8 .. 63
  /\ ContentLen(body) <= FormBodyMax
ReadAsMeant ==
  \A entry \in Entries : Legible(entry.selected) =>
    \A body \in Sent(entry) :
      Submitted(body) = IF Proper(entry, body) THEN {Meant(entry)} ELSE {}
ChoiceIsTaken == portal = "idle" => ReadAsMeant

(***************************************************************************)
(* With NVS working: no boot joins a network while a request for the portal *)
(* that was accepted has not been taken, whatever restarts come between     *)
(* (system_config.h: "on the next boot").                                   *)
(***************************************************************************)
RequestHonoured == [][StartStation /\ asked = "accepted" => failing]_vars

(***************************************************************************)
(* mDNS and the RTSP server are started once in a boot, however often the    *)
(* network is lost and an address comes again ("Invoked once", wifi.h), and  *)
(* with task creation working an address never goes unnoticed.              *)
(***************************************************************************)
ServicesStartOnce ==
  /\ services <= 1
  /\ ~failing /\ radio = "up" =>
       services = 1 \/ readyTask = "run" \/ \E i \in DOMAIN events : events[i] = "GOT_IP"

(***************************************************************************)
(* With NVS and task creation working: a device that gets no IP address     *)
(* ends in the portal "instead of retrying forever" (README.md:90).             *)
(***************************************************************************)
UnreachableOpensPortal == at = "station" /\ ~failing ~> connected \/ at = "portal"
=============================================================================
