-------------------------------- MODULE Wifi --------------------------------
(***************************************************************************)
(* wifi_manager.c with wifi_creds.c: the tasks that call                   *)
(* wifi_manager_connect() (app_main's connect_saved at boot, one per click *)
(* on the WiFi screens), the event task that runs event_handler(), and the *)
(* timer task.  s_op_mutex serialises the connects; the handler and the    *)
(* timer take no lock, and neither does anyone who reads or changes the    *)
(* list of saved networks: there a step is one access, to s_count or to    *)
(* one string.  The driver and the access points are external: a call is   *)
(* accepted or refused, a join ends well only with the right password, and *)
(* what happens is reported in order, some time later.                     *)
(***************************************************************************)
EXTENDS Integers, Sequences

CONSTANTS
    Networks,      \* the SSIDs in reach
    NoSsid,        \* the empty one
    Passwords,     \* what may be typed as a password
    NoPassword,    \* the empty one
    KeyOf,         \* the password each network accepts, none if it is open
    Stored,        \* wifi_networks.json at boot
    Clicks,        \* one connect_task per click on the WiFi screens
    Boot,          \* the main task, in wifi_manager_connect_saved()
    MaxRetry,      \* MAX_RETRY
    MaxNetworks,   \* WIFI_CREDS_MAX_NETWORKS
    MaxDrops,      \* bound: links the access point or the air drops
    MaxRefusals    \* bound: calls the driver refuses

\* A wifi_network_t or a wifi_config: two strings, empty if it is all zeros.
Credentials == [ssid : Networks \cup {NoSsid}, password : Passwords]
None == [ssid |-> NoSsid, password |-> NoPassword]
Callers == Clicks \cup {Boot}
EventType == [kind : {"disconnected", "got_ip"}, on : Credentials]

ASSUME WifiKeysAssumption ==
    NoSsid \notin Networks /\ NoPassword \in Passwords /\ KeyOf \in [Networks -> Passwords]
ASSUME WifiStoredAssumption == Stored \in Seq([ssid : Networks, password : Passwords])
ASSUME WifiBoundsAssumption ==
    /\ Boot \notin Clicks
    /\ MaxRetry \in Nat /\ MaxNetworks \in Nat \ {0} /\ MaxDrops \in Nat /\ MaxRefusals \in Nat

VARIABLES
    networks,      \* s_networks
    netCount,      \* s_count
    caller,        \* what each caller of wifi_manager_connect() does
    want,          \* the wifi_config it built
    newNet,        \* `entry' of wifi_creds_save(), later an item of the JSON
    slot,          \* the index of its loop over s_networks, from 1
    countRead,     \* the value of s_count it works with
    opMutex,       \* the holder of s_op_mutex, or "free"
    bits,          \* s_event_group
    retryNum,      \* s_retry_num
    connecting,    \* s_connecting
    isConnected,   \* s_is_connected
    reconnectTimer,\* s_reconnect_timer is running
    config,        \* the driver's configuration
    link,          \* the driver: "down", "joining", "up"
    ap,            \* the configuration it is joining or has joined with
    wifiEvents,    \* events posted and not yet handled
    drops, refusals,
    quit,          \* history: why nobody tries to join, if nobody does
    overlapped,    \* history: a save began while another was at the list
    stale          \* history: the address of an earlier join was taken for the
                   \* answer to a connect that asked for something else

listVars == <<networks, netCount, newNet, overlapped>>
credVars == <<listVars, slot, countRead>>
callVars == <<caller, want, opMutex>>
flagVars == <<bits, retryNum, connecting, isConnected, reconnectTimer>>
driverVars == <<link, ap, wifiEvents, refusals, quit>>
wifiVars == <<credVars, callVars, flagVars, driverVars, config, drops, stale>>

\* Where wifi_creds_save() reads and changes the list.
Editing == {"fill", "find", "close", "closing", "less", "room", "open", "opening",
            "count", "item", "text"}

\* Where else a task can be.
Connecting == {"idle", "seek", "take", "type", "lock", "fetch", "clear", "driver", "wait",
               "woken", "failed", "save", "done"}

\* Every index into s_networks that task c is about to use is one of the array.
InArray(c) ==
    /\ slot[c] <= MaxNetworks + 1 /\ countRead[c] <= MaxNetworks
    /\ caller[c] \in {"seek", "find", "item"} => slot[c] >= 1
    /\ caller[c] \in {"take", "close", "text"} => slot[c] \in 1..MaxNetworks
    /\ caller[c] = "closing" => slot[c] \in 1..(MaxNetworks - 1)
    /\ caller[c] \in {"open", "opening"} => slot[c] <= MaxNetworks

ListTypeOK ==
    /\ networks \in [1..MaxNetworks -> Credentials]
    /\ netCount \in Int /\ netCount <= MaxNetworks
    /\ caller \in [Callers -> Connecting \cup Editing]
    /\ want \in [Callers -> Credentials] /\ newNet \in [Callers -> Credentials]
    /\ slot \in [Callers -> Int] /\ countRead \in [Callers -> Int]
    /\ \A c \in Callers : InArray(c)
    /\ overlapped \in BOOLEAN

LinkTypeOK ==
    /\ opMutex \in Callers \cup {"free"}
    /\ bits \subseteq {"connected", "fail"}
    /\ retryNum \in 0..MaxRetry
    /\ connecting \in BOOLEAN /\ isConnected \in BOOLEAN /\ reconnectTimer \in BOOLEAN
    /\ config \in Credentials /\ ap \in Credentials
    /\ link \in {"down", "joining", "up"}
    /\ wifiEvents \in Seq(EventType)
    /\ drops \in 0..MaxDrops /\ refusals \in 0..MaxRefusals
    /\ quit \in {"no", "refused", "gave_up"} /\ stale \in BOOLEAN

\* In particular the list stays in its array, whichever saves and readers race
\* (wifi_creds.c:13, 123-158).
WifiTypeOK == ListTypeOK /\ LinkTypeOK

\* wifi_creds_init(): what the file holds, as far as there is room.
LoadedCount == IF Len(Stored) < MaxNetworks THEN Len(Stored) ELSE MaxNetworks
Loaded == [i \in 1..MaxNetworks |-> IF i <= LoadedCount THEN Stored[i] ELSE None]

\* wifi_manager_init() and the load of the file; the main task is about to call
\* wifi_manager_connect_saved().
WifiInit ==
    /\ networks = Loaded /\ netCount = LoadedCount
    /\ caller = [c \in Callers |-> "idle"] /\ want = [c \in Callers |-> None]
    /\ newNet = [c \in Callers |-> None]
    /\ slot = [c \in Callers |-> 1] /\ countRead = [c \in Callers |-> 0] /\ overlapped = FALSE
    /\ opMutex = "free" /\ bits = {} /\ retryNum = 0
    /\ connecting = FALSE /\ isConnected = FALSE /\ reconnectTimer = FALSE
    /\ config = None /\ link = "down" /\ ap = None /\ wifiEvents = <<>>
    /\ drops = 0 /\ refusals = 0 /\ quit = "no" /\ stale = FALSE

-----------------------------------------------------------------------------
(* The driver. *)

Event(kind, cfg) == [kind |-> kind, on |-> cfg]

\* esp_wifi_connect() accepted: the driver leaves the network it is on or is
\* joining, reports that, and joins the one configured.
Accepted(cfg, pending) ==
    /\ link' = "joining" /\ ap' = cfg /\ quit' = "no"
    /\ wifiEvents' = IF link = "down" THEN pending
                     ELSE Append(pending, Event("disconnected", None))
    /\ UNCHANGED refusals

\* A call refused (the driver is joining, the coprocessor does not answer).
Refused(pending) ==
    /\ refusals < MaxRefusals
    /\ refusals' = refusals + 1
    /\ quit' = IF link = "down" THEN "refused" ELSE quit
    /\ wifiEvents' = pending
    /\ UNCHANGED <<link, ap>>

\* The handler and the timer ignore which of the two it is.
TryToJoin(pending) == Accepted(config, pending) \/ Refused(pending)

Joins(cfg) == cfg.ssid \in Networks /\ cfg.password = KeyOf[cfg.ssid]

JoinSucceeds ==
    /\ link = "joining" /\ Joins(ap)
    /\ link' = "up" /\ wifiEvents' = Append(wifiEvents, Event("got_ip", ap))
    /\ UNCHANGED <<credVars, callVars, flagVars, config, ap, drops, refusals, quit, stale>>

JoinFails ==
    /\ link = "joining"
    /\ link' = "down" /\ ap' = None /\ wifiEvents' = Append(wifiEvents, Event("disconnected", None))
    /\ UNCHANGED <<credVars, callVars, flagVars, config, drops, refusals, quit, stale>>

LinkDrops ==
    /\ link = "up" /\ drops < MaxDrops
    /\ drops' = drops + 1
    /\ link' = "down" /\ ap' = None /\ wifiEvents' = Append(wifiEvents, Event("disconnected", None))
    /\ UNCHANGED <<credVars, callVars, flagVars, config, refusals, quit, stale>>

-----------------------------------------------------------------------------
(* event_handler() and reconnect_timer_cb(). *)

NextEvent(kind) == wifiEvents # <<>> /\ Head(wifiEvents).kind = kind

MutantHandleRetry ==    \* the status is left for the last retry to change
    /\ NextEvent("disconnected") /\ connecting /\ retryNum < MaxRetry
    /\ retryNum' = retryNum + 1
    /\ TryToJoin(Tail(wifiEvents))
    /\ UNCHANGED <<credVars, callVars, bits, connecting, isConnected, reconnectTimer, config,
                   drops, stale>>

\* A join that failed while connect() waits is tried again...
HandleRetry ==
    /\ NextEvent("disconnected") /\ connecting /\ retryNum < MaxRetry
    /\ isConnected' = FALSE /\ retryNum' = retryNum + 1
    /\ TryToJoin(Tail(wifiEvents))
    /\ UNCHANGED <<credVars, callVars, bits, connecting, reconnectTimer, config, drops, stale>>

\* ...until the retries are used up.
HandleFail ==
    /\ NextEvent("disconnected") /\ connecting /\ retryNum >= MaxRetry
    /\ isConnected' = FALSE /\ bits' = bits \cup {"fail"}
    /\ wifiEvents' = Tail(wifiEvents)
    /\ quit' = IF link = "down" THEN "gave_up" ELSE quit
    /\ UNCHANGED <<credVars, callVars, retryNum, connecting, reconnectTimer, config,
                   link, ap, drops, refusals, stale>>

MutantHandleDrop ==    \* only the loss of a link that was up is retried
    /\ NextEvent("disconnected") /\ ~connecting
    /\ isConnected' = FALSE /\ reconnectTimer' = isConnected
    /\ wifiEvents' = Tail(wifiEvents)
    /\ UNCHANGED <<credVars, callVars, bits, retryNum, connecting, config,
                   link, ap, drops, refusals, quit, stale>>

\* A spontaneous drop: the timer is (re)started.
HandleDrop ==
    /\ NextEvent("disconnected") /\ ~connecting
    /\ isConnected' = FALSE /\ reconnectTimer' = TRUE
    /\ wifiEvents' = Tail(wifiEvents)
    /\ UNCHANGED <<credVars, callVars, bits, retryNum, connecting, config,
                   link, ap, drops, refusals, quit, stale>>

HandleGotIp ==
    /\ NextEvent("got_ip")
    /\ retryNum' = 0 /\ isConnected' = TRUE /\ bits' = bits \cup {"connected"}
    /\ wifiEvents' = Tail(wifiEvents)
    /\ stale' = (stale \/ \E c \in Callers :
                    caller[c] \in {"driver", "wait", "woken"} /\ want[c] # Head(wifiEvents).on)
    /\ UNCHANGED <<credVars, callVars, connecting, reconnectTimer, config,
                   link, ap, drops, refusals, quit>>

TimerFires ==
    /\ reconnectTimer
    /\ reconnectTimer' = FALSE
    /\ TryToJoin(wifiEvents)
    /\ UNCHANGED <<credVars, callVars, bits, retryNum, connecting, isConnected,
                   config, drops, stale>>

-----------------------------------------------------------------------------
(* wifi_manager_connect(), called by task c. *)

At(c, from, to) == caller[c] = from /\ caller' = [caller EXCEPT ![c] = to]

\* One string of a structure copied to another: a copy takes a step for each.
CopySsid(to, from) == [to EXCEPT !.ssid = from.ssid]
CopyPassword(to, from) == [to EXCEPT !.password = from.password]

\* s_count is read where the code names it; no lock and no volatile keeps the
\* compiler from using the value it has read before instead.
ReadsCount(c, n) ==
    /\ n \in {countRead[c], netCount}
    /\ countRead' = [countRead EXCEPT ![c] = n]

\* A round of the loop over the list for an SSID.
FindRound(c, ssid, from, found, missing) ==
    /\ caller[c] = from
    /\ \E n \in {countRead[c], netCount} :
        /\ ReadsCount(c, n)
        /\ \/ slot[c] > n /\ At(c, from, missing) /\ UNCHANGED slot
           \/ /\ slot[c] <= n /\ networks[slot[c]].ssid = ssid
              /\ At(c, from, found) /\ UNCHANGED slot
           \/ /\ slot[c] <= n /\ networks[slot[c]].ssid # ssid
              /\ UNCHANGED caller /\ slot' = [slot EXCEPT ![c] = slot[c] + 1]

\* A click on a network in the WiFi screens, by the one task they have: nothing
\* is asked if the network is open, else wifi_creds_find() goes through the list.
Click(c, n) ==
    /\ At(c, "idle", IF KeyOf[n] = NoPassword THEN "lock" ELSE "seek")
    /\ \A d \in Clicks : caller[d] \notin {"seek", "take"}
    /\ want' = [want EXCEPT ![c] = [ssid |-> n, password |-> NoPassword]]
    /\ slot' = [slot EXCEPT ![c] = 1]
    /\ countRead' = [countRead EXCEPT ![c] = IF KeyOf[n] = NoPassword THEN 0 ELSE netCount]
    /\ UNCHANGED <<listVars, opMutex, flagVars, driverVars, config, drops, stale>>

ClickFinds(c) ==
    /\ FindRound(c, want[c].ssid, "seek", "take", "type")
    /\ UNCHANGED <<listVars, want, opMutex, flagVars, driverVars, config, drops, stale>>

\* start_connect() copies the password through the pointer that was found.
ClickTakes(c) ==
    /\ At(c, "take", "lock")
    /\ want' = [want EXCEPT ![c] = CopyPassword(want[c], networks[slot[c]])]
    /\ slot' = [slot EXCEPT ![c] = 1] /\ countRead' = [countRead EXCEPT ![c] = 0]
    /\ UNCHANGED <<listVars, opMutex, flagVars, driverVars, config, drops, stale>>

\* The network is not saved: the user types a password.
ClickTypes(c, p) ==
    /\ At(c, "type", "lock")
    /\ want' = [want EXCEPT ![c] = [ssid |-> want[c].ssid, password |-> p]]
    /\ slot' = [slot EXCEPT ![c] = 1] /\ countRead' = [countRead EXCEPT ![c] = 0]
    /\ UNCHANGED <<listVars, opMutex, flagVars, driverVars, config, drops, stale>>

\* wifi_manager_connect_saved() keeps a pointer to s_networks[0].
ConnectSaved ==
    /\ At(Boot, "idle", IF netCount < 1 THEN "done" ELSE "lock")
    /\ UNCHANGED <<credVars, want, opMutex, flagVars, driverVars, config, drops, stale>>

\* The mutex, and the configuration: at boot it is copied only now, from where
\* the pointer points.
ConnectLock(c) ==
    /\ At(c, "lock", IF c = Boot THEN "fetch" ELSE "clear") /\ opMutex = "free"
    /\ opMutex' = c
    /\ want' = IF c = Boot THEN [want EXCEPT ![c] = CopySsid(None, networks[1])] ELSE want
    /\ UNCHANGED <<credVars, flagVars, driverVars, config, drops, stale>>

ConnectFetch(c) ==
    /\ At(c, "fetch", "clear")
    /\ want' = [want EXCEPT ![c] = CopyPassword(want[c], networks[1])]
    /\ UNCHANGED <<credVars, opMutex, flagVars, driverVars, config, drops, stale>>

MutantConnectClear(c) ==    \* the bits of the last connect are left
    /\ At(c, "clear", "driver")
    /\ retryNum' = 0 /\ connecting' = TRUE
    /\ UNCHANGED <<credVars, want, opMutex, bits, isConnected, reconnectTimer, driverVars,
                   config, drops, stale>>

ConnectClear(c) ==
    /\ At(c, "clear", "driver")
    /\ bits' = {} /\ retryNum' = 0 /\ connecting' = TRUE
    /\ UNCHANGED <<credVars, want, opMutex, isConnected, reconnectTimer, driverVars,
                   config, drops, stale>>

ConnectStart(c) ==
    /\ At(c, "driver", "wait")
    /\ config' = want[c] /\ Accepted(want[c], wifiEvents)
    /\ UNCHANGED <<credVars, want, opMutex, flagVars, drops, stale>>

MutantConnectRefused(c) ==    \* the mutex is kept on the way out
    /\ At(c, "driver", "done")
    /\ config' \in {config, want[c]} /\ Refused(wifiEvents)
    /\ connecting' = FALSE
    /\ want' = [want EXCEPT ![c] = None]
    /\ UNCHANGED <<credVars, opMutex, bits, retryNum, isConnected, reconnectTimer,
                   drops, stale>>

\* esp_wifi_set_config() or esp_wifi_connect() refused.
ConnectRefused(c) ==
    /\ At(c, "driver", "done")
    /\ config' \in {config, want[c]} /\ Refused(wifiEvents)
    /\ connecting' = FALSE /\ opMutex' = "free"
    /\ want' = [want EXCEPT ![c] = None]
    /\ UNCHANGED <<credVars, bits, retryNum, isConnected, reconnectTimer, drops, stale>>

\* xEventGroupWaitBits() returns the bits, or times out with those there are.
ConnectWoken(c) ==
    /\ At(c, "wait", IF "connected" \in bits THEN "woken" ELSE "failed")
    /\ UNCHANGED <<credVars, want, opMutex, flagVars, driverVars, config, drops, stale>>

\* The mutex is given back before the credentials are saved: those a click came
\* with, or at boot what the pointer then points to.
ConnectEnds(c) ==
    /\ caller[c] \in {"woken", "failed"}
    /\ caller' = [caller EXCEPT ![c] = IF caller[c] = "woken" THEN "save" ELSE "done"]
    /\ connecting' = FALSE /\ opMutex' = "free"
    /\ want' = IF caller[c] = "failed" \/ c = Boot THEN [want EXCEPT ![c] = None] ELSE want
    /\ UNCHANGED <<credVars, bits, retryNum, isConnected, reconnectTimer, driverVars,
                   config, drops, stale>>

-----------------------------------------------------------------------------
(* wifi_creds_save() and persist_to_disk(), without a lock: any two callers,   *)
(* and the readers above, take their steps in any order.                       *)

\* `ssid' and `password' of the call: at boot they still point into s_networks.
Given(c) == IF c = Boot THEN networks[1] ELSE want[c]

SaveSsid(c) ==
    /\ At(c, "save", "fill")
    /\ newNet' = [newNet EXCEPT ![c] = CopySsid(None, Given(c))]
    /\ overlapped' = (overlapped \/ \E d \in Callers : caller[d] \in Editing)
    /\ UNCHANGED <<networks, netCount, slot, countRead, want, opMutex, flagVars,
                   driverVars, config, drops, stale>>

SavePassword(c) ==
    /\ At(c, "fill", "find")
    /\ newNet' = [newNet EXCEPT ![c] = CopyPassword(newNet[c], Given(c))]
    /\ slot' = [slot EXCEPT ![c] = 1] /\ countRead' = [countRead EXCEPT ![c] = netCount]
    /\ UNCHANGED <<networks, netCount, overlapped, want, opMutex, flagVars,
                   driverVars, config, drops, stale>>

SaveFinds(c) ==
    /\ FindRound(c, Given(c).ssid, "find", "close", "room")
    /\ UNCHANGED <<listVars, want, opMutex, flagVars, driverVars, config, drops, stale>>

\* The entries behind the one found move up by one...
CloseGap(c) ==
    /\ caller[c] = "close"
    /\ \E n \in {countRead[c], netCount} :
          /\ ReadsCount(c, n)
          /\ \/ /\ slot[c] < n /\ At(c, "close", "closing")
                /\ networks' = [networks EXCEPT ![slot[c]] = CopySsid(@, networks[slot[c] + 1])]
             \/ slot[c] >= n /\ At(c, "close", "less") /\ UNCHANGED networks
    /\ UNCHANGED <<netCount, newNet, slot, overlapped, want, opMutex, flagVars,
                   driverVars, config, drops, stale>>

ClosePassword(c) ==
    /\ At(c, "closing", "close")
    /\ networks' = [networks EXCEPT ![slot[c]] = CopyPassword(@, networks[slot[c] + 1])]
    /\ slot' = [slot EXCEPT ![c] = slot[c] + 1]
    /\ UNCHANGED <<netCount, newNet, countRead, overlapped, want, opMutex,
                   flagVars, driverVars, config, drops, stale>>

\* ...and s_count is written one less than it was read.
CountLess(c) ==
    /\ At(c, "less", "room")
    /\ netCount' = countRead[c] - 1
    /\ countRead' = [countRead EXCEPT ![c] = countRead[c] - 1]
    /\ UNCHANGED <<networks, newNet, slot, overlapped, want, opMutex, flagVars,
                   driverVars, config, drops, stale>>

\* insert_count: the oldest entry is evicted when the list is full.  From here
\* countRead is what s_count will be.
MakeRoom(c) ==
    /\ At(c, "room", "open")
    /\ \E n \in {countRead[c], netCount} :
          LET insertCount == IF n < MaxNetworks THEN n ELSE MaxNetworks - 1
          IN  /\ slot' = [slot EXCEPT ![c] = insertCount + 1]
              /\ countRead' = [countRead EXCEPT ![c] = insertCount + 1]
    /\ UNCHANGED <<listVars, want, opMutex, flagVars, driverVars, config, drops, stale>>

\* The entries move down by one, the last one first, and `entry' is put in front.
From(c) == IF slot[c] > 1 THEN networks[slot[c] - 1] ELSE newNet[c]
Into(c) == IF slot[c] > 1 THEN slot[c] ELSE 1

OpenGap(c) ==
    /\ At(c, "open", "opening")
    /\ networks' = [networks EXCEPT ![Into(c)] = CopySsid(@, From(c))]
    /\ UNCHANGED <<netCount, newNet, slot, countRead, overlapped, want, opMutex,
                   flagVars, driverVars, config, drops, stale>>

OpenPassword(c) ==
    /\ At(c, "opening", IF slot[c] > 1 THEN "open" ELSE "count")
    /\ networks' = [networks EXCEPT ![Into(c)] = CopyPassword(@, From(c))]
    /\ slot' = [slot EXCEPT ![c] = slot[c] - 1]
    /\ UNCHANGED <<netCount, newNet, countRead, overlapped, want, opMutex,
                   flagVars, driverVars, config, drops, stale>>

CountMore(c) ==
    /\ At(c, "count", "item")
    /\ netCount' = countRead[c]
    /\ slot' = [slot EXCEPT ![c] = 1] /\ countRead' = [countRead EXCEPT ![c] = 0]
    /\ newNet' = [newNet EXCEPT ![c] = None] /\ want' = [want EXCEPT ![c] = None]
    /\ UNCHANGED <<networks, overlapped, opMutex, flagVars, driverVars, config, drops, stale>>

\* The JSON: item by item, its SSID and then its password.
ItemSsid(c) ==
    /\ slot[c] <= netCount /\ At(c, "item", "text")
    /\ newNet' = [newNet EXCEPT ![c] = CopySsid(None, networks[slot[c]])]
    /\ UNCHANGED <<networks, netCount, slot, countRead, overlapped, want, opMutex, flagVars,
                   driverVars, config, drops, stale>>

Item(c) == CopyPassword(newNet[c], networks[slot[c]])

ItemPassword(c) ==
    /\ At(c, "text", "item")
    /\ newNet' = [newNet EXCEPT ![c] = None]
    /\ slot' = [slot EXCEPT ![c] = slot[c] + 1]
    /\ UNCHANGED <<networks, netCount, countRead, overlapped, want, opMutex, flagVars,
                   driverVars, config, drops, stale>>

\* The text is written to wifi_networks.json, which nobody reads before the next
\* boot; a write that fails is logged at most, and the callers ignore it.
Persist(c) ==
    /\ slot[c] > netCount /\ At(c, "item", "done")
    /\ slot' = [slot EXCEPT ![c] = 1]
    /\ UNCHANGED <<networks, netCount, newNet, countRead, overlapped, want, opMutex, flagVars,
                   driverVars, config, drops, stale>>

-----------------------------------------------------------------------------
Save(c) ==
    \/ SaveSsid(c) \/ SavePassword(c) \/ SaveFinds(c)
    \/ CloseGap(c) \/ ClosePassword(c) \/ CountLess(c) \/ MakeRoom(c)
    \/ OpenGap(c) \/ OpenPassword(c) \/ CountMore(c)
    \/ ItemSsid(c) \/ ItemPassword(c) \/ Persist(c)

Caller(c) ==
    \/ ClickFinds(c) \/ ClickTakes(c)
    \/ ConnectLock(c) \/ ConnectFetch(c) \/ ConnectClear(c) \/ ConnectStart(c)
    \/ ConnectRefused(c) \/ ConnectWoken(c) \/ ConnectEnds(c) \/ Save(c)

Handler == HandleRetry \/ HandleFail \/ HandleDrop \/ HandleGotIp

WifiNext ==
    \/ \E c \in Clicks : (\E n \in Networks : Click(c, n)) \/ \E p \in Passwords : ClickTypes(c, p)
    \/ ConnectSaved
    \/ \E c \in Callers : Caller(c)
    \/ Handler \/ TimerFires
    \/ JoinSucceeds \/ JoinFails \/ LinkDrops

\* The scheduler runs a ready task; each of them connects once, so a mutex that is
\* given back stays free for the next.
WifiFairness ==
    /\ WF_wifiVars(Handler) /\ WF_wifiVars(TimerFires)
    /\ \A c \in Callers : WF_wifiVars(Caller(c))

WifiSpec == WifiInit /\ [][WifiNext]_wifiVars /\ WifiFairness

-----------------------------------------------------------------------------
\* Once every event is handled, wifi_manager_is_connected() and the status on
\* the home screen say whether the link is up, whatever connects, retries and
\* drops went before (wifi_manager.c:41, 65, 215-234).
StatusFollowsLink == wifiEvents = <<>> => (isConnected <=> link = "up")

\* "Keep trying": when the link is down, no event is pending and the timer does
\* not run, either a connect() is about to join, or the driver refused a call,
\* or the last join was given up on after its retries (wifi_manager.c:42-60).
NeverStranded ==
    link = "down" /\ wifiEvents = <<>> /\ ~reconnectTimer /\ config # None => quit # "no"

\* What is in the list joins; nobody is at it.
ListJoins == \A i \in 1..netCount : Joins(networks[i])
Settled == \A c \in Callers : caller[c] \notin Editing

\* A password is remembered, in the list and in the items of the file, only for a
\* network that accepted it: whatever readers see of a list that is being changed, and whoever
\* reads its first entry again after the join.  Unless the address of an earlier
\* join was taken for the answer, or two saves overlapped (wifi_manager.c:160-196,
\* wifi_creds.c:16-42, 133-161).
SavedUnlessStale ==
    [][~stale' /\ ~overlapped' =>
          /\ Settled' => ListJoins'
          /\ \A c \in Callers : ItemPassword(c) => Joins(Item(c))]_wifiVars

\* Every connect returns, whatever the driver refuses and whoever else waits for
\* the mutex (wifi_manager.c:160-191).
ConnectReturns == \A c \in Callers : caller[c] = "lock" ~> caller[c] = "done"

\* "Already have saved creds for this exact network (from any previous
\* successful connect, here or at boot)" (ui_wifi.c:96-98): what is saved joins.
SavedCredsJoin == ~overlapped /\ Settled => ListJoins

=============================================================================
