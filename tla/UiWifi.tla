------------------------------- MODULE UiWifi -------------------------------
(***************************************************************************)
(* The screens of ui_wifi.c and the scans behind them.  Every visit of the  *)
(* scan screen starts a scan_task of its own, which writes s_scan_results   *)
(* and s_scan_count without the display lock and only then takes it to show *)
(* rows on whichever scan screen is there.  A click on a row knows no more  *)
(* than an index into s_scan_results.  What a connect does is Wifi; what    *)
(* its end does to a session on display is Session.                         *)
(***************************************************************************)
EXTENDS Integers, Sequences

CONSTANTS
    APs,           \* the access points in reach
    Known,         \* those that are open or whose password is saved
    NoAp,
    MaxResults,    \* WIFI_MANAGER_MAX_SCAN_RESULTS
    Scans          \* bound: the scan tasks, one per visit of the scan screen

ASSUME UiWifiAssumption ==
    /\ Known \subseteq APs /\ NoAp \notin APs /\ MaxResults \in Nat \ {0}

VARIABLES
    scanResults,   \* s_scan_results, the whole array
    scanCount,     \* s_scan_count
    scanTask,      \* what each scan task does
    scanFound,     \* the count wifi_manager_scan() returned to it
    scanMutex,     \* the holder of s_op_mutex: a scan task, "connect", "free"
    wifiScreen,    \* "scan", "password", "away" (the home screen)
    wifiRows,      \* the buttons in s_list_container: label and index
    wifiStatus,    \* s_status_label
    pwSsid,        \* s_pw_ssid
    connectTasks   \* connect tasks under way

scanVars == <<scanResults, scanCount, scanTask, scanFound, scanMutex>>
screenVars == <<wifiScreen, wifiRows, wifiStatus, pwSsid, connectTasks>>
uiWifiVars == <<scanVars, screenVars>>

Slots == 1..MaxResults
Row == [label : APs \cup {NoAp}, index : Slots]

UiWifiTypeOK ==
    /\ scanResults \in [Slots -> APs \cup {NoAp}]
    /\ scanCount \in 0..MaxResults
    /\ scanTask \in [Scans -> {"none", "waiting", "scanning", "returning", "showing", "ended"}]
    /\ scanFound \in [Scans -> 0..MaxResults]
    /\ scanMutex \in Scans \cup {"connect", "free"}
    /\ wifiScreen \in {"scan", "password", "away"}
    /\ wifiRows \in Seq(Row)
    /\ wifiStatus \in {"scanning", "shown", "connecting", "failed", "empty"}
    /\ pwSsid \in APs \cup {NoAp} /\ connectTasks \in 0..1

UiWifiInit ==
    /\ scanResults = [i \in Slots |-> NoAp] /\ scanCount = 0
    /\ scanTask = [t \in Scans |-> "none"] /\ scanFound = [t \in Scans |-> 0]
    /\ scanMutex = "free" /\ wifiScreen = "away" /\ wifiRows = <<>>
    /\ wifiStatus = "empty" /\ pwSsid = NoAp /\ connectTasks = 0

-----------------------------------------------------------------------------
(* The callbacks, in the LVGL task. *)

\* WiFi on the home screen, Rescan, Cancel on the password screen.
ShowScanScreen ==
    /\ \E t \in Scans : scanTask[t] = "none" /\ scanTask' = [scanTask EXCEPT ![t] = "waiting"]
    /\ wifiScreen' = "scan" /\ wifiRows' = <<>> /\ wifiStatus' = "scanning"
    /\ UNCHANGED <<scanResults, scanCount, scanFound, scanMutex, pwSsid, connectTasks>>

Back ==
    /\ wifiScreen = "scan"
    /\ wifiScreen' = "away" /\ wifiRows' = <<>>
    /\ UNCHANGED <<scanVars, wifiStatus, pwSsid, connectTasks>>

\* Bound: one connect task at a time.
StartConnect ==
    /\ connectTasks = 0
    /\ connectTasks' = 1 /\ wifiStatus' = "connecting"

\* The network a click on row r goes for; a row past the count is dead.
Target(r) == IF r.index <= scanCount THEN scanResults[r.index] ELSE NoAp

RowClick(r) ==
    /\ Target(r) \in APs
    /\ IF Target(r) \in Known
       THEN StartConnect /\ UNCHANGED <<wifiScreen, wifiRows, pwSsid>>
       ELSE /\ wifiScreen' = "password" /\ wifiRows' = <<>> /\ wifiStatus' = "empty"
            /\ pwSsid' = Target(r) /\ UNCHANGED connectTasks
    /\ UNCHANGED scanVars

ConnectClick ==
    /\ wifiScreen = "password"
    /\ StartConnect
    /\ UNCHANGED <<scanVars, wifiScreen, wifiRows, pwSsid>>

\* connect_task: home after a success, a message after a failure, if the label
\* is still there.
ConnectEnd ==
    /\ connectTasks = 1 /\ connectTasks' = 0
    /\ \/ wifiScreen' = "away" /\ wifiRows' = <<>> /\ UNCHANGED wifiStatus
       \/ /\ wifiStatus' = IF wifiScreen = "away" THEN wifiStatus ELSE "failed"
          /\ UNCHANGED <<wifiScreen, wifiRows>>
    /\ UNCHANGED <<scanVars, pwSsid>>

-----------------------------------------------------------------------------
(* wifi_manager_scan() and scan_task. *)

\* Connects hold the same mutex (Wifi).
ConnectHolds ==
    /\ \/ connectTasks = 1 /\ scanMutex = "free" /\ scanMutex' = "connect"
       \/ scanMutex = "connect" /\ scanMutex' = "free"
    /\ UNCHANGED <<scanResults, scanCount, scanTask, scanFound, screenVars>>

ScanLock(t) ==
    /\ scanTask[t] = "waiting" /\ scanMutex = "free"
    /\ scanTask' = [scanTask EXCEPT ![t] = "scanning"] /\ scanMutex' = t
    /\ UNCHANGED <<scanResults, scanCount, scanFound, screenVars>>

\* The records found fill the front of the array.
ScanRecords(t) ==
    /\ scanTask[t] = "scanning"
    /\ \E found \in UNION {[1..n -> APs] : n \in 0..MaxResults} :
          /\ \A i, j \in DOMAIN found : found[i] = found[j] => i = j
          /\ scanResults' = [i \in Slots |-> IF i \in DOMAIN found THEN found[i]
                                             ELSE scanResults[i]]
          /\ scanFound' = [scanFound EXCEPT ![t] = Len(found)]
    /\ scanTask' = [scanTask EXCEPT ![t] = "returning"] /\ scanMutex' = "free"
    /\ UNCHANGED <<scanCount, screenVars>>

MutantScanRefused(t) ==    \* the mutex is kept on the way out
    /\ scanTask[t] = "scanning"
    /\ scanFound' = [scanFound EXCEPT ![t] = 0]
    /\ scanTask' = [scanTask EXCEPT ![t] = "returning"]
    /\ UNCHANGED <<scanResults, scanCount, scanMutex, screenVars>>

\* The driver refuses to scan, or cannot give the records.
ScanRefused(t) ==
    /\ scanTask[t] = "scanning"
    /\ scanFound' = [scanFound EXCEPT ![t] = 0]
    /\ scanTask' = [scanTask EXCEPT ![t] = "returning"] /\ scanMutex' = "free"
    /\ UNCHANGED <<scanResults, scanCount, screenVars>>

ScanCount(t) ==
    /\ scanTask[t] = "returning"
    /\ scanCount' = scanFound[t] /\ scanTask' = [scanTask EXCEPT ![t] = "showing"]
    /\ UNCHANGED <<scanResults, scanFound, scanMutex, screenVars>>

\* Rows with the labels that are in the array by now, on the scan screen that
\* is there by now.
Rows(n) == [i \in 1..n |-> [label |-> scanResults[i], index |-> i]]

MutantScanShow(t) ==    \* the list is not cleaned first
    /\ scanTask[t] = "showing"
    /\ scanTask' = [scanTask EXCEPT ![t] = "ended"]
    /\ IF wifiScreen = "scan"
       THEN /\ wifiRows' = wifiRows \o Rows(scanFound[t])
            /\ wifiStatus' = "shown"
       ELSE UNCHANGED <<wifiRows, wifiStatus>>
    /\ UNCHANGED <<scanResults, scanCount, scanFound, scanMutex, wifiScreen, pwSsid, connectTasks>>

ScanShow(t) ==
    /\ scanTask[t] = "showing"
    /\ scanTask' = [scanTask EXCEPT ![t] = "ended"]
    /\ IF wifiScreen = "scan"
       THEN wifiRows' = Rows(scanFound[t]) /\ wifiStatus' = "shown"
       ELSE UNCHANGED <<wifiRows, wifiStatus>>
    /\ UNCHANGED <<scanResults, scanCount, scanFound, scanMutex, wifiScreen, pwSsid, connectTasks>>

-----------------------------------------------------------------------------
ScanStep(t) == ScanLock(t) \/ ScanRecords(t) \/ ScanRefused(t) \/ ScanCount(t) \/ ScanShow(t)

UiWifiNext ==
    \/ ShowScanScreen \/ Back \/ ConnectClick \/ ConnectEnd \/ ConnectHolds
    \/ \E i \in DOMAIN wifiRows : RowClick(wifiRows[i])
    \/ \E t \in Scans : ScanStep(t)

\* A connect holds the mutex for a limited time; a scan task gets it in the end.
UiWifiFairness ==
    /\ WF_uiWifiVars(ConnectHolds /\ scanMutex = "connect")
    /\ \A t \in Scans : WF_uiWifiVars(ScanStep(t)) /\ SF_uiWifiVars(ScanLock(t))

UiWifiSpec == UiWifiInit /\ [][UiWifiNext]_uiWifiVars /\ UiWifiFairness

-----------------------------------------------------------------------------
\* A click on a row connects to the network the row names, or does nothing.  The
\* one exception is a scan that has written its results and not yet shown them:
\* until then the rows are those of the scan before (ui_wifi.c:84-139).
Overwritten == \E t \in Scans : scanTask[t] \in {"returning", "showing"}
RowsNameTheirNetwork ==
    Overwritten \/ \A i \in DOMAIN wifiRows : Target(wifiRows[i]) \in {wifiRows[i].label, NoAp}

\* "Scanning..." does not stay: each visit's own scan ends and says so, whatever
\* other scans and connects hold the mutex (ui_wifi.c:108-143).
ScanningEnds == wifiStatus = "scanning" /\ wifiScreen = "scan"
                   ~> wifiStatus # "scanning" \/ wifiScreen # "scan"

=============================================================================
