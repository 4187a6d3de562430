------------------------------- MODULE Services -------------------------------
(***************************************************************************)
(* The components around the session, side by side.  They share no state:   *)
(* what one does neither enables nor changes a step of another, so that a   *)
(* behaviour of the device is an interleaving of behaviours of each.  A     *)
(* behaviour here is one in which a single component, `part', moves and     *)
(* the others stay as they started.                                         *)
(***************************************************************************)
EXTENDS Wifi, UiWifi, HostStore, CpOta, Keyboard, Transports

VARIABLE part

servicesVars == <<part, wifiVars, uiWifiVars, hostVars, cpOtaVars, kbdVars, transportVars>>

\* The boot has passed the update, with nothing to do.
OtaOver ==
    /\ image = NoImage /\ cpFirmware = Pinned /\ cpStaged = "none"
    /\ otaPc = "done" /\ otaOffset = 0 /\ rpcFailures = 0

ServicesInit ==
    /\ part \in {"wifi", "screens", "hosts", "ota", "keyboard", "transports"}
    /\ WifiInit /\ UiWifiInit /\ HostsInit /\ KeyboardInit /\ TransportsInit
    /\ IF part = "ota" THEN CpOtaInit ELSE OtaOver

ServicesNext ==
    /\ UNCHANGED part
    /\ \/ part = "wifi" /\ WifiNext
          /\ UNCHANGED <<uiWifiVars, hostVars, cpOtaVars, kbdVars, transportVars>>
       \/ part = "screens" /\ UiWifiNext
          /\ UNCHANGED <<wifiVars, hostVars, cpOtaVars, kbdVars, transportVars>>
       \/ part = "hosts" /\ HostsNext
          /\ UNCHANGED <<wifiVars, uiWifiVars, cpOtaVars, kbdVars, transportVars>>
       \/ part = "ota" /\ CpOtaNext
          /\ UNCHANGED <<wifiVars, uiWifiVars, hostVars, kbdVars, transportVars>>
       \/ part = "keyboard" /\ KeyboardNext
          /\ UNCHANGED <<wifiVars, uiWifiVars, hostVars, cpOtaVars, transportVars>>
       \/ part = "transports" /\ TransportsNext
          /\ UNCHANGED <<wifiVars, uiWifiVars, hostVars, cpOtaVars, kbdVars>>

\* The components that do not move start with nothing to do: their fairness asks
\* for no step.
ServicesSpec ==
    /\ ServicesInit /\ [][ServicesNext]_servicesVars
    /\ WifiFairness /\ UiWifiFairness /\ CpOtaFairness

-----------------------------------------------------------------------------
\* The state each component keeps has the types of its declarations, its lists
\* the lengths of their arrays, its indices their bounds (the arrays at
\* wifi_creds.c:13, ui_wifi.c:21, host_store.c:13).
ServicesTypeOK ==
    /\ WifiTypeOK /\ UiWifiTypeOK /\ HostsTypeOK
    /\ CpOtaTypeOK /\ KeyboardTypeOK /\ TransportsTypeOK

=============================================================================
