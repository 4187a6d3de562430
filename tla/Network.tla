------------------------------- MODULE Network -------------------------------
(***************************************************************************)
(* What carries a session: the WiFi manager with its saved networks, and   *)
(* the telnet client, side by side.  They share no state; a behaviour here *)
(* is one in which one of them, `mover', takes the steps and the other     *)
(* stays as it started.                                                    *)
(***************************************************************************)
EXTENDS Wifi, Telnet

VARIABLE mover

networkVars == <<mover, wifiVars, vars>>

NetworkInit == mover \in {"wifi", "telnet"} /\ WifiInit /\ Init

NetworkNext ==
    /\ UNCHANGED mover
    /\ \/ mover = "wifi" /\ WifiNext /\ UNCHANGED vars
       \/ mover = "telnet" /\ Next /\ UNCHANGED wifiVars

NetworkSpec == NetworkInit /\ [][NetworkNext]_networkVars

=============================================================================
