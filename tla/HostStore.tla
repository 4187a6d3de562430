----------------------------- MODULE HostStore -----------------------------
(***************************************************************************)
(* host_store.c and the screens of ui_shell.c that use it: the list of     *)
(* hosts in memory and in hosts.json, the home screen with one row per     *)
(* host, and the edit screen.  The callbacks run one at a time, but the    *)
(* device may be reset at any point (power, or restart_host() of CpOta     *)
(* while the user is at the screen).  The file system is LittleFS: what is *)
(* written to a file takes effect when it is closed, wholly or not at all. *)
(***************************************************************************)
EXTENDS Integers, Sequences, SequencesExt

CONSTANTS
    Names, Groups, \* what may be typed; both include the empty string
    Needles,       \* what may be typed in the search field
    Protocols,     \* of host_protocol_t
    DefaultPort,   \* default_port_for_protocol()
    Ports,         \* the numbers that may be typed as a port
    PortLimit,     \* 2^16: port is a uint16_t
    MaxHosts,      \* HOST_STORE_MAX_HOSTS
    MaxResets,     \* bound: resets of the device
    MaxFailures    \* bound: writes that fail

Host == [name : Names \ {""}, group : Groups, protocol : Protocols, port : 0..(PortLimit - 1)]
Form == [name : Names, group : Groups, protocol : Protocols, port : Nat]

ASSUME NamesAssumption == "" \in Names /\ "" \in Groups /\ "" \in Needles
ASSUME ProtocolsAssumption == "ssh" \in Protocols /\ Protocols \subseteq {"ssh", "telnet", "serial"}
ASSUME PortsAssumption ==
    /\ PortLimit \in Nat \ {0} /\ Ports \subseteq Nat
    /\ DefaultPort \in [Protocols -> 0..(PortLimit - 1)]
ASSUME HostBoundsAssumption ==
    MaxHosts \in Nat \ {0} /\ MaxResets \in Nat /\ MaxFailures \in Nat

VARIABLES
    hosts,         \* s_hosts, the first s_host_count entries
    hostsFile,     \* hosts.json
    shellScreen,   \* "home", "edit", or "other" (a session, WiFi)
    hostRows,      \* the rows on the home screen: label and index, from 1
    needle,        \* the text of s_search_ta
    editIndex,     \* s_edit.index, from 1; 0 adds
    form,          \* the fields of the edit screen
    writing,       \* the operation in persist_to_disk(): "save", "delete", "no"
    resets, failures,
    shown,         \* history: the host the edit screen was opened for
    unwritten      \* history: a write failed since the last one that did not

storeVars == <<hosts, hostsFile, writing, unwritten, failures>>
homeVars == <<hostRows, needle>>
editVars == <<editIndex, form, shown>>
hostVars == <<storeVars, shellScreen, homeVars, editVars, resets>>

NoForm == [name |-> "", group |-> "", protocol |-> "ssh", port |-> 0]

HostsTypeOK ==
    /\ hosts \in Seq(Host) /\ Len(hosts) <= MaxHosts
    /\ hostsFile \in Seq(Host) /\ Len(hostsFile) <= MaxHosts
    /\ shellScreen \in {"home", "edit", "other"}
    /\ hostRows \in Seq([label : Host, index : 1..MaxHosts]) /\ needle \in Needles
    /\ editIndex \in 0..MaxHosts /\ form \in Form
    /\ writing \in {"no", "save", "delete"}
    /\ resets \in 0..MaxResets /\ failures \in 0..MaxFailures
    /\ shown \in Host \cup {NoForm} /\ unwritten \in BOOLEAN

-----------------------------------------------------------------------------
(* The home screen. *)

Matches(h, k) == k = "" \/ k \in {h.name, h.group}

\* The hosts of one group that match, in the order of the list.
InGroup(list, k, g) ==
    FlattenSeq([i \in DOMAIN list |->
                   IF Matches(list[i], k) /\ list[i].group = g THEN <<i>> ELSE <<>>])

MutantSeenGroups(list, k) ==    \* only neighbours are recognised
    FlattenSeq([i \in DOMAIN list |->
                   IF /\ Matches(list[i], k) /\ list[i].group # ""
                      /\ i > 1 => list[i - 1].group # list[i].group
                   THEN <<i>> ELSE <<>>])

\* The hosts that match and are the first of their group.
OpensGroup(list, k, i) ==
    /\ Matches(list[i], k) /\ list[i].group # ""
    /\ \A j \in 1..(i - 1) : Matches(list[j], k) => list[j].group # list[i].group

SeenGroups(list, k) ==
    FlattenSeq([i \in DOMAIN list |-> IF OpensGroup(list, k, i) THEN <<i>> ELSE <<>>])

\* rebuild_host_list(): group by group in the order first seen, then the rest.
RowsOf(list, k) ==
    LET seen == SeenGroups(list, k)
        order == FlattenSeq([g \in DOMAIN seen |-> InGroup(list, k, list[seen[g]].group)])
                   \o InGroup(list, k, "")
    IN  [r \in DOMAIN order |-> [label |-> list[order[r]], index |-> order[r]]]

ShowHome(list) ==
    /\ shellScreen' = "home" /\ needle' = "" /\ hostRows' = RowsOf(list, "")

\* What the code leaves behind in s_edit is never read again.
LeaveEdit == editIndex' = 0 /\ form' = NoForm /\ shown' = NoForm

HostsInit ==
    /\ hosts = <<>> /\ hostsFile = <<>> /\ shellScreen = "home"
    /\ hostRows = <<>> /\ needle = "" /\ editIndex = 0 /\ form = NoForm
    /\ writing = "no" /\ resets = 0 /\ failures = 0 /\ shown = NoForm /\ unwritten = FALSE

\* The user acts on a screen only between two callbacks.
On(scr) == shellScreen = scr /\ writing = "no"

Search(k) ==
    /\ On("home")
    /\ needle' = k /\ hostRows' = RowsOf(hosts, k)
    /\ UNCHANGED <<storeVars, shellScreen, editVars, resets>>

\* show_edit_screen() for row r, or for a new host.
ShowEdit(index) ==
    /\ shellScreen' = "edit" /\ editIndex' = index
    /\ hostRows' = <<>> /\ needle' = ""
    /\ IF index > 0
       THEN shown' = hosts[index] /\ form' = hosts[index]
       ELSE /\ shown' = NoForm
            /\ form' = [NoForm EXCEPT !.port = DefaultPort["ssh"]]

\* A click opens a session, or the edit screen for a serial host; a long press
\* and "+ Add" open the edit screen.
HostClick(r) ==
    /\ On("home")
    /\ IF hosts[r.index].protocol = "serial"
       THEN ShowEdit(r.index)
       ELSE shellScreen' = "other" /\ UNCHANGED <<homeVars, editVars>>
    /\ UNCHANGED <<storeVars, resets>>

HostLongPress(r) == On("home") /\ ShowEdit(r.index) /\ UNCHANGED <<storeVars, resets>>

AddClick == On("home") /\ ShowEdit(0) /\ UNCHANGED <<storeVars, resets>>

\* Cancel, the end of a session, Back, and a WiFi connect that succeeds while
\* any screen is on display, all show the home screen.
GoHome ==
    /\ writing = "no" /\ shellScreen # "home"
    /\ ShowHome(hosts) /\ LeaveEdit
    /\ UNCHANGED <<storeVars, resets>>

-----------------------------------------------------------------------------
(* The edit screen and the store. *)

Type(n, g, p) ==
    /\ On("edit")
    /\ form' = [form EXCEPT !.name = n, !.group = g, !.port = p]
    /\ UNCHANGED <<storeVars, shellScreen, homeVars, editIndex, shown, resets>>

\* The port follows the protocol only while adding.
ChooseProtocol(p) ==
    /\ On("edit")
    /\ form' = [form EXCEPT !.protocol = p,
                            !.port = IF editIndex = 0 THEN DefaultPort[p] ELSE @]
    /\ UNCHANGED <<storeVars, shellScreen, homeVars, editIndex, shown, resets>>

MutantTyped == form    \* the number as it was typed

\* The fields as a host: (uint16_t)atoi().
Typed == [form EXCEPT !.port = @ % PortLimit]

\* host_store_add() or host_store_update(), up to persist_to_disk(): the list
\* in memory has changed.
SaveClick ==
    /\ On("edit") /\ form.name # ""
    /\ \/ editIndex = 0 /\ Len(hosts) < MaxHosts
          /\ hosts' = Append(hosts, Typed)
       \/ editIndex > 0
          /\ hosts' = [hosts EXCEPT ![editIndex] = Typed]
    /\ writing' = "save"
    /\ UNCHANGED <<hostsFile, unwritten, failures, shellScreen, homeVars, editIndex, form, shown, resets>>

MutantDeleteClick ==    \* the list is changed and not written
    /\ On("edit") /\ editIndex > 0
    /\ hosts' = RemoveAt(hosts, editIndex)
    /\ ShowHome(hosts') /\ LeaveEdit
    /\ UNCHANGED <<hostsFile, writing, unwritten, failures, resets>>

\* host_store_delete(), up to persist_to_disk().
DeleteClick ==
    /\ On("edit") /\ editIndex > 0
    /\ hosts' = RemoveAt(hosts, editIndex)
    /\ writing' = "delete"
    /\ UNCHANGED <<hostsFile, unwritten, failures, shellScreen, homeVars, editVars, resets>>

MutantWriteRefused ==    \* Delete stays on the screen as Save does
    /\ writing # "no" /\ failures < MaxFailures
    /\ failures' = failures + 1 /\ unwritten' = TRUE /\ writing' = "no"
    /\ UNCHANGED <<hosts, hostsFile, shellScreen, homeVars, editVars, resets>>

\* fopen() to fclose(): the new file replaces the old one.
Written ==
    /\ writing # "no"
    /\ hostsFile' = hosts /\ unwritten' = FALSE /\ writing' = "no"
    /\ ShowHome(hosts) /\ LeaveEdit
    /\ UNCHANGED <<hosts, failures, resets>>

\* fputs() or fclose() fails, which nobody looks at: the old file stays.
WriteIgnored ==
    /\ writing # "no" /\ failures < MaxFailures
    /\ failures' = failures + 1 /\ unwritten' = TRUE /\ writing' = "no"
    /\ ShowHome(hosts) /\ LeaveEdit
    /\ UNCHANGED <<hosts, hostsFile, resets>>

\* No memory for the text, or fopen() fails: Save stays on the screen, Delete
\* ignores it.
WriteRefused ==
    /\ writing # "no" /\ failures < MaxFailures
    /\ failures' = failures + 1 /\ unwritten' = TRUE /\ writing' = "no"
    /\ IF writing = "save"
       THEN UNCHANGED <<shellScreen, homeVars, editVars>>
       ELSE ShowHome(hosts) /\ LeaveEdit
    /\ UNCHANGED <<hosts, hostsFile, resets>>

\* A reset, and host_store_init() with the load of the file.
Reset ==
    /\ resets < MaxResets
    /\ resets' = resets + 1
    /\ hosts' = hostsFile /\ writing' = "no" /\ unwritten' = FALSE
    /\ ShowHome(hostsFile) /\ LeaveEdit
    /\ UNCHANGED <<hostsFile, failures>>

HostsNext ==
    \/ \E k \in Needles : Search(k)
    \/ \E r \in DOMAIN hostRows : HostClick(hostRows[r]) \/ HostLongPress(hostRows[r])
    \/ AddClick \/ GoHome
    \/ \E n \in Names, g \in Groups, p \in Ports : Type(n, g, p)
    \/ \E p \in Protocols : ChooseProtocol(p)
    \/ SaveClick \/ DeleteClick
    \/ Written \/ WriteIgnored \/ WriteRefused
    \/ Reset

HostsSpec == HostsInit /\ [][HostsNext]_hostVars

-----------------------------------------------------------------------------
\* Each host that matches the search has one row on the home screen, and the row
\* of an index shows the host that a click on it will open, whatever was saved,
\* refused, deleted or reset before (ui_shell.c:107-205, 54-77).
RowsAreHosts ==
    shellScreen = "home" =>
        /\ \A r \in DOMAIN hostRows :
              hostRows[r].index \in DOMAIN hosts /\ hostRows[r].label = hosts[hostRows[r].index]
        /\ \A i \in DOMAIN hosts : Matches(hosts[i], needle) =>
              \E r \in DOMAIN hostRows :
                 /\ hostRows[r].index = i
                 /\ \A q \in DOMAIN hostRows : hostRows[q].index = i => q = r

\* The file holds the list in memory unless it is being written or a write has
\* failed; a reset then loses nothing, and at any other time no more than the
\* operations since the last write that did not fail (host_store.c:206-236).
FileIsCurrent == writing = "no" /\ ~unwritten => hostsFile = hosts

\* The edit screen saves over the host it was opened for (ui_shell.c:312, 323).
EditsWhatItShows ==
    shellScreen = "edit" /\ editIndex > 0 /\ writing # "delete" =>
        /\ editIndex \in DOMAIN hosts
        /\ ~unwritten /\ writing = "no" => hosts[editIndex] = shown

=============================================================================
