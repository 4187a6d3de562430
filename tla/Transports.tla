------------------------------ MODULE Transports ------------------------------
(***************************************************************************)
(* What ssh_session_connect() and telnet_client_connect() acquire, on which *)
(* exit they give it back, and what the transport's close() gives back.     *)
(* Each connect runs in a task of its own (Session); two of them share      *)
(* libssh2's count of its users, which libssh2 does not protect.  libssh2,  *)
(* the resolver and the sockets are external: each call may fail.           *)
(***************************************************************************)
EXTENDS Integers, Sequences, FiniteSets

CONSTANTS SshTasks, TelnetTasks    \* one connect each

ASSUME TransportsAssumption == SshTasks \cap TelnetTasks = {} /\ IsFiniteSet(SshTasks)

VARIABLES
    step,          \* the call each task is at, or "idle", "open", "null", "closed"
    acquired,      \* what it has acquired
    libUsers,      \* libssh2's count
    libSeen,       \* what libssh2_init() has read of it
    raced,         \* history: an increment was lost
    wouldBlock     \* history: the tasks whose channel libssh2 could not free

transportVars == <<step, acquired, libUsers, libSeen, raced, wouldBlock>>

ConnectTasks == SshTasks \cup TelnetTasks
Resources == {"lib", "addr", "sock", "session", "channel", "handle"}

\* The calls in their order.
SshCalls == <<"lib", "addr", "sock", "connect", "session", "handshake", "auth", "channel",
              "pty", "shell", "handle", "open">>
TelnetCalls == <<"handle", "addr", "sock", "connect", "select", "open">>
Calls(c) == IF c \in SshTasks THEN SshCalls ELSE TelnetCalls

After(c, s) ==
    LET at == CHOOSE i \in DOMAIN Calls(c) : Calls(c)[i] = s IN Calls(c)[at + 1]

TransportsTypeOK ==
    /\ step \in [ConnectTasks -> {SshCalls[i] : i \in DOMAIN SshCalls}
                                    \cup {"select", "idle", "init", "null", "closed"}]
    /\ acquired \in [ConnectTasks -> SUBSET Resources]
    /\ libUsers \in 0..Cardinality(SshTasks)
    /\ libSeen \in [SshTasks -> 0..Cardinality(SshTasks)]
    /\ raced \in BOOLEAN /\ wouldBlock \subseteq SshTasks

TransportsInit ==
    /\ step = [c \in ConnectTasks |-> "idle"] /\ acquired = [c \in ConnectTasks |-> {}]
    /\ libUsers = 0 /\ libSeen = [c \in SshTasks |-> 0] /\ raced = FALSE /\ wouldBlock = {}

-----------------------------------------------------------------------------
\* The labels of ssh_session_connect().
FailSession == {"session", "sock", "lib"}
FailChannel == {"channel"} \cup FailSession

MutantSshGivesBack(s) ==    \* the result of getaddrinfo() is kept after connect()
    CASE s \in {"lib"} -> {}
      [] s \in {"addr", "sock"} -> {"addr", "lib"}
      [] s \in {"connect", "session"} -> {"sock", "lib"}
      [] s \in {"handshake", "auth", "channel"} -> FailSession
      [] s \in {"pty", "shell", "handle"} -> FailChannel

\* What is given back when call s fails: connect_to_host() frees its own.
SshGivesBack(s) ==
    CASE s = "lib" -> {}
      [] s \in {"addr", "sock"} -> {"addr", "lib"}
      [] s = "connect" -> {"sock", "addr", "lib"}
      [] s = "session" -> {"sock", "lib"}
      [] s \in {"handshake", "auth", "channel"} -> FailSession
      [] s \in {"pty", "shell", "handle"} -> FailChannel

\* The result of getaddrinfo() is freed before the result of connect() is seen.
TelnetGivesBack(s) ==
    CASE s = "handle" -> {}
      [] s \in {"addr", "sock"} -> {"addr", "handle"}
      [] s = "connect" -> {"addr", "sock", "handle"}
      [] s = "select" -> {"sock", "handle"}

GivesBack(c, s) == IF c \in SshTasks THEN SshGivesBack(s) ELSE TelnetGivesBack(s)

\* The session does not block: a channel that cannot be closed at once is not
\* freed, nor is its session, and nobody looks at the result.  libssh2_exit() is one
\* step here, although it counts down and tears the crypto library down without a
\* lock as well: an exit that meets an init or another exit is left out.
Releases(c, rs) ==
    /\ libUsers' = IF "lib" \in rs /\ libUsers > 0 THEN libUsers - 1 ELSE libUsers
    /\ \/ acquired' = [acquired EXCEPT ![c] = @ \ rs] /\ UNCHANGED wouldBlock
       \/ /\ "channel" \in rs
          /\ acquired' = [acquired EXCEPT ![c] = @ \ (rs \ {"channel", "session"})]
          /\ wouldBlock' = wouldBlock \cup {c}

Goes(c, from, to) == step[c] = from /\ step' = [step EXCEPT ![c] = to]

-----------------------------------------------------------------------------
StartConnecting(c) ==
    /\ Goes(c, "idle", IF c \in SshTasks THEN "init" ELSE "handle")
    /\ UNCHANGED <<acquired, libUsers, libSeen, raced, wouldBlock>>

\* libssh2_init(): the count is read...
LibInit(c) ==
    /\ Goes(c, "init", "lib")
    /\ libSeen' = [libSeen EXCEPT ![c] = libUsers]
    /\ UNCHANGED <<acquired, libUsers, raced, wouldBlock>>

\* ...and written, by two tasks perhaps with the same value.
LibCounts(c) ==
    /\ Goes(c, "lib", "addr")
    /\ libUsers' = libSeen[c] + 1 /\ raced' = (raced \/ libUsers # libSeen[c])
    /\ acquired' = [acquired EXCEPT ![c] = @ \cup {"lib"}]
    /\ UNCHANGED <<libSeen, wouldBlock>>

\* The other calls; the result of getaddrinfo() is freed when connect() has ended.
CallSucceeds(c) ==
    /\ step[c] \in {Calls(c)[i] : i \in 1..(Len(Calls(c)) - 1)} \ {"lib"}
    /\ Goes(c, step[c], After(c, step[c]))
    /\ acquired' = [acquired EXCEPT ![c] = IF step[c] = "connect" THEN @ \ {"addr"}
                                           ELSE @ \cup ({step[c]} \cap Resources)]
    /\ UNCHANGED <<libUsers, libSeen, raced, wouldBlock>>

\* Only select() of the telnet client gives up on a peer that says nothing.
CallFails(c) ==
    /\ step[c] \in {Calls(c)[i] : i \in 1..(Len(Calls(c)) - 1)}
    /\ Goes(c, step[c], "null")
    /\ Releases(c, GivesBack(c, step[c]))
    /\ UNCHANGED <<libSeen, raced>>

\* ssh_transport_close(), telnet_transport_close(): the io task, at the end.
Close(c) ==
    /\ Goes(c, "open", "closed")
    /\ Releases(c, IF c \in SshTasks THEN FailChannel \cup {"handle"} ELSE {"sock", "handle"})
    /\ UNCHANGED <<libSeen, raced>>

TransportsNext ==
    \/ \E c \in ConnectTasks : StartConnecting(c) \/ CallSucceeds(c) \/ CallFails(c) \/ Close(c)
    \/ \E c \in SshTasks : LibInit(c) \/ LibCounts(c)

TransportsSpec == TransportsInit /\ [][TransportsNext]_transportVars

-----------------------------------------------------------------------------
\* Whatever call fails and when a session is closed, nothing stays acquired but
\* what libssh2 could not free without waiting; and no exit of one connect takes
\* libssh2 from a session of another, unless two of them entered libssh2_init()
\* at the same time or, which is left out, one called libssh2_exit() meanwhile (ssh_session.c:42-178, 226-239; telnet_client.c:180-250).
NothingLeaks ==
    /\ \A c \in ConnectTasks : step[c] \in {"null", "closed"} =>
          acquired[c] \subseteq IF c \in wouldBlock THEN {"session", "channel"} ELSE {}
    /\ ~raced => libUsers = Cardinality({c \in SshTasks : "lib" \in acquired[c]})

=============================================================================
