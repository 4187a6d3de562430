------------------------------ MODULE Session ------------------------------
(***************************************************************************)
(* The terminal session of session_ui.c and everything that can race with  *)
(* it: the LVGL task that runs the screens' callbacks, one session_io_task *)
(* per opened session, the keyboard task, the SSH connect tasks started by *)
(* the password screen and the WiFi connect tasks started by the WiFi      *)
(* screens.                                                                *)
(*                                                                         *)
(* A section of code run under bsp_display_lock() is one step, enabled     *)
(* when nobody holds the lock.  The LVGL task holds it while it runs a     *)
(* callback; the only callback that waits inside is the Telnet connect, so *)
(* the lock is held exactly while ui = "telnet_connect".  Code that runs   *)
(* without the lock is one step per access to shared state.                *)
(*                                                                         *)
(* Sessions are numbered in the order open_session_screen() creates them;  *)
(* 0 stands for a NULL pointer.  A step that touches freed memory records  *)
(* the kind of fault, after which the firmware has panicked.               *)
(***************************************************************************)
EXTENDS Naturals, Sequences

CONSTANTS
    MaxSessions,   \* bound: sessions opened in one behaviour
    MaxKeys,       \* bound: key presses in one behaviour
    QueueLen,      \* capacity of s_key_queue (32 in session_ui_init)
    SshTasks,      \* ssh_connect_task instances that may run at a time
    WifiTasks      \* connect_task instances (ui_wifi.c) that may run at a time

ASSUME MaxSessionsAssumption == MaxSessions \in Nat \ {0}
ASSUME MaxKeysAssumption == MaxKeys \in Nat
ASSUME QueueLenAssumption == QueueLen \in Nat \ {0}

Sessions == 1..MaxSessions
None == 0

VARIABLES
    ui,             \* "idle", or "telnet_connect": a callback is waiting in connect
    screen,         \* the screen on display
    front,          \* the session whose screen is on display, or None
    opened,         \* number of sessions opened
    term,           \* terminal_t of each session: none, live, freed
    canvas,         \* its LVGL canvas: none, live, deleted
    conn,           \* its transport: none, open, closed
    sTerm,          \* s_term
    sTransport,     \* s_transport
    stopRequested,  \* s_stop_requested
    localEcho,      \* s_local_echo
    scrolled,       \* terminal_is_scrolled(s_term)
    rawCb,          \* is s_raw_cb (keyboard_indev.c) set
    keyQueue,       \* s_key_queue
    kbd,            \* key held by kbd_task between its test of s_raw_cb and the call
    presses,        \* number of key presses so far
    io,             \* program counter of each session's session_io_task
    hand,           \* the key event session_io_task has dequeued and not yet sent
    remoteClosed,   \* its local remote_closed
    statusMessage,  \* is s_status_message (ui_shell.c) set
    banner,         \* does the home screen on display carry the message
    ssh,            \* each ssh_connect_task: idle, or connecting
    wifi,           \* each WiFi connect_task
    windowClosed,   \* the peer accepts no data: write() waits
    accepted,       \* history: the keys that entered s_key_queue, in order
    sent,           \* history: the keys written to a transport, in order
    displaced,      \* history: a task replaced the screen of a running session
    fault           \* the first memory fault, "none" so far

uiVars == <<ui, screen, front, statusMessage, banner>>
sessionVars == <<opened, term, canvas, conn, sTerm, sTransport, stopRequested, localEcho, scrolled>>
keyVars == <<rawCb, keyQueue, kbd, presses, accepted>>
ioVars == <<io, hand, remoteClosed, sent>>
taskVars == <<ssh, wifi>>
ghostVars == <<displaced, fault>>
vars == <<uiVars, sessionVars, keyVars, ioVars, taskVars, windowClosed, ghostVars>>

Screens == {"home", "ssh_password", "wifi", "session"}
IoSteps == {"none", "top", "read", "feed", "label", "keys", "snap", "send", "echo",
            "detach", "close", "message", "destroy", "gone"}
TaskStates == {"idle", "connecting"}
Faults == {"none", "null_terminal", "freed_terminal", "deleted_canvas", "deleted_label",
           "double_delete", "null_transport", "closed_transport"}
Keys == [id : 1..MaxKeys, on : Sessions \cup {None}]

UiTypeOK ==
    /\ ui \in {"idle", "telnet_connect"}
    /\ screen \in Screens
    /\ front \in Sessions \cup {None}
    /\ statusMessage \in BOOLEAN
    /\ banner \in BOOLEAN

SessionTypeOK ==
    /\ opened \in 0..MaxSessions
    /\ term \in [Sessions -> {"none", "live", "freed"}]
    /\ canvas \in [Sessions -> {"none", "live", "deleted"}]
    /\ conn \in [Sessions -> {"none", "open", "closed"}]
    /\ sTerm \in Sessions \cup {None}
    /\ sTransport \in Sessions \cup {None}
    /\ stopRequested \in BOOLEAN
    /\ localEcho \in BOOLEAN
    /\ scrolled \in BOOLEAN

KeyTypeOK ==
    /\ rawCb \in BOOLEAN
    /\ keyQueue \in Seq(Keys) /\ Len(keyQueue) <= QueueLen
    /\ kbd \in Seq(Keys) /\ Len(kbd) <= 1
    /\ presses \in 0..MaxKeys
    /\ accepted \in Seq(Keys)

IoTypeOK ==
    /\ io \in [Sessions -> IoSteps]
    /\ hand \in [Sessions -> Seq(Keys)]
    /\ \A s \in Sessions : io[s] \in {"snap", "send"} => Len(hand[s]) = 1
    /\ remoteClosed \in [Sessions -> BOOLEAN]
    /\ sent \in Seq([key : Keys, to : Sessions \cup {None}])

TaskTypeOK ==
    /\ ssh \in [SshTasks -> TaskStates]
    /\ wifi \in [WifiTasks -> TaskStates]

GhostTypeOK ==
    /\ displaced \in BOOLEAN
    /\ fault \in Faults

\* Every variable keeps its type; the queue keeps its capacity and a key about
\* to be sent is there.
TypeOK ==
    /\ UiTypeOK /\ SessionTypeOK /\ KeyTypeOK /\ IoTypeOK /\ TaskTypeOK /\ GhostTypeOK
    /\ windowClosed \in BOOLEAN

Init ==
    /\ ui = "idle" /\ screen = "home" /\ front = None
    /\ statusMessage = FALSE /\ banner = FALSE
    /\ opened = 0
    /\ term = [s \in Sessions |-> "none"]
    /\ canvas = [s \in Sessions |-> "none"]
    /\ conn = [s \in Sessions |-> "none"]
    /\ sTerm = None /\ sTransport = None
    /\ stopRequested = FALSE /\ localEcho = FALSE /\ scrolled = FALSE
    /\ rawCb = FALSE /\ keyQueue = <<>> /\ kbd = <<>> /\ presses = 0 /\ accepted = <<>>
    /\ io = [s \in Sessions |-> "none"]
    /\ hand = [s \in Sessions |-> <<>>]
    /\ remoteClosed = [s \in Sessions |-> FALSE]
    /\ sent = <<>>
    /\ ssh = [t \in SshTasks |-> "idle"]
    /\ wifi = [t \in WifiTasks |-> "idle"]
    /\ windowClosed = FALSE
    /\ displaced = FALSE /\ fault = "none"

-----------------------------------------------------------------------------
(* What a use of the two global pointers runs into. *)

\* After a fault the firmware has panicked and takes no further step.
Running == fault = "none"

LockFree == ui = "idle"

\* A look at a field of s_term.
TermFault ==
    IF sTerm = None THEN "null_terminal"
    ELSE IF term[sTerm] # "live" THEN "freed_terminal"
    ELSE "none"

\* terminal_render(s_term) draws on its canvas.
RenderFault ==
    IF TermFault # "none" THEN TermFault
    ELSE IF canvas[sTerm] # "live" THEN "deleted_canvas"
    ELSE "none"

\* s_info_lbl is a child of the screen of the newest session.
LabelFault == IF front # None /\ front = opened THEN "none" ELSE "deleted_label"

ConnFault ==
    IF sTransport = None THEN "null_transport"
    ELSE IF conn[sTransport] # "open" THEN "closed_transport"
    ELSE "none"

\* lv_screen_load_anim(.., auto_del = true): the screen that was on display is
\* deleted together with its children, the session's canvas among them.
CanvasesAfterLoad ==
    [s \in Sessions |-> IF s = front /\ canvas[s] = "live" THEN "deleted" ELSE canvas[s]]

\* Mutant: the home screen is loaded before the terminal is destroyed.
DestroyFaultHomeFirst ==
    IF sTerm # None /\ CanvasesAfterLoad[sTerm] # "live" THEN "double_delete" ELSE "none"

\* terminal_destroy(s_term): a NULL terminal is skipped, a canvas that LVGL
\* has already deleted with its screen is deleted a second time.
DestroyFault ==
    IF sTerm = None THEN "none"
    ELSE IF term[sTerm] # "live" THEN "freed_terminal"
    ELSE IF canvas[sTerm] # "live" THEN "double_delete"
    ELSE "none"

Both(f, g) == IF f # "none" THEN f ELSE g

\* Mutant: the message is not cleared once shown.
ShowHomeAgain ==
    /\ screen' = "home"
    /\ front' = None
    /\ banner' = statusMessage
    /\ UNCHANGED statusMessage

\* ui_shell_show_home(): the message is shown once and cleared.
ShowHome ==
    /\ screen' = "home"
    /\ front' = None
    /\ banner' = statusMessage
    /\ statusMessage' = FALSE

\* A screen without a session replaces the one on display.
LoadScreen(scr) ==
    /\ screen' = scr
    /\ front' = None
    /\ banner' = FALSE
    /\ UNCHANGED statusMessage

\* open_session_screen(): a terminal and its canvas are built, the globals are
\* pointed at the new session, the screen is loaded, raw keyboard mode is
\* turned on and the io task is created.
OpenSession(s) ==
    /\ s \in Sessions
    /\ opened' = s
    /\ term' = [term EXCEPT ![s] = "live"]
    /\ canvas' = [CanvasesAfterLoad EXCEPT ![s] = "live"]
    /\ conn' = [conn EXCEPT ![s] = "open"]
    /\ sTerm' = s
    /\ sTransport' = s
    /\ stopRequested' = FALSE
    /\ localEcho' = FALSE
    /\ scrolled' = FALSE
    /\ screen' = "session"
    /\ front' = s
    /\ banner' = FALSE
    /\ rawCb' = TRUE
    /\ io' = [io EXCEPT ![s] = "top"]
    /\ displaced' = (displaced \/ front # None)
    /\ UNCHANGED <<statusMessage, keyQueue, kbd, presses, accepted, hand, remoteClosed, sent,
                   windowClosed, fault>>

-----------------------------------------------------------------------------
(* The LVGL task. *)

\* host_row_click_cb on a Telnet host: the callback blocks in
\* telnet_client_connect() for up to 8 s with the display lock held.
TelnetClick ==
    /\ Running /\ LockFree /\ screen = "home"
    /\ ui' = "telnet_connect"
    /\ UNCHANGED <<screen, front, statusMessage, banner, sessionVars, keyVars, ioVars, taskVars,
                   windowClosed, ghostVars>>

TelnetRefused ==
    /\ Running /\ ui = "telnet_connect"
    /\ ui' = "idle"
    /\ UNCHANGED <<screen, front, statusMessage, banner, sessionVars, keyVars, ioVars, taskVars,
                   windowClosed, ghostVars>>

TelnetOpen ==
    /\ Running /\ ui = "telnet_connect"
    /\ OpenSession(opened + 1)
    /\ ui' = "idle"
    /\ UNCHANGED taskVars

\* host_row_click_cb on an SSH host with password authentication.
SshClick ==
    /\ Running /\ LockFree /\ screen = "home"
    /\ LoadScreen("ssh_password")
    /\ UNCHANGED <<ui, sessionVars, keyVars, ioVars, taskVars, windowClosed, ghostVars>>

\* Connect on the password screen: every click starts one more task.
SshConnectClick(t) ==
    /\ Running /\ LockFree /\ screen = "ssh_password"
    /\ ssh[t] = "idle"
    /\ ssh' = [ssh EXCEPT ![t] = "connecting"]
    /\ UNCHANGED <<uiVars, sessionVars, keyVars, ioVars, wifi, windowClosed, ghostVars>>

WifiClick ==
    /\ Running /\ LockFree /\ screen = "home"
    /\ LoadScreen("wifi")
    /\ UNCHANGED <<ui, sessionVars, keyVars, ioVars, taskVars, windowClosed, ghostVars>>

\* start_connect(), from a row of the scan screen or the password screen.
WifiConnectClick(t) ==
    /\ Running /\ LockFree /\ screen = "wifi"
    /\ wifi[t] = "idle"
    /\ wifi' = [wifi EXCEPT ![t] = "connecting"]
    /\ UNCHANGED <<uiVars, sessionVars, keyVars, ioVars, ssh, windowClosed, ghostVars>>

\* Cancel on the SSH password screen, Back on the WiFi screen.
CancelClick ==
    /\ Running /\ LockFree /\ screen \in {"ssh_password", "wifi"}
    /\ ShowHome
    /\ UNCHANGED <<ui, sessionVars, keyVars, ioVars, taskVars, windowClosed, ghostVars>>

DisconnectClick ==
    /\ Running /\ LockFree /\ screen = "session"
    /\ stopRequested' = TRUE
    /\ UNCHANGED <<uiVars, opened, term, canvas, conn, sTerm, sTransport, localEcho, scrolled,
                   keyVars, ioVars, taskVars, windowClosed, ghostVars>>

EchoClick ==
    /\ Running /\ LockFree /\ screen = "session"
    /\ localEcho' = ~localEcho
    /\ UNCHANGED <<uiVars, opened, term, canvas, conn, sTerm, sTransport, stopRequested, scrolled,
                   keyVars, ioVars, taskVars, windowClosed, ghostVars>>

\* A drag over the canvas, or the Live button: the viewport moves and the
\* terminal is rendered.
ScrollView(back) ==
    /\ Running /\ LockFree /\ screen = "session"
    /\ scrolled' = back
    /\ fault' = RenderFault
    /\ UNCHANGED <<uiVars, opened, term, canvas, conn, sTerm, sTransport, stopRequested, localEcho,
                   keyVars, ioVars, taskVars, windowClosed, displaced>>

UiNext ==
    \/ TelnetClick
    \/ TelnetRefused
    \/ TelnetOpen
    \/ SshClick
    \/ \E t \in SshTasks : SshConnectClick(t)
    \/ WifiClick
    \/ \E t \in WifiTasks : WifiConnectClick(t)
    \/ CancelClick
    \/ DisconnectClick
    \/ EchoClick
    \/ \E back \in BOOLEAN : ScrollView(back)

-----------------------------------------------------------------------------
(* The connect tasks.  A connect touches nothing the others see until the   *)
(* section under the lock that each task ends with.                         *)

\* ssh_session_connect() succeeded: the session screen is opened whatever is
\* on display by now.
SshOpen(t) ==
    /\ Running /\ LockFree /\ ssh[t] = "connecting"
    /\ OpenSession(opened + 1)
    /\ ssh' = [ssh EXCEPT ![t] = "idle"]
    /\ UNCHANGED <<ui, wifi>>

\* It failed: at most a label of the password screen changes.
SshFail(t) ==
    /\ Running /\ LockFree /\ ssh[t] = "connecting"
    /\ ssh' = [ssh EXCEPT ![t] = "idle"]
    /\ UNCHANGED <<uiVars, sessionVars, keyVars, ioVars, wifi, windowClosed, ghostVars>>

\* wifi_manager_connect() succeeded: the home screen is loaded whatever is on
\* display by now.
WifiShowHome(t) ==
    /\ Running /\ LockFree /\ wifi[t] = "connecting"
    /\ ShowHome
    /\ canvas' = CanvasesAfterLoad
    /\ displaced' = (displaced \/ front # None)
    /\ wifi' = [wifi EXCEPT ![t] = "idle"]
    /\ UNCHANGED <<ui, opened, term, conn, sTerm, sTransport, stopRequested, localEcho, scrolled,
                   keyVars, ioVars, ssh, windowClosed, fault>>

WifiFail(t) ==
    /\ Running /\ LockFree /\ wifi[t] = "connecting"
    /\ wifi' = [wifi EXCEPT ![t] = "idle"]
    /\ UNCHANGED <<uiVars, sessionVars, keyVars, ioVars, ssh, windowClosed, ghostVars>>

TaskNext ==
    \/ \E t \in SshTasks : SshOpen(t) \/ SshFail(t)
    \/ \E t \in WifiTasks : WifiShowHome(t) \/ WifiFail(t)

-----------------------------------------------------------------------------
(* The keyboard task: handle_key_event() tests s_raw_cb and calls it without *)
(* a lock.  A key pressed while it is NULL goes to LVGL and is not followed. *)

KeyPress ==
    /\ Running /\ rawCb /\ kbd = <<>> /\ presses < MaxKeys
    /\ presses' = presses + 1
    /\ kbd' = <<[id |-> presses + 1, on |-> front]>>
    /\ UNCHANGED <<uiVars, sessionVars, rawCb, keyQueue, accepted, ioVars, taskVars,
                   windowClosed, ghostVars>>

\* Mutant: the queue is taken to be unbounded.
RawKeyCbUnbounded ==
    /\ Running /\ kbd # <<>>
    /\ kbd' = <<>>
    /\ keyQueue' = keyQueue \o kbd
    /\ accepted' = accepted \o kbd
    /\ UNCHANGED <<uiVars, sessionVars, rawCb, presses, ioVars, taskVars, windowClosed, ghostVars>>

\* raw_key_cb(): xQueueSend with no wait drops the key when the queue is full.
RawKeyCb ==
    /\ Running /\ kbd # <<>>
    /\ kbd' = <<>>
    /\ IF Len(keyQueue) < QueueLen
          THEN /\ keyQueue' = keyQueue \o kbd
               /\ accepted' = accepted \o kbd
          ELSE UNCHANGED <<keyQueue, accepted>>
    /\ UNCHANGED <<uiVars, sessionVars, rawCb, presses, ioVars, taskVars, windowClosed, ghostVars>>

KbdNext == KeyPress \/ RawKeyCb

-----------------------------------------------------------------------------
(* session_io_task, one instance per session.  It has no pointer of its own: *)
(* every step goes through s_term and s_transport.                           *)

Goto(s, step) == io' = [io EXCEPT ![s] = step]

\* Mutant: the loop does not look at s_stop_requested again.
IoLoopForever(s) ==
    /\ Running /\ io[s] = "top"
    /\ Goto(s, "read")
    /\ UNCHANGED <<uiVars, sessionVars, keyVars, hand, remoteClosed, sent, taskVars, windowClosed,
                   ghostVars>>

\* while (!s_stop_requested)
IoLoop(s) ==
    /\ Running /\ io[s] = "top"
    /\ Goto(s, IF stopRequested THEN "detach" ELSE "read")
    /\ UNCHANGED <<uiVars, sessionVars, keyVars, hand, remoteClosed, sent, taskVars, windowClosed,
                   ghostVars>>

\* Mutant: the break after a closed connection is missing.
IoReadGoesOn(s, result) ==
    /\ Running /\ io[s] = "read"
    /\ fault' = ConnFault
    /\ Goto(s, IF result = "data" THEN "feed" ELSE "label")
    /\ remoteClosed' = [remoteClosed EXCEPT ![s] = (result = "closed")]
    /\ UNCHANGED <<uiVars, sessionVars, keyVars, hand, sent, taskVars, windowClosed, displaced>>

\* transport.read(): data, nothing within 100 ms, or closed by the remote.
IoRead(s, result) ==
    /\ Running /\ io[s] = "read"
    /\ fault' = ConnFault
    /\ Goto(s, IF result = "data" THEN "feed"
               ELSE IF result = "timeout" THEN "label" ELSE "detach")
    /\ remoteClosed' = [remoteClosed EXCEPT ![s] = (result = "closed")]
    /\ UNCHANGED <<uiVars, sessionVars, keyVars, hand, sent, taskVars, windowClosed, displaced>>

\* Under the lock: feed, up to eight more reads without waiting, render.
IoFeed(s) ==
    /\ Running /\ io[s] = "feed" /\ LockFree
    /\ fault' = Both(RenderFault, ConnFault)
    /\ Goto(s, "label")
    /\ UNCHANGED <<uiVars, sessionVars, keyVars, hand, remoteClosed, sent, taskVars, windowClosed,
                   displaced>>

\* The WiFi state is unchanged since the last look, or the label of the
\* session screen is updated under the lock.
IoLabel(s) ==
    /\ Running /\ io[s] = "label"
    /\ \/ UNCHANGED fault
       \/ /\ LockFree
          /\ fault' = LabelFault
    /\ Goto(s, "keys")
    /\ UNCHANGED <<uiVars, sessionVars, keyVars, hand, remoteClosed, sent, taskVars, windowClosed,
                   displaced>>

\* while (xQueueReceive(s_key_queue, &evt, 0) == pdTRUE): no lock is held.
IoNoMoreKeys(s) ==
    /\ Running /\ io[s] = "keys" /\ keyQueue = <<>>
    /\ Goto(s, "top")
    /\ UNCHANGED <<uiVars, sessionVars, keyVars, hand, remoteClosed, sent, taskVars, windowClosed,
                   ghostVars>>

IoTakeKey(s) ==
    /\ Running /\ io[s] = "keys" /\ keyQueue # <<>>
    /\ hand' = [hand EXCEPT ![s] = <<Head(keyQueue)>>]
    /\ keyQueue' = Tail(keyQueue)
    /\ fault' = TermFault
    /\ Goto(s, IF scrolled THEN "snap" ELSE "send")
    /\ UNCHANGED <<uiVars, sessionVars, rawCb, kbd, presses, accepted, remoteClosed, sent, taskVars,
                   windowClosed, displaced>>

\* Mutant: the key that returned to the live view is not sent.
IoSnapOnly(s) ==
    /\ Running /\ io[s] = "snap" /\ LockFree
    /\ fault' = RenderFault
    /\ scrolled' = FALSE
    /\ Goto(s, "keys")
    /\ UNCHANGED <<uiVars, opened, term, canvas, conn, sTerm, sTransport, stopRequested, localEcho,
                   keyVars, hand, remoteClosed, sent, taskVars, windowClosed, displaced>>

\* Typing while scrolled back returns to the live view first.
IoSnap(s) ==
    /\ Running /\ io[s] = "snap" /\ LockFree
    /\ fault' = RenderFault
    /\ scrolled' = FALSE
    /\ Goto(s, "send")
    /\ UNCHANGED <<uiVars, opened, term, canvas, conn, sTerm, sTransport, stopRequested, localEcho,
                   keyVars, hand, remoteClosed, sent, taskVars, windowClosed, displaced>>

\* send_key(): the write waits for as long as the peer accepts no data.
IoSend(s) ==
    /\ Running /\ io[s] = "send" /\ ~windowClosed
    /\ fault' = Both(TermFault, ConnFault)
    /\ sent' = Append(sent, [key |-> hand[s][1], to |-> sTransport])
    /\ hand' = [hand EXCEPT ![s] = <<>>]
    /\ Goto(s, IF localEcho THEN "echo" ELSE "keys")
    /\ UNCHANGED <<uiVars, sessionVars, keyVars, remoteClosed, taskVars, windowClosed, displaced>>

IoEcho(s) ==
    /\ Running /\ io[s] = "echo" /\ LockFree
    /\ fault' = RenderFault
    /\ Goto(s, "keys")
    /\ UNCHANGED <<uiVars, sessionVars, keyVars, hand, remoteClosed, sent, taskVars, windowClosed,
                   displaced>>

\* Mutant: raw keyboard mode is left on.
IoDetachForgotten(s) ==
    /\ Running /\ io[s] = "detach"
    /\ Goto(s, "close")
    /\ UNCHANGED <<uiVars, sessionVars, keyVars, hand, remoteClosed, sent, taskVars, windowClosed,
                   ghostVars>>

\* keyboard_indev_set_raw_cb(NULL)
IoDetach(s) ==
    /\ Running /\ io[s] = "detach"
    /\ rawCb' = FALSE
    /\ Goto(s, "close")
    /\ UNCHANGED <<uiVars, sessionVars, keyQueue, kbd, presses, accepted, hand, remoteClosed, sent,
                   taskVars, windowClosed, ghostVars>>

IoClose(s) ==
    /\ Running /\ io[s] = "close"
    /\ fault' = ConnFault
    /\ conn' = [c \in Sessions |-> IF c = sTransport THEN "closed" ELSE conn[c]]
    /\ Goto(s, "message")
    /\ UNCHANGED <<uiVars, opened, term, canvas, sTerm, sTransport, stopRequested, localEcho,
                   scrolled, keyVars, hand, remoteClosed, sent, taskVars, windowClosed, displaced>>

\* ui_shell_set_status_message(), when the remote ended the session.
IoMessage(s) ==
    /\ Running /\ io[s] = "message"
    /\ statusMessage' = (statusMessage \/ remoteClosed[s])
    /\ Goto(s, "destroy")
    /\ UNCHANGED <<ui, screen, front, banner, sessionVars, keyVars, hand, remoteClosed, sent,
                   taskVars, windowClosed, ghostVars>>

\* Under the lock: terminal_destroy(s_term), s_term = NULL, ui_shell_show_home().
IoDestroy(s) ==
    /\ Running /\ io[s] = "destroy" /\ LockFree
    /\ fault' = DestroyFault
    /\ term' = [c \in Sessions |-> IF c = sTerm THEN "freed" ELSE term[c]]
    /\ canvas' = [c \in Sessions |-> IF c = sTerm THEN "deleted" ELSE CanvasesAfterLoad[c]]
    /\ sTerm' = None
    /\ ShowHome
    /\ displaced' = (displaced \/ front \notin {None, s})
    /\ Goto(s, "gone")
    /\ UNCHANGED <<ui, opened, conn, sTransport, stopRequested, localEcho, scrolled, keyVars, hand,
                   remoteClosed, sent, taskVars, windowClosed>>

IoNext(s) ==
    \/ IoLoop(s)
    \/ \E result \in {"data", "timeout", "closed"} : IoRead(s, result)
    \/ IoFeed(s)
    \/ IoLabel(s)
    \/ IoNoMoreKeys(s)
    \/ IoTakeKey(s)
    \/ IoSnap(s)
    \/ IoSend(s)
    \/ IoEcho(s)
    \/ IoDetach(s)
    \/ IoClose(s)
    \/ IoMessage(s)
    \/ IoDestroy(s)

\* The peer (the SSH channel window, the TCP send buffer) stops or resumes
\* accepting data.
PeerWindow(closed) ==
    /\ Running /\ windowClosed # closed
    /\ windowClosed' = closed
    /\ UNCHANGED <<uiVars, sessionVars, keyVars, ioVars, taskVars, ghostVars>>

Next ==
    \/ UiNext
    \/ TaskNext
    \/ KbdNext
    \/ \E s \in Sessions : IoNext(s)
    \/ \E closed \in BOOLEAN : PeerWindow(closed)

\* FreeRTOS keeps scheduling a ready task: the io task and the keyboard task
\* are never starved.  The user, the remote and the connect tasks may take
\* any time, except that lwIP bounds the Telnet connect.
Fairness ==
    /\ \A s \in Sessions : WF_vars(IoNext(s))
    /\ WF_vars(RawKeyCb)
    /\ WF_vars(TelnetRefused)

Spec == Init /\ [][Next]_vars

FairSpec == Spec /\ Fairness

-----------------------------------------------------------------------------
(* Properties.  displaced records that a background task took the screen     *)
(* away from a running session; the safety properties say that nothing else  *)
(* can break a session.                                                      *)

\* No step uses a freed terminal, a canvas LVGL has deleted or a closed
\* transport, closes a transport twice or deletes a canvas twice
\* (session_ui.c:314-328), unless a session was displaced.
NoFault == displaced \/ fault = "none"

\* Away from a session's screen no io task runs, no terminal or canvas is
\* left, every transport is closed and the keyboard is LVGL's.
NoSession ==
    /\ front = None /\ screen # "session"
    /\ sTerm = None /\ ~rawCb
    /\ \A s \in Sessions : /\ io[s] \in {"none", "gone"}
                           /\ term[s] # "live" /\ canvas[s] # "live" /\ conn[s] # "open"

\* On a session's screen its io task is the only one, s_term and s_transport
\* are its own and alive, the transport is open until the task closes it and
\* the keyboard is the session's until the task gives it back.
OneSession ==
    /\ front # None /\ screen = "session" /\ front = opened
    /\ sTerm = front /\ term[front] = "live" /\ canvas[front] = "live"
    /\ sTransport = front /\ (conn[front] = "open" <=> io[front] \notin {"message", "destroy"})
    /\ rawCb <=> io[front] \notin {"close", "message", "destroy"}
    /\ io[front] \notin {"none", "gone"}
    /\ \A s \in Sessions \ {front} :
          /\ io[s] \in {"none", "gone"}
          /\ term[s] # "live" /\ canvas[s] # "live" /\ conn[s] # "open"

\* The screen on display, the globals of session_ui.c, the keyboard mode and
\* the io tasks agree on which session there is (session_ui.c:313-330,
\* 408-424), unless a session was displaced.
SessionOwnsGlobals == displaced \/ NoSession \/ OneSession

\* Every key that entered the queue is sent, in hand or still queued, once and
\* in the order typed (session_ui.c:289-311).
InHand == IF \E s \in Sessions : hand[s] # <<>>
             THEN hand[CHOOSE s \in Sessions : hand[s] # <<>>]
             ELSE <<>>
KeysConserved ==
    displaced \/ accepted = [i \in DOMAIN sent |-> sent[i].key] \o InHand \o keyQueue

\* The home screen says that the remote ended the session exactly when it did;
\* a session the user disconnected leaves no message behind
\* (session_ui.c:317-321, ui_shell.c:258-263).
BannerTruthful ==
    [][\A s \in Sessions :
          (~displaced' /\ io[s] = "destroy" /\ io'[s] = "gone")
             => (banner' <=> remoteClosed[s])]_vars

\* A click on Disconnect ends the session, provided the peer does not stop
\* reading for good: write() has no timeout.
DisconnectEndsSession ==
    <>[]~windowClosed =>
        ((stopRequested /\ screen = "session" /\ ~displaced) ~> (screen = "home" \/ displaced))

\* When the remote closes the connection the user gets back to the home screen.
RemoteCloseEndsSession ==
    \A s \in Sessions : (remoteClosed[s] /\ io[s] # "gone") ~> (io[s] = "gone" \/ displaced)

\* "every physical keypress (Tab included) goes straight to the remote session"
\* (session_ui.c:418-421): a key typed on a session's screen goes to that
\* session.  Keys left in s_key_queue when a session ends go to the next one.
KeysStayInSession ==
    \A i \in DOMAIN sent : sent[i].key.on = sent[i].to

\* "deleting the same canvas object twice would be a double-free"
\* (session_ui.c:324-327).  A WiFi connect that succeeds while a session is on
\* display deletes the session's canvas together with its screen.
NoDoubleDelete == fault # "double_delete"

\* "session_io_task notices within one read-timeout tick" (session_ui.c:170).
\* A write that waits for the peer notices nothing.
DisconnectNoticed ==
    (stopRequested /\ screen = "session") ~> (screen # "session" \/ displaced)

=============================================================================
