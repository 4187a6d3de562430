--------------------------- MODULE SessionProofs ---------------------------
(***************************************************************************)
(* Proofs about Session: for any number of sessions, keys and connect      *)
(* tasks, a session is safe from memory faults as long as no background    *)
(* task takes its screen away.                                             *)
(***************************************************************************)
EXTENDS Session, SequenceTheorems, TLAPS

-----------------------------------------------------------------------------
(* Types. *)

\* The initial state is well typed.
LEMMA InitType == Init => TypeOK
<1> SUFFICES ASSUME Init PROVE TypeOK
  OBVIOUS
<1>1. UiTypeOK
  BY DEF Init, UiTypeOK, Screens
<1>2. SessionTypeOK
  <2>1. opened \in 0..MaxSessions
    BY MaxSessionsAssumption DEF Init
  <2>2. /\ term \in [Sessions -> {"none", "live", "freed"}]
        /\ canvas \in [Sessions -> {"none", "live", "deleted"}]
        /\ conn \in [Sessions -> {"none", "open", "closed"}]
    BY DEF Init
  <2>3. sTerm \in Sessions \cup {None} /\ sTransport \in Sessions \cup {None}
    BY DEF Init
  <2>4. stopRequested \in BOOLEAN /\ localEcho \in BOOLEAN /\ scrolled \in BOOLEAN
    BY DEF Init
  <2> QED
    BY <2>1, <2>2, <2>3, <2>4 DEF SessionTypeOK
<1>3. KeyTypeOK
  <2>1. keyQueue \in Seq(Keys) /\ Len(keyQueue) <= QueueLen
    BY QueueLenAssumption DEF Init
  <2>2. kbd \in Seq(Keys) /\ Len(kbd) <= 1
    BY DEF Init
  <2>3. presses \in 0..MaxKeys /\ accepted \in Seq(Keys)
    BY MaxKeysAssumption DEF Init
  <2>4. rawCb \in BOOLEAN
    BY DEF Init
  <2> QED
    BY <2>1, <2>2, <2>3, <2>4 DEF KeyTypeOK
<1>4. IoTypeOK
  <2>1. io \in [Sessions -> IoSteps] /\ hand \in [Sessions -> Seq(Keys)]
    BY DEF Init, IoSteps
  <2>2. \A s \in Sessions : io[s] \in {"snap", "send"} => Len(hand[s]) = 1
    BY DEF Init
  <2>3. remoteClosed \in [Sessions -> BOOLEAN]
    BY DEF Init
  <2>4. sent \in Seq([key : Keys, to : Sessions \cup {None}])
    BY DEF Init
  <2> QED
    BY <2>1, <2>2, <2>3, <2>4 DEF IoTypeOK
<1>5. TaskTypeOK
  BY DEF Init, TaskTypeOK, TaskStates
<1>6. GhostTypeOK
  BY DEF Init, GhostTypeOK, Faults
<1>7. windowClosed \in BOOLEAN
  BY DEF Init
<1> QED
  BY <1>1, <1>2, <1>3, <1>4, <1>5, <1>6, <1>7 DEF TypeOK

\* A group of variables that a step leaves alone keeps its type.
LEMMA Unchanged ==
    /\ UiTypeOK /\ UNCHANGED uiVars => UiTypeOK'
    /\ SessionTypeOK /\ UNCHANGED sessionVars => SessionTypeOK'
    /\ KeyTypeOK /\ UNCHANGED keyVars => KeyTypeOK'
    /\ IoTypeOK /\ UNCHANGED ioVars => IoTypeOK'
    /\ TaskTypeOK /\ UNCHANGED taskVars => TaskTypeOK'
    /\ GhostTypeOK /\ UNCHANGED ghostVars => GhostTypeOK'
<1>1. UiTypeOK /\ UNCHANGED uiVars => UiTypeOK'
  BY DEF UiTypeOK, uiVars
<1>2. SessionTypeOK /\ UNCHANGED sessionVars => SessionTypeOK'
  BY DEF SessionTypeOK, sessionVars
<1>3. KeyTypeOK /\ UNCHANGED keyVars => KeyTypeOK'
  BY DEF KeyTypeOK, keyVars
<1>4. IoTypeOK /\ UNCHANGED ioVars => IoTypeOK'
  BY DEF IoTypeOK, ioVars
<1>5. TaskTypeOK /\ UNCHANGED taskVars => TaskTypeOK'
  BY DEF TaskTypeOK, taskVars
<1>6. GhostTypeOK /\ UNCHANGED ghostVars => GhostTypeOK'
  BY DEF GhostTypeOK, ghostVars
<1> QED
  BY <1>1, <1>2, <1>3, <1>4, <1>5, <1>6

\* The faults the pointers can run into are faults of the model.
LEMMA FaultTypes ==
    /\ TermFault \in Faults
    /\ ConnFault \in Faults
    /\ DestroyFault \in Faults
    /\ RenderFault \in Faults
    /\ LabelFault \in Faults
    /\ Both(TermFault, ConnFault) \in Faults
    /\ Both(RenderFault, ConnFault) \in Faults
  BY DEF TermFault, RenderFault, LabelFault, ConnFault, DestroyFault, Both, Faults

\* Showing a screen without a session keeps the types of the screen's state.
LEMMA ScreenType ==
    ASSUME UiTypeOK, ui' = ui,
           ShowHome \/ \E scr \in Screens : LoadScreen(scr)
    PROVE  UiTypeOK'
<1>1. CASE ShowHome
  BY <1>1 DEF UiTypeOK, ShowHome, Screens
<1>2. CASE \E scr \in Screens : LoadScreen(scr)
  BY <1>2 DEF UiTypeOK, LoadScreen
<1> QED
  BY <1>1, <1>2

\* A move of an io task that takes or sends no key keeps the types of the
\* tasks' state.
LEMMA GotoType ==
    ASSUME NEW s \in Sessions, NEW step \in IoSteps, IoTypeOK, Goto(s, step),
           UNCHANGED <<hand, remoteClosed, sent>>,
           step \in {"snap", "send"} => io[s] \in {"snap", "send"}
    PROVE  IoTypeOK'
<1>1. io' \in [Sessions -> IoSteps]
  BY DEF IoTypeOK, Goto
<1>2. \A c \in Sessions : io'[c] \in {"snap", "send"} => Len(hand'[c]) = 1
  BY DEF IoTypeOK, Goto
<1> QED
  BY <1>1, <1>2 DEF IoTypeOK

\* open_session_screen() keeps the types of everything it touches.
LEMMA OpenSessionType ==
    ASSUME TypeOK, OpenSession(opened + 1), ui' \in {"idle", "telnet_connect"}
    PROVE  /\ UiTypeOK' /\ SessionTypeOK' /\ KeyTypeOK' /\ IoTypeOK' /\ GhostTypeOK'
           /\ windowClosed' \in BOOLEAN
<1>1. UiTypeOK'
  BY DEF TypeOK, OpenSession, UiTypeOK, Screens
<1>2. SessionTypeOK'
  <2>1. opened' \in 0..MaxSessions
    BY MaxSessionsAssumption DEF OpenSession, Sessions
  <2>2. /\ term' \in [Sessions -> {"none", "live", "freed"}]
        /\ conn' \in [Sessions -> {"none", "open", "closed"}]
    BY DEF TypeOK, SessionTypeOK, OpenSession
  <2>3. canvas' \in [Sessions -> {"none", "live", "deleted"}]
    BY DEF TypeOK, SessionTypeOK, OpenSession, CanvasesAfterLoad
  <2>4. sTerm' \in Sessions \cup {None} /\ sTransport' \in Sessions \cup {None}
    BY DEF OpenSession
  <2>5. stopRequested' \in BOOLEAN /\ localEcho' \in BOOLEAN /\ scrolled' \in BOOLEAN
    BY DEF OpenSession
  <2> QED
    BY <2>1, <2>2, <2>3, <2>4, <2>5 DEF SessionTypeOK
<1>3. KeyTypeOK'
  <2>1. rawCb' \in BOOLEAN
    BY DEF OpenSession
  <2> QED
    BY <2>1 DEF TypeOK, KeyTypeOK, OpenSession
<1>4. IoTypeOK'
  <2>1. io' \in [Sessions -> IoSteps]
    BY DEF TypeOK, IoTypeOK, IoSteps, OpenSession
  <2>2. \A c \in Sessions : io'[c] \in {"snap", "send"} => Len(hand'[c]) = 1
    BY DEF TypeOK, IoTypeOK, OpenSession
  <2> QED
    BY <2>1, <2>2 DEF TypeOK, IoTypeOK, OpenSession
<1>5. GhostTypeOK'
  BY Zenon DEF TypeOK, GhostTypeOK, OpenSession
<1> QED
  BY <1>1, <1>2, <1>3, <1>4, <1>5 DEF TypeOK, OpenSession

\* Every callback of the LVGL task keeps the types.
LEMMA UiStepType == TypeOK /\ UiNext => TypeOK'
<1> SUFFICES ASSUME TypeOK, UiNext PROVE TypeOK'
  OBVIOUS
<1> USE Unchanged DEF TypeOK
<1>1. CASE TelnetClick
  <2>1. UiTypeOK'
    BY <1>1 DEF TelnetClick, UiTypeOK
  <2> QED
    BY <1>1, <2>1 DEF TelnetClick
<1>2. CASE TelnetRefused
  <2>1. UiTypeOK'
    BY <1>2 DEF TelnetRefused, UiTypeOK
  <2> QED
    BY <1>2, <2>1 DEF TelnetRefused
<1>3. CASE TelnetOpen
  BY <1>3, OpenSessionType DEF TelnetOpen
<1>4. CASE SshClick
  <2>1. UiTypeOK'
    BY <1>4, ScreenType DEF SshClick, Screens
  <2> QED
    BY <1>4, <2>1 DEF SshClick
<1>5. CASE \E t \in SshTasks : SshConnectClick(t)
  <2>1. TaskTypeOK'
    BY <1>5 DEF SshConnectClick, TaskTypeOK, TaskStates
  <2> QED
    BY <1>5, <2>1 DEF SshConnectClick
<1>6. CASE WifiClick
  <2>1. UiTypeOK'
    BY <1>6, ScreenType DEF WifiClick, Screens
  <2> QED
    BY <1>6, <2>1 DEF WifiClick
<1>7. CASE \E t \in WifiTasks : WifiConnectClick(t)
  <2>1. TaskTypeOK'
    BY <1>7 DEF WifiConnectClick, TaskTypeOK, TaskStates
  <2> QED
    BY <1>7, <2>1 DEF WifiConnectClick
<1>8. CASE CancelClick
  <2>1. UiTypeOK'
    BY <1>8, ScreenType DEF CancelClick
  <2> QED
    BY <1>8, <2>1 DEF CancelClick
<1>9. CASE DisconnectClick
  <2>1. SessionTypeOK'
    BY <1>9 DEF DisconnectClick, SessionTypeOK
  <2> QED
    BY <1>9, <2>1 DEF DisconnectClick
<1>10. CASE EchoClick
  <2>1. localEcho' \in BOOLEAN
    BY <1>10 DEF EchoClick
  <2>2. SessionTypeOK'
    BY <1>10, <2>1 DEF EchoClick, SessionTypeOK
  <2> QED
    BY <1>10, <2>2 DEF EchoClick
<1>11. CASE \E back \in BOOLEAN : ScrollView(back)
  <2>1. SessionTypeOK'
    BY <1>11 DEF ScrollView, SessionTypeOK
  <2>2. GhostTypeOK'
    BY <1>11, FaultTypes DEF ScrollView, GhostTypeOK
  <2> QED
    BY <1>11, <2>1, <2>2 DEF ScrollView
<1> QED
  BY <1>1, <1>2, <1>3, <1>4, <1>5, <1>6, <1>7, <1>8, <1>9, <1>10, <1>11 DEF UiNext

\* Every end of a connect task keeps the types.
LEMMA TaskStepType == TypeOK /\ TaskNext => TypeOK'
<1> SUFFICES ASSUME TypeOK, TaskNext PROVE TypeOK'
  OBVIOUS
<1> USE Unchanged DEF TypeOK
<1>1. ASSUME NEW t \in SshTasks, SshOpen(t) PROVE TypeOK'
  <2>1. TaskTypeOK'
    BY <1>1 DEF SshOpen, TaskTypeOK, TaskStates
  <2>2. ui' \in {"idle", "telnet_connect"}
    BY <1>1 DEF SshOpen, UiTypeOK
  <2> QED
    BY <1>1, <2>1, <2>2, OpenSessionType DEF SshOpen
<1>2. ASSUME NEW t \in SshTasks, SshFail(t) PROVE TypeOK'
  <2>1. TaskTypeOK'
    BY <1>2 DEF SshFail, TaskTypeOK, TaskStates
  <2> QED
    BY <1>2, <2>1 DEF SshFail
<1>3. ASSUME NEW t \in WifiTasks, WifiShowHome(t) PROVE TypeOK'
  <2>1. TaskTypeOK'
    BY <1>3 DEF WifiShowHome, TaskTypeOK, TaskStates
  <2>2. UiTypeOK'
    BY <1>3, ScreenType DEF WifiShowHome
  <2>3. SessionTypeOK'
    BY <1>3 DEF WifiShowHome, CanvasesAfterLoad, SessionTypeOK
  <2>4. displaced' \in BOOLEAN
    BY <1>3, Zenon DEF WifiShowHome, GhostTypeOK
  <2>5. GhostTypeOK'
    BY <1>3, <2>4 DEF WifiShowHome, GhostTypeOK
  <2> QED
    BY <1>3, <2>1, <2>2, <2>3, <2>5 DEF WifiShowHome
<1>4. ASSUME NEW t \in WifiTasks, WifiFail(t) PROVE TypeOK'
  <2>1. TaskTypeOK'
    BY <1>4 DEF WifiFail, TaskTypeOK, TaskStates
  <2> QED
    BY <1>4, <2>1 DEF WifiFail
<1> QED
  BY <1>1, <1>2, <1>3, <1>4 DEF TaskNext

\* The keyboard task keeps the types: a full queue stays within its capacity.
LEMMA KbdStepType == TypeOK /\ KbdNext => TypeOK'
<1> SUFFICES ASSUME TypeOK, KbdNext PROVE TypeOK'
  OBVIOUS
<1> USE Unchanged DEF TypeOK
<1>1. CASE KeyPress
  <2>1. presses' \in 1..MaxKeys
    BY <1>1, MaxKeysAssumption DEF KeyPress, KeyTypeOK
  <2>2. [id |-> presses + 1, on |-> front] \in Keys
    BY <1>1, <2>1 DEF KeyPress, Keys, UiTypeOK
  <2>3. kbd' \in Seq(Keys) /\ Len(kbd') <= 1
    BY <1>1, <2>2 DEF KeyPress
  <2>4. KeyTypeOK'
    BY <1>1, <2>1, <2>3, MaxKeysAssumption DEF KeyPress, KeyTypeOK
  <2> QED
    BY <1>1, <2>4 DEF KeyPress
<1>2. CASE RawKeyCb
  <2>1. kbd' \in Seq(Keys) /\ Len(kbd') <= 1
    BY <1>2 DEF RawKeyCb
  <2>2. kbd \in Seq(Keys) /\ Len(kbd) <= 1 /\ accepted \in Seq(Keys)
        /\ keyQueue \in Seq(Keys) /\ Len(keyQueue) <= QueueLen
    BY DEF KeyTypeOK
  <2>3. CASE Len(keyQueue) < QueueLen
    <3>1. keyQueue' = keyQueue \o kbd /\ accepted' = accepted \o kbd
      BY <1>2, <2>3 DEF RawKeyCb
    <3>2. keyQueue' \in Seq(Keys) /\ Len(keyQueue') <= QueueLen /\ accepted' \in Seq(Keys)
      BY <2>2, <2>3, <3>1, QueueLenAssumption
    <3>3. KeyTypeOK'
      BY <1>2, <2>1, <3>2 DEF RawKeyCb, KeyTypeOK
    <3> QED
      BY <1>2, <3>3 DEF RawKeyCb
  <2>4. CASE ~(Len(keyQueue) < QueueLen)
    <3>1. KeyTypeOK'
      BY <1>2, <2>1, <2>2, <2>4 DEF RawKeyCb, KeyTypeOK
    <3> QED
      BY <1>2, <3>1 DEF RawKeyCb
  <2> QED
    BY <2>3, <2>4
<1> QED
  BY <1>1, <1>2 DEF KbdNext

\* Every step of a session's io task keeps the types; the key in its hand is
\* there when it is sent.
LEMMA IoStepType ==
    ASSUME NEW s \in Sessions, TypeOK, IoNext(s)
    PROVE  TypeOK'
<1> USE Unchanged DEF TypeOK
<1>1. CASE IoLoop(s)
  <2>1. IoTypeOK'
    BY <1>1, GotoType DEF IoLoop, IoSteps
  <2> QED
    BY <1>1, <2>1 DEF IoLoop
<1>2. CASE \E result \in {"data", "timeout", "closed"} : IoRead(s, result)
  <2>1. PICK result \in {"data", "timeout", "closed"} : IoRead(s, result)
    BY <1>2
  <2>2. io' \in [Sessions -> IoSteps]
    BY <2>1 DEF IoRead, IoTypeOK, IoSteps, Goto
  <2>3. \A c \in Sessions : io'[c] \in {"snap", "send"} => Len(hand'[c]) = 1
    BY <2>1 DEF IoRead, IoTypeOK, Goto
  <2>4. remoteClosed' \in [Sessions -> BOOLEAN]
    BY <2>1 DEF IoRead, IoTypeOK
  <2>5. IoTypeOK'
    BY <2>1, <2>2, <2>3, <2>4 DEF IoRead, IoTypeOK
  <2>6. GhostTypeOK'
    BY <2>1, FaultTypes DEF IoRead, GhostTypeOK
  <2> QED
    BY <2>1, <2>5, <2>6 DEF IoRead
<1>3. CASE IoFeed(s)
  <2>1. IoTypeOK'
    BY <1>3, GotoType DEF IoFeed, IoSteps
  <2>2. GhostTypeOK'
    BY <1>3, FaultTypes DEF IoFeed, GhostTypeOK
  <2> QED
    BY <1>3, <2>1, <2>2 DEF IoFeed
<1>4. CASE IoLabel(s)
  <2>1. IoTypeOK'
    BY <1>4, GotoType DEF IoLabel, IoSteps
  <2>2. GhostTypeOK'
    BY <1>4, FaultTypes DEF IoLabel, GhostTypeOK
  <2> QED
    BY <1>4, <2>1, <2>2 DEF IoLabel
<1>5. CASE IoNoMoreKeys(s)
  <2>1. IoTypeOK'
    BY <1>5, GotoType DEF IoNoMoreKeys, IoSteps
  <2> QED
    BY <1>5, <2>1 DEF IoNoMoreKeys
<1>6. CASE IoTakeKey(s)
  <2>1. keyQueue \in Seq(Keys) /\ keyQueue # <<>> /\ Len(keyQueue) <= QueueLen
    BY <1>6 DEF IoTakeKey, KeyTypeOK
  <2>2. /\ Head(keyQueue) \in Keys
        /\ Tail(keyQueue) \in Seq(Keys) /\ Len(Tail(keyQueue)) <= QueueLen
    BY <2>1, QueueLenAssumption
  <2>3. KeyTypeOK'
    BY <1>6, <2>2 DEF IoTakeKey, KeyTypeOK
  <2>4. hand' \in [Sessions -> Seq(Keys)]
    BY <1>6, <2>2 DEF IoTakeKey, IoTypeOK
  <2>5. io' \in [Sessions -> IoSteps]
    BY <1>6 DEF IoTakeKey, IoTypeOK, IoSteps, Goto
  <2>6. hand'[s] = <<Head(keyQueue)>> /\ \A c \in Sessions \ {s} : hand'[c] = hand[c]
    BY <1>6 DEF IoTakeKey, IoTypeOK
  <2>7. \A c \in Sessions : io'[c] \in {"snap", "send"} => Len(hand'[c]) = 1
    <3>1. Len(hand'[s]) = 1
      BY <2>6
    <3>2. \A c \in Sessions \ {s} : io'[c] = io[c]
      BY <1>6 DEF IoTakeKey, Goto, IoTypeOK
    <3> QED
      BY <3>1, <3>2, <2>6 DEF IoTypeOK
  <2>8. IoTypeOK'
    BY <1>6, <2>4, <2>5, <2>7 DEF IoTakeKey, IoTypeOK
  <2>9. GhostTypeOK'
    BY <1>6, FaultTypes DEF IoTakeKey, GhostTypeOK
  <2> QED
    BY <1>6, <2>3, <2>8, <2>9 DEF IoTakeKey
<1>7. CASE IoSnap(s)
  <2>1. IoTypeOK'
    BY <1>7, GotoType DEF IoSnap, IoSteps
  <2>2. GhostTypeOK'
    BY <1>7, FaultTypes DEF IoSnap, GhostTypeOK
  <2>3. SessionTypeOK'
    BY <1>7 DEF IoSnap, SessionTypeOK
  <2> QED
    BY <1>7, <2>1, <2>2, <2>3 DEF IoSnap
<1>8. CASE IoSend(s)
  <2>1. hand[s] \in Seq(Keys) /\ Len(hand[s]) = 1
    BY <1>8 DEF IoSend, IoTypeOK
  <2>2. hand[s][1] \in Keys
    BY <2>1
  <2>3. sent' \in Seq([key : Keys, to : Sessions \cup {None}])
    BY <1>8, <2>2 DEF IoSend, IoTypeOK, SessionTypeOK
  <2>4. hand' \in [Sessions -> Seq(Keys)]
    BY <1>8 DEF IoSend, IoTypeOK
  <2>5. io' \in [Sessions -> IoSteps]
    BY <1>8 DEF IoSend, IoTypeOK, IoSteps, Goto
  <2>6. \A c \in Sessions : io'[c] \in {"snap", "send"} => Len(hand'[c]) = 1
    BY <1>8 DEF IoSend, IoTypeOK, Goto
  <2>7. IoTypeOK'
    BY <1>8, <2>3, <2>4, <2>5, <2>6 DEF IoSend, IoTypeOK
  <2>8. GhostTypeOK'
    BY <1>8, FaultTypes DEF IoSend, GhostTypeOK
  <2> QED
    BY <1>8, <2>7, <2>8 DEF IoSend
<1>9. CASE IoEcho(s)
  <2>1. IoTypeOK'
    BY <1>9, GotoType DEF IoEcho, IoSteps
  <2>2. GhostTypeOK'
    BY <1>9, FaultTypes DEF IoEcho, GhostTypeOK
  <2> QED
    BY <1>9, <2>1, <2>2 DEF IoEcho
<1>10. CASE IoDetach(s)
  <2>1. IoTypeOK'
    BY <1>10, GotoType DEF IoDetach, IoSteps
  <2>2. KeyTypeOK'
    BY <1>10 DEF IoDetach, KeyTypeOK
  <2> QED
    BY <1>10, <2>1, <2>2 DEF IoDetach
<1>11. CASE IoClose(s)
  <2>1. IoTypeOK'
    BY <1>11, GotoType DEF IoClose, IoSteps
  <2>2. SessionTypeOK'
    BY <1>11 DEF IoClose, SessionTypeOK
  <2>3. GhostTypeOK'
    BY <1>11, FaultTypes DEF IoClose, GhostTypeOK
  <2> QED
    BY <1>11, <2>1, <2>2, <2>3 DEF IoClose
<1>12. CASE IoMessage(s)
  <2>1. IoTypeOK'
    BY <1>12, GotoType DEF IoMessage, IoSteps
  <2>2. statusMessage' \in BOOLEAN
    BY <1>12, Zenon DEF IoMessage
  <2>3. UiTypeOK'
    BY <1>12, <2>2 DEF IoMessage, UiTypeOK
  <2> QED
    BY <1>12, <2>1, <2>3 DEF IoMessage
<1>13. CASE IoDestroy(s)
  <2>1. IoTypeOK'
    BY <1>13, GotoType DEF IoDestroy, IoSteps
  <2>2. UiTypeOK'
    BY <1>13, ScreenType DEF IoDestroy
  <2>3. /\ term' \in [Sessions -> {"none", "live", "freed"}]
        /\ canvas' \in [Sessions -> {"none", "live", "deleted"}]
    BY <1>13 DEF IoDestroy, SessionTypeOK, CanvasesAfterLoad
  <2>4. SessionTypeOK'
    BY <1>13, <2>3 DEF IoDestroy, SessionTypeOK
  <2>5. displaced' \in BOOLEAN
    BY <1>13, Zenon DEF IoDestroy
  <2>6. GhostTypeOK'
    BY <1>13, <2>5, FaultTypes DEF IoDestroy, GhostTypeOK
  <2> QED
    BY <1>13, <2>1, <2>2, <2>4, <2>6 DEF IoDestroy
<1> QED
  BY <1>1, <1>2, <1>3, <1>4, <1>5, <1>6, <1>7, <1>8, <1>9, <1>10, <1>11, <1>12, <1>13 DEF IoNext

\* Every step keeps the types.
LEMMA StepType == TypeOK /\ [Next]_vars => TypeOK'
<1> SUFFICES ASSUME TypeOK, [Next]_vars PROVE TypeOK'
  OBVIOUS
<1>1. CASE UiNext
  BY <1>1, UiStepType
<1>2. CASE TaskNext
  BY <1>2, TaskStepType
<1>3. CASE KbdNext
  BY <1>3, KbdStepType
<1>4. CASE \E s \in Sessions : IoNext(s)
  BY <1>4, IoStepType
<1>5. CASE \E closed \in BOOLEAN : PeerWindow(closed)
  BY <1>5, Unchanged DEF PeerWindow, TypeOK
<1>6. CASE UNCHANGED vars
  BY <1>6, Unchanged DEF vars, TypeOK
<1> QED
  BY <1>1, <1>2, <1>3, <1>4, <1>5, <1>6 DEF Next

\* Every variable of the session keeps its type, the key queue its capacity
\* (session_ui.c:569-572) and a dequeued key is in hand until it is sent
\* (session_ui.c:289-305), for any number of sessions, keys and tasks.
THEOREM SessionTypeCorrect == Spec => []TypeOK
<1>1. Init => TypeOK
  BY InitType
<1>2. TypeOK /\ [Next]_vars => TypeOK'
  BY StepType
<1> QED
  BY <1>1, <1>2, PTL DEF Spec

-----------------------------------------------------------------------------
(* Safety.  SessionOwnsGlobals is inductive together with TypeOK: as long as *)
(* no session has been displaced there is no session, or there is one and    *)
(* everything belongs to it.  NoFault follows step by step.                  *)

Owned == NoSession \/ OneSession

\* The io task that runs is the one of the session on display, and its
\* pointers are good: the terminal until it is destroyed, the transport until
\* it is closed.
LEMMA RunningTask ==
    ASSUME NEW s \in Sessions, Owned, io[s] \notin {"none", "gone"}
    PROVE  /\ OneSession /\ s = front
           /\ TermFault = "none" /\ RenderFault = "none" /\ LabelFault = "none"
           /\ DestroyFault = "none"
           /\ io[s] \notin {"message", "destroy"} => ConnFault = "none"
           /\ Both(TermFault, ConnFault) = "none" <=> ConnFault = "none"
           /\ Both(RenderFault, ConnFault) = "none" <=> ConnFault = "none"
<1>1. OneSession /\ s = front
  BY DEF Owned, NoSession, OneSession
<1>2. sTerm # None /\ term[sTerm] = "live" /\ canvas[sTerm] = "live"
  BY <1>1 DEF OneSession
<1>3. /\ TermFault = "none" /\ RenderFault = "none" /\ LabelFault = "none"
      /\ DestroyFault = "none"
  BY <1>1, <1>2 DEF TermFault, RenderFault, LabelFault, DestroyFault, OneSession
<1>4. io[s] \notin {"message", "destroy"} => ConnFault = "none"
  BY <1>1 DEF ConnFault, OneSession
<1> QED
  BY <1>1, <1>3, <1>4 DEF Both

\* A step that leaves the owned variables alone keeps the ownership.
LEMMA KeepOwned ==
    ASSUME Owned,
           UNCHANGED <<screen, front, opened, term, canvas, conn, sTerm, sTransport, rawCb, io>>
    PROVE  Owned'
  BY DEF Owned, NoSession, OneSession

\* Another screen without a session replaces one.
LEMMA ScreenOwned ==
    ASSUME NoSession, screen' # "session", front' = None,
           UNCHANGED <<term, canvas, conn, sTerm, rawCb, io>>
    PROVE  Owned'
  BY DEF Owned, NoSession

\* A step of the running io task that stays before the close of the transport
\* keeps the ownership.
LEMMA GotoOwned ==
    ASSUME NEW s \in Sessions, NEW step \in IoSteps, TypeOK, Owned, Goto(s, step),
           io[s] \notin {"none", "gone", "close", "message", "destroy"},
           step \notin {"none", "gone", "close", "message", "destroy"},
           UNCHANGED <<screen, front, opened, term, canvas, conn, sTerm, sTransport, rawCb>>
    PROVE  Owned'
<1>1. OneSession /\ s = front
  BY RunningTask
<1>2. io'[front] = step /\ \A c \in Sessions \ {front} : io'[c] = io[c]
  BY <1>1 DEF Goto, TypeOK, IoTypeOK
<1>3. rawCb
  BY <1>1 DEF OneSession
<1>4. conn[front] = "open"
  BY <1>1 DEF OneSession
<1>5. rawCb' <=> io'[front] \notin {"close", "message", "destroy"}
  BY <1>2, <1>3
<1> QED
  BY <1>1, <1>2, <1>4, <1>5 DEF Owned, OneSession

\* A session opened where there is none owns everything.
LEMMA OpenOwned ==
    ASSUME TypeOK, Owned, OpenSession(opened + 1), front = None
    PROVE  Owned'
<1>1. NoSession
  BY DEF Owned, OneSession
<1>2. opened + 1 \in Sessions /\ opened' = opened + 1 /\ opened + 1 # None
  BY DEF OpenSession, Sessions, None, TypeOK, SessionTypeOK
<1> DEFINE s == opened + 1
<1>3. /\ front' = s /\ screen' = "session" /\ sTerm' = s /\ sTransport' = s
      /\ term'[s] = "live" /\ canvas'[s] = "live" /\ conn'[s] = "open"
      /\ io'[s] = "top"
  BY <1>2 DEF OpenSession, TypeOK, SessionTypeOK, IoTypeOK, CanvasesAfterLoad
<1>4. rawCb' = TRUE
  BY DEF OpenSession
<1>5. \A c \in Sessions \ {s} :
         /\ term'[c] = term[c] /\ conn'[c] = conn[c] /\ io'[c] = io[c]
         /\ canvas'[c] # "live"
  BY <1>1, <1>2 DEF OpenSession, TypeOK, SessionTypeOK, IoTypeOK, CanvasesAfterLoad, NoSession
<1> HIDE DEF s
<1>6. s # None /\ s \in Sessions /\ opened' = s
  BY <1>2 DEF s
<1>7. rawCb' <=> io'[s] \notin {"close", "message", "destroy"}
  BY <1>3, <1>4
<1> QED
  BY <1>1, <1>3, <1>5, <1>6, <1>7 DEF Owned, OneSession, NoSession

\* No callback of the LVGL task disturbs a session.
LEMMA UiStepOwned ==
    ASSUME TypeOK, Owned, UiNext, ~displaced'
    PROVE  Owned' /\ (fault = "none" => fault' = "none")
<1> USE DEF uiVars, sessionVars, keyVars, ioVars, taskVars, ghostVars
<1>1. CASE TelnetClick
  BY <1>1, KeepOwned DEF TelnetClick
<1>2. CASE TelnetRefused
  BY <1>2, KeepOwned DEF TelnetRefused
<1>3. CASE TelnetOpen
  <2>1. OpenSession(opened + 1)
    BY <1>3 DEF TelnetOpen
  <2>2. displaced' = (displaced \/ front # None) /\ fault' = fault
    BY <2>1 DEF OpenSession
  <2>3. front = None
    BY <2>2, Zenon
  <2> QED
    BY <2>1, <2>2, <2>3, OpenOwned
<1>4. CASE SshClick
  <2>1. NoSession
    BY <1>4 DEF SshClick, Owned, OneSession
  <2> QED
    BY <1>4, <2>1, ScreenOwned DEF SshClick, LoadScreen
<1>5. CASE \E t \in SshTasks : SshConnectClick(t)
  BY <1>5, KeepOwned DEF SshConnectClick
<1>6. CASE WifiClick
  <2>1. NoSession
    BY <1>6 DEF WifiClick, Owned, OneSession
  <2> QED
    BY <1>6, <2>1, ScreenOwned DEF WifiClick, LoadScreen
<1>7. CASE \E t \in WifiTasks : WifiConnectClick(t)
  BY <1>7, KeepOwned DEF WifiConnectClick
<1>8. CASE CancelClick
  <2>1. NoSession
    BY <1>8 DEF CancelClick, Owned, OneSession
  <2> QED
    BY <1>8, <2>1, ScreenOwned DEF CancelClick, ShowHome
<1>9. CASE DisconnectClick
  BY <1>9, KeepOwned DEF DisconnectClick
<1>10. CASE EchoClick
  BY <1>10, KeepOwned DEF EchoClick
<1>11. CASE \E back \in BOOLEAN : ScrollView(back)
  <2>1. Owned'
    BY <1>11, KeepOwned DEF ScrollView
  <2>2. OneSession
    BY <1>11 DEF ScrollView, Owned, NoSession
  <2>3. RenderFault = "none"
    BY <2>2 DEF OneSession, TermFault, RenderFault
  <2> QED
    BY <1>11, <2>1, <2>3 DEF ScrollView
<1> QED
  BY <1>1, <1>2, <1>3, <1>4, <1>5, <1>6, <1>7, <1>8, <1>9, <1>10, <1>11 DEF UiNext

\* A connect task disturbs no session unless it displaces one.
LEMMA TaskStepOwned ==
    ASSUME TypeOK, Owned, TaskNext, ~displaced'
    PROVE  Owned' /\ fault' = fault
<1> USE DEF uiVars, sessionVars, keyVars, ioVars, taskVars, ghostVars
<1>1. ASSUME NEW t \in SshTasks, SshOpen(t) PROVE Owned' /\ fault' = fault
  <2>1. OpenSession(opened + 1)
    BY <1>1 DEF SshOpen
  <2>2. displaced' = (displaced \/ front # None) /\ fault' = fault
    BY <2>1 DEF OpenSession
  <2>3. front = None
    BY <2>2, Zenon
  <2> QED
    BY <2>1, <2>2, <2>3, OpenOwned
<1>2. ASSUME NEW t \in SshTasks, SshFail(t) PROVE Owned' /\ fault' = fault
  BY <1>2, KeepOwned DEF SshFail
<1>3. ASSUME NEW t \in WifiTasks, WifiShowHome(t) PROVE Owned' /\ fault' = fault
  <2>1. displaced' = (displaced \/ front # None) /\ fault' = fault
    BY <1>3 DEF WifiShowHome
  <2>2. front = None
    BY <2>1, Zenon
  <2>3. NoSession
    BY <2>2 DEF Owned, OneSession
  <2>4. canvas' = canvas
    BY <1>3, <2>2, <2>3 DEF WifiShowHome, CanvasesAfterLoad, NoSession, TypeOK, SessionTypeOK
  <2> QED
    BY <1>3, <2>1, <2>3, <2>4, ScreenOwned DEF WifiShowHome, ShowHome
<1>4. ASSUME NEW t \in WifiTasks, WifiFail(t) PROVE Owned' /\ fault' = fault
  BY <1>4, KeepOwned DEF WifiFail
<1> QED
  BY <1>1, <1>2, <1>3, <1>4 DEF TaskNext

\* The io task of a session uses only what is its own and alive, and gives
\* all of it up before it ends.
LEMMA IoStepOwned ==
    ASSUME NEW s \in Sessions, TypeOK, Owned, IoNext(s), ~displaced'
    PROVE  Owned' /\ (fault = "none" => fault' = "none")
<1> USE DEF uiVars, sessionVars, keyVars, ioVars, taskVars, ghostVars
<1>1. CASE IoLoop(s)
  BY <1>1, RunningTask, GotoOwned DEF IoLoop, IoSteps
<1>2. CASE \E result \in {"data", "timeout", "closed"} : IoRead(s, result)
  BY <1>2, RunningTask, GotoOwned DEF IoRead, IoSteps
<1>3. CASE IoFeed(s)
  BY <1>3, RunningTask, GotoOwned DEF IoFeed, IoSteps, Both
<1>4. CASE IoLabel(s)
  BY <1>4, RunningTask, GotoOwned DEF IoLabel, IoSteps
<1>5. CASE IoNoMoreKeys(s)
  BY <1>5, RunningTask, GotoOwned DEF IoNoMoreKeys, IoSteps
<1>6. CASE IoTakeKey(s)
  BY <1>6, RunningTask, GotoOwned DEF IoTakeKey, IoSteps
<1>7. CASE IoSnap(s)
  BY <1>7, RunningTask, GotoOwned DEF IoSnap, IoSteps
<1>8. CASE IoSend(s)
  BY <1>8, RunningTask, GotoOwned DEF IoSend, IoSteps, Both
<1>9. CASE IoEcho(s)
  BY <1>9, RunningTask, GotoOwned DEF IoEcho, IoSteps
<1>10. CASE IoDetach(s)
  <2>1. OneSession /\ s = front
    BY <1>10, RunningTask DEF IoDetach
  <2>2. io'[front] = "close" /\ \A c \in Sessions \ {front} : io'[c] = io[c]
    BY <1>10, <2>1 DEF IoDetach, Goto, TypeOK, IoTypeOK
  <2>3. ~rawCb'
    BY <1>10 DEF IoDetach
  <2>4. conn[front] = "open"
    BY <1>10, <2>1 DEF IoDetach, OneSession
  <2>5. rawCb' <=> io'[front] \notin {"close", "message", "destroy"}
    BY <2>2, <2>3
  <2>6. OneSession'
    BY <1>10, <2>1, <2>2, <2>4, <2>5 DEF IoDetach, OneSession
  <2> QED
    BY <1>10, <2>6 DEF IoDetach, Owned
<1>11. CASE IoClose(s)
  <2>1. OneSession /\ s = front /\ ConnFault = "none"
    BY <1>11, RunningTask DEF IoClose
  <2>2. io'[front] = "message" /\ \A c \in Sessions \ {front} : io'[c] = io[c]
    BY <1>11, <2>1 DEF IoClose, Goto, TypeOK, IoTypeOK
  <2>3. conn'[front] = "closed" /\ \A c \in Sessions \ {front} : conn'[c] = conn[c]
    BY <1>11, <2>1 DEF IoClose, OneSession
  <2>4. ~rawCb
    BY <1>11, <2>1 DEF IoClose, OneSession
  <2>5. rawCb' <=> io'[front] \notin {"close", "message", "destroy"}
    BY <1>11, <2>2, <2>4 DEF IoClose
  <2>6. OneSession'
    BY <1>11, <2>1, <2>2, <2>3, <2>5 DEF IoClose, OneSession
  <2> QED
    BY <1>11, <2>1, <2>6 DEF IoClose, Owned
<1>12. CASE IoMessage(s)
  <2>1. OneSession /\ s = front
    BY <1>12, RunningTask DEF IoMessage
  <2>2. io'[front] = "destroy" /\ \A c \in Sessions \ {front} : io'[c] = io[c]
    BY <1>12, <2>1 DEF IoMessage, Goto, TypeOK, IoTypeOK
  <2>3. ~rawCb /\ conn[front] # "open"
    BY <1>12, <2>1 DEF IoMessage, OneSession
  <2>4. rawCb' <=> io'[front] \notin {"close", "message", "destroy"}
    BY <1>12, <2>2, <2>3 DEF IoMessage
  <2>5. OneSession'
    BY <1>12, <2>1, <2>2, <2>3, <2>4 DEF IoMessage, OneSession
  <2> QED
    BY <1>12, <2>5 DEF IoMessage, Owned
<1>13. CASE IoDestroy(s)
  <2>1. OneSession /\ s = front /\ DestroyFault = "none"
    BY <1>13, RunningTask DEF IoDestroy
  <2>2. \A c \in Sessions : io'[c] \in {"none", "gone"}
    BY <1>13, <2>1 DEF IoDestroy, Goto, TypeOK, IoTypeOK, OneSession
  <2>3. \A c \in Sessions : term'[c] # "live" /\ canvas'[c] # "live"
    BY <1>13, <2>1 DEF IoDestroy, OneSession, CanvasesAfterLoad
  <2>4. \A c \in Sessions : conn'[c] # "open"
    BY <1>13, <2>1 DEF IoDestroy, OneSession
  <2>5. ~rawCb'
    BY <1>13, <2>1 DEF IoDestroy, OneSession
  <2>6. NoSession'
    BY <1>13, <2>2, <2>3, <2>4, <2>5 DEF IoDestroy, ShowHome, NoSession
  <2> QED
    BY <1>13, <2>1, <2>6 DEF IoDestroy, Owned
<1> QED
  BY <1>1, <1>2, <1>3, <1>4, <1>5, <1>6, <1>7, <1>8, <1>9, <1>10, <1>11, <1>12, <1>13 DEF IoNext

\* The keyboard task and the peer touch nothing that is owned.
LEMMA OtherStepOwned ==
    ASSUME Owned, KbdNext \/ (\E closed \in BOOLEAN : PeerWindow(closed)) \/ UNCHANGED vars
    PROVE  Owned' /\ fault' = fault
<1> USE DEF uiVars, sessionVars, keyVars, ioVars, taskVars, ghostVars
<1>1. CASE KbdNext
  BY <1>1, KeepOwned DEF KbdNext, KeyPress, RawKeyCb
<1>2. CASE \E closed \in BOOLEAN : PeerWindow(closed)
  BY <1>2, KeepOwned DEF PeerWindow
<1>3. CASE UNCHANGED vars
  BY <1>3, KeepOwned DEF vars
<1> QED
  BY <1>1, <1>2, <1>3

\* A displaced session stays displaced.
LEMMA DisplacedStays == displaced /\ [Next]_vars => displaced'
<1> SUFFICES ASSUME displaced, [Next]_vars PROVE displaced'
  OBVIOUS
<1> USE DEF ghostVars
<1>1. CASE UiNext
  BY <1>1, Zenon DEF UiNext, TelnetClick, TelnetRefused, TelnetOpen, OpenSession, SshClick,
                    SshConnectClick, WifiClick, WifiConnectClick, CancelClick, DisconnectClick,
                    EchoClick, ScrollView
<1>2. CASE TaskNext
  BY <1>2, Zenon DEF TaskNext, SshOpen, OpenSession, SshFail, WifiShowHome, WifiFail
<1>3. CASE KbdNext
  BY <1>3, Zenon DEF KbdNext, KeyPress, RawKeyCb
<1>4. CASE \E s \in Sessions : IoNext(s)
  BY <1>4, Zenon DEF IoNext, IoLoop, IoRead, IoFeed, IoLabel, IoNoMoreKeys, IoTakeKey, IoSnap,
                    IoSend, IoEcho, IoDetach, IoClose, IoMessage, IoDestroy
<1>5. CASE \E closed \in BOOLEAN : PeerWindow(closed)
  BY <1>5, Zenon DEF PeerWindow
<1>6. CASE UNCHANGED vars
  BY <1>6, Zenon DEF vars
<1> QED
  BY <1>1, <1>2, <1>3, <1>4, <1>5, <1>6, Zenon DEF Next

\* The inductive invariant.
Inv == TypeOK /\ NoFault /\ SessionOwnsGlobals

\* It holds initially: there is no session.
LEMMA InitInv == Init => Inv
<1> SUFFICES ASSUME Init PROVE Inv
  OBVIOUS
<1>1. TypeOK
  BY InitType
<1>2. ~rawCb
  BY Zenon DEF Init
<1>3. NoSession
  BY <1>2 DEF Init, NoSession
<1>4. NoFault
  BY Zenon DEF Init, NoFault
<1> QED
  BY <1>1, <1>3, <1>4, Zenon DEF Inv, SessionOwnsGlobals

\* Every step keeps the inductive invariant.
LEMMA StepInv == Inv /\ [Next]_vars => Inv'
<1> SUFFICES ASSUME Inv, [Next]_vars PROVE Inv'
  OBVIOUS
<1>1. TypeOK'
  BY StepType, Zenon DEF Inv
<1>2. CASE displaced'
  BY <1>1, <1>2, Zenon DEF Inv, NoFault, SessionOwnsGlobals
<1>3. CASE ~displaced'
  <2>1. ~displaced
    BY <1>3, DisplacedStays, Zenon
  <2>2. TypeOK /\ Owned /\ fault = "none"
    BY <2>1, Zenon DEF Inv, NoFault, SessionOwnsGlobals, Owned
  <2>3. Owned' /\ fault' = "none"
    BY <1>3, <2>2, UiStepOwned, TaskStepOwned, IoStepOwned, OtherStepOwned, Zenon DEF Next
  <2> QED
    BY <1>1, <2>3, Zenon DEF Inv, NoFault, SessionOwnsGlobals, Owned
<1> QED
  BY <1>2, <1>3

\* As long as no session is displaced, the globals of session_ui.c, the
\* keyboard mode, the terminal, the canvas and the transport belong to the one
\* session on display, or to nobody (session_ui.c:313-330, 408-424).
THEOREM SessionOwnership == Spec => []SessionOwnsGlobals
<1>1. Inv => SessionOwnsGlobals
  BY DEF Inv
<1> QED
  BY <1>1, InitInv, StepInv, PTL DEF Spec

\* As long as no session is displaced, no step uses freed memory, deletes a
\* canvas twice or closes a transport twice (session_ui.c:314-328).
THEOREM SessionMemorySafe == Spec => []NoFault
<1>1. Inv => NoFault
  BY DEF Inv
<1> QED
  BY <1>1, InitInv, StepInv, PTL DEF Spec

-----------------------------------------------------------------------------
(* Keys.  A key is in the hand of a task exactly between its dequeue and its *)
(* write, so while one session owns everything at most one key is in hand.   *)

HandHeld == \A s \in Sessions : hand[s] # <<>> => io[s] \in {"snap", "send"}

KeysOf(q) == [i \in DOMAIN q |-> q[i].key]

KeyInv == displaced \/ (HandHeld /\ accepted = KeysOf(sent) \o InHand \o keyQueue)

\* The keys of a log of writes are a sequence, and one more write adds its key.
LEMMA KeysOfLog ==
    ASSUME NEW q \in Seq([key : Keys, to : Sessions \cup {None}])
    PROVE  /\ KeysOf(q) \in Seq(Keys)
           /\ \A e \in [key : Keys, to : Sessions \cup {None}] :
                 KeysOf(Append(q, e)) = KeysOf(q) \o <<e.key>>
<1> DEFINE Writes == [key : Keys, to : Sessions \cup {None}]
<1>1. ASSUME NEW r \in Seq(Writes)
      PROVE  /\ KeysOf(r) \in Seq(Keys) /\ Len(KeysOf(r)) = Len(r)
             /\ \A i \in 1..Len(r) : KeysOf(r)[i] = r[i].key /\ r[i].key \in Keys
  <2>1. Len(r) \in Nat /\ DOMAIN r = 1..Len(r)
    BY <1>1, LenProperties
  <2>2. \A i \in 1..Len(r) : r[i] \in Writes
    BY <1>1, ElementOfSeq
  <2>3. \A i \in 1..Len(r) : r[i].key \in Keys
    BY <2>2
  <2>4. KeysOf(r) = [i \in 1..Len(r) |-> r[i].key]
    BY <2>1, Zenon DEF KeysOf
  <2>5. KeysOf(r) \in [1..Len(r) -> Keys]
    BY <2>3, <2>4
  <2>6. KeysOf(r) \in Seq(Keys)
    <3>1. KeysOf(r) \in UNION {[1..n -> Keys] : n \in Nat}
      BY <2>1, <2>5
    <3>2. Seq(Keys) = UNION {[1..n -> Keys] : n \in Nat}
      BY SeqDef
    <3> QED
      BY <3>1, <3>2, Zenon
  <2> QED
    BY <2>1, <2>3, <2>4, <2>5, <2>6
<1>2. ASSUME NEW e \in Writes
      PROVE  KeysOf(Append(q, e)) = KeysOf(q) \o <<e.key>>
  <2>1. /\ Append(q, e) \in Seq(Writes) /\ Len(Append(q, e)) = Len(q) + 1
        /\ \A i \in 1..Len(q) : Append(q, e)[i] = q[i]
        /\ Append(q, e)[Len(q) + 1] = e
    BY <1>2, AppendProperties
  <2>2. e.key \in Keys /\ <<e.key>> \in Seq(Keys) /\ Len(<<e.key>>) = 1 /\ <<e.key>>[1] = e.key
    BY <1>2
  <2>3. /\ KeysOf(q) \in Seq(Keys) /\ Len(KeysOf(q)) = Len(q) /\ Len(q) \in Nat
        /\ \A i \in 1..Len(q) : KeysOf(q)[i] = q[i].key
    BY <1>1, LenProperties
  <2>4. /\ KeysOf(Append(q, e)) \in Seq(Keys) /\ Len(KeysOf(Append(q, e))) = Len(q) + 1
        /\ \A i \in 1..Len(q) + 1 : KeysOf(Append(q, e))[i] = Append(q, e)[i].key
    BY <1>1, <2>1
  <2>5. /\ KeysOf(q) \o <<e.key>> \in Seq(Keys)
        /\ Len(KeysOf(q) \o <<e.key>>) = Len(q) + 1
        /\ \A i \in 1..Len(q) : (KeysOf(q) \o <<e.key>>)[i] = q[i].key
        /\ (KeysOf(q) \o <<e.key>>)[Len(q) + 1] = e.key
    BY <2>2, <2>3, ConcatProperties
  <2> HIDE DEF KeysOf
  <2>6. \A i \in 1..Len(q) + 1 : KeysOf(Append(q, e))[i] = (KeysOf(q) \o <<e.key>>)[i]
    BY <2>1, <2>3, <2>4, <2>5
  <2> QED
    BY <2>4, <2>5, <2>6, SeqEqual
<1> QED
  BY <1>1, <1>2

\* What is in hand is in the hand of the task that runs.
LEMMA OneHand ==
    ASSUME TypeOK, Owned, HandHeld
    PROVE  /\ InHand \in Seq(Keys)
           /\ \A s \in Sessions : io[s] \notin {"none", "gone"} => InHand = hand[s]
<1>1. hand \in [Sessions -> Seq(Keys)]
  BY DEF TypeOK, IoTypeOK
<1>2. ASSUME NEW s \in Sessions, io[s] \notin {"none", "gone"}
      PROVE  InHand = hand[s]
  <2>1. \A c \in Sessions \ {s} : hand[c] = <<>>
    BY <1>2, RunningTask DEF OneSession, HandHeld
  <2>2. CASE hand[s] = <<>>
    BY <2>1, <2>2 DEF InHand
  <2>3. CASE hand[s] # <<>>
    BY <2>1, <2>3 DEF InHand
  <2> QED
    BY <2>2, <2>3
<1>3. InHand \in Seq(Keys)
  BY <1>1 DEF InHand
<1> QED
  BY <1>2, <1>3

\* A step that moves no key keeps every key where it is.
LEMMA KeysStay ==
    ASSUME KeyInv, ~displaced, HandHeld', UNCHANGED <<accepted, sent, hand, keyQueue>>
    PROVE  KeyInv'
<1>1. InHand' = InHand
  BY DEF InHand
<1> QED
  BY <1>1, Zenon DEF KeyInv, KeysOf

\* A step of an io task other than taking and sending a key holds no key back.
LEMMA HandStays ==
    ASSUME TypeOK, HandHeld, NEW s \in Sessions, NEW step \in IoSteps, Goto(s, step), hand' = hand,
           io[s] \in {"snap", "send"} => step \in {"snap", "send"}
    PROVE  HandHeld'
  BY DEF HandHeld, Goto, TypeOK, IoTypeOK

\* A session opened where there is none starts with empty hands.
LEMMA OpenHands ==
    ASSUME TypeOK, Owned, HandHeld, OpenSession(opened + 1), front = None
    PROVE  HandHeld'
<1>1. NoSession
  BY DEF Owned, OneSession
<1>2. \A c \in Sessions : hand[c] = <<>>
  BY <1>1 DEF NoSession, HandHeld
<1> QED
  BY <1>2 DEF OpenSession, HandHeld

\* Neither a callback of the LVGL task nor a connect task moves a key.
LEMMA ScreenStepKeys ==
    ASSUME TypeOK, Owned, KeyInv, UiNext \/ TaskNext, ~displaced, ~displaced'
    PROVE  KeyInv'
<1> USE DEF uiVars, sessionVars, keyVars, ioVars, taskVars, ghostVars
<1>1. HandHeld
  BY Zenon DEF KeyInv
<1>2. ASSUME OpenSession(opened + 1) PROVE KeyInv'
  <2>1. front = None
    BY <1>2, Zenon DEF OpenSession
  <2>2. HandHeld'
    BY <1>1, <1>2, <2>1, OpenHands
  <2> QED
    BY <1>2, <2>2, KeysStay DEF OpenSession
<1>3. ASSUME UNCHANGED <<accepted, sent, hand, keyQueue, io>> PROVE KeyInv'
  BY <1>1, <1>3, KeysStay DEF HandHeld
<1>4. CASE UiNext
  BY <1>4, <1>2, <1>3 DEF UiNext, TelnetClick, TelnetRefused, TelnetOpen, SshClick,
                    SshConnectClick, WifiClick, WifiConnectClick, CancelClick, DisconnectClick,
                    EchoClick, ScrollView
<1>5. CASE TaskNext
  BY <1>5, <1>2, <1>3 DEF TaskNext, SshOpen, SshFail, WifiShowHome, WifiFail
<1> QED
  BY <1>4, <1>5

\* A key enters the queue behind all the others, or is dropped.
LEMMA KbdStepKeys ==
    ASSUME TypeOK, Owned, KeyInv, KbdNext, ~displaced
    PROVE  KeyInv'
<1> USE DEF uiVars, sessionVars, keyVars, ioVars, taskVars, ghostVars
<1>1. HandHeld /\ accepted = KeysOf(sent) \o InHand \o keyQueue
  BY Zenon DEF KeyInv
<1>2. CASE KeyPress
  BY <1>1, <1>2, KeysStay DEF KeyPress, HandHeld
<1>3. CASE RawKeyCb
  <2>1. HandHeld' /\ InHand' = InHand /\ sent' = sent
    BY <1>1, <1>3 DEF RawKeyCb, HandHeld, InHand
  <2>2. CASE Len(keyQueue) < QueueLen
    <3>1. accepted' = accepted \o kbd /\ keyQueue' = keyQueue \o kbd
      BY <1>3, <2>2 DEF RawKeyCb
    <3>2. /\ KeysOf(sent) \in Seq(Keys) /\ InHand \in Seq(Keys)
          /\ keyQueue \in Seq(Keys) /\ kbd \in Seq(Keys)
      BY <1>1, KeysOfLog, OneHand DEF TypeOK, IoTypeOK, KeyTypeOK
    <3>3. KeysOf(sent) \o InHand \in Seq(Keys)
      BY <3>2
    <3>4. (KeysOf(sent) \o InHand \o keyQueue) \o kbd
             = KeysOf(sent) \o InHand \o (keyQueue \o kbd)
      BY <3>2, <3>3, ConcatAssociative, SMTT(40)
    <3> QED
      BY <1>1, <2>1, <3>1, <3>4, Zenon DEF KeyInv, KeysOf
  <2>3. CASE ~(Len(keyQueue) < QueueLen)
    BY <1>1, <1>3, <2>3, KeysStay DEF RawKeyCb, HandHeld
  <2> QED
    BY <2>2, <2>3
<1> QED
  BY <1>2, <1>3 DEF KbdNext

\* The io task takes the oldest key of the queue and writes the one it took.
LEMMA IoStepKeys ==
    ASSUME NEW s \in Sessions, TypeOK, Owned, KeyInv, IoNext(s), Owned', TypeOK', ~displaced
    PROVE  KeyInv'
<1> USE DEF uiVars, sessionVars, keyVars, ioVars, taskVars, ghostVars
<1>1. HandHeld /\ accepted = KeysOf(sent) \o InHand \o keyQueue
  BY Zenon DEF KeyInv
<1>2. /\ io \in [Sessions -> IoSteps] /\ hand \in [Sessions -> Seq(Keys)]
      /\ keyQueue \in Seq(Keys) /\ sent \in Seq([key : Keys, to : Sessions \cup {None}])
  BY DEF TypeOK, IoTypeOK, KeyTypeOK
<1>3. CASE IoTakeKey(s)
  <2>1. InHand = hand[s] /\ hand[s] = <<>>
    BY <1>1, <1>3, OneHand DEF IoTakeKey, HandHeld
  <2>2. hand'[s] = <<Head(keyQueue)>> /\ io'[s] \in {"snap", "send"}
    BY <1>2, <1>3 DEF IoTakeKey, Goto
  <2>3. HandHeld'
    BY <1>1, <1>2, <1>3, <2>2 DEF IoTakeKey, Goto, HandHeld
  <2>4. InHand' = hand'[s]
    <3>1. \A c \in Sessions \ {s} : hand'[c] = <<>>
      BY <1>1, <1>2, <1>3, RunningTask DEF IoTakeKey, OneSession, HandHeld
    <3> QED
      BY <2>2, <3>1 DEF InHand
  <2>5. keyQueue = <<Head(keyQueue)>> \o Tail(keyQueue)
    BY <1>2, <1>3 DEF IoTakeKey
  <2>6. KeysOf(sent) \in Seq(Keys) /\ Tail(keyQueue) \in Seq(Keys) /\ Head(keyQueue) \in Keys
    <3>1. KeysOf(sent) \in Seq(Keys)
      BY <1>2, KeysOfLog
    <3> QED
      BY <1>2, <1>3, <3>1 DEF IoTakeKey
  <2>7. <<Head(keyQueue)>> \in Seq(Keys)
    BY <2>6
  <2>8. KeysOf(sent) \o InHand = KeysOf(sent)
    BY <2>1, <2>6, ConcatEmptySeq
  <2>9. KeysOf(sent) \o (<<Head(keyQueue)>> \o Tail(keyQueue))
           = (KeysOf(sent) \o <<Head(keyQueue)>>) \o Tail(keyQueue)
    BY <2>6, <2>7, ConcatAssociative
  <2>10. accepted = (KeysOf(sent) \o <<Head(keyQueue)>>) \o Tail(keyQueue)
    BY <1>1, <2>5, <2>8, <2>9, Zenon
  <2>11. /\ accepted' = accepted /\ sent' = sent /\ keyQueue' = Tail(keyQueue)
    BY <1>3 DEF IoTakeKey
  <2> QED
    BY <2>2, <2>3, <2>4, <2>10, <2>11, Zenon DEF KeyInv, KeysOf
<1>4. CASE IoSend(s)
  <2>1. InHand = hand[s] /\ hand[s] = <<hand[s][1]>> /\ hand[s][1] \in Keys
    <3>1. hand[s] \in Seq(Keys) /\ Len(hand[s]) = 1
      BY <1>4 DEF IoSend, TypeOK, IoTypeOK
    <3> QED
      BY <1>1, <1>4, <3>1, OneHand DEF IoSend
  <2>2. /\ sent' = Append(sent, [key |-> hand[s][1], to |-> sTransport])
        /\ accepted' = accepted /\ keyQueue' = keyQueue
    BY <1>4 DEF IoSend
  <2>3. [key |-> hand[s][1], to |-> sTransport] \in [key : Keys, to : Sessions \cup {None}]
    BY <2>1 DEF TypeOK, SessionTypeOK
  <2>4. KeysOf(sent') = KeysOf(sent) \o <<hand[s][1]>>
    BY <1>2, <2>2, <2>3, KeysOfLog
  <2>5. \A c \in Sessions : hand'[c] = <<>>
    BY <1>1, <1>2, <1>4, RunningTask DEF IoSend, OneSession, HandHeld
  <2>6. HandHeld' /\ InHand' = <<>>
    BY <2>5 DEF HandHeld, InHand
  <2>7. KeysOf(sent') \in Seq(Keys)
    BY KeysOfLog DEF TypeOK, IoTypeOK
  <2>8. KeysOf(sent') \o InHand' = KeysOf(sent')
    BY <2>6, <2>7, ConcatEmptySeq
  <2>9. KeysOf(sent) \o InHand = KeysOf(sent')
    BY <2>1, <2>4, Zenon
  <2>10. accepted' = KeysOf(sent') \o InHand' \o keyQueue'
    BY <1>1, <2>2, <2>8, <2>9, Zenon
  <2> QED
    BY <2>6, <2>10, Zenon DEF KeyInv, KeysOf
<1>5. ASSUME NEW step \in IoSteps, Goto(s, step), UNCHANGED <<accepted, sent, hand, keyQueue>>,
             io[s] \in {"snap", "send"} => step \in {"snap", "send"}
      PROVE  KeyInv'
  BY <1>1, <1>5, HandStays, KeysStay
<1>6. CASE IoLoop(s) \/ (\E result \in {"data", "timeout", "closed"} : IoRead(s, result))
  BY <1>5, <1>6 DEF IoLoop, IoRead, IoSteps
<1>7. CASE IoFeed(s) \/ IoLabel(s) \/ IoNoMoreKeys(s) \/ IoSnap(s) \/ IoEcho(s)
  BY <1>5, <1>7 DEF IoFeed, IoLabel, IoNoMoreKeys, IoSnap, IoEcho, IoSteps
<1>8. CASE IoDetach(s) \/ IoClose(s) \/ IoMessage(s) \/ IoDestroy(s)
  BY <1>5, <1>8 DEF IoDetach, IoClose, IoMessage, IoDestroy, IoSteps
<1> QED
  BY <1>3, <1>4, <1>6, <1>7, <1>8 DEF IoNext

\* Every step keeps the keys.
LEMMA StepKeys == Inv /\ KeyInv /\ [Next]_vars => KeyInv'
<1> SUFFICES ASSUME Inv, KeyInv, [Next]_vars PROVE KeyInv'
  OBVIOUS
<1>1. CASE displaced'
  BY <1>1, Zenon DEF KeyInv
<1>2. CASE ~displaced'
  <2>1. ~displaced
    BY <1>2, DisplacedStays, Zenon
  <2>2. TypeOK /\ Owned /\ TypeOK' /\ Owned'
    BY <1>2, <2>1, StepInv, Zenon DEF Inv, SessionOwnsGlobals, Owned
  <2>3. CASE UiNext \/ TaskNext
    BY <1>2, <2>1, <2>2, <2>3, ScreenStepKeys
  <2>4. CASE KbdNext
    BY <2>1, <2>2, <2>4, KbdStepKeys
  <2>5. CASE \E s \in Sessions : IoNext(s)
    BY <2>1, <2>2, <2>5, IoStepKeys
  <2>6. CASE (\E closed \in BOOLEAN : PeerWindow(closed)) \/ UNCHANGED vars
    <3>1. UNCHANGED <<accepted, sent, hand, keyQueue, io>>
      BY <2>6 DEF PeerWindow, vars, keyVars, ioVars
    <3>2. HandHeld
      BY <2>1, Zenon DEF KeyInv
    <3> QED
      BY <2>1, <3>1, <3>2, KeysStay DEF HandHeld
  <2> QED
    BY <2>3, <2>4, <2>5, <2>6, Zenon DEF Next
<1> QED
  BY <1>1, <1>2

\* As long as no session is displaced, every key that entered s_key_queue has
\* been sent, is in the hand of the io task or is still queued, once and in the
\* order typed, however many keys and sessions there are
\* (session_ui.c:289-311).
THEOREM SessionKeysConserved == Spec => []KeysConserved
<1>1. Init => KeyInv
  <2> SUFFICES ASSUME Init PROVE KeyInv
    OBVIOUS
  <2>1. HandHeld /\ InHand = <<>> /\ keyQueue = <<>> /\ sent = <<>> /\ accepted = <<>>
    BY DEF Init, HandHeld, InHand
  <2>2. KeysOf(sent) = <<>>
    BY <2>1 DEF KeysOf
  <2>3. <<>> \o <<>> \o <<>> = <<>>
    OBVIOUS
  <2> QED
    BY <2>1, <2>2, <2>3, Zenon DEF KeyInv
<1>2. KeyInv => KeysConserved
  BY Zenon DEF KeyInv, KeysConserved, KeysOf
<1> QED
  BY <1>1, <1>2, InitInv, StepInv, StepKeys, PTL DEF Spec

-----------------------------------------------------------------------------
(* The status message.  It is set by the task of a session that the remote   *)
(* ended and shown before that task does anything else, so it is never there *)
(* for another session.                                                      *)

Ending == \E s \in Sessions : io[s] = "destroy" /\ remoteClosed[s]

MessageInv == displaced \/ (statusMessage <=> Ending)

\* A step that leaves the message, the reads' results and the ends of the
\* sessions alone.
LEMMA MessageStays ==
    ASSUME MessageInv, ~displaced, UNCHANGED <<statusMessage, remoteClosed>>,
           \A s \in Sessions : io'[s] = "destroy" <=> io[s] = "destroy"
    PROVE  MessageInv'
<1>1. Ending' <=> Ending
  BY DEF Ending
<1> QED
  BY <1>1, Zenon DEF MessageInv

\* While no session runs there is no message.
LEMMA NoMessage ==
    ASSUME NoSession, MessageInv, ~displaced
    PROVE  ~Ending /\ ~statusMessage
<1>1. ~Ending
  BY DEF Ending, NoSession
<1> QED
  BY <1>1, Zenon DEF MessageInv

\* A screen loaded while there is no session shows no message and leaves none.
LEMMA ScreenStepMessage ==
    ASSUME TypeOK, Owned, MessageInv, UiNext \/ TaskNext, ~displaced, ~displaced'
    PROVE  MessageInv'
<1> USE DEF uiVars, sessionVars, keyVars, ioVars, taskVars, ghostVars
<1>1. ASSUME OpenSession(opened + 1) PROVE MessageInv'
  <2>1. front = None
    BY <1>1, Zenon DEF OpenSession
  <2>2. opened + 1 \in Sessions /\ NoSession
    BY <1>1, <2>1 DEF OpenSession, Owned, OneSession
  <2>3. \A s \in Sessions : io'[s] = "destroy" <=> io[s] = "destroy"
    BY <1>1, <2>2 DEF OpenSession, TypeOK, IoTypeOK, NoSession
  <2> QED
    BY <1>1, <2>3, MessageStays DEF OpenSession
<1>2. ASSUME UNCHANGED <<statusMessage, remoteClosed, io>> PROVE MessageInv'
  BY <1>2, MessageStays
<1>3. ASSUME NoSession, ShowHome, UNCHANGED <<io, remoteClosed>> PROVE MessageInv'
  <2>1. ~Ending' /\ ~statusMessage'
    BY <1>3, NoMessage DEF Ending, ShowHome
  <2> QED
    BY <2>1, Zenon DEF MessageInv
<1>4. CASE CancelClick
  <2>1. NoSession
    BY <1>4 DEF CancelClick, Owned, OneSession
  <2> QED
    BY <1>3, <1>4, <2>1 DEF CancelClick
<1>5. ASSUME NEW t \in WifiTasks, WifiShowHome(t) PROVE MessageInv'
  <2>1. front = None
    BY <1>5, Zenon DEF WifiShowHome
  <2>2. NoSession
    BY <2>1 DEF Owned, OneSession
  <2> QED
    BY <1>3, <1>5, <2>2 DEF WifiShowHome
<1>6. CASE UiNext
  BY <1>6, <1>1, <1>2, <1>4 DEF UiNext, TelnetClick, TelnetRefused, TelnetOpen, SshClick,
                    SshConnectClick, WifiClick, WifiConnectClick, DisconnectClick, EchoClick,
                    ScrollView, LoadScreen
<1>7. CASE TaskNext
  BY <1>7, <1>1, <1>2, <1>5 DEF TaskNext, SshOpen, SshFail, WifiFail
<1> QED
  BY <1>6, <1>7

\* The io task sets the message when it has seen the remote close, and its
\* last step takes the message to the home screen.
LEMMA IoStepMessage ==
    ASSUME NEW s \in Sessions, TypeOK, Owned, MessageInv, IoNext(s), Owned', ~displaced
    PROVE  MessageInv'
<1> USE DEF uiVars, sessionVars, keyVars, ioVars, taskVars, ghostVars
<1>1. /\ io \in [Sessions -> IoSteps]
      /\ remoteClosed \in [Sessions -> BOOLEAN]
  BY DEF TypeOK, IoTypeOK
<1>2. \A c \in Sessions \ {s} : io[s] \notin {"none", "gone"} => io[c] \in {"none", "gone"}
  BY RunningTask DEF OneSession
<1>3. ASSUME NEW step \in IoSteps, Goto(s, step), step # "destroy", io[s] # "destroy",
             UNCHANGED <<statusMessage, remoteClosed>>
      PROVE  MessageInv'
  BY <1>1, <1>3, MessageStays DEF Goto
<1>4. CASE \E result \in {"data", "timeout", "closed"} : IoRead(s, result)
  <2>1. \A c \in Sessions : io[c] # "destroy" /\ io'[c] # "destroy"
    BY <1>1, <1>2, <1>4 DEF IoRead, Goto
  <2>2. ~Ending /\ ~Ending' /\ statusMessage' = statusMessage
    BY <1>4, <2>1 DEF Ending, IoRead
  <2> QED
    BY <2>2, Zenon DEF MessageInv
<1>5. CASE IoMessage(s)
  <2>1. ~Ending
    BY <1>2, <1>5 DEF IoMessage, Ending
  <2>2. io'[s] = "destroy" /\ \A c \in Sessions \ {s} : io'[c] \in {"none", "gone"}
    BY <1>1, <1>2, <1>5 DEF IoMessage, Goto
  <2>3. Ending' <=> remoteClosed[s]
    BY <1>5, <2>2 DEF IoMessage, Ending
  <2>4. statusMessage' = (statusMessage \/ remoteClosed[s])
    BY <1>5 DEF IoMessage
  <2> QED
    BY <2>1, <2>3, <2>4, Zenon DEF MessageInv
<1>6. CASE IoDestroy(s)
  <2>1. \A c \in Sessions : io'[c] # "destroy"
    BY <1>1, <1>2, <1>6 DEF IoDestroy, Goto
  <2>2. ~Ending' /\ ~statusMessage'
    BY <1>6, <2>1 DEF IoDestroy, ShowHome, Ending
  <2> QED
    BY <2>2, Zenon DEF MessageInv
<1>7. CASE IoLoop(s) \/ IoFeed(s) \/ IoLabel(s) \/ IoNoMoreKeys(s) \/ IoTakeKey(s)
  BY <1>3, <1>7 DEF IoLoop, IoFeed, IoLabel, IoNoMoreKeys, IoTakeKey, IoSteps
<1>8. CASE IoSnap(s) \/ IoSend(s) \/ IoEcho(s) \/ IoDetach(s) \/ IoClose(s)
  BY <1>3, <1>8 DEF IoSnap, IoSend, IoEcho, IoDetach, IoClose, IoSteps
<1> QED
  BY <1>4, <1>5, <1>6, <1>7, <1>8 DEF IoNext

\* Every step keeps the message.
LEMMA StepMessage == Inv /\ MessageInv /\ [Next]_vars => MessageInv'
<1> SUFFICES ASSUME Inv, MessageInv, [Next]_vars PROVE MessageInv'
  OBVIOUS
<1>1. CASE displaced'
  BY <1>1, Zenon DEF MessageInv
<1>2. CASE ~displaced'
  <2>1. ~displaced
    BY <1>2, DisplacedStays, Zenon
  <2>2. TypeOK /\ Owned /\ Owned'
    BY <1>2, <2>1, StepInv, Zenon DEF Inv, SessionOwnsGlobals, Owned
  <2>3. CASE UiNext \/ TaskNext
    BY <1>2, <2>1, <2>2, <2>3, ScreenStepMessage
  <2>4. CASE \E s \in Sessions : IoNext(s)
    BY <2>1, <2>2, <2>4, IoStepMessage
  <2>5. CASE KbdNext \/ (\E closed \in BOOLEAN : PeerWindow(closed)) \/ UNCHANGED vars
    <3>1. UNCHANGED <<statusMessage, remoteClosed, io>>
      BY <2>5 DEF KbdNext, KeyPress, RawKeyCb, PeerWindow, vars, uiVars, ioVars
    <3> QED
      BY <2>1, <3>1, MessageStays
  <2> QED
    BY <2>3, <2>4, <2>5, Zenon DEF Next
<1> QED
  BY <1>1, <1>2

\* Of all the steps only the last one of an io task ends its session.
LEMMA OnlyDestroyEnds ==
    ASSUME TypeOK, [Next]_vars, NEW s \in Sessions, io[s] = "destroy", io'[s] = "gone"
    PROVE  IoDestroy(s)
<1> USE DEF uiVars, sessionVars, keyVars, ioVars, taskVars, ghostVars
<1>1. io \in [Sessions -> IoSteps]
  BY DEF TypeOK, IoTypeOK
<1>2. ASSUME NEW c \in Sessions, OpenSession(c) PROVE FALSE
  BY <1>1, <1>2 DEF OpenSession
<1>3. CASE UiNext
  <2>1. TelnetOpen
    BY <1>3 DEF UiNext, TelnetClick, TelnetRefused, SshClick, SshConnectClick, WifiClick,
                WifiConnectClick, CancelClick, DisconnectClick, EchoClick, ScrollView
  <2> QED
    BY <1>2, <2>1 DEF TelnetOpen, OpenSession
<1>4. CASE TaskNext
  <2>1. \E t \in SshTasks : SshOpen(t)
    BY <1>4 DEF TaskNext, SshFail, WifiShowHome, WifiFail
  <2> QED
    BY <1>2, <2>1 DEF SshOpen, OpenSession
<1>5. CASE KbdNext \/ (\E closed \in BOOLEAN : PeerWindow(closed)) \/ UNCHANGED vars
  BY <1>5 DEF KbdNext, KeyPress, RawKeyCb, PeerWindow, vars
<1>6. ASSUME NEW c \in Sessions, IoNext(c) PROVE IoDestroy(s)
  <2>1. ASSUME NEW step \in IoSteps, Goto(c, step), step # "gone" PROVE FALSE
    BY <1>1, <2>1 DEF Goto
  <2>2. IoDestroy(c)
    BY <1>6, <2>1 DEF IoNext, IoLoop, IoRead, IoFeed, IoLabel, IoNoMoreKeys, IoTakeKey, IoSnap,
                      IoSend, IoEcho, IoDetach, IoClose, IoMessage, IoSteps
  <2>3. c = s
    BY <1>1, <2>2 DEF IoDestroy, Goto
  <2> QED
    BY <2>2, <2>3
<1> QED
  BY <1>3, <1>4, <1>5, <1>6 DEF Next

\* As long as no session is displaced, the home screen that a session ends on
\* says that the remote ended it exactly when it did, and never carries the
\* message of an earlier session (session_ui.c:317-321, ui_shell.c:258-263).
THEOREM SessionBannerTruthful == Spec => BannerTruthful
<1>1. Init => MessageInv
  <2> SUFFICES ASSUME Init PROVE MessageInv
    OBVIOUS
  <2>1. ~Ending
    BY DEF Init, Ending
  <2>2. statusMessage = FALSE
    BY Zenon DEF Init
  <2> QED
    BY <2>1, <2>2, Zenon DEF MessageInv
<1>2. Inv /\ MessageInv /\ [Next]_vars
         => [\A s \in Sessions :
                (~displaced' /\ io[s] = "destroy" /\ io'[s] = "gone")
                   => (banner' <=> remoteClosed[s])]_vars
  <2> SUFFICES ASSUME Inv, MessageInv, [Next]_vars, NEW s \in Sessions,
                      ~displaced', io[s] = "destroy", io'[s] = "gone"
               PROVE  banner' <=> remoteClosed[s]
    OBVIOUS
  <2>1. ~displaced
    BY DisplacedStays, Zenon
  <2>2. TypeOK /\ Owned
    BY <2>1, Zenon DEF Inv, SessionOwnsGlobals, Owned
  <2>3. banner' = statusMessage
    BY <2>2, OnlyDestroyEnds DEF IoDestroy, ShowHome
  <2>4. \A c \in Sessions \ {s} : io[c] # "destroy"
    BY <2>2, RunningTask DEF OneSession
  <2>5. Ending <=> remoteClosed[s]
    BY <2>4 DEF Ending
  <2> QED
    BY <2>1, <2>3, <2>5, Zenon DEF MessageInv
<1> QED
  BY <1>1, <1>2, InitInv, StepInv, StepMessage, PTL DEF Spec, BannerTruthful
=============================================================================
