------------------------------- MODULE Keyboard -------------------------------
(***************************************************************************)
(* keyboard_indev.c below the raw callback: the keyboard, a controller on   *)
(* I2C with a queue of events and an INT line that is low while its         *)
(* INT_STAT is set; the interrupt on the falling edge; kbd_task, which      *)
(* drains the queue; and keyboard_indev_start(), which installs all that    *)
(* with the keyboard perhaps already in use.  The controller is external.   *)
(* Who gets the keys, a session or LVGL, is Session; a start that fails     *)
(* (no bus, no keyboard) leaves nothing to model.                           *)
(***************************************************************************)
EXTENDS Integers, Sequences, SequencesExt

CONSTANTS
    Modifiers,     \* the keys Sym, Aa, Ctrl
    Letters,       \* the other keys
    FifoSize,      \* bound: events the controller holds; no key is hit meanwhile
    MaxKeys,       \* bound: presses and releases
    MaxI2cErrors   \* bound: I2C transfers that fail

ASSUME KeyboardAssumption ==
    /\ Modifiers \cap Letters = {}
    /\ FifoSize \in Nat \ {0} /\ MaxKeys \in Nat /\ MaxI2cErrors \in Nat

VARIABLES
    kbdFifo,       \* the controller's events
    intStat,       \* INT_STAT is set: the line is low
    down,          \* the keys that are down
    kbdStart,      \* keyboard_indev_start() is about to: "handler", "level", "done"
    notified,      \* the notification of kbd_task
    kbdPc,         \* kbd_task: "blocked", "count", "event", "again", "rearm"
    held,          \* s_sym_held, s_aa_held, s_ctrl_held
    forwarded,     \* what handle_key_event() has forwarded
    keysHit, i2cErrors,
    typed,         \* history: the letters hit, with the modifiers then down
    lost,          \* history: a transfer failed after the controller gave up the event
    deaf           \* history: a transfer failed and left INT_STAT set

kbdVars == <<kbdFifo, intStat, down, kbdStart, notified, kbdPc, held, forwarded,
             keysHit, i2cErrors, typed, lost, deaf>>

Forwarded == [key : Letters, pressed : BOOLEAN, with : SUBSET Modifiers]

KeyboardTypeOK ==
    /\ kbdFifo \in Seq([key : Modifiers \cup Letters, pressed : BOOLEAN])
    /\ Len(kbdFifo) <= FifoSize
    /\ intStat \in BOOLEAN /\ down \subseteq Modifiers \cup Letters
    /\ kbdStart \in {"handler", "level", "done"} /\ notified \in BOOLEAN
    /\ kbdPc \in {"blocked", "count", "event", "again", "rearm"}
    /\ held \subseteq Modifiers /\ forwarded \in Seq(Forwarded) /\ typed \in Seq(Forwarded)
    /\ keysHit \in 0..MaxKeys /\ i2cErrors \in 0..MaxI2cErrors
    /\ lost \in BOOLEAN /\ deaf \in BOOLEAN

\* kbd_task has been created and waits for its first notification.
KeyboardInit ==
    /\ kbdFifo = <<>> /\ intStat = FALSE /\ down = {}
    /\ kbdStart = "handler" /\ notified = FALSE /\ kbdPc = "blocked"
    /\ held = {} /\ forwarded = <<>> /\ keysHit = 0 /\ i2cErrors = 0
    /\ typed = <<>> /\ lost = FALSE /\ deaf = FALSE

-----------------------------------------------------------------------------
(* The controller, its line, and the interrupt. *)

Toggled(set, k) == IF k \in set THEN set \ {k} ELSE set \cup {k}

\* kbd_int_isr(): the line falls, if the handler is there by now.
Edge == notified' = (notified \/ (~intStat /\ kbdStart # "handler"))

Hit(k) ==
    /\ keysHit < MaxKeys /\ Len(kbdFifo) < FifoSize
    /\ keysHit' = keysHit + 1 /\ down' = Toggled(down, k)
    /\ kbdFifo' = Append(kbdFifo, [key |-> k, pressed |-> k \notin down])
    /\ typed' = IF k \in Modifiers THEN typed
                ELSE Append(typed, [key |-> k, pressed |-> k \notin down,
                                    with |-> down \cap Modifiers])
    /\ intStat' = TRUE /\ Edge
    /\ UNCHANGED <<kbdStart, kbdPc, held, forwarded, i2cErrors, lost, deaf>>

-----------------------------------------------------------------------------
(* keyboard_indev_start() *)

AddHandler ==
    /\ kbdStart = "handler" /\ kbdStart' = "level"
    /\ UNCHANGED <<kbdFifo, intStat, down, notified, kbdPc, held, forwarded, keysHit,
                   i2cErrors, typed, lost, deaf>>

MutantCheckLevel ==    \* the handler is trusted to see everything
    /\ kbdStart = "level" /\ kbdStart' = "done"
    /\ UNCHANGED <<kbdFifo, intStat, down, notified, kbdPc, held, forwarded, keysHit,
                   i2cErrors, typed, lost, deaf>>

\* The line may have fallen before the handler was there.
CheckLevel ==
    /\ kbdStart = "level" /\ kbdStart' = "done"
    /\ notified' = (notified \/ intStat)
    /\ UNCHANGED <<kbdFifo, intStat, down, kbdPc, held, forwarded, keysHit, i2cErrors,
                   typed, lost, deaf>>

-----------------------------------------------------------------------------
(* kbd_task and kbd_drain_events() *)

KbdAt(from, to) == kbdPc = from /\ kbdPc' = to

Works == UNCHANGED i2cErrors
Errs == i2cErrors < MaxI2cErrors /\ i2cErrors' = i2cErrors + 1

Wake ==
    /\ KbdAt("blocked", "count") /\ notified
    /\ notified' = FALSE
    /\ UNCHANGED <<kbdFifo, intStat, down, kbdStart, held, forwarded, keysHit, i2cErrors,
                   typed, lost, deaf>>

\* EVENT_NUM: when the first read fails the function returns at once.
ReadEventNum ==
    /\ \/ /\ kbdPc \in {"count", "again"} /\ Works /\ UNCHANGED deaf
          /\ kbdPc' = IF kbdFifo = <<>> THEN "rearm" ELSE "event"
       \/ KbdAt("count", "blocked") /\ Errs /\ deaf' = intStat
       \/ KbdAt("again", "rearm") /\ Errs /\ UNCHANGED deaf
    /\ UNCHANGED <<kbdFifo, intStat, down, kbdStart, notified, held, forwarded, keysHit,
                   typed, lost>>

MutantHandleKeyEvent(e) ==    \* a modifier that is let go of stays
    IF e.key \in Modifiers
    THEN held' = held \cup {e.key} /\ UNCHANGED forwarded
    ELSE /\ forwarded' = Append(forwarded, [key |-> e.key, pressed |-> e.pressed, with |-> held])
         /\ UNCHANGED held

\* The tables and the control characters are a function of the key and of the
\* modifiers held.
HandleKeyEvent(e) ==
    IF e.key \in Modifiers
    THEN /\ held' = IF e.pressed THEN held \cup {e.key} ELSE held \ {e.key}
         /\ UNCHANGED forwarded
    ELSE /\ forwarded' = Append(forwarded, [key |-> e.key, pressed |-> e.pressed, with |-> held])
         /\ UNCHANGED held

\* KEY_EVENT: an event is there, since only this task takes them.  When the read
\* fails the controller may have given it up or not.
ReadKeyEvent ==
    /\ \/ /\ KbdAt("event", "again") /\ Works
          /\ kbdFifo' = Tail(kbdFifo) /\ HandleKeyEvent(Head(kbdFifo)) /\ UNCHANGED lost
       \/ /\ KbdAt("event", "rearm") /\ Errs
          /\ \/ kbdFifo' = Tail(kbdFifo) /\ lost' = TRUE
             \/ UNCHANGED <<kbdFifo, lost>>
          /\ UNCHANGED <<held, forwarded>>
    /\ UNCHANGED <<intStat, down, kbdStart, notified, keysHit, typed, deaf>>

\* INT_STAT, whatever has come in meanwhile; whether the write arrived is not
\* looked at.
Rearm ==
    /\ KbdAt("rearm", "blocked")
    /\ \/ Works /\ intStat' = FALSE
       \/ Errs /\ intStat' \in {intStat, FALSE}
    /\ deaf' = intStat'
    /\ UNCHANGED <<kbdFifo, down, kbdStart, notified, held, forwarded, keysHit, typed, lost>>

KeyboardNext ==
    \/ \E k \in Modifiers \cup Letters : Hit(k)
    \/ AddHandler \/ CheckLevel
    \/ Wake \/ ReadEventNum \/ ReadKeyEvent \/ Rearm

KeyboardSpec == KeyboardInit /\ [][KeyboardNext]_kbdVars

-----------------------------------------------------------------------------
\* While kbd_task waits, the line is high, so that the next key gives an edge,
\* unless a transfer that failed has left it low; a key hit before the handler
\* is installed, between the last EVENT_NUM and the re-arm, or while the task
\* drains, is late at most (keyboard_indev.c:148, 210-240, 317-323).
NeverDeaf ==
    kbdStart = "done" /\ kbdPc = "blocked" /\ ~notified /\ ~deaf => ~intStat

\* What is forwarded is what was typed, in order and under the modifiers that
\* were down then, however late the events are read; the rest still waits in
\* the controller (keyboard_indev.c:157-236).
KeysMeant ==
    LET waiting == FlattenSeq([i \in DOMAIN kbdFifo |->
                                  IF kbdFifo[i].key \in Letters THEN <<kbdFifo[i]>> ELSE <<>>])
    IN  ~lost =>
          /\ Len(forwarded) + Len(waiting) = Len(typed)
          /\ forwarded = SubSeq(typed, 1, Len(forwarded))

=============================================================================
