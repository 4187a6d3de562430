# Tab5 remote terminal: TLA+ models, checks and proofs

The firmware turns an M5Stack Tab5 (ESP32-P4, WiFi by an ESP32-C6 coprocessor)
into a Telnet and SSH terminal. This directory models its own code, `src/main/`;
the board support package under `src/components/` is vendored and left aside.

Contents: [inventory](#inventory), [modules](#modules-and-their-code),
[runs](#runs), [bounds](#bounds), [fairness](#fairness), [proofs](#proofs),
[disagreements found](#disagreements-found), [what is not modelled](#what-is-not-modelled),
[plan](#plan).

## Inventory

Tasks: the LVGL task runs every callback of the screens and holds
`bsp_display_lock` while it does; `session_io_task` runs once per session, priority
5; `kbd_task` reads the keyboard; each Connect on the SSH password screen starts an
`ssh_connect_task`, each on the WiFi screens a `connect_task`; the ESP event task
runs the WiFi handler, the timer task the reconnect. Only the display lock and
`s_key_queue` synchronise them; most state is file-scope and shared by convention.

| component | state | operations | what is hard | what makes it correct |
|---|---|---|---|---|
| terminal session `session_ui.c` | `s_term`, `s_transport`, `s_stop_requested`, `s_local_echo`, `s_key_queue`, the screen | open (Telnet, SSH), io loop (read, feed, keys, echo), Disconnect, scroll, end | one set of globals, many tasks; order of the five calls that end a session; a wait inside `write()` | the globals belong to the session on display; nothing freed is used; keys sent once, in order, to the right session; a session ends |
| terminal emulator `terminal.c` | parser state, pen, modes, cursor, region, grids, scrollback ring, viewport, what was drawn | `terminal_feed`, `terminal_scroll`, `terminal_render` | sequences cut by reads, parameters cut by buffers, deferred wrap, ring wrap-around, diffing render | known sequences obeyed exactly, unknown ones skipped; cursor in the grid; text in order; history kept; canvas complete |
| Telnet client `telnet_client.c` | decoder state, option, `sb_buf`, window size | read, write, negotiate | commands cut by reads, answers from inside the reader, a subnegotiation longer than `sb_buf` | data transparent both ways; one right answer per request |
| SSH session `ssh_session.c` | socket, libssh2 session and channel, libssh2's count of users | connect, read, write, close | eleven calls that may fail, error exits that share labels; the count is not protected; the write loop waits without a limit | everything acquired is released once |
| keyboard `keyboard_indev.c` | `s_raw_cb`, last key, I2C registers | ISR, drain, dispatch | interrupt re-arming, unlocked `s_raw_cb` | no event lost for good; keys reach the mode they were typed in, with the modifiers they were typed with |
| WiFi manager `wifi_manager.c` | state, event bits, retries, timer | event handler, connect, scan, reconnect | three sources of reconnects, late answers, state of the previous network, refusals of the driver | the status is that of the link; somebody keeps trying; the result reported is that of the network asked for |
| WiFi credentials `wifi_creds.c` | list in memory and in a file | load, save with eviction, find, persist | failed write; saves by two tasks | only networks that joined are saved |
| host store `host_store.c`, edit screen in `ui_shell.c` | list in memory and in a file, the entry edited | add, update, delete, load | failed write, retry of Save, a reset at any point, indices kept by rows and by the edit screen | file and memory agree; a row opens the host it names |
| UI shell `ui_shell.c` | home screen, status message | home, host rows, message | message set by one task, shown by another | shown once, only when true |
| WiFi screens `ui_wifi.c` | scan results, screens | scan, connect | results overwritten under a list on display; late success; scans and connects wait for one mutex | the row clicked is the network joined; no other screen is replaced; a scan ends |
| coprocessor OTA `wifi_cp_ota.c` | firmware versions, the image | compare, send, activate, restart at boot | size computed from headers; a call failing at any point; reboot loop | the update ends with the new firmware |
| spikes `usb_serial_spike.c`, `ssh_spike.c` | bring-up experiments | | two devices, one handle | |
| boot `app_main.c` | none | starts the others, in order | | |

Interactions: the io task reads and writes through `session_transport_t`
(Telnet or SSH) and feeds the emulator; the keyboard calls back into the session,
which queues; connect tasks open session screens or the home screen under the display
lock; the session leaves a message that the home screen shows. `PROJECT.json`
lists the hazards at their lines.

## Modules and their code

**`Session`** (`session_ui.c`, with what touches it in `ui_shell.c`, `ui_wifi.c`,
`keyboard_indev.c`, `ssh_session.c`). One action per callback, per end of a connect
task, per half of the keyboard's unlocked test-then-call, and per step of
`session_io_task` between two accesses to shared state; a section under the display
lock is one step, and `ui = "telnet_connect"` is the only state in which a callback
holds it for long. Sessions are numbered in order of creation, 0 is NULL. `term`,
`canvas` and `conn` hold the life of each session's terminal, LVGL canvas and
transport; a step that uses a dead one sets `fault`. LVGL's auto-delete of a replaced
screen is `CanvasesAfterLoad`. History variables: `accepted`, `sent` (keys) and
`displaced`: a background task replaced the screen of a running session. That is a
bug of the code (see below) after which almost anything may break; the other properties say
that nothing else breaks a session.

**`Parser`** (`term_putc()`'s states, `parse_params`, SGR and private modes, and
`local_echo_feed`). The remote sends items (characters, controls, sequences with
parameters, titles, and sequences v1 does not know) as bytes; one action per state
and kind of byte. A key may be echoed between any two bytes, as a read may end there;
its bytes go in front and are fed before anything else. `ops` records what the parser
obeyed, `sent` what was meant; `misled` that a key echoed right after an ESC was taken for what ESC introduces. `ItemsAssumption` says what
the remote may send: known sequences with any parameters, what v1 skips, and unknown ones that are `Complete`: what ESC begins in them has its end.

**`Cursor`** (cursor, deferred wrap, scroll region, saved cursor, alternate
screen) and **`Screen`** (grids, scrollback ring, viewport, `terminal_render()`) are
two more views of the same emulator, with nothing shared but the cursor position, which
`Screen` moves at will. In `Cursor` each control and sequence is an action with the
arithmetic of the code's int: a sum may overflow (`IntOf`, counted by `overflows`) before the clamp, which looks at one side
only, and the cursor is then outside the grid; a cell written there sets `damaged`, after which the model stops.
`scrolled`, `written` and `lastOp` are history. In `Screen` a row is
one value, since what the ring, the viewport and the diff depend on is whether rows
are equal. The canvas is the row drawn and the column of the cursor block over it.
**`History`** is the abstract promise of the scrollback: the newest `Lines` lines
that left the screen, and a viewport anchored to a line; `Screen` implements it under
the mapping `total <- pushed`, `retained <-` the ring read from its oldest slot,
`anchor <- pushed - scrollOffset`.

**`Telnet`** (`telnet_client.c`). The server sends whole messages (data, commands,
subnegotiations, also cut short); `Recv(n)` takes any number of their bytes, so every
split is explored; one action per state of `tn_process_byte`. The writer stuffs and
flushes byte by byte. Reads and writes alternate, as in the one task that uses a client.

**`Wifi`** (`wifi_manager.c`, `wifi_creds.c`). One action per step of
`wifi_manager_connect()` between two accesses to what the event task shares with it (take
the mutex, clear the bits, configure and start, wait, take the result), one per branch of `event_handler()`, one for the timer.
`connect_saved()` at boot and each click are callers. `s_op_mutex` covers the list of networks no more than anything else does: finds, the copies
through the pointers into `s_networks`, `wifi_creds_save()` and the items of the file run in any order on two cores, so
there a step is one access, to one string of one entry or to `s_count`. `slot` is the loop index of each
caller, `newNet` the `entry` on its stack, `countRead` the `s_count` it works with: wherever the code names `s_count` again, it may be the value
now or the one the compiler has kept. The driver is external: it refuses a call, joins if the
password is right, drops the link, and posts its events in order into `wifiEvents`, where they may
wait. `want`, `quit`, `stale` and `overlapped` remember what a caller asked for, why nobody tries to
join, that an old address was taken for an answer, and that a save began while another was at the list.

**`UiWifi`** (the screens of `ui_wifi.c` and `wifi_manager_scan()`). A visit of the scan screen
starts a scan task of its own; the results are written without the display lock, then shown on whichever scan
screen is there. A row is a label and an index, as its callback is.

**`HostStore`** (`host_store.c`, home and edit screens of `ui_shell.c`). The callbacks with
the whole of their refreshes; the write of the file is a step of its own, since a reset may come
before it takes effect. LittleFS makes a file's content take effect at its close, wholly or not at all; a failed
`fputs` or `fclose` is ignored by the code as it is here. A port typed is stored in 16 bits (`Typed`).

**`Keyboard`** (`keyboard_indev.c` below the raw callback). The interrupt line and the event queue are the
controller's; the interrupt, each I2C transfer of `drain_keyboard_events()`, failed or not, and the two steps
of the start (handler, then the look at the level) are actions.

**`CpOta`** (`wifi_cp_ota.c`): the boot, the version check, one chunk per step, the end, the activation, the
restart; each call may fail. The padding arithmetic of the headers is computed.

**`Transports`** (`ssh_session_connect()`, `telnet_client_connect()` and both `close()`): which call
acquires what, and what each exit gives back. `libssh2_init()` is two steps, since libssh2 does not protect
its counter. `libssh2_exit()` is one step although its decrement and its teardown are as little protected: an exit
that meets an init or another exit is left out, as is everything after a lost increment (`raced`).

**`Network`** puts `Telnet` and `Wifi` side by side, **`Services`** `Wifi` and the five after it. They share no variable; what connects them (a WiFi success loads the home screen,
a session's keys, a session's transport) is in `Session`. A behaviour therefore moves one of them (`mover`, `part`) and leaves
the others as they started, which explores each component completely and none against another: their product would show
nothing more.

`MC*` modules give the constants their values; `SessionProofs`, `CursorProofs`, `ScreenProofs`, `TelnetProofs`, `ParserProofs`, `WifiProofs` and
`ServicesProofs` hold the theorems, `SequenceLemmas` what they share about sequences. Definitions called Mutant are wrong versions of the definition that follows
them, kept to show that a property would notice the error; no specification uses them.

## Runs

| run | shows |
|---|---|
| `session` | no use after free, no double release (`NoFault`); screen, globals, keyboard mode and io tasks agree (`SessionOwnsGlobals`); keys are neither lost, doubled nor reordered between the queue and the transport (`KeysConserved`); the home screen's message is true (`BannerTruthful`); Disconnect and a remote close end the session |
| `session_keys` | *violated*: a key typed on a session's screen goes to that session |
| `session_canvas` | *violated*: no canvas is deleted twice |
| `session_stall` | *violated*: Disconnect is noticed without any assumption on the peer |
| `parser` | known items are obeyed once, in order, with their parameters (`ActsAsMeant`); the parser is in its normal state after every item, also unknown or torn ones, unless an echoed key right after an ESC began a sequence (`Resynced`); pen and modes are what the last sequence bearing on each says |
| `parser_leak` | *violated*: unknown sequences are not printed |
| `parser_echo` | *violated*: a key echoed appears |
| `cursor` | the cursor, both saved coordinates and what is written stay in the grid unless an addition overflowed (`InGridUnlessOverflow`); text fills cell after cell across margin and scroll (`TextFlows`); text and vertical moves leave the region only by such an overflow (`RegionHolds`); mode 1049 restores the cursor (`AltRestoresCursor`) |
| `screen` | the ring implements `History`; the lines on display stay while output arrives (`HistoryViewStays`); the alternate screen touches neither main grid nor scrollback; after a render the canvas is the whole picture although few rows were drawn (`CanvasComplete`) |
| `network` | Telnet: data transparent in both directions for every split (`TextTransparent`, `TypedTransparent`); one fitting answer per request, in order (`AnswersFit`); the window size follows WILL NAWS and nothing else (`SizeReported`). WiFi: the status follows the link once its events are handled (`StatusFollowsLink`), nobody is left without a link, a timer or a reason, where a call the driver refused counts as one although `wifi_manager.c:49-55` means to keep trying (`NeverStranded`), what is in the list and what goes into the file joins, also while others read the list that a save shifts, unless an old address was taken for the answer or two saves overlapped (`SavedUnlessStale`) |
| `services` | WiFi: every connect returns (`ConnectReturns`). Screens: a row connects to what it names except while results are being replaced (`RowsNameTheirNetwork`), "Scanning..." ends (`ScanningEnds`). Hosts: rows, list and the entry edited agree (`RowsAreHosts`, `EditsWhatItShows`), the file is the list unless a write failed (`FileIsCurrent`). Update: it ends, with the new firmware (`UpdateEnds`). Keyboard: it never waits with the line low (`NeverDeaf`), keys arrive once, in order, under their modifiers (`KeysMeant`). Transports: nothing leaks on any exit (`NothingLeaks`) |
| `wifi_saved` | *violated*: what is saved joins, without the exception for an old address; no overlap of saves is needed |

## Bounds

* `Session`: two sessions, so that one can succeed or displace the other; three keys
  and a queue of two, so that the queue fills while a key is in hand; one connect task of
  each kind (two SSH tasks add a second way to displace, after which the properties
  claim nothing). `UntilDisplaced` ends the search of the passing run where its
  properties end; the other runs have no constraint.
* `Parser`: three items, so that a saved pen is changed and restored, with six
  echo keys between and inside them. `csi_buf` of 6, two parameters and an int of 8 bits make one item too
  long, one with too many parameters and one too large. The alphabet has a byte for every
  test in `term_putc`.
* `Cursor`: 4 by 3 cells, tab stop 2, an int of four bits, parameters 0, 2, 3 and 7 (default, inside, outside, the largest int): all
  regions of two rows and more, above and below which the cursor can stand. One sum may overflow (`MaxOverflows`), after which the
  cursor, still wandering, may be wrapped, saved and restored outside the grid. The run has no other bound on a behaviour; it stops (no check for deadlock)
  where a cell outside the grid was written, and undefined behaviour begins.
* `Screen`: 2 by 2, a ring of 3 and four pushes: the ring is empty, partly full, full and
  wrapped around; two contents tell equal rows from different ones.
* `Telnet`: two messages are enough for a state left by one to meet the next; chunks of up
  to three bytes; `sb_buf` of 2 with a payload of 3; a send buffer of 3, so that
  two bytes typed reach its limit. Data include IAC and a byte equal to SE. `send_key()` never
  writes more than four bytes, so the flush inside the loop, reached here, is not
  reached in today's firmware.
* `Wifi`: one click beside the connect at boot, so that each meets the other's events and the list while the other changes it; one retry, one drop and one refused call, at
  any point; two networks, one open, one of them saved; a list of two, so that a save shifts and closes gaps. In `services`, where it is there for the liveness, nothing drops.
  A second click would add a second save from a screen; its overlap with another is in the run already, its effect on the list excluded (`overlapped`).
* `UiWifi`: two scans and two access points, so that one overwrites the other's rows; one connect at a time.
* `HostStore`: three hosts, a search that hides some, one reset and one failed write; a port that does not fit 16 bits. Hosts are SSH
  hosts, as the protocol only chooses the default port; a click on a serial host does what a long press does.
* `CpOta`: header sums 31 to 49, all residues of 16, hashed or not, in chunks of 24 and a partition of 90: the largest images do not
  fit, and the last chunk is full or partial. One failed call.
* `Keyboard`: five presses and releases of a letter and a modifier, a controller that holds three, one failed transfer.
* `Transports`: two SSH connects and one Telnet connect, at any point of each other, each call failing or not.

## Fairness

`FairSpec` of `Session` assumes weak fairness of each io task's next step, of the second
half of the keyboard callback and of the refusal of a Telnet connect: FreeRTOS keeps running a
ready task, every section under the display lock but the Telnet connect is short, and the connect has
a timeout of 8 s (a success ends the wait as well). Nothing is assumed of the
user, the remote, the connect tasks or the peer's window. Reads time out after 100 ms, so
`IoRead` is always enabled; a write waits while the peer accepts nothing, and
`DisconnectEndsSession` names that as its hypothesis. 
`WifiFairness` keeps the event task, the timer and every caller running, weakly; each caller connects once, so a mutex given
back does not go to the same task again and again, and nothing stronger is needed. Nothing is assumed of the driver or the air: the wait of a connect has its timeout. `UiWifiFairness` says the
same of the scan tasks, with strong fairness of the mutex, since connects come again and again and FreeRTOS gives it to the longest waiter of the highest
priority, and lets a connect that holds the mutex end (that is `ConnectReturns`). `CpOtaFairness` says that the boot goes
on: each call to the coprocessor returns. In `ServicesSpec` the three are stated for every behaviour; in the parts that do not move the fair
actions are disabled. The other specifications state safety only.

## Proofs

All proof modules hold for every value of the constants that satisfies the ASSUMEs.

`SessionProofs`, for any number of sessions, keys and connect tasks and any capacity of the queue:
* `SessionTypeCorrect`: `TypeOK`, one lemma per task; it includes the queue's capacity and
  that a key about to be sent is in hand.
* `SessionMemorySafe` (`NoFault`) and `SessionOwnership` (`SessionOwnsGlobals`). Neither is
  inductive: that `IoSend` finds a live terminal needs the ownership, and ownership is kept only
  because steps stop at a fault. The inductive invariant is
  `Inv == TypeOK /\ NoFault /\ SessionOwnsGlobals`; `SessionOwnsGlobals` is the case split
  `displaced \/ NoSession \/ OneSession`, and each step keeps the case, opens a session where there
  is none, ends the one there is, or displaces it. `RunningTask` shows that an io task that runs is the one on display.
* `SessionKeysConserved`: a key is in the hand of a task only between its dequeue and its write (`HandHeld`), and by the ownership only one task is
  there, so `InHand` names one key. `SessionBannerTruthful`: the message is there exactly while a task that the remote ended is about to destroy
  its session (`Ending`), hence never for another session.

`CursorProofs`, for any grid, tab stop, width of an int and set of parameters that int can hold:
* `CursorTypeCorrect`: the cursor keeps to its ints, also when a sum overflows (`IntOfRange`), and the region to two rows of the grid or more.
* `CursorInGrid`: the only way out of the grid is an addition that overflows. `GridInv` says it of the cursor, the saved cursor and the writes together: a
  cursor restored or a wrap is inside because what was saved or filled was. `CursorRegionHolds` has the same exception: a row that no
  overflow disturbs is clamped at the end it moves to.
* `CursorTextFlows` and `CursorAltRestores` need two facts about the past: after a character
  the cursor is one cell on, or on it with a wrap pending (`PrintedBefore`); the slot still
  holds what mode 1049 saved (`EntrySaved`). `FlowInv` is their conjunction with `TypeOK` and is inductive.

`ScreenProofs`, for any grid, any ring and any number of lines:
* `ScreenTypeCorrect`, and `ScreenAltIsolated`, an action property, from it.
* `ScreenCanvasComplete`: a render draws only rows that changed, so the canvas is right only because it shows what `renderedGrid` remembers,
  and what that remembers, after a render, is the view (`RenderInv`).
* `ScreenViewStays` and `ScreenImplementsHistory`: the rows of the view and the lines retained are read from the ring by how many writes back they
  are; `BackInRing` shows that the next write, wherever the ring wraps around, takes each one write further back and touches none but the oldest of a full
  ring. `Hist!Init` follows from `Init`, and each step is a step of `History` (`PushImplements`, `OtherImplements`) or a stutter.

`TelnetProofs`, for any messages, buffers and cuts of the stream:
* `TelnetTypeCorrect`, `TelnetSizeReported`, by the answers each request appends.
* `TelnetTypedTransparent`: `Unstuffed` undoes the stuffing of whatever was written, shown for every length by induction up to that
  length, and is a homomorphism on stuffed runs, so the flushes may fall anywhere.
* `TelnetTextTransparent`, `TelnetAnswersFit`: `Progress` says where the stream is: the bytes still on the wire are what is left of one message, for which
  the decoder is in the right state (`InMessage`, a case per kind of message), and then whole messages; what was read and answered, with what these
  bring, is what all messages mean. `DataMoves`, `CommandMoves`, `SubMoves`... take the decoder one byte through a message of each kind.

`ParserProofs`, for any items, echoes, cuts of the stream, sizes of `csi_buf` and `params`, and any width of an int:
* `ParserTypeCorrect`: `ParseParams` and `ApplySgr` are recursive functions over whatever was collected; `Recursion` gives each its run, along which
  the types are kept.
* `ParserResyncs`: `Expected` says that the end of what the parser is in the middle of is still on the wire, and that what is on the wire cuts no
  sequence short (`Complete`). `Complete` survives concatenation, so an echo in front, and the loss of the first byte; `EncodedComplete` shows it of every item.
* `ParseEncoded`: `ParseParams` undoes `EncodedParams`. `DecimalRead` shows it of one number, digit by digit; `FieldMore` and `ReadsMore` take the
  loop from one semicolon to the next, over a buffer that grows by a parameter. An empty one at the end is read as none, which is the same to every user of
  `Param`, but not to SGR (hence the hypothesis in `PenItem`).
* `SgrMeant`: the loop over the codes against the last code that bears on each attribute, for a list of any length (`PenOfMore`).
* `ParserActsAsMeant`, `ParserPenMeant`, `ParserModesMeant`: `Progress` is inductive with `TypeOK`. It says that what was sent splits into
  items done, perhaps one that is being read, and items whose bytes are on the wire behind what is left of that one (`Placed`). `Inside` says which state of the parser fits
  what is left of an item; `Moves` is then one byte, a lemma per state (`NormalMoves` to `OscMoves`): either the item goes on and nothing is
  done, or it ends, back in the normal state, and `Acts` says what it did. What the items done have done (`Effected`) grows with that: one operation each, the
  modes by the last item about them, the pen and the saved pen by `PenAfter`, whose recursion a restore takes back to the last save. The three
  properties follow, the latter two since on an empty wire all items sent are done. The hypotheses (nothing unknown to v1, no echo in the middle of a sequence)
  are those of the properties.

`WifiProofs`, for any networks, stored list, callers, retries, drops and refusals:
* `WifiTypes`: types, and that no index leaves `s_networks` however finds, saves and items race (`InArray`). Saves may overlap here, so `s_count` may
  even be below zero for a while; what bounds every index is that each task's own `countRead` is a value that `s_count` once had. `InArray` says where each task's
  index must be; a step moves one task (`SavePlaces`, `SaveType`) and leaves the others' as they are (`OthersInArray`).
* `StatusTruthful` and `KeepsTrying`. The first needs `LinkTold`: the last event still unhandled tells how the link is, and if there
  is none, `is_connected` does. `StatusInv` adds the second property; each branch of the handler is a step of the proof.
* `SavedJoin`: a caller about to save was woken by an address (`AnswersEarned`), and an address comes only from a network that accepted
  its password (`AddressesEarned`), unless `stale`. `EditOK` says of each place in a save which entries are whole: in the middle of a shift one entry has the SSID of
  one network and the password of another, and at boot `Given` reads the first entry anew, from wherever the list then is. `SavedInv` is inductive as long as no two saves
  overlap (`SaveAlone`, `OthersAway`): a reader changes nothing of the list, and what it read, torn or not, must join before it is saved.
  The hypothesis, that the stored networks join, is stated with the theorem; without it nothing could be concluded of the entries loaded at boot.

`ServicesProofs`, with `WifiProofs`:
* `KeyboardHears`, `FileFollowsList`: the properties with their types are inductive once the histories `deaf` and `unwritten` tell what failed.
* `RowsTruthful`: `RowsInv` adds the types and that only the scan screen has rows; it holds for any number of scans.
* `OtaTypes`: no chunk leaves the image or the partition (`OtaInv`: an image sent fits). `ImageSizeSuffices` is arithmetic: how far the
  size computed is from that of the image, for every total.
* `NoLeaks`: `Holds(c, s)` is what a connect holds at call `s`; `LeakInv` says that every connect holds exactly that, and that
  libssh2's count is the number of its holders. `ExitComplete` checks each exit against it.
* `KeysArriveAsTyped`: the queue of the controller is read late, so a key's modifiers are those of a past moment. `KeysInv` has a sequence
  that foresees the modifiers held before each queued event; it starts at what the driver holds and ends at what is down. With it the keys still to be
  forwarded are a function of the queue (`Coming`), and typed = forwarded, then `Coming`.
* `RowsOpenTheirHosts`, `EditsOwnHost`: `OrderOnce` shows that the rows, group by group and then the rest, name each host that matches once, for every list
  and search: a host is in exactly one group, and each group has one first host that opens it. `HostsInv` adds that the rows are those of the
  list whenever the home screen is up, and what the edit screen does to its index.
* `ServicesTypeCorrect`: of the types only libssh2's count resists: two tasks in `libssh2_init()` may each write back what they read. `CountInv` bounds the
  count, and every value read, by the number of tasks that have passed the call; a close takes the task out of that number only with its count.
* `ServicesSafe`: the six side by side keep all this at once (`PartsStep`: a step of the whole is a step or a stutter of each).

`SequenceLemmas` has the induction the others need. The library's induction theorems take an operator as a parameter, which the provers cannot
instantiate; here a set of numbers takes its place (`FirstExists`, `UpTo`), which suffices for a recursive function on numbers, so for `FlattenSeq`
(`FlattenAppend`, `FlattenConcat` and the like: how long a concatenation is, what it holds, how often). `SelectSeq` is opaque to the prover: where a theorem is about a selection of a sequence's elements,
the model writes it as the concatenation of one sequence per element, of one element or none.

Only model-checked: liveness and the fairness it needs, which is out of the prover's reach (`DisconnectEndsSession`, `RemoteCloseEndsSession`,
`ConnectReturns`, `ScanningEnds`, `UpdateEnds`), and the disagreements below. Every safety property that a passing run checks is a theorem.

## Disagreements found

* `session_keys`: nothing empties `s_key_queue` when a session ends, so keys typed after the io task's last look go to
  the next session.
* `session_canvas`: a WiFi connect that succeeds late loads the home screen over a session; the canvas dies with the
  screen and `terminal_destroy()` deletes it again.
* `session_stall`: `session_ui.c:170` promises that Disconnect is noticed within a read timeout; a write to a peer that accepts
  nothing never looks.
* `parser_leak`: `terminal.h:22-24` against intermediate bytes, the terminator `ESC \` of a title, ESC P and ESC O.
* `parser_echo`: a key echoed while a sequence is half received ends the sequence and does not appear.
* `wifi_saved`: `wifi_manager.h` and `ui_wifi.c:96-98` say that saved credentials are those of a successful connect. An address of the
  previous network reported after the bits were cleared ends the wait, and the password typed is saved although the network never
  accepted it; the next click on that network uses it without asking.

Noticed without a statement of the repository against it, and listed as hazards where they are hard to test:
* emulator: a CSI B or C parameter near the largest int (ten digits fit into `csi_buf`) overflows in `terminal.c:420` or `424`; the clamp below checks the upper end
  only, so the row or column is negative and the next character is written outside the grid (`terminal.c:569`). `cursor` reaches it;
  what the program does then is undefined and not modelled;
  ESC 8 without ESC 7 sets black on black, and ESC 8 leaves a deferred wrap pending at the restored position; a trailing empty
  parameter (`ESC [ 1 ; m`) is lost; `terminal_create()` may return NULL unchecked;
  a `]`, `[`, `(`... echoed right after an ESC of the remote begins a sequence, after `]` one that swallows text up to the next BEL or ESC (`misled`).
* update: an image of another version than the pinned one is flashed, and the host restarted, at every boot; `UpdateEnds` excludes it by name. The size
  computed is 15 bytes short for an image without a digest whose headers and segments end at a multiple of 16: the coprocessor
  refuses it.
* transports: two SSH connects that enter `libssh2_init()` together lose a count, after which one close shuts libssh2 down under the
  other; a channel that cannot be closed at once is not freed, nor is its session.
* hosts: Save pressed again after a failed write adds the host twice.
* keyboard: an `EVENT_NUM` read or an `INT_STAT` write that fails leaves the line low and the keyboard silent until a reset; a `KEY_EVENT` read that
  fails, or a key hit just before the re-arm, is seen only with the next key.
* WiFi: saves by two tasks at once can lose, double or tear entries of the list (`overlapped`), although never outside its array; a click during a save
  can find a password of another network; a join that the driver refuses to start reports no event, so neither the handler nor the timer tries again; an SSID of 32 bytes loses its last one (`wifi_manager.c:163`).

## What is not modelled

* Failing `send()` calls: `send_key()` ignores the result, and the next read reports the connection
  closed. Failing allocations.
* Pixels, fonts, layout, colours as drawn; in `Screen`, what a row holds.
* Parameters beyond an int, undefined in C: in `Parser` they wrap and no property speaks of them; `Cursor` takes any int, and a negative
  one counts as none, as in `term_dispatch_csi()`. What follows a write outside the grid.
* Characters of an SSID or a password: each string is one value, read or written at once; a copy that meets another inside a string is left out. That
  `insert_count` loads `s_count` once (`wifi_creds.c:153`): a compiler that loaded it twice could use a value the test has not seen. The text of the
  file, which nobody reads before the next boot.
* `libssh2_exit()` in two steps: an exit that meets an init or another exit may lose a decrement or tear down the crypto library in use.
* `Parser`, `Cursor` and `Screen` are not yet composed: a sequence's effect on pen, cursor and rows is in three modules.
* LVGL's own event queue, and which character a key gives under which modifiers (tables).
* The bring-up of driver, bus and file systems: it is in the initial states. A failing start of the display ends the program; a
  keyboard that is not there starts no task.
* Addresses, users, authentication and keepalive of a host: data like its name. What the edit screen keeps after it is left (`s_edit` is not
  reset, and not read before it is set again).
* A reset cannot be observed inside a write: LittleFS is taken at its word.
* The board support package (vendored), `usb_serial_spike.c` and `ssh_spike.c` (bring-up experiments that feed no session; the second
  repeats `ssh_session.c` in one straight line), `app_main.c` beyond the order in which it starts the others.

## Plan

Done: Session, Cursor, Screen with History, Parser, Telnet, Wifi and the services, with proofs.

1. `Terminal`: Parser driving Cursor and Screen, so that each byte's effect is one step; its run takes the place of `cursor`.
