------------------------------ MODULE WifiProofs ------------------------------
(***************************************************************************)
(* Theorems about Wifi, for any networks, passwords and callers, any        *)
(* number of drops and refusals, and any MAX_RETRY.                         *)
(***************************************************************************)
EXTENDS Wifi, SequenceLemmas

USE WifiKeysAssumption, WifiStoredAssumption, WifiBoundsAssumption
USE DEF credVars, listVars, callVars, flagVars, driverVars

-----------------------------------------------------------------------------
(* Three kinds of steps: of the driver and its handlers, of the connects, and   *)
(* those that only read or change the list of networks.                         *)

LinkStep == JoinSucceeds \/ JoinFails \/ LinkDrops \/ Handler \/ TimerFires

ConnectStep(c) ==
    \/ ConnectLock(c) \/ ConnectClear(c) \/ ConnectStart(c)
    \/ ConnectRefused(c) \/ ConnectWoken(c) \/ ConnectEnds(c)

ClickStep(c) == (\E n \in Networks : Click(c, n)) \/ (\E p \in Passwords : ClickTypes(c, p))

ReadStep(c) == ClickFinds(c) \/ ClickTakes(c) \/ ConnectFetch(c)

ListStep ==
    \/ \E c \in Clicks : ClickStep(c)
    \/ ConnectSaved
    \/ \E c \in Callers : ReadStep(c) \/ Save(c)

LEMMA StepKinds ==
    [WifiNext]_wifiVars =>
        LinkStep \/ ListStep \/ (\E c \in Callers : ConnectStep(c)) \/ UNCHANGED wifiVars
BY Zenon DEF WifiNext, Caller, LinkStep, ListStep, ConnectStep, ClickStep, ReadStep

\* The driver and its handlers leave the callers and the list alone.
LEMMA LinkStepKeeps == LinkStep => UNCHANGED <<credVars, callVars>>
BY DEF LinkStep, JoinSucceeds, JoinFails, LinkDrops, Handler, HandleRetry, HandleFail,
       HandleDrop, HandleGotIp, TimerFires

\* Whoever is at the list leaves the driver, its handlers and the mutex alone.
LEMMA ListStepKeeps ==
    ListStep => UNCHANGED <<opMutex, flagVars, driverVars, config, drops, stale>>
<1>1. ASSUME NEW c \in Clicks, ClickStep(c)
      PROVE  UNCHANGED <<opMutex, flagVars, driverVars, config, drops, stale>>
  BY <1>1 DEF ClickStep, Click, ClickTypes
<1>2. ASSUME ConnectSaved
      PROVE  UNCHANGED <<opMutex, flagVars, driverVars, config, drops, stale>>
  BY <1>2 DEF ConnectSaved
<1>3. ASSUME NEW c \in Callers, ReadStep(c) \/ Save(c)
      PROVE  UNCHANGED <<opMutex, flagVars, driverVars, config, drops, stale>>
  BY <1>3 DEF ReadStep, ClickFinds, ClickTakes, ConnectFetch, Save, SaveSsid, SavePassword,
              SaveFinds, CloseGap, ClosePassword, CountLess, MakeRoom, OpenGap, OpenPassword,
              CountMore, ItemSsid, ItemPassword, Persist
<1>. QED
  BY <1>1, <1>2, <1>3 DEF ListStep

\* A structure after one of its strings is copied.
LEMMA Copied ==
    ASSUME NEW to \in Credentials, NEW from \in Credentials
    PROVE  /\ CopySsid(to, from) \in Credentials /\ CopyPassword(to, from) \in Credentials
           /\ CopySsid(to, from).ssid = from.ssid /\ CopySsid(to, from).password = to.password
           /\ CopyPassword(to, from).ssid = to.ssid
           /\ CopyPassword(to, from).password = from.password
BY DEF Credentials, CopySsid, CopyPassword

LEMMA NoneType == None \in Credentials
BY DEF None, Credentials

-----------------------------------------------------------------------------
(* Type correctness. *)

\* The file may hold more networks than there is room for.
LEMMA LoadedType ==
    /\ Loaded \in [1..MaxNetworks -> Credentials]
    /\ LoadedCount \in 0..MaxNetworks
    /\ \A i \in 1..LoadedCount : i \in DOMAIN Stored /\ Loaded[i] = Stored[i]
<1>1. LoadedCount \in 0..MaxNetworks /\ LoadedCount <= Len(Stored)
  BY DEF LoadedCount
<1>2. \A i \in 1..Len(Stored) : Stored[i] \in Credentials
  <2>1. [ssid : Networks, password : Passwords] \subseteq Credentials
    BY DEF Credentials
  <2>. QED
    BY <2>1, ElementOfSeq
<1>. QED
  BY <1>1, <1>2, NoneType DEF Loaded

LEMMA ListTypeInit == WifiInit => ListTypeOK
<1>. SUFFICES ASSUME WifiInit PROVE ListTypeOK
  OBVIOUS
<1>1. networks \in [1..MaxNetworks -> Credentials] /\ netCount \in Int /\ netCount <= MaxNetworks
  BY LoadedType DEF WifiInit
<1>2. /\ caller \in [Callers -> Connecting \cup Editing]
      /\ \A c \in Callers : caller[c] = "idle"
  BY DEF WifiInit, Connecting
<1>3. want \in [Callers -> Credentials] /\ newNet \in [Callers -> Credentials]
  BY NoneType DEF WifiInit
<1>4. /\ slot \in [Callers -> Int] /\ countRead \in [Callers -> Int]
      /\ \A c \in Callers : slot[c] = 1 /\ countRead[c] = 0
  BY DEF WifiInit
<1>5. \A c \in Callers : InArray(c)
  BY <1>2, <1>4 DEF InArray
<1>6. overlapped \in BOOLEAN
  BY Zenon DEF WifiInit
<1>. QED
  BY <1>1, <1>2, <1>3, <1>4, <1>5, <1>6 DEF ListTypeOK

\* What a step of one caller, from one place to another, leaves of the others.
LEMMA AtStep ==
    ASSUME ListTypeOK, NEW c \in Callers, NEW from, NEW to \in Connecting \cup Editing,
           At(c, from, to)
    PROVE  /\ caller[c] = from /\ caller'[c] = to
           /\ caller' \in [Callers -> Connecting \cup Editing]
           /\ \A d \in Callers \ {c} : caller'[d] = caller[d]
BY DEF ListTypeOK, At

\* A caller whose place, loop and count are as they were stays in the array.
LEMMA OthersInArray ==
    ASSUME ListTypeOK, NEW c \in Callers, InArray(c)',
           \A d \in Callers \ {c} : /\ caller'[d] = caller[d] /\ slot'[d] = slot[d]
                                    /\ countRead'[d] = countRead[d]
    PROVE  \A d \in Callers : InArray(d)'
<1>. SUFFICES ASSUME NEW d \in Callers, d # c PROVE InArray(d)'
  OBVIOUS
<1>. QED
  BY DEF ListTypeOK, InArray

\* What InArray asks of a loop at i with the count n, at a place.
MayBe(place, i, n) ==
    /\ i <= MaxNetworks + 1 /\ n <= MaxNetworks
    /\ place \in {"seek", "find", "item"} => i >= 1
    /\ place \in {"take", "close", "text"} => i \in 1..MaxNetworks
    /\ place = "closing" => i \in 1..(MaxNetworks - 1)
    /\ place \in {"open", "opening"} => i <= MaxNetworks

PlacesTyped ==
    /\ caller \in [Callers -> Connecting \cup Editing]
    /\ slot \in [Callers -> Int] /\ countRead \in [Callers -> Int]
    /\ \A c \in Callers : InArray(c)

\* A step that puts c at a place, its loop at i and its count at n.
Moves(c, from, to, i, n) ==
    /\ At(c, from, to) /\ to \in Connecting \cup Editing
    /\ i \in Int /\ n \in Int /\ MayBe(to, i, n)
    /\ slot' = [slot EXCEPT ![c] = i] /\ countRead' = [countRead EXCEPT ![c] = n]

LEMMA PlaceType ==
    ASSUME ListTypeOK, NEW c \in Callers, NEW from, NEW to, NEW i, NEW n, Moves(c, from, to, i, n)
    PROVE  PlacesTyped'
<1>1. /\ slot' \in [Callers -> Int] /\ countRead' \in [Callers -> Int]
      /\ slot'[c] = i /\ countRead'[c] = n
      /\ \A d \in Callers \ {c} : slot'[d] = slot[d] /\ countRead'[d] = countRead[d]
  BY DEF ListTypeOK, Moves
<1>2. /\ caller' \in [Callers -> Connecting \cup Editing] /\ caller'[c] = to
      /\ \A d \in Callers \ {c} : caller'[d] = caller[d]
  BY AtStep DEF Moves
<1>3. InArray(c)'
  BY <1>1, <1>2 DEF InArray, MayBe, Moves
<1>. QED
  BY <1>1, <1>2, <1>3, OthersInArray DEF PlacesTyped

\* Writing back what is there changes nothing.
LEMMA SameExcept ==
    ASSUME NEW S, NEW T, NEW f \in [S -> T], NEW x \in S
    PROVE  f = [f EXCEPT ![x] = f[x]]
OBVIOUS

\* A round of the loop for an SSID stays in the array, found or not.
LEMMA RoundType ==
    ASSUME ListTypeOK, NEW c \in Callers, NEW ssid,
           NEW from \in {"seek", "find"},
           NEW found \in {"take", "close"}, NEW missing \in {"type", "room"},
           FindRound(c, ssid, from, found, missing)
    PROVE  PlacesTyped'
<1>. PICK n \in {countRead[c], netCount} :
        /\ ReadsCount(c, n)
        /\ \/ slot[c] > n /\ At(c, from, missing) /\ UNCHANGED slot
           \/ slot[c] <= n /\ At(c, from, found) /\ UNCHANGED slot
           \/ slot[c] <= n /\ UNCHANGED caller /\ slot' = [slot EXCEPT ![c] = slot[c] + 1]
  BY Zenon DEF FindRound
<1>1. /\ n \in Int /\ n <= MaxNetworks /\ caller[c] = from
      /\ slot[c] \in Int /\ slot[c] >= 1 /\ slot[c] <= MaxNetworks + 1
  BY DEF ListTypeOK, InArray, FindRound
<1>2. countRead' = [countRead EXCEPT ![c] = n]
  BY DEF ReadsCount
<1>3. slot = [slot EXCEPT ![c] = slot[c]] /\ caller = [caller EXCEPT ![c] = from]
  BY <1>1, SameExcept DEF ListTypeOK
<1>4. from \in Connecting \cup Editing /\ found \in Connecting \cup Editing
      /\ missing \in Connecting \cup Editing
  BY DEF Connecting, Editing
<1>5. CASE slot[c] > n /\ At(c, from, missing) /\ UNCHANGED slot
  <2>1. slot' = [slot EXCEPT ![c] = slot[c]]
    BY <1>3, <1>5
  <2>2. MayBe(missing, slot[c], n)
    BY <1>1 DEF MayBe
  <2>m. Moves(c, from, missing, slot[c], n)
    BY <1>1, <1>2, <1>4, <1>5, <2>1, <2>2 DEF Moves
  <2>. QED
    BY <2>m, PlaceType
<1>6. CASE slot[c] <= n /\ At(c, from, found) /\ UNCHANGED slot
  <2>1. slot' = [slot EXCEPT ![c] = slot[c]]
    BY <1>3, <1>6
  <2>2. MayBe(found, slot[c], n)
    BY <1>1, <1>6 DEF MayBe
  <2>m. Moves(c, from, found, slot[c], n)
    BY <1>1, <1>2, <1>4, <1>6, <2>1, <2>2 DEF Moves
  <2>. QED
    BY <2>m, PlaceType
<1>7. CASE slot[c] <= n /\ UNCHANGED caller /\ slot' = [slot EXCEPT ![c] = slot[c] + 1]
  <2>1. At(c, from, from)
    BY <1>1, <1>3, <1>7 DEF At
  <2>2. slot[c] + 1 \in Int /\ MayBe(from, slot[c] + 1, n)
    BY <1>1, <1>7 DEF MayBe
  <2>m. Moves(c, from, from, slot[c] + 1, n)
    BY <1>1, <1>2, <1>4, <1>7, <2>1, <2>2 DEF Moves
  <2>. QED
    BY <2>m, PlaceType
<1>. QED
  BY <1>5, <1>6, <1>7

\* The loop and the count of c are as they were.
LEMMA PlaceKept ==
    ASSUME ListTypeOK, NEW c \in Callers, NEW from, NEW to \in Connecting \cup Editing,
           At(c, from, to), UNCHANGED <<slot, countRead>>, MayBe(to, slot[c], countRead[c])
    PROVE  PlacesTyped'
<1>1. /\ slot' = [slot EXCEPT ![c] = slot[c]]
      /\ countRead' = [countRead EXCEPT ![c] = countRead[c]]
  BY SameExcept DEF ListTypeOK
<1>2. slot[c] \in Int /\ countRead[c] \in Int
  BY DEF ListTypeOK
<1>. QED
  BY <1>1, <1>2, PlaceType DEF Moves

\* What a save does to the places and the indices, step by step.
LEMMA SavePlaces ==
    ASSUME ListTypeOK, NEW c \in Callers, Save(c)
    PROVE  PlacesTyped'
<1>t. /\ slot[c] \in Int /\ countRead[c] \in Int /\ netCount \in Int /\ InArray(c)
      /\ netCount <= MaxNetworks /\ MaxNetworks \in Nat \ {0}
      /\ countRead[c] <= MaxNetworks /\ slot[c] <= MaxNetworks + 1
  BY DEF ListTypeOK, InArray
<1>p. {"fill", "find", "close", "closing", "less", "room", "open", "opening", "count",
       "item", "text", "done"} \subseteq Connecting \cup Editing
  BY DEF Connecting, Editing
<1>1. CASE SaveSsid(c)
  <2>1. MayBe("fill", slot[c], countRead[c])
    BY <1>t DEF MayBe
  <2>. QED
    BY <1>1, <1>p, <2>1, PlaceKept DEF SaveSsid
<1>2. CASE SavePassword(c)
  <2>1. MayBe("find", 1, netCount)
    BY <1>t DEF MayBe
  <2>m. Moves(c, "fill", "find", 1, netCount)
    BY <1>2, <1>p, <1>t, <2>1 DEF Moves, SavePassword
  <2>. QED
    BY <2>m, PlaceType
<1>3. CASE SaveFinds(c)
  BY <1>3, RoundType DEF SaveFinds
<1>4. CASE CloseGap(c)
  <2>. PICK n \in {countRead[c], netCount} :
          /\ ReadsCount(c, n)
          /\ (slot[c] < n /\ At(c, "close", "closing")) \/ At(c, "close", "less")
    BY <1>4, Zenon DEF CloseGap
  <2>1. /\ n \in Int /\ n <= MaxNetworks /\ slot[c] \in 1..MaxNetworks
        /\ countRead' = [countRead EXCEPT ![c] = n] /\ slot' = [slot EXCEPT ![c] = slot[c]]
    BY <1>4, <1>t, SameExcept DEF CloseGap, ReadsCount, ListTypeOK, InArray
  <2>2. CASE slot[c] < n /\ At(c, "close", "closing")
    <3>1. MayBe("closing", slot[c], n)
      BY <1>t, <2>1, <2>2 DEF MayBe
    <3>m. Moves(c, "close", "closing", slot[c], n)
      BY <1>p, <1>t, <2>1, <2>2, <3>1 DEF Moves
    <3>. QED
      BY <3>m, PlaceType
  <2>3. CASE At(c, "close", "less")
    <3>1. MayBe("less", slot[c], n)
      BY <1>t, <2>1 DEF MayBe
    <3>m. Moves(c, "close", "less", slot[c], n)
      BY <1>p, <1>t, <2>1, <2>3, <3>1 DEF Moves
    <3>. QED
      BY <3>m, PlaceType
  <2>. QED
    BY <2>2, <2>3
<1>5. CASE ClosePassword(c)
  <2>1. /\ countRead' = [countRead EXCEPT ![c] = countRead[c]] /\ slot[c] \in 1..(MaxNetworks - 1)
        /\ At(c, "closing", "close") /\ slot' = [slot EXCEPT ![c] = slot[c] + 1]
    BY <1>5, <1>t, SameExcept DEF ClosePassword, At, ListTypeOK, InArray
  <2>2. slot[c] + 1 \in Int /\ MayBe("close", slot[c] + 1, countRead[c])
    BY <1>t, <2>1 DEF MayBe
  <2>m. Moves(c, "closing", "close", slot[c] + 1, countRead[c])
    BY <1>p, <1>t, <2>1, <2>2 DEF Moves
  <2>. QED
    BY <2>m, PlaceType
<1>6. CASE CountLess(c)
  <2>1. /\ countRead' = [countRead EXCEPT ![c] = countRead[c] - 1] /\ At(c, "less", "room")
        /\ slot' = [slot EXCEPT ![c] = slot[c]]
    BY <1>6, SameExcept DEF CountLess, ListTypeOK
  <2>2. countRead[c] - 1 \in Int /\ MayBe("room", slot[c], countRead[c] - 1)
    BY <1>t DEF MayBe
  <2>m. Moves(c, "less", "room", slot[c], countRead[c] - 1)
    BY <1>p, <1>t, <2>1, <2>2 DEF Moves
  <2>. QED
    BY <2>m, PlaceType
<1>7. CASE MakeRoom(c)
  <2>. PICK n \in {countRead[c], netCount} :
          /\ slot' = [slot EXCEPT ![c] = (IF n < MaxNetworks THEN n ELSE MaxNetworks - 1) + 1]
          /\ countRead' =
                [countRead EXCEPT ![c] = (IF n < MaxNetworks THEN n ELSE MaxNetworks - 1) + 1]
    BY <1>7, Zenon DEF MakeRoom
  <2>. DEFINE more == (IF n < MaxNetworks THEN n ELSE MaxNetworks - 1) + 1
  <2>1. more \in Int /\ more <= MaxNetworks
    BY <1>t
  <2>2. /\ At(c, "room", "open") /\ slot' = [slot EXCEPT ![c] = more]
        /\ countRead' = [countRead EXCEPT ![c] = more]
    BY <1>7 DEF MakeRoom
  <2>. HIDE DEF more
  <2>3. MayBe("open", more, more)
    BY <1>t, <2>1 DEF MayBe
  <2>m. Moves(c, "room", "open", more, more)
    BY <1>p, <1>t, <2>1, <2>2, <2>3 DEF Moves
  <2>. QED
    BY <2>m, PlaceType
<1>8. CASE OpenGap(c)
  <2>1. caller[c] = "open" /\ At(c, "open", "opening") /\ UNCHANGED <<slot, countRead>>
    BY <1>8 DEF OpenGap, At
  <2>2. MayBe("opening", slot[c], countRead[c])
    BY <1>t, <2>1 DEF InArray, MayBe
  <2>. QED
    BY <1>p, <2>1, <2>2, PlaceKept
<1>9. CASE OpenPassword(c)
  <2>. DEFINE to == IF slot[c] > 1 THEN "open" ELSE "count"
  <2>1. /\ countRead' = [countRead EXCEPT ![c] = countRead[c]] /\ At(c, "opening", to)
        /\ slot' = [slot EXCEPT ![c] = slot[c] - 1]
    BY <1>9, SameExcept DEF OpenPassword, ListTypeOK
  <2>2. caller[c] = "opening" /\ to \in {"open", "count"} /\ slot[c] - 1 \in Int
    BY <1>t, <1>9 DEF OpenPassword, At
  <2>. HIDE DEF to
  <2>3. MayBe(to, slot[c] - 1, countRead[c])
    BY <1>t, <2>2 DEF InArray, MayBe
  <2>m. Moves(c, "opening", to, slot[c] - 1, countRead[c])
    BY <1>p, <1>t, <2>1, <2>2, <2>3 DEF Moves
  <2>. QED
    BY <2>m, PlaceType
<1>10. CASE CountMore(c)
  <2>1. MayBe("item", 1, 0)
    BY <1>t DEF MayBe
  <2>m. Moves(c, "count", "item", 1, 0)
    BY <1>10, <1>p, <2>1 DEF Moves, CountMore
  <2>. QED
    BY <2>m, PlaceType
<1>11. CASE ItemSsid(c)
  <2>1. /\ slot[c] <= netCount /\ caller[c] = "item" /\ At(c, "item", "text")
        /\ UNCHANGED <<slot, countRead>>
    BY <1>11 DEF ItemSsid, At
  <2>2. MayBe("text", slot[c], countRead[c])
    BY <1>t, <2>1 DEF InArray, MayBe
  <2>. QED
    BY <1>p, <2>1, <2>2, PlaceKept
<1>12. CASE ItemPassword(c)
  <2>1. /\ countRead' = [countRead EXCEPT ![c] = countRead[c]] /\ slot[c] \in 1..MaxNetworks
        /\ At(c, "text", "item") /\ slot' = [slot EXCEPT ![c] = slot[c] + 1]
    BY <1>12, <1>t, SameExcept DEF ItemPassword, At, ListTypeOK, InArray
  <2>2. slot[c] + 1 \in Int /\ MayBe("item", slot[c] + 1, countRead[c])
    BY <1>t, <2>1 DEF MayBe
  <2>m. Moves(c, "text", "item", slot[c] + 1, countRead[c])
    BY <1>p, <1>t, <2>1, <2>2 DEF Moves
  <2>. QED
    BY <2>m, PlaceType
<1>13. CASE Persist(c)
  <2>1. countRead' = [countRead EXCEPT ![c] = countRead[c]]
    BY <1>13, SameExcept DEF Persist, ListTypeOK
  <2>2. MayBe("done", 1, countRead[c])
    BY <1>t DEF MayBe
  <2>3. At(c, "item", "done") /\ slot' = [slot EXCEPT ![c] = 1]
    BY <1>13 DEF Persist
  <2>m. Moves(c, "item", "done", 1, countRead[c])
    BY <1>p, <1>t, <2>1, <2>2, <2>3 DEF Moves
  <2>. QED
    BY <2>m, PlaceType
<1>. QED
  BY <1>1, <1>2, <1>3, <1>4, <1>5, <1>6, <1>7, <1>8, <1>9, <1>10, <1>11, <1>12, <1>13 DEF Save

\* What a save does to the list and to its own structures.
LEMMA SaveType ==
    ASSUME ListTypeOK, NEW c \in Callers, Save(c)
    PROVE  ListTypeOK'
<1>t. /\ networks \in [1..MaxNetworks -> Credentials] /\ newNet \in [Callers -> Credentials]
      /\ want \in [Callers -> Credentials] /\ slot[c] \in Int /\ InArray(c)
      /\ MaxNetworks \in Nat \ {0} /\ None \in Credentials
  BY NoneType DEF ListTypeOK
<1>g. Given(c) \in Credentials
  BY <1>t DEF Given
<1>p. PlacesTyped'
  BY SavePlaces
<1>1. CASE SaveSsid(c) \/ SavePassword(c)
  <2>1. newNet' \in [Callers -> Credentials]
    BY <1>1, <1>g, <1>t, Copied DEF SaveSsid, SavePassword
  <2>2. overlapped' \in BOOLEAN
    BY <1>1, Zenon DEF SaveSsid, SavePassword, ListTypeOK
  <2>. QED
    BY <1>1, <1>p, <2>1, <2>2 DEF SaveSsid, SavePassword, ListTypeOK, PlacesTyped
<1>2. CASE SaveFinds(c) \/ MakeRoom(c)
  BY <1>2, <1>p DEF SaveFinds, MakeRoom, ListTypeOK, PlacesTyped
<1>3. CASE CloseGap(c) \/ ClosePassword(c)
  <2>1. networks' \in [1..MaxNetworks -> Credentials]
    <3>1. CASE CloseGap(c) /\ networks' = networks
      BY <1>t, <3>1
    <3>2. CASE CloseGap(c) /\ networks' # networks
      <4>1. PICK n \in {countRead[c], netCount} :
                /\ slot[c] < n
                /\ networks' = [networks EXCEPT ![slot[c]] =
                                   CopySsid(networks[slot[c]], networks[slot[c] + 1])]
        BY <3>2 DEF CloseGap
      <4>2. slot[c] \in 1..MaxNetworks /\ slot[c] + 1 \in 1..MaxNetworks
        BY <1>t, <3>2, <4>1 DEF CloseGap, ListTypeOK, InArray
      <4>. QED
        BY <1>t, <4>1, <4>2, Copied
    <3>3. CASE ClosePassword(c)
      <4>1. slot[c] \in 1..MaxNetworks /\ slot[c] + 1 \in 1..MaxNetworks
        BY <1>t, <3>3 DEF ClosePassword, At, InArray
      <4>. QED
        BY <1>t, <3>3, <4>1, Copied DEF ClosePassword
    <3>. QED
      BY <1>3, <3>1, <3>2, <3>3
  <2>. QED
    BY <1>3, <1>p, <2>1 DEF CloseGap, ClosePassword, ListTypeOK, PlacesTyped
<1>4. CASE CountLess(c) \/ CountMore(c)
  <2>1. netCount' \in Int /\ netCount' <= MaxNetworks
    BY <1>4 DEF CountLess, CountMore, ListTypeOK, InArray
  <2>2. newNet' \in [Callers -> Credentials] /\ want' \in [Callers -> Credentials]
    BY <1>4, <1>t DEF CountLess, CountMore
  <2>. QED
    BY <1>4, <1>p, <2>1, <2>2 DEF CountLess, CountMore, ListTypeOK, PlacesTyped
<1>5. CASE OpenGap(c) \/ OpenPassword(c)
  <2>1. slot[c] <= MaxNetworks
    BY <1>5, <1>t DEF OpenGap, OpenPassword, At, InArray
  <2>2. Into(c) \in 1..MaxNetworks /\ From(c) \in Credentials
    BY <1>t, <2>1 DEF Into, From
  <2>3. networks' \in [1..MaxNetworks -> Credentials]
    BY <1>5, <1>t, <2>2, Copied DEF OpenGap, OpenPassword
  <2>. QED
    BY <1>5, <1>p, <2>3 DEF OpenGap, OpenPassword, ListTypeOK, PlacesTyped
<1>6. CASE ItemSsid(c) \/ ItemPassword(c)
  <2>1. newNet' \in [Callers -> Credentials]
    <3>1. CASE ItemSsid(c)
      <4>1. slot[c] \in 1..MaxNetworks
        BY <1>t, <3>1 DEF ItemSsid, At, ListTypeOK, InArray
      <4>. QED
        BY <1>t, <3>1, <4>1, Copied DEF ItemSsid
    <3>2. CASE ItemPassword(c)
      BY <1>t, <3>2 DEF ItemPassword
    <3>. QED
      BY <1>6, <3>1, <3>2
  <2>. QED
    BY <1>6, <1>p, <2>1 DEF ItemSsid, ItemPassword, ListTypeOK, PlacesTyped
<1>7. CASE Persist(c)
  BY <1>7, <1>p DEF Persist, ListTypeOK, PlacesTyped
<1>. QED
  BY <1>1, <1>2, <1>3, <1>4, <1>5, <1>6, <1>7 DEF Save

\* The readers and the clicks change what is wanted.
LEMMA ReadType ==
    ASSUME ListTypeOK, NEW c \in Callers, ReadStep(c)
    PROVE  ListTypeOK'
<1>t. /\ networks \in [1..MaxNetworks -> Credentials] /\ want \in [Callers -> Credentials]
      /\ MaxNetworks \in Nat \ {0} /\ "lock" \in Connecting /\ "clear" \in Connecting
  BY DEF ListTypeOK, Connecting
<1>1. CASE ClickFinds(c)
  <2>1. PlacesTyped'
    BY <1>1, RoundType DEF ClickFinds
  <2>. QED
    BY <1>1, <2>1 DEF ClickFinds, ListTypeOK, PlacesTyped
<1>2. CASE ClickTakes(c)
  <2>1. PlacesTyped'
    <3>1. MayBe("lock", 1, 0)
      BY <1>t DEF MayBe
    <3>2. Moves(c, "take", "lock", 1, 0)
      BY <1>2, <1>t, <3>1 DEF ClickTakes, Moves
    <3>. QED
      BY <3>2, PlaceType
  <2>2. slot[c] \in 1..MaxNetworks
    BY <1>2 DEF ClickTakes, At, ListTypeOK, InArray
  <2>3. want' \in [Callers -> Credentials]
    BY <1>2, <1>t, <2>2, Copied DEF ClickTakes
  <2>. QED
    BY <1>2, <2>1, <2>3 DEF ClickTakes, ListTypeOK, PlacesTyped
<1>3. CASE ConnectFetch(c)
  <2>1. PlacesTyped'
    <3>1. MayBe("clear", slot[c], countRead[c])
      BY DEF MayBe, ListTypeOK, InArray
    <3>. QED
      BY <1>3, <1>t, <3>1, PlaceKept DEF ConnectFetch
  <2>2. want' \in [Callers -> Credentials]
    BY <1>3, <1>t, Copied DEF ConnectFetch
  <2>. QED
    BY <1>3, <2>1, <2>2 DEF ConnectFetch, ListTypeOK, PlacesTyped
<1>. QED
  BY <1>1, <1>2, <1>3 DEF ReadStep

LEMMA ClickType ==
    ASSUME ListTypeOK, NEW c \in Callers, ClickStep(c)
    PROVE  ListTypeOK'
<1>t. want \in [Callers -> Credentials] /\ {"lock", "seek"} \subseteq Connecting
  BY DEF ListTypeOK, Connecting
<1>1. ASSUME NEW n \in Networks, Click(c, n) PROVE ListTypeOK'
  <2>. DEFINE to == IF KeyOf[n] = NoPassword THEN "lock" ELSE "seek"
              k == IF KeyOf[n] = NoPassword THEN 0 ELSE netCount
  <2>1. to \in {"lock", "seek"} /\ k \in Int /\ k <= MaxNetworks
    BY DEF ListTypeOK
  <2>2. /\ At(c, "idle", to) /\ slot' = [slot EXCEPT ![c] = 1]
        /\ countRead' = [countRead EXCEPT ![c] = k]
    BY <1>1 DEF Click
  <2>. HIDE DEF to, k
  <2>3. PlacesTyped'
    <3>1. MayBe(to, 1, k)
      BY <2>1 DEF MayBe
    <3>2. Moves(c, "idle", to, 1, k)
      BY <1>t, <2>1, <2>2, <3>1 DEF Moves
    <3>. QED
      BY <3>2, PlaceType
  <2>4. want' \in [Callers -> Credentials]
    BY <1>1, <1>t DEF Click, Credentials
  <2>. QED
    BY <1>1, <2>3, <2>4 DEF Click, ListTypeOK, PlacesTyped
<1>2. ASSUME NEW p \in Passwords, ClickTypes(c, p) PROVE ListTypeOK'
  <2>1. PlacesTyped'
    <3>1. MayBe("lock", 1, 0)
      BY DEF MayBe
    <3>2. Moves(c, "type", "lock", 1, 0)
      BY <1>2, <1>t, <3>1 DEF ClickTypes, Moves
    <3>. QED
      BY <3>2, PlaceType
  <2>2. want' \in [Callers -> Credentials]
    BY <1>2, <1>t DEF ClickTypes, Credentials
  <2>. QED
    BY <1>2, <2>1, <2>2 DEF ClickTypes, ListTypeOK, PlacesTyped
<1>. QED
  BY <1>1, <1>2 DEF ClickStep

LEMMA ConnectType ==
    ASSUME ListTypeOK, NEW c \in Callers, ConnectStep(c)
    PROVE  ListTypeOK'
<1>t. /\ networks \in [1..MaxNetworks -> Credentials] /\ want \in [Callers -> Credentials]
      /\ MaxNetworks \in Nat \ {0} /\ None \in Credentials
      /\ {"fetch", "clear", "driver", "wait", "woken", "failed", "save", "done"}
            \subseteq Connecting
  BY NoneType DEF ListTypeOK, Connecting
<1>1. UNCHANGED credVars
  BY DEF ConnectStep, ConnectLock, ConnectClear, ConnectStart, ConnectRefused, ConnectWoken,
         ConnectEnds
<1>2. want' \in [Callers -> Credentials]
  BY <1>t, Copied DEF ConnectStep, ConnectLock, ConnectClear, ConnectStart, ConnectRefused,
                      ConnectWoken, ConnectEnds
<1>. DEFINE places == {"fetch", "clear", "driver", "wait", "woken", "failed", "save", "done"}
<1>3. PICK from \in Connecting \cup {"lock"}, to \in places : At(c, from, to)
  BY DEF ConnectStep, ConnectLock, ConnectClear, ConnectStart, ConnectRefused, ConnectWoken,
         ConnectEnds, At, Connecting
<1>4. PlacesTyped'
  <2>1. MayBe(to, slot[c], countRead[c])
    BY <1>3 DEF MayBe, ListTypeOK, InArray
  <2>. QED
    BY <1>1, <1>t, <1>3, <2>1, PlaceKept
<1>. QED
  BY <1>1, <1>2, <1>4 DEF ListTypeOK, PlacesTyped

\* Every step keeps the types of the list, the callers and their loops.
LEMMA ListTypeStep == ListTypeOK /\ [WifiNext]_wifiVars => ListTypeOK'
<1>. SUFFICES ASSUME ListTypeOK, [WifiNext]_wifiVars PROVE ListTypeOK'
  OBVIOUS
<1>1. CASE UNCHANGED <<credVars, callVars>>
  BY <1>1 DEF ListTypeOK, InArray
<1>2. CASE LinkStep \/ UNCHANGED wifiVars
  BY <1>1, <1>2, LinkStepKeeps DEF wifiVars
<1>3. CASE ConnectSaved
  <2>1. PlacesTyped'
    <3>. DEFINE to == IF netCount < 1 THEN "done" ELSE "lock"
    <3>1. to \in Connecting /\ to \in {"done", "lock"} /\ Boot \in Callers
      BY DEF Connecting, Callers
    <3>2. At(Boot, "idle", to) /\ UNCHANGED <<slot, countRead>>
      BY <1>3 DEF ConnectSaved
    <3>. HIDE DEF to
    <3>3. MayBe(to, slot[Boot], countRead[Boot])
      BY <3>1 DEF MayBe, ListTypeOK, InArray
    <3>. QED
      BY <3>1, <3>2, <3>3, PlaceKept
  <2>. QED
    BY <1>3, <2>1 DEF ConnectSaved, ListTypeOK, PlacesTyped
<1>4. CASE ListStep
  BY <1>3, <1>4, ClickType, ReadType, SaveType DEF ListStep, Callers
<1>5. CASE \E c \in Callers : ConnectStep(c)
  BY <1>5, ConnectType
<1>. QED
  BY <1>2, <1>4, <1>5, StepKinds

LEMMA LinkTypeInit == WifiInit => LinkTypeOK
<1>. SUFFICES ASSUME WifiInit PROVE LinkTypeOK
  OBVIOUS
<1>1. /\ opMutex \in Callers \cup {"free"} /\ config \in Credentials /\ ap \in Credentials
      /\ wifiEvents \in Seq(EventType)
  BY NoneType DEF WifiInit
<1>2. /\ bits \subseteq {"connected", "fail"} /\ retryNum \in 0..MaxRetry
      /\ link \in {"down", "joining", "up"}
      /\ drops \in 0..MaxDrops /\ refusals \in 0..MaxRefusals
      /\ quit \in {"no", "refused", "gave_up"}
  BY DEF WifiInit
<1>3. /\ connecting \in BOOLEAN /\ isConnected \in BOOLEAN /\ reconnectTimer \in BOOLEAN
      /\ stale \in BOOLEAN
  BY Zenon DEF WifiInit
<1>. QED
  BY <1>1, <1>2, <1>3 DEF LinkTypeOK

LEMMA EventTypes ==
    ASSUME NEW kind \in {"disconnected", "got_ip"}, NEW cfg \in Credentials
    PROVE  /\ Event(kind, cfg) \in EventType
           /\ Event(kind, cfg).kind = kind /\ Event(kind, cfg).on = cfg
BY DEF Event, EventType

\* What a call to esp_wifi_connect() does to the driver, accepted or refused.
LEMMA TryType ==
    ASSUME LinkTypeOK, NEW cfg \in Credentials, NEW pending \in Seq(EventType),
           Accepted(cfg, pending) \/ Refused(pending)
    PROVE  /\ link' \in {"down", "joining", "up"} /\ ap' \in Credentials
           /\ wifiEvents' \in Seq(EventType)
           /\ refusals' \in 0..MaxRefusals /\ quit' \in {"no", "refused", "gave_up"}
<1>1. CASE Accepted(cfg, pending)
  <2>1. Event("disconnected", None) \in EventType
    BY NoneType, EventTypes
  <2>2. wifiEvents' \in Seq(EventType)
    BY <1>1, <2>1, AppendProperties DEF Accepted
  <2>. QED
    BY <1>1, <2>2 DEF Accepted, LinkTypeOK
<1>2. CASE Refused(pending)
  BY <1>2 DEF Refused, LinkTypeOK
<1>. QED
  BY <1>1, <1>2

\* The driver, the handlers and the timer keep the types.
LEMMA LinkType == LinkTypeOK /\ LinkStep => LinkTypeOK'
<1>. SUFFICES ASSUME LinkTypeOK, LinkStep PROVE LinkTypeOK'
  OBVIOUS
<1>1. /\ wifiEvents \in Seq(EventType) /\ ap \in Credentials /\ config \in Credentials
      /\ (wifiEvents # <<>> => Tail(wifiEvents) \in Seq(EventType))
  BY HeadTailProperties DEF LinkTypeOK
<1>2. CASE JoinSucceeds \/ JoinFails \/ LinkDrops
  <2>1. wifiEvents' \in Seq(EventType)
    <3>1. Event("disconnected", None) \in EventType /\ Event("got_ip", ap) \in EventType
      BY <1>1, NoneType, EventTypes
    <3>2. \A e \in EventType : Append(wifiEvents, e) \in Seq(EventType)
      BY <1>1, AppendProperties
    <3>3. \E e \in EventType : wifiEvents' = Append(wifiEvents, e)
      BY <1>2, <3>1 DEF JoinSucceeds, JoinFails, LinkDrops
    <3>. QED
      BY <3>2, <3>3
  <2>2. CASE JoinSucceeds
    BY <2>1, <2>2 DEF LinkTypeOK, JoinSucceeds
  <2>3. CASE JoinFails
    BY <2>1, <2>3, NoneType DEF LinkTypeOK, JoinFails
  <2>4. CASE LinkDrops
    BY <2>1, <2>4, NoneType DEF LinkTypeOK, LinkDrops
  <2>. QED
    BY <1>2, <2>2, <2>3, <2>4
<1>3. CASE HandleRetry
  <2>1. wifiEvents # <<>> /\ (Accepted(config, Tail(wifiEvents)) \/ Refused(Tail(wifiEvents)))
    BY <1>3 DEF HandleRetry, NextEvent, TryToJoin
  <2>2. /\ link' \in {"down", "joining", "up"} /\ ap' \in Credentials
        /\ wifiEvents' \in Seq(EventType)
        /\ refusals' \in 0..MaxRefusals /\ quit' \in {"no", "refused", "gave_up"}
    BY <1>1, <2>1, TryType
  <2>3. retryNum' \in 0..MaxRetry
    BY <1>3 DEF HandleRetry, LinkTypeOK
  <2>4. isConnected' \in BOOLEAN
    BY <1>3, Zenon DEF HandleRetry
  <2>. QED
    BY <1>3, <2>2, <2>3, <2>4 DEF HandleRetry, LinkTypeOK
<1>4. CASE HandleFail
  BY <1>1, <1>4 DEF HandleFail, NextEvent, LinkTypeOK
<1>5. CASE HandleDrop
  BY <1>1, <1>5 DEF HandleDrop, NextEvent, LinkTypeOK
<1>6. CASE HandleGotIp
  BY <1>1, <1>6 DEF HandleGotIp, NextEvent, LinkTypeOK
<1>7. CASE TimerFires
  <2>1. /\ link' \in {"down", "joining", "up"} /\ ap' \in Credentials
        /\ wifiEvents' \in Seq(EventType)
        /\ refusals' \in 0..MaxRefusals /\ quit' \in {"no", "refused", "gave_up"}
    BY <1>1, <1>7, TryType DEF TimerFires, TryToJoin
  <2>2. reconnectTimer' \in BOOLEAN
    BY <1>7, Zenon DEF TimerFires
  <2>. QED
    BY <1>7, <2>1, <2>2 DEF TimerFires, LinkTypeOK
<1>. QED
  BY <1>2, <1>3, <1>4, <1>5, <1>6, <1>7 DEF LinkStep, Handler

\* So does every step of wifi_manager_connect().
LEMMA ConnectLinkType ==
    ASSUME ListTypeOK, LinkTypeOK, NEW c \in Callers, ConnectStep(c)
    PROVE  LinkTypeOK'
<1>1. want[c] \in Credentials /\ wifiEvents \in Seq(EventType) /\ config \in Credentials
  BY DEF ListTypeOK, LinkTypeOK
<1>2. CASE ConnectLock(c)
  BY <1>2 DEF ConnectLock, LinkTypeOK
<1>3. CASE ConnectClear(c)
  <2>1. /\ connecting' \in BOOLEAN /\ bits' \subseteq {"connected", "fail"}
        /\ retryNum' \in 0..MaxRetry
    BY <1>3 DEF ConnectClear
  <2>. QED
    BY <1>3, <2>1 DEF ConnectClear, LinkTypeOK
<1>4. CASE ConnectStart(c)
  <2>1. /\ link' \in {"down", "joining", "up"} /\ ap' \in Credentials
        /\ wifiEvents' \in Seq(EventType)
        /\ refusals' \in 0..MaxRefusals /\ quit' \in {"no", "refused", "gave_up"}
    BY <1>1, <1>4, TryType DEF ConnectStart
  <2>. QED
    BY <1>1, <1>4, <2>1 DEF ConnectStart, LinkTypeOK
<1>5. CASE ConnectRefused(c)
  <2>1. config' \in Credentials /\ opMutex' \in Callers \cup {"free"}
    BY <1>1, <1>5 DEF ConnectRefused
  <2>2. /\ wifiEvents' = wifiEvents /\ refusals' \in 0..MaxRefusals
        /\ quit' \in {"no", "refused", "gave_up"} /\ UNCHANGED <<link, ap>>
    BY <1>5 DEF ConnectRefused, Refused, LinkTypeOK
  <2>3. connecting' \in BOOLEAN
    BY <1>5, Zenon DEF ConnectRefused
  <2>. QED
    BY <1>5, <2>1, <2>2, <2>3 DEF ConnectRefused, LinkTypeOK
<1>6. CASE ConnectWoken(c)
  BY <1>6 DEF ConnectWoken, LinkTypeOK
<1>7. CASE ConnectEnds(c)
  <2>1. connecting' \in BOOLEAN
    BY <1>7, Zenon DEF ConnectEnds
  <2>. QED
    BY <1>7, <2>1 DEF ConnectEnds, LinkTypeOK
<1>. QED
  BY <1>2, <1>3, <1>4, <1>5, <1>6, <1>7 DEF ConnectStep

LEMMA WifiTypeInit == WifiInit => WifiTypeOK
BY ListTypeInit, LinkTypeInit DEF WifiTypeOK

\* Every step keeps the types.
LEMMA WifiTypeStep == WifiTypeOK /\ [WifiNext]_wifiVars => WifiTypeOK'
<1>. SUFFICES ASSUME ListTypeOK, LinkTypeOK, [WifiNext]_wifiVars PROVE LinkTypeOK'
  BY ListTypeStep DEF WifiTypeOK
<1>1. CASE UNCHANGED <<opMutex, flagVars, driverVars, config, drops, stale>>
  BY <1>1 DEF LinkTypeOK
<1>2. CASE ListStep \/ UNCHANGED wifiVars
  BY <1>1, <1>2, ListStepKeeps DEF wifiVars
<1>. QED
  BY <1>2, StepKinds, LinkType, ConnectLinkType

\* Theorem: in every state the variables have their types and the list of
\* networks stays in s_networks, whichever saves and readers race for it, and
\* retries and bounds stay in range (wifi_creds.c:13, 123-158).
THEOREM WifiTypes == WifiSpec => []WifiTypeOK
<1>. QED
  BY WifiTypeInit, WifiTypeStep, PTL DEF WifiSpec

-----------------------------------------------------------------------------
(* The status follows the link, and nobody is stranded. *)

\* The last event that is not handled yet tells how the link is; if there is
\* none, is_connected does.
TellsLink(events, connected, l) ==
    /\ events = <<>> => (connected <=> l = "up")
    /\ events # <<>> => (events[Len(events)].kind = "got_ip" <=> l = "up")

LinkTold == TellsLink(wifiEvents, isConnected, link)

StatusInv == WifiTypeOK /\ LinkTold /\ NeverStranded

LEMMA LastOfAppend ==
    ASSUME NEW events \in Seq(EventType), NEW e \in EventType, NEW connected, NEW l,
           e.kind = "got_ip" <=> l = "up"
    PROVE  Append(events, e) # <<>> /\ TellsLink(Append(events, e), connected, l)
BY AppendProperties DEF TellsLink

\* Handling the first of several events leaves the last.
LEMMA LastOfTail ==
    ASSUME NEW events \in Seq(EventType), events # <<>>, NEW connected, NEW now, NEW l,
           TellsLink(events, connected, l),
           Tail(events) = <<>> => (now <=> events[1].kind = "got_ip")
    PROVE  TellsLink(Tail(events), now, l)
<1>1. /\ Len(events) \in Nat \ {0} /\ Tail(events) \in Seq(EventType)
      /\ Len(Tail(events)) = Len(events) - 1
      /\ \A i \in 1..Len(Tail(events)) : Tail(events)[i] = events[i + 1]
  BY HeadTailProperties, EmptySeq
<1>2. CASE Tail(events) = <<>>
  <2>1. Len(events) = 1
    <3>1. Len(<<>>) = 0
      BY EmptySeq
    <3>2. Len(Tail(events)) = 0
      BY <1>2, <3>1, Zenon
    <3>3. \A n \in Nat \ {0} : n - 1 = 0 => n = 1
      OBVIOUS
    <3>. QED
      BY <1>1, <3>2, <3>3, Zenon
  <2>. QED
    BY <1>2, <2>1 DEF TellsLink
<1>3. CASE Tail(events) # <<>>
  <2>1. Len(Tail(events)) \in Nat \ {0}
    BY <1>1, <1>3, EmptySeq
  <2>2. Tail(events)[Len(Tail(events))] = events[Len(events)]
    BY <1>1, <2>1
  <2>. QED
    BY <1>3, <2>2 DEF TellsLink
<1>. QED
  BY <1>2, <1>3

\* A call to esp_wifi_connect() keeps what the events tell.
LEMMA TryTells ==
    ASSUME NEW cfg, NEW pending \in Seq(EventType),
           Accepted(cfg, pending) \/ Refused(pending), TellsLink(pending, isConnected', link)
    PROVE  TellsLink(wifiEvents', isConnected', link')
<1>1. CASE Accepted(cfg, pending) /\ link = "down"
  BY <1>1 DEF Accepted, TellsLink
<1>2. CASE Accepted(cfg, pending) /\ link # "down"
  <2>1. /\ Event("disconnected", None) \in EventType
        /\ Event("disconnected", None).kind = "disconnected"
    BY NoneType, EventTypes
  <2>. QED
    BY <1>2, <2>1, LastOfAppend DEF Accepted
<1>3. CASE Refused(pending)
  BY <1>3 DEF Refused
<1>. QED
  BY <1>1, <1>2, <1>3

LEMMA LinkToldStep == WifiTypeOK /\ LinkTold /\ [WifiNext]_wifiVars => LinkTold'
<1>. SUFFICES ASSUME WifiTypeOK, LinkTold, [WifiNext]_wifiVars PROVE LinkTold'
  OBVIOUS
<1>1. wifiEvents \in Seq(EventType) /\ ap \in Credentials
  BY DEF WifiTypeOK, LinkTypeOK
<1>2. wifiEvents # <<>> => Tail(wifiEvents) \in Seq(EventType) /\ Head(wifiEvents) = wifiEvents[1]
  BY <1>1, HeadTailProperties
<1>3. CASE UNCHANGED <<flagVars, driverVars>>
  BY <1>3 DEF LinkTold
<1>4. CASE ListStep \/ UNCHANGED wifiVars
  BY <1>3, <1>4, ListStepKeeps DEF wifiVars
<1>5. ASSUME NEW c \in Callers, ConnectStep(c) PROVE LinkTold'
  <2>1. CASE ConnectStart(c) \/ ConnectRefused(c)
    BY <1>1, <2>1, TryTells DEF ConnectStart, ConnectRefused, LinkTold
  <2>2. CASE ~(ConnectStart(c) \/ ConnectRefused(c))
    BY <1>5, <2>2 DEF ConnectStep, ConnectLock, ConnectClear, ConnectWoken, ConnectEnds, LinkTold
  <2>. QED
    BY <2>1, <2>2
<1>6. CASE JoinSucceeds \/ JoinFails \/ LinkDrops
  <2>1. /\ Event("disconnected", None) \in EventType /\ Event("got_ip", ap) \in EventType
        /\ Event("disconnected", None).kind = "disconnected" /\ Event("got_ip", ap).kind = "got_ip"
    BY <1>1, NoneType, EventTypes
  <2>. QED
    BY <1>1, <1>6, <2>1, LastOfAppend DEF LinkTold, JoinSucceeds, JoinFails, LinkDrops
<1>7. ASSUME Handler PROVE LinkTold'
  <2>1. wifiEvents # <<>> /\ (isConnected' <=> wifiEvents[1].kind = "got_ip")
    <3>1. CASE HandleRetry \/ HandleFail \/ HandleDrop
      BY <1>2, <3>1 DEF HandleRetry, HandleFail, HandleDrop, NextEvent
    <3>2. CASE HandleGotIp
      BY <1>2, <3>2 DEF HandleGotIp, NextEvent
    <3>. QED
      BY <1>7, <3>1, <3>2 DEF Handler
  <2>2. TellsLink(Tail(wifiEvents), isConnected', link)
    BY <1>1, <2>1, LastOfTail DEF LinkTold
  <2>3. CASE HandleRetry
    BY <1>2, <2>1, <2>2, <2>3, TryTells DEF HandleRetry, TryToJoin, LinkTold
  <2>4. CASE HandleFail \/ HandleDrop \/ HandleGotIp
    BY <2>2, <2>4 DEF HandleFail, HandleDrop, HandleGotIp, LinkTold
  <2>. QED
    BY <1>7, <2>3, <2>4 DEF Handler
<1>8. CASE TimerFires
  BY <1>1, <1>8, TryTells DEF TimerFires, TryToJoin, LinkTold
<1>. QED
  BY <1>4, <1>5, <1>6, <1>7, <1>8, StepKinds DEF LinkStep

\* A call refused while the link is down is on record, and one accepted joins.
LEMMA TryNotStranded ==
    ASSUME NEW cfg, NEW pending, Accepted(cfg, pending) \/ Refused(pending)
    PROVE  link' = "down" => quit' # "no"
BY DEF Accepted, Refused

LEMMA NeverStrandedStep ==
    WifiTypeOK /\ LinkTold /\ NeverStranded /\ [WifiNext]_wifiVars => NeverStranded'
<1>. SUFFICES ASSUME WifiTypeOK, LinkTold, NeverStranded, [WifiNext]_wifiVars PROVE NeverStranded'
  OBVIOUS
<1>1. wifiEvents \in Seq(EventType)
  BY DEF WifiTypeOK, LinkTypeOK
<1>2. CASE UNCHANGED <<flagVars, driverVars, config>>
  BY <1>2 DEF NeverStranded
<1>3. CASE ListStep \/ UNCHANGED wifiVars
  BY <1>2, <1>3, ListStepKeeps DEF wifiVars
<1>4. ASSUME NEW c \in Callers, ConnectStep(c) PROVE NeverStranded'
  <2>1. CASE ConnectStart(c) \/ ConnectRefused(c)
    BY <2>1, TryNotStranded DEF ConnectStart, ConnectRefused, NeverStranded
  <2>2. CASE ~(ConnectStart(c) \/ ConnectRefused(c))
    BY <1>4, <2>2 DEF ConnectStep, ConnectLock, ConnectClear, ConnectWoken, ConnectEnds,
                      NeverStranded
  <2>. QED
    BY <2>1, <2>2
<1>5. CASE JoinSucceeds \/ JoinFails \/ LinkDrops
  <2>1. Event("disconnected", None) \in EventType
    BY NoneType, EventTypes
  <2>2. Append(wifiEvents, Event("disconnected", None)) # <<>>
    BY <1>1, <2>1, AppendProperties
  <2>. QED
    BY <1>5, <2>2 DEF NeverStranded, JoinSucceeds, JoinFails, LinkDrops
<1>6. CASE HandleRetry
  BY <1>6, TryNotStranded DEF HandleRetry, TryToJoin, NeverStranded
<1>7. CASE HandleFail \/ HandleDrop
  BY <1>7 DEF HandleFail, HandleDrop, NeverStranded
<1>8. CASE HandleGotIp
  <2>1. wifiEvents # <<>> /\ Head(wifiEvents) = wifiEvents[1] /\ wifiEvents[1].kind = "got_ip"
    BY <1>1, <1>8, HeadTailProperties DEF HandleGotIp, NextEvent
  <2>2. TellsLink(Tail(wifiEvents), TRUE, link)
    BY <1>1, <2>1, LastOfTail DEF LinkTold
  <2>. QED
    BY <1>8, <2>2 DEF HandleGotIp, NeverStranded, TellsLink
<1>9. CASE TimerFires
  BY <1>9, TryNotStranded DEF TimerFires, TryToJoin, NeverStranded
<1>. QED
  BY <1>3, <1>4, <1>5, <1>6, <1>7, <1>8, <1>9, StepKinds DEF LinkStep, Handler

LEMMA StatusInvInit == WifiInit => StatusInv
<1>. SUFFICES ASSUME WifiInit PROVE StatusInv
  OBVIOUS
<1>1. LinkTold /\ NeverStranded
  BY DEF WifiInit, LinkTold, TellsLink, NeverStranded
<1>. QED
  BY <1>1, WifiTypeInit DEF StatusInv

LEMMA StatusInvStep == StatusInv /\ [WifiNext]_wifiVars => StatusInv'
BY WifiTypeStep, LinkToldStep, NeverStrandedStep DEF StatusInv

\* Theorem: with no event pending, is_connected says whether the link is up,
\* whoever connects, retries, drops and refuses.
THEOREM StatusTruthful == WifiSpec => []StatusFollowsLink
<1>1. StatusInv => StatusFollowsLink
  BY DEF StatusInv, LinkTold, TellsLink, StatusFollowsLink
<1>. QED
  BY <1>1, StatusInvInit, StatusInvStep, PTL DEF WifiSpec

\* Theorem: once configured, the device is never left without a link, an event,
\* a timer and a reason.
THEOREM KeepsTrying == WifiSpec => []NeverStranded
<1>1. StatusInv => NeverStranded
  BY DEF StatusInv
<1>. QED
  BY <1>1, StatusInvInit, StatusInvStep, PTL DEF WifiSpec

-----------------------------------------------------------------------------
(* What is saved joins: the answers. *)

\* Only a network that accepted its password gives an address; unless a stale
\* address was taken for the answer, whoever was woken by one, and a click that
\* is about to save, asked for the network that gave it.
AddressesEarned ==
    \A i \in 1..Len(wifiEvents) : wifiEvents[i].kind = "got_ip" => Joins(wifiEvents[i].on)
AnswersEarned ==
    ~stale => \A c \in Callers :
        /\ caller[c] \in {"driver", "wait"} /\ "connected" \in bits => Joins(want[c])
        /\ caller[c] = "woken" => Joins(want[c])
        /\ caller[c] = "save" /\ c # Boot => Joins(want[c])

LEMMA EarnedOfAppend ==
    ASSUME NEW events \in Seq(EventType), NEW e \in EventType,
           \A i \in 1..Len(events) : events[i].kind = "got_ip" => Joins(events[i].on),
           e.kind = "got_ip" => Joins(e.on)
    PROVE  \A i \in 1..Len(Append(events, e)) :
              Append(events, e)[i].kind = "got_ip" => Joins(Append(events, e)[i].on)
BY AppendProperties

LEMMA EarnedOfTail ==
    ASSUME NEW events \in Seq(EventType), events # <<>>,
           \A i \in 1..Len(events) : events[i].kind = "got_ip" => Joins(events[i].on)
    PROVE  \A i \in 1..Len(Tail(events)) :
              Tail(events)[i].kind = "got_ip" => Joins(Tail(events)[i].on)
BY HeadTailProperties

\* A call to esp_wifi_connect() reports no address.
LEMMA TryEarned ==
    ASSUME NEW cfg, NEW pending \in Seq(EventType),
           Accepted(cfg, pending) \/ Refused(pending),
           \A i \in 1..Len(pending) : pending[i].kind = "got_ip" => Joins(pending[i].on)
    PROVE  AddressesEarned'
<1>1. CASE Accepted(cfg, pending) /\ link # "down"
  <2>1. /\ Event("disconnected", None) \in EventType
        /\ Event("disconnected", None).kind # "got_ip"
    BY NoneType, EventTypes
  <2>. QED
    BY <1>1, <2>1, EarnedOfAppend DEF Accepted, AddressesEarned
<1>2. CASE Refused(pending) \/ (Accepted(cfg, pending) /\ link = "down")
  <2>1. wifiEvents' = pending
    BY <1>2 DEF Refused, Accepted
  <2>. QED
    BY <2>1 DEF AddressesEarned
<1>. QED
  BY <1>1, <1>2

LEMMA AddressesEarnedStep ==
    WifiTypeOK /\ AddressesEarned /\ [WifiNext]_wifiVars => AddressesEarned'
<1>. SUFFICES ASSUME WifiTypeOK, AddressesEarned, [WifiNext]_wifiVars PROVE AddressesEarned'
  OBVIOUS
<1>1. wifiEvents \in Seq(EventType) /\ ap \in Credentials
  BY DEF WifiTypeOK, LinkTypeOK
<1>2. wifiEvents # <<>> =>
         /\ Tail(wifiEvents) \in Seq(EventType)
         /\ \A i \in 1..Len(Tail(wifiEvents)) :
               Tail(wifiEvents)[i].kind = "got_ip" => Joins(Tail(wifiEvents)[i].on)
  BY <1>1, EarnedOfTail, HeadTailProperties DEF AddressesEarned
<1>3. CASE UNCHANGED driverVars
  BY <1>3 DEF AddressesEarned
<1>4. CASE ListStep \/ UNCHANGED wifiVars
  BY <1>3, <1>4, ListStepKeeps DEF wifiVars
<1>5. ASSUME NEW c \in Callers, ConnectStep(c) PROVE AddressesEarned'
  <2>1. CASE ConnectStart(c) \/ ConnectRefused(c)
    BY <1>1, <2>1, TryEarned DEF ConnectStart, ConnectRefused, AddressesEarned
  <2>2. CASE ~(ConnectStart(c) \/ ConnectRefused(c))
    BY <1>5, <2>2 DEF ConnectStep, ConnectLock, ConnectClear, ConnectWoken, ConnectEnds,
                      AddressesEarned
  <2>. QED
    BY <2>1, <2>2
<1>6. CASE JoinSucceeds \/ JoinFails \/ LinkDrops
  <2>1. PICK e \in EventType : /\ wifiEvents' = Append(wifiEvents, e)
                               /\ e.kind = "got_ip" => Joins(e.on)
    <3>1. /\ Event("disconnected", None) \in EventType /\ Event("got_ip", ap) \in EventType
          /\ Event("disconnected", None).kind # "got_ip" /\ Event("got_ip", ap).on = ap
      BY <1>1, NoneType, EventTypes
    <3>. QED
      BY <1>6, <3>1 DEF JoinSucceeds, JoinFails, LinkDrops
  <2>. QED
    BY <1>1, <2>1, EarnedOfAppend DEF AddressesEarned
<1>7. CASE HandleRetry
  <2>1. wifiEvents # <<>>
    BY <1>7 DEF HandleRetry, NextEvent
  <2>. QED
    BY <1>2, <1>7, <2>1, TryEarned DEF HandleRetry, TryToJoin
<1>8. CASE HandleFail \/ HandleDrop \/ HandleGotIp
  <2>1. wifiEvents # <<>> /\ wifiEvents' = Tail(wifiEvents)
    BY <1>8 DEF HandleFail, HandleDrop, HandleGotIp, NextEvent
  <2>. QED
    BY <1>2, <2>1 DEF AddressesEarned
<1>9. CASE TimerFires
  BY <1>1, <1>9, TryEarned DEF TimerFires, TryToJoin, AddressesEarned
<1>. QED
  BY <1>4, <1>5, <1>6, <1>7, <1>8, <1>9, StepKinds DEF LinkStep, Handler

\* Only c moved, and it waits for no answer.
OnlyMoved(c) ==
    /\ caller'[c] \notin {"driver", "wait", "woken", "save"}
    /\ \A d \in Callers \ {c} : caller'[d] = caller[d] /\ want'[d] = want[d]

LEMMA RoundMoves ==
    ASSUME ListTypeOK, NEW c \in Callers, NEW ssid, NEW from \in {"seek", "find"},
           NEW found \in {"take", "close"}, NEW missing \in {"type", "room"},
           FindRound(c, ssid, from, found, missing), UNCHANGED want
    PROVE  OnlyMoved(c)
<1>1. caller[c] = from /\ (At(c, from, missing) \/ At(c, from, found) \/ UNCHANGED caller)
  BY Zenon DEF FindRound
<1>. QED
  BY <1>1 DEF At, OnlyMoved, ListTypeOK

LEMMA ListStepMoves ==
    ASSUME ListTypeOK, ListStep
    PROVE  \E c \in Callers : OnlyMoved(c)
<1>1. ASSUME NEW c \in Callers, ClickStep(c) PROVE OnlyMoved(c)
  BY <1>1 DEF ClickStep, Click, ClickTypes, At, OnlyMoved, ListTypeOK
<1>2. CASE ConnectSaved
  BY <1>2 DEF ConnectSaved, At, OnlyMoved, ListTypeOK, Callers
<1>3. ASSUME NEW c \in Callers, ReadStep(c) PROVE OnlyMoved(c)
  <2>1. CASE ClickFinds(c)
    BY <2>1, RoundMoves DEF ClickFinds
  <2>2. CASE ClickTakes(c) \/ ConnectFetch(c)
    BY <2>2 DEF ClickTakes, ConnectFetch, At, OnlyMoved, ListTypeOK
  <2>. QED
    BY <1>3, <2>1, <2>2 DEF ReadStep
<1>4. ASSUME NEW c \in Callers, Save(c) PROVE OnlyMoved(c)
  <2>1. CASE SaveFinds(c)
    BY <2>1, RoundMoves DEF SaveFinds
  <2>2. CASE CloseGap(c)
    BY <2>2 DEF CloseGap, At, OnlyMoved, ListTypeOK
  <2>3. CASE ~SaveFinds(c) /\ ~CloseGap(c)
    BY <1>4, <2>3 DEF Save, SaveSsid, SavePassword, ClosePassword, CountLess, MakeRoom, OpenGap,
                      OpenPassword, CountMore, ItemSsid, ItemPassword, Persist, At, OnlyMoved,
                      ListTypeOK
  <2>. QED
    BY <2>1, <2>2, <2>3
<1>. QED
  BY <1>1, <1>2, <1>3, <1>4 DEF ListStep, Callers

LEMMA AnswersEarnedStep ==
    WifiTypeOK /\ AddressesEarned /\ AnswersEarned /\ [WifiNext]_wifiVars => AnswersEarned'
<1>. SUFFICES ASSUME WifiTypeOK, AddressesEarned, AnswersEarned, [WifiNext]_wifiVars
              PROVE  AnswersEarned'
  OBVIOUS
<1>1. /\ wifiEvents \in Seq(EventType) /\ want \in [Callers -> Credentials]
      /\ DOMAIN caller = Callers
  BY DEF WifiTypeOK, LinkTypeOK, ListTypeOK
<1>2. CASE UNCHANGED <<caller, want, bits, stale>>
  BY <1>2 DEF AnswersEarned
<1>3. CASE UNCHANGED wifiVars
  BY <1>2, <1>3 DEF wifiVars
<1>4. CASE JoinSucceeds \/ JoinFails \/ LinkDrops \/ TimerFires \/ HandleRetry \/ HandleDrop
  BY <1>2, <1>4 DEF JoinSucceeds, JoinFails, LinkDrops, TimerFires, HandleRetry, HandleDrop
<1>5. CASE HandleFail
  BY <1>5 DEF HandleFail, AnswersEarned
<1>6. CASE HandleGotIp
  <2>1. Joins(Head(wifiEvents).on)
    <3>1. wifiEvents # <<>> /\ Len(wifiEvents) \in Nat \ {0} /\ Head(wifiEvents) = wifiEvents[1]
      BY <1>1, <1>6, EmptySeq DEF HandleGotIp, NextEvent
    <3>. QED
      BY <1>6, <3>1 DEF HandleGotIp, NextEvent, AddressesEarned
  <2>2. caller' = caller /\ want' = want /\ (~stale' => ~stale)
    BY <1>6 DEF HandleGotIp
  <2>3. ASSUME ~stale', NEW c \in Callers, caller[c] \in {"driver", "wait", "woken"}
        PROVE  Joins(want[c])
    BY <1>6, <2>1, <2>3 DEF HandleGotIp
  <2>. QED
    BY <2>2, <2>3 DEF AnswersEarned
<1>7. ASSUME NEW c \in Callers, ConnectStep(c) PROVE AnswersEarned'
  <2>1. CASE ConnectLock(c)
    BY <1>1, <2>1 DEF ConnectLock, At, AnswersEarned
  <2>2. CASE ConnectClear(c)
    BY <1>1, <2>2 DEF ConnectClear, At, AnswersEarned
  <2>3. CASE ConnectStart(c) \/ ConnectRefused(c)
    BY <1>1, <2>3 DEF ConnectStart, ConnectRefused, At, AnswersEarned
  <2>4. CASE ConnectWoken(c)
    BY <1>1, <2>4 DEF ConnectWoken, At, AnswersEarned
  <2>5. CASE ConnectEnds(c)
    BY <1>1, <2>5 DEF ConnectEnds, At, AnswersEarned
  <2>. QED
    BY <1>7, <2>1, <2>2, <2>3, <2>4, <2>5 DEF ConnectStep
<1>8. CASE ListStep
  <2>1. PICK c \in Callers : OnlyMoved(c)
    BY <1>8, ListStepMoves DEF WifiTypeOK
  <2>2. UNCHANGED <<bits, stale>>
    BY <1>8, ListStepKeeps
  <2>. QED
    BY <2>1, <2>2 DEF OnlyMoved, AnswersEarned
<1>. QED
  BY <1>3, <1>4, <1>5, <1>6, <1>7, <1>8, StepKinds DEF LinkStep, Handler

-----------------------------------------------------------------------------
(* What is saved joins: the list.  As long as nobody else saves, one task is at *)
(* it, and at every place of its save it is known what joins.                   *)

Clean == ~stale /\ ~overlapped

\* The entries from 1 to n, without i.
JoinBut(i, n) == \A k \in 1..n : k # i => Joins(networks[k])

\* Where the save of c is, and what its next steps rely on.
ClosingOK(c) ==
    /\ countRead[c] = netCount /\ slot[c] < netCount
    /\ JoinBut(slot[c], netCount) /\ networks[slot[c]].ssid = networks[slot[c] + 1].ssid
OpenOK(c) ==
    /\ slot[c] \in 1..countRead[c]
    /\ JoinBut(slot[c], countRead[c])

EditOK(c) ==
    /\ caller[c] = "fill" => /\ ListJoins /\ netCount >= 0
                             /\ Joins(Given(c)) /\ newNet[c].ssid = Given(c).ssid
    /\ caller[c] \in {"find", "close", "closing", "less", "room", "open", "opening"} =>
          Joins(newNet[c])
    /\ caller[c] \in {"find", "room"} => ListJoins /\ netCount >= 0 /\ countRead[c] = netCount
    /\ caller[c] = "close" => ListJoins /\ countRead[c] = netCount /\ slot[c] <= netCount
    /\ caller[c] = "closing" => ClosingOK(c)
    /\ caller[c] = "less" => ListJoins /\ countRead[c] = netCount /\ netCount >= 1
    /\ caller[c] \in {"open", "opening"} => OpenOK(c)
    /\ caller[c] = "opening" => networks[slot[c]].ssid = From(c).ssid
    /\ caller[c] = "count" => countRead[c] >= 1 /\ JoinBut(0, countRead[c])
    /\ caller[c] \in {"item", "text"} => ListJoins /\ netCount >= 1
    /\ caller[c] = "text" => slot[c] <= netCount /\ newNet[c].ssid = networks[slot[c]].ssid

\* Between the saves the list joins, and while the main task connects to its
\* first entry there is one.
ListGood ==
    /\ ListJoins /\ netCount >= 0
    /\ caller[Boot] \notin {"idle", "done"} => netCount >= 1

ListInv ==
    Clean =>
       /\ \A c, d \in Callers : caller[c] \in Editing /\ caller[d] \in Editing => c = d
       /\ \A c \in Callers : EditOK(c)
       /\ Settled => ListGood

\* With the SSID and then the password, the copy joins where the original does.
LEMMA CopyJoins ==
    ASSUME NEW to \in Credentials, NEW from \in Credentials, Joins(from), to.ssid = from.ssid
    PROVE  Joins(CopyPassword(to, from))
BY Copied DEF Joins

\* A step of a save that changes neither the list nor s_count.
LEMMA EditReads ==
    ASSUME ListTypeOK, ListTypeOK', NEW c \in Callers, EditOK(c),
           SavePassword(c) \/ SaveFinds(c) \/ MakeRoom(c) \/ ItemSsid(c) \/ ItemPassword(c)
    PROVE  EditOK(c)' /\ caller'[c] \in Editing
<1>t. /\ netCount \in Int /\ netCount <= MaxNetworks /\ MaxNetworks \in Nat \ {0}
      /\ slot[c] \in Int /\ countRead[c] \in Int /\ InArray(c)
      /\ newNet[c] \in Credentials /\ want[c] \in Credentials
      /\ networks \in [1..MaxNetworks -> Credentials]
  BY DEF ListTypeOK
<1>1. CASE SavePassword(c)
  <2>1. /\ caller[c] = "fill" /\ caller'[c] = "find" /\ UNCHANGED <<networks, netCount>>
        /\ countRead'[c] = netCount /\ newNet'[c] = CopyPassword(newNet[c], Given(c))
    BY <1>1 DEF SavePassword, At, ListTypeOK
  <2>2. Given(c) \in Credentials
    BY <1>t DEF Given
  <2>3. Joins(newNet'[c])
    BY <1>t, <2>1, <2>2, CopyJoins DEF EditOK
  <2>4. ListJoins' /\ netCount' >= 0
    BY <2>1 DEF EditOK, ListJoins
  <2>. QED
    BY <2>1, <2>3, <2>4 DEF EditOK, Editing
<1>2. CASE SaveFinds(c)
  <2>1. /\ caller[c] = "find" /\ UNCHANGED <<networks, netCount, newNet>>
        /\ ListJoins /\ netCount >= 0 /\ countRead[c] = netCount /\ Joins(newNet[c])
    BY <1>2 DEF SaveFinds, FindRound, EditOK
  <2>2. PICK n \in {countRead[c], netCount} :
           /\ countRead' = [countRead EXCEPT ![c] = n]
           /\ \/ At(c, "find", "room")
              \/ slot[c] <= n /\ At(c, "find", "close") /\ UNCHANGED slot
              \/ UNCHANGED caller
    BY <1>2, Zenon DEF SaveFinds, FindRound, ReadsCount
  <2>3. countRead'[c] = netCount /\ n = netCount
    BY <2>1, <2>2 DEF ListTypeOK
  <2>4. \/ caller'[c] = "room"
        \/ caller'[c] = "close" /\ slot'[c] <= netCount
        \/ caller'[c] = "find"
    BY <2>1, <2>2, <2>3 DEF At, ListTypeOK
  <2>5. ListJoins' /\ netCount' = netCount /\ newNet' = newNet
    BY <2>1 DEF ListJoins
  <2>. QED
    BY <2>1, <2>3, <2>4, <2>5 DEF EditOK, Editing
<1>3. CASE MakeRoom(c)
  <2>1. /\ caller[c] = "room" /\ caller'[c] = "open" /\ UNCHANGED <<networks, netCount, newNet>>
        /\ ListJoins /\ netCount >= 0 /\ countRead[c] = netCount /\ Joins(newNet[c])
    BY <1>3 DEF MakeRoom, At, EditOK, ListTypeOK
  <2>2. PICK n \in {countRead[c], netCount} :
          /\ slot' = [slot EXCEPT ![c] = (IF n < MaxNetworks THEN n ELSE MaxNetworks - 1) + 1]
          /\ countRead' =
                [countRead EXCEPT ![c] = (IF n < MaxNetworks THEN n ELSE MaxNetworks - 1) + 1]
    BY <1>3, Zenon DEF MakeRoom
  <2>. DEFINE more == (IF n < MaxNetworks THEN n ELSE MaxNetworks - 1) + 1
  <2>3. /\ more \in 1..MaxNetworks /\ more - 1 <= netCount
        /\ slot'[c] = more /\ countRead'[c] = more
    BY <1>t, <2>1, <2>2 DEF ListTypeOK
  <2>. HIDE DEF more
  <2>4. OpenOK(c)'
    BY <1>t, <2>1, <2>3 DEF OpenOK, JoinBut, ListJoins
  <2>. QED
    BY <2>1, <2>4 DEF EditOK, Editing
<1>4. CASE ItemSsid(c)
  <2>1. /\ caller[c] = "item" /\ caller'[c] = "text" /\ UNCHANGED <<networks, netCount, slot>>
        /\ slot[c] <= netCount /\ newNet'[c] = CopySsid(None, networks[slot[c]])
        /\ ListJoins /\ netCount >= 1
    BY <1>4 DEF ItemSsid, At, EditOK, ListTypeOK
  <2>2. networks[slot[c]] \in Credentials
    BY <1>t, <2>1 DEF InArray
  <2>3. newNet'[c].ssid = networks'[slot'[c]].ssid
    BY <2>1, <2>2, NoneType, Copied
  <2>4. ListJoins'
    BY <2>1 DEF ListJoins
  <2>. QED
    BY <2>1, <2>3, <2>4 DEF EditOK, Editing
<1>5. CASE ItemPassword(c)
  <2>1. /\ caller[c] = "text" /\ caller'[c] = "item" /\ UNCHANGED <<networks, netCount>>
        /\ ListJoins /\ netCount >= 1
    BY <1>5 DEF ItemPassword, At, EditOK, ListTypeOK
  <2>2. ListJoins'
    BY <2>1 DEF ListJoins
  <2>. QED
    BY <2>1, <2>2 DEF EditOK, Editing
<1>. QED
  BY <1>1, <1>2, <1>3, <1>4, <1>5

\* The entry found is taken out of the list.
LEMMA EditCloses ==
    ASSUME ListTypeOK, ListTypeOK', NEW c \in Callers, EditOK(c),
           CloseGap(c) \/ ClosePassword(c) \/ CountLess(c)
    PROVE  EditOK(c)' /\ caller'[c] \in Editing
<1>t. /\ netCount \in Int /\ netCount <= MaxNetworks /\ MaxNetworks \in Nat \ {0}
      /\ slot[c] \in Int /\ countRead[c] \in Int /\ InArray(c)
      /\ networks \in [1..MaxNetworks -> Credentials]
  BY DEF ListTypeOK
<1>1. CASE CloseGap(c)
  <2>1. /\ caller[c] = "close" /\ UNCHANGED <<netCount, newNet, slot>>
        /\ ListJoins /\ countRead[c] = netCount /\ slot[c] <= netCount /\ Joins(newNet[c])
        /\ slot[c] \in 1..MaxNetworks
    BY <1>1, <1>t DEF CloseGap, EditOK, InArray
  <2>2. PICK n \in {countRead[c], netCount} :
          /\ countRead' = [countRead EXCEPT ![c] = n]
          /\ \/ /\ slot[c] < n /\ At(c, "close", "closing")
                /\ networks' = [networks EXCEPT ![slot[c]] =
                                   CopySsid(networks[slot[c]], networks[slot[c] + 1])]
             \/ At(c, "close", "less") /\ UNCHANGED networks
    BY <1>1, Zenon DEF CloseGap, ReadsCount
  <2>3. countRead'[c] = netCount /\ n = netCount
    BY <2>1, <2>2 DEF ListTypeOK
  <2>4. CASE At(c, "close", "less") /\ UNCHANGED networks
    <3>1. caller'[c] = "less"
      BY <2>4 DEF At, ListTypeOK
    <3>2. ListJoins' /\ netCount' >= 1
      BY <1>t, <2>1, <2>4 DEF ListJoins
    <3>. QED
      BY <2>1, <2>3, <3>1, <3>2 DEF EditOK, Editing
  <2>5. CASE /\ slot[c] < n /\ At(c, "close", "closing")
             /\ networks' = [networks EXCEPT ![slot[c]] =
                                CopySsid(networks[slot[c]], networks[slot[c] + 1])]
    <3>1. caller'[c] = "closing"
      BY <2>5 DEF At, ListTypeOK
    <3>2. slot[c] < netCount /\ slot[c] + 1 \in 1..MaxNetworks /\ slot[c] + 1 # slot[c]
      BY <1>t, <2>1, <2>3, <2>5
    <3>3. /\ networks'[slot[c]].ssid = networks[slot[c] + 1].ssid
          /\ \A k \in 1..MaxNetworks : k # slot[c] => networks'[k] = networks[k]
      BY <1>t, <2>1, <2>5, <3>2, Copied
    <3>4. JoinBut(slot[c], netCount)'
      BY <1>t, <2>1, <3>3 DEF JoinBut, ListJoins
    <3>5. ClosingOK(c)'
      BY <2>1, <2>3, <3>2, <3>3, <3>4 DEF ClosingOK
    <3>. QED
      BY <2>1, <3>1, <3>5 DEF EditOK, Editing
  <2>. QED
    BY <2>2, <2>4, <2>5
<1>2. CASE ClosePassword(c)
  <2>1. /\ caller[c] = "closing" /\ caller'[c] = "close"
        /\ UNCHANGED <<netCount, newNet, countRead>>
        /\ Joins(newNet[c]) /\ countRead[c] = netCount /\ slot[c] < netCount
        /\ JoinBut(slot[c], netCount) /\ networks[slot[c]].ssid = networks[slot[c] + 1].ssid
        /\ slot'[c] = slot[c] + 1
        /\ networks' = [networks EXCEPT ![slot[c]] =
                           CopyPassword(networks[slot[c]], networks[slot[c] + 1])]
    BY <1>2 DEF ClosePassword, At, EditOK, ClosingOK, ListTypeOK
  <2>2. slot[c] \in 1..MaxNetworks /\ slot[c] + 1 \in 1..netCount /\ slot[c] + 1 \in 1..MaxNetworks
    BY <1>t, <2>1 DEF InArray
  <2>3. Joins(networks[slot[c] + 1])
    BY <2>1, <2>2 DEF JoinBut
  <2>4. Joins(networks'[slot[c]])
    BY <1>t, <2>1, <2>2, <2>3, CopyJoins
  <2>5. \A k \in 1..MaxNetworks : k # slot[c] => networks'[k] = networks[k]
    BY <1>t, <2>1
  <2>6. ListJoins'
    BY <1>t, <2>1, <2>4, <2>5 DEF ListJoins, JoinBut
  <2>7. slot'[c] <= netCount
    BY <1>t, <2>1
  <2>. QED
    BY <2>1, <2>6, <2>7 DEF EditOK, Editing
<1>3. CASE CountLess(c)
  <2>1. /\ caller[c] = "less" /\ caller'[c] = "room" /\ UNCHANGED <<networks, newNet>>
        /\ Joins(newNet[c]) /\ countRead[c] = netCount /\ ListJoins /\ netCount >= 1
        /\ netCount' = netCount - 1 /\ countRead'[c] = netCount - 1
    BY <1>3 DEF CountLess, At, EditOK, ListTypeOK
  <2>2. ListJoins'
    BY <1>t, <2>1 DEF ListJoins
  <2>. QED
    BY <1>t, <2>1, <2>2 DEF EditOK, Editing
<1>. QED
  BY <1>1, <1>2, <1>3

\* A gap is opened in front, filled with the new entry, and counted.
LEMMA EditOpens ==
    ASSUME ListTypeOK, ListTypeOK', NEW c \in Callers, EditOK(c),
           OpenGap(c) \/ OpenPassword(c) \/ CountMore(c)
    PROVE  EditOK(c)' /\ caller'[c] \in Editing
<1>t. /\ netCount \in Int /\ MaxNetworks \in Nat \ {0}
      /\ slot[c] \in Int /\ countRead[c] \in Int /\ countRead[c] <= MaxNetworks
      /\ newNet[c] \in Credentials /\ networks \in [1..MaxNetworks -> Credentials]
  BY DEF ListTypeOK, InArray
<1>o. ASSUME OpenGap(c) \/ OpenPassword(c)
      PROVE  /\ caller[c] \in {"open", "opening"} /\ UNCHANGED <<newNet, countRead>>
             /\ Joins(newNet[c]) /\ JoinBut(slot[c], countRead[c])
             /\ slot[c] \in 1..countRead[c] /\ slot[c] \in 1..MaxNetworks /\ Into(c) = slot[c]
             /\ From(c) \in Credentials /\ Joins(From(c))
             /\ slot[c] > 1 => slot[c] - 1 \in 1..MaxNetworks
  <2>1. /\ caller[c] \in {"open", "opening"} /\ UNCHANGED <<newNet, countRead>>
        /\ Joins(newNet[c]) /\ JoinBut(slot[c], countRead[c]) /\ slot[c] \in 1..countRead[c]
    BY <1>o DEF OpenGap, OpenPassword, At, EditOK, OpenOK
  <2>2. slot[c] \in 1..MaxNetworks /\ Into(c) = slot[c]
    BY <1>t, <2>1 DEF Into
  <2>3. slot[c] > 1 => slot[c] - 1 \in 1..MaxNetworks /\ Joins(networks[slot[c] - 1])
    BY <1>t, <2>1 DEF JoinBut
  <2>4. From(c) \in Credentials /\ Joins(From(c))
    BY <1>t, <2>1, <2>3 DEF From
  <2>. QED
    BY <2>1, <2>2, <2>3, <2>4
<1>1. CASE OpenGap(c)
  <2>1. /\ caller'[c] = "opening" /\ UNCHANGED slot
        /\ networks' = [networks EXCEPT ![slot[c]] = CopySsid(networks[slot[c]], From(c))]
    BY <1>1, <1>o DEF OpenGap, At, ListTypeOK
  <2>2. /\ networks'[slot[c]].ssid = From(c).ssid
        /\ \A k \in 1..MaxNetworks : k # slot[c] => networks'[k] = networks[k]
    BY <1>1, <1>o, <1>t, <2>1, Copied
  <2>3. From(c)' = From(c)
    BY <1>1, <1>o, <1>t, <2>1, <2>2 DEF From
  <2>4. JoinBut(slot[c], countRead[c])'
    BY <1>1, <1>o, <1>t, <2>1, <2>2 DEF JoinBut
  <2>5. OpenOK(c)'
    BY <1>1, <1>o, <2>1, <2>4 DEF OpenOK
  <2>. QED
    BY <1>1, <1>o, <2>1, <2>2, <2>3, <2>5 DEF EditOK, Editing
<1>2. CASE OpenPassword(c)
  <2>1. /\ caller[c] = "opening" /\ caller'[c] = (IF slot[c] > 1 THEN "open" ELSE "count")
        /\ slot'[c] = slot[c] - 1 /\ networks[slot[c]].ssid = From(c).ssid
        /\ networks' = [networks EXCEPT ![slot[c]] = CopyPassword(networks[slot[c]], From(c))]
    BY <1>2, <1>o DEF OpenPassword, At, EditOK, ListTypeOK
  <2>2. /\ Joins(networks'[slot[c]])
        /\ \A k \in 1..MaxNetworks : k # slot[c] => networks'[k] = networks[k]
    BY <1>2, <1>o, <1>t, <2>1, CopyJoins
  <2>3. \A k \in 1..countRead[c] : Joins(networks'[k])
    BY <1>2, <1>o, <1>t, <2>2 DEF JoinBut
  <2>4. CASE slot[c] > 1
    <3>1. OpenOK(c)'
      BY <1>2, <1>o, <1>t, <2>1, <2>3, <2>4 DEF OpenOK, JoinBut
    <3>. QED
      BY <1>2, <1>o, <2>1, <2>4, <3>1 DEF EditOK, Editing
  <2>5. CASE ~(slot[c] > 1)
    <3>1. countRead'[c] >= 1 /\ JoinBut(0, countRead[c])'
      BY <1>2, <1>o, <1>t, <2>3 DEF JoinBut
    <3>. QED
      BY <2>1, <2>5, <3>1 DEF EditOK, Editing
  <2>. QED
    BY <2>4, <2>5
<1>3. CASE CountMore(c)
  <2>1. /\ caller[c] = "count" /\ caller'[c] = "item" /\ UNCHANGED networks
        /\ netCount' = countRead[c] /\ countRead[c] >= 1 /\ JoinBut(0, countRead[c])
    BY <1>3 DEF CountMore, At, EditOK, ListTypeOK
  <2>2. ListJoins'
    BY <1>t, <2>1 DEF ListJoins, JoinBut
  <2>. QED
    BY <2>1, <2>2 DEF EditOK, Editing
<1>. QED
  BY <1>1, <1>2, <1>3

\* A save begins while nobody else is at the list.
LEMMA EditBegins ==
    ASSUME ListTypeOK, NEW c \in Callers, SaveSsid(c), ListGood,
           c # Boot => Joins(want[c])
    PROVE  EditOK(c)'
<1>1. /\ caller[c] = "save" /\ caller'[c] = "fill" /\ UNCHANGED <<networks, netCount, want>>
      /\ newNet'[c] = CopySsid(None, Given(c)) /\ netCount \in Int /\ netCount <= MaxNetworks
      /\ networks \in [1..MaxNetworks -> Credentials] /\ want[c] \in Credentials
      /\ MaxNetworks \in Nat \ {0}
  BY DEF SaveSsid, At, ListTypeOK
<1>2. Given(c) \in Credentials /\ Joins(Given(c))
  <2>1. CASE c = Boot
    <3>1. netCount >= 1 /\ ListJoins
      BY <1>1, <2>1 DEF ListGood
    <3>2. 1 \in 1..netCount /\ 1 \in 1..MaxNetworks
      BY <1>1, <3>1
    <3>. QED
      BY <1>1, <2>1, <3>1, <3>2 DEF ListJoins, Given
  <2>2. CASE c # Boot
    BY <1>1, <2>2 DEF Given
  <2>. QED
    BY <2>1, <2>2
<1>3. Given(c)' = Given(c)
  BY <1>1 DEF Given
<1>4. newNet'[c].ssid = Given(c).ssid
  BY <1>1, <1>2, NoneType, Copied
<1>5. ListJoins' /\ netCount' >= 0
  BY <1>1 DEF ListGood, ListJoins
<1>6. Joins(Given(c)')
  BY <1>2, <1>3
<1>. QED
  BY <1>1, <1>3, <1>4, <1>5, <1>6 DEF EditOK

\* Nobody but the one who is at the list, or comes to it, changes what EditOK
\* says of c.
LEMMA EditKept ==
    ASSUME NEW c \in Callers, EditOK(c), caller[c] \in Editing,
           UNCHANGED <<networks, netCount>>, caller'[c] = caller[c], newNet'[c] = newNet[c],
           slot'[c] = slot[c], countRead'[c] = countRead[c], want'[c] = want[c]
    PROVE  EditOK(c)'
<1>1. ListJoins' = ListJoins /\ Given(c)' = Given(c) /\ From(c)' = From(c)
  BY DEF ListJoins, Given, From
<1>2. (ClosingOK(c) => ClosingOK(c)') /\ (OpenOK(c) => OpenOK(c)')
  BY DEF ClosingOK, OpenOK, JoinBut
<1>3. JoinBut(0, countRead[c]) => JoinBut(0, countRead[c])'
  BY DEF JoinBut
<1>4. ListJoins => ListJoins'
  BY <1>1
<1>. QED
  BY <1>1, <1>2, <1>3, <1>4 DEF EditOK

\* Steps of tasks that are not at the list.
Away(c) ==
    /\ caller[c] \notin Editing /\ caller'[c] \notin Editing
    /\ UNCHANGED <<networks, netCount, newNet>>
    /\ \A d \in Callers \ {c} : /\ caller'[d] = caller[d] /\ want'[d] = want[d]
                                /\ slot'[d] = slot[d] /\ countRead'[d] = countRead[d]
    /\ caller'[Boot] \notin {"idle", "done"} =>
          caller[Boot] \notin {"idle", "done"} \/ netCount >= 1

LEMMA AwayStep ==
    ASSUME ListInv, Clean' => Clean, NEW c \in Callers, Away(c)
    PROVE  ListInv'
<1>. SUFFICES ASSUME Clean' PROVE ListInv'
  BY DEF ListInv
<1>1. /\ \A d, e \in Callers : caller[d] \in Editing /\ caller[e] \in Editing => d = e
      /\ \A d \in Callers : EditOK(d)
      /\ Settled => ListGood
  BY DEF ListInv
<1>2. \A d \in Callers : caller'[d] \in Editing <=> caller[d] \in Editing
  BY DEF Away
<1>3. ASSUME NEW d \in Callers PROVE EditOK(d)'
  <2>1. CASE caller[d] \in Editing
    BY <1>1, <2>1, EditKept DEF Away
  <2>2. CASE caller[d] \notin Editing
    BY <1>2, <2>2 DEF EditOK, Editing
  <2>. QED
    BY <2>1, <2>2
<1>4. Settled' => ListGood'
  <2>1. Settled' => Settled
    BY <1>2 DEF Settled
  <2>2. ListGood => ListGood'
    BY DEF Away, ListGood, ListJoins
  <2>. QED
    BY <1>1, <2>1, <2>2
<1>. QED
  BY <1>1, <1>2, <1>3, <1>4 DEF ListInv

\* The clicks, the connects and the readers of the list are not at it.
LEMMA OthersAway ==
    ASSUME ListTypeOK, NEW c \in Callers,
           \/ c \in Clicks /\ ClickStep(c)
           \/ ReadStep(c) \/ ConnectStep(c)
           \/ c = Boot /\ ConnectSaved
    PROVE  Away(c)
<1>t. /\ caller \in [Callers -> Connecting \cup Editing] /\ want \in [Callers -> Credentials]
      /\ slot \in [Callers -> Int] /\ countRead \in [Callers -> Int] /\ netCount \in Int
      /\ Boot \in Callers
  BY DEF ListTypeOK, Callers
<1>1. ASSUME NEW n \in Networks, Click(c, n), c \in Clicks PROVE Away(c)
  <2>. DEFINE to == IF KeyOf[n] = NoPassword THEN "lock" ELSE "seek"
              k == IF KeyOf[n] = NoPassword THEN 0 ELSE netCount
  <2>1. to \in {"lock", "seek"}
    OBVIOUS
  <2>2. /\ At(c, "idle", to) /\ slot' = [slot EXCEPT ![c] = 1]
        /\ countRead' = [countRead EXCEPT ![c] = k] /\ UNCHANGED listVars
        /\ \E w : want' = [want EXCEPT ![c] = w]
    BY <1>1 DEF Click
  <2>3. c # Boot
    BY <1>1
  <2>. HIDE DEF to, k
  <2>. QED
    BY <1>t, <2>1, <2>2, <2>3 DEF At, Away, Editing
<1>2. ASSUME NEW p \in Passwords, ClickTypes(c, p) PROVE Away(c)
  BY <1>2, <1>t DEF ClickTypes, At, Away, Editing
<1>3. CASE ClickFinds(c)
  <2>1. /\ caller[c] = "seek"
        /\ At(c, "seek", "type") \/ At(c, "seek", "take") \/ UNCHANGED caller
        /\ slot' = slot \/ slot' = [slot EXCEPT ![c] = slot[c] + 1]
        /\ UNCHANGED <<listVars, want>>
    BY <1>3, Zenon DEF ClickFinds, FindRound
  <2>2. \E n : countRead' = [countRead EXCEPT ![c] = n]
    BY <1>3 DEF ClickFinds, FindRound, ReadsCount
  <2>3. caller'[c] \in {"seek", "type", "take"} /\ \A d \in Callers \ {c} : caller'[d] = caller[d]
    BY <1>t, <2>1 DEF At
  <2>. QED
    BY <1>t, <2>1, <2>2, <2>3 DEF Away, Editing
<1>4. CASE ClickTakes(c)
  BY <1>4, <1>t DEF ClickTakes, At, Away, Editing
<1>5. CASE ConnectFetch(c)
  BY <1>5, <1>t DEF ConnectFetch, At, Away, Editing
<1>6. CASE ConnectLock(c) \/ ConnectClear(c) \/ ConnectStart(c) \/ ConnectRefused(c)
  BY <1>6, <1>t DEF ConnectLock, ConnectClear, ConnectStart, ConnectRefused, At, Away, Editing
<1>7. CASE ConnectWoken(c) \/ ConnectEnds(c)
  BY <1>7, <1>t DEF ConnectWoken, ConnectEnds, At, Away, Editing
<1>8. CASE c = Boot /\ ConnectSaved
  BY <1>8, <1>t DEF ConnectSaved, At, Away, Editing
<1>. QED
  BY <1>1, <1>2, <1>3, <1>4, <1>5, <1>6, <1>7, <1>8 DEF ClickStep, ReadStep, ConnectStep

\* What a step of a save leaves of the other tasks.
Alone(c) ==
    \A d \in Callers \ {c} :
        /\ caller'[d] = caller[d] /\ want'[d] = want[d] /\ newNet'[d] = newNet[d]
        /\ slot'[d] = slot[d] /\ countRead'[d] = countRead[d]

LEMMA SaveAlone ==
    ASSUME ListTypeOK, NEW c \in Callers, Save(c)
    PROVE  Alone(c)
<1>t. /\ caller \in [Callers -> Connecting \cup Editing] /\ want \in [Callers -> Credentials]
      /\ slot \in [Callers -> Int] /\ countRead \in [Callers -> Int]
      /\ newNet \in [Callers -> Credentials]
  BY DEF ListTypeOK
<1>1. CASE SaveFinds(c)
  <2>1. At(c, "find", "room") \/ At(c, "find", "close") \/ UNCHANGED caller
    BY <1>1, Zenon DEF SaveFinds, FindRound
  <2>2. \E n : countRead' = [countRead EXCEPT ![c] = n]
    BY <1>1 DEF SaveFinds, FindRound, ReadsCount
  <2>3. slot' = slot \/ slot' = [slot EXCEPT ![c] = slot[c] + 1]
    BY <1>1, Zenon DEF SaveFinds, FindRound
  <2>4. \A d \in Callers \ {c} : caller'[d] = caller[d]
    BY <1>t, <2>1 DEF At
  <2>. QED
    BY <1>1, <1>t, <2>2, <2>3, <2>4 DEF SaveFinds, Alone
<1>2. CASE CloseGap(c)
  BY <1>2, <1>t DEF CloseGap, ReadsCount, At, Alone
<1>3. CASE MakeRoom(c)
  BY <1>3, <1>t DEF MakeRoom, At, Alone
<1>4. CASE SaveSsid(c) \/ SavePassword(c) \/ ClosePassword(c) \/ CountLess(c) \/ OpenGap(c)
  BY <1>4, <1>t DEF SaveSsid, SavePassword, ClosePassword, CountLess, OpenGap, At, Alone
<1>5. CASE OpenPassword(c) \/ CountMore(c) \/ ItemSsid(c) \/ ItemPassword(c) \/ Persist(c)
  BY <1>5, <1>t DEF OpenPassword, CountMore, ItemSsid, ItemPassword, Persist, At, Alone
<1>. QED
  BY <1>1, <1>2, <1>3, <1>4, <1>5 DEF Save

\* A step of a save, by the only one at the list.
LEMMA SaveKeepsList ==
    ASSUME ListTypeOK, ListTypeOK', ListInv, AnswersEarned, Clean, Clean',
           NEW c \in Callers, Save(c)
    PROVE  ListInv'
<1>1. /\ \A d, e \in Callers : caller[d] \in Editing /\ caller[e] \in Editing => d = e
      /\ \A d \in Callers : EditOK(d)
      /\ Settled => ListGood
  BY DEF ListInv
<1>2. Alone(c)
  BY SaveAlone
<1>3. \A d \in Callers \ {c} : caller[d] \notin Editing
  <2>1. CASE SaveSsid(c)
    BY <2>1 DEF SaveSsid, Clean
  <2>2. CASE ~SaveSsid(c)
    <3>1. caller[c] \in Editing
      BY <2>2 DEF Save, SavePassword, SaveFinds, FindRound, CloseGap, ClosePassword, CountLess,
                  MakeRoom, OpenGap, OpenPassword, CountMore, ItemSsid, ItemPassword, Persist,
                  At, Editing
    <3>. QED
      BY <1>1, <3>1
  <2>. QED
    BY <2>1, <2>2
<1>4. \A d \in Callers \ {c} : caller'[d] \notin Editing
  BY <1>2, <1>3 DEF Alone
<1>5. \A d \in Callers \ {c} : EditOK(d)'
  BY <1>4 DEF EditOK, Editing
<1>6. CASE Persist(c)
  <2>1. /\ caller[c] = "item" /\ caller'[c] = "done" /\ UNCHANGED <<networks, netCount>>
        /\ ListJoins /\ netCount >= 1
    BY <1>1, <1>6 DEF Persist, At, EditOK, ListTypeOK
  <2>2. EditOK(c)' /\ caller'[c] \notin Editing
    BY <2>1 DEF EditOK, Editing
  <2>3. netCount \in Int
    BY DEF ListTypeOK
  <2>4. ListGood'
    BY <2>1, <2>3 DEF ListGood, ListJoins
  <2>. QED
    BY <1>4, <1>5, <2>2, <2>4 DEF ListInv
<1>7. CASE ~Persist(c)
  <2>1. EditOK(c)' /\ caller'[c] \in Editing
    <3>1. CASE SaveSsid(c)
      <4>1. caller[c] = "save" /\ caller'[c] = "fill"
        BY <3>1 DEF SaveSsid, At, ListTypeOK
      <4>2. caller[c] \notin Editing /\ caller'[c] \in Editing
        BY <4>1 DEF Editing
      <4>3. ListGood
        BY <1>1, <1>3, <4>2 DEF Settled
      <4>4. c # Boot => Joins(want[c])
        BY <4>1 DEF AnswersEarned, Clean
      <4>. QED
        BY <3>1, <4>2, <4>3, <4>4, EditBegins
    <3>2. CASE ~SaveSsid(c)
      BY <1>1, <1>7, <3>2, EditReads, EditCloses, EditOpens DEF Save
    <3>. QED
      BY <3>1, <3>2
  <2>2. ~Settled'
    BY <2>1 DEF Settled
  <2>. QED
    BY <1>4, <1>5, <2>1, <2>2 DEF ListInv
<1>. QED
  BY <1>6, <1>7

LEMMA CleanBack == WifiTypeOK /\ [WifiNext]_wifiVars => (Clean' => Clean)
<1>. SUFFICES ASSUME WifiTypeOK, [WifiNext]_wifiVars
              PROVE  (stale => stale') /\ (overlapped => overlapped')
  BY DEF Clean
<1>1. CASE LinkStep
  <2>1. overlapped' = overlapped
    BY <1>1, LinkStepKeeps
  <2>2. CASE HandleGotIp
    <3>1. stale => stale'
      BY <2>2, Zenon DEF HandleGotIp
    <3>. QED
      BY <2>1, <3>1
  <2>3. CASE ~HandleGotIp
    <3>1. stale' = stale
      BY <1>1, <2>3 DEF LinkStep, JoinSucceeds, JoinFails, LinkDrops, Handler, HandleRetry,
                        HandleFail, HandleDrop, TimerFires
    <3>. QED
      BY <2>1, <3>1
  <2>. QED
    BY <2>2, <2>3
<1>2. CASE ListStep
  <2>1. stale' = stale
    BY <1>2, ListStepKeeps
  <2>2. overlapped => overlapped'
    BY <1>2 DEF ListStep, ClickStep, Click, ClickTypes, ConnectSaved, ReadStep, ClickFinds,
                ClickTakes, ConnectFetch, Save, SaveSsid, SavePassword, SaveFinds, CloseGap,
                ClosePassword, CountLess, MakeRoom, OpenGap, OpenPassword, CountMore, ItemSsid,
                ItemPassword, Persist
  <2>. QED
    BY <2>1, <2>2
<1>3. CASE \E c \in Callers : ConnectStep(c)
  BY <1>3 DEF ConnectStep, ConnectLock, ConnectClear, ConnectStart, ConnectRefused, ConnectWoken,
              ConnectEnds
<1>4. CASE UNCHANGED wifiVars
  BY <1>4 DEF wifiVars
<1>. QED
  BY <1>1, <1>2, <1>3, <1>4, StepKinds

SavedInv == WifiTypeOK /\ AddressesEarned /\ AnswersEarned /\ ListInv

LEMMA ListInvStep == SavedInv /\ [WifiNext]_wifiVars => ListInv'
<1>. SUFFICES ASSUME SavedInv, [WifiNext]_wifiVars, Clean', Clean PROVE ListInv'
  BY CleanBack DEF SavedInv, ListInv
<1>1. WifiTypeOK' /\ ListTypeOK /\ ListInv /\ AnswersEarned
  BY WifiTypeStep DEF SavedInv, WifiTypeOK
<1>2. ListTypeOK'
  BY <1>1 DEF WifiTypeOK
<1>3. ASSUME NEW c \in Callers,
             \/ c \in Clicks /\ ClickStep(c)
             \/ ReadStep(c) \/ ConnectStep(c)
             \/ c = Boot /\ ConnectSaved
      PROVE  ListInv'
  BY <1>1, <1>3, OthersAway, AwayStep
<1>4. ASSUME NEW c \in Callers, Save(c) PROVE ListInv'
  BY <1>1, <1>2, <1>4, SaveKeepsList
<1>5. CASE UNCHANGED <<credVars, callVars>>
  <2>1. Boot \in Callers /\ \A c \in Callers : EditOK(c) => EditOK(c)'
    BY <1>5 DEF EditOK, ListJoins, Given, From, ClosingOK, OpenOK, JoinBut, Callers
  <2>2. (Settled' => Settled) /\ (ListGood => ListGood')
    BY <1>5 DEF Settled, ListGood, ListJoins
  <2>. QED
    BY <1>1, <1>5, <2>1, <2>2 DEF ListInv
<1>6. CASE LinkStep \/ UNCHANGED wifiVars
  BY <1>5, <1>6, LinkStepKeeps DEF wifiVars
<1>7. CASE ListStep
  <2>1. Boot \in Callers /\ Clicks \subseteq Callers
    BY DEF Callers
  <2>. QED
    BY <1>3, <1>4, <1>7, <2>1 DEF ListStep
<1>. QED
  BY <1>3, <1>6, <1>7, StepKinds

LEMMA SavedInvStep == SavedInv /\ [WifiNext]_wifiVars => SavedInv'
BY WifiTypeStep, AddressesEarnedStep, AnswersEarnedStep, ListInvStep DEF SavedInv

\* Theorem: if every password in the file joins its network, so does every one
\* saved later, and everyone of the list and of the items written to the file,
\* whoever reads the list while it is changed; unless a stale address was taken
\* for an answer, or two saves overlapped.
THEOREM SavedJoin ==
    ASSUME \A i \in DOMAIN Stored : Joins(Stored[i])
    PROVE  WifiSpec => SavedUnlessStale
<1>1. WifiInit => SavedInv
  <2>. SUFFICES ASSUME WifiInit PROVE SavedInv
    OBVIOUS
  <2>1. WifiTypeOK
    BY WifiTypeInit
  <2>2. \A c \in Callers : caller[c] = "idle"
    BY DEF WifiInit
  <2>3. wifiEvents = <<>> /\ networks = Loaded /\ netCount = LoadedCount /\ Boot \in Callers
    BY DEF WifiInit, Callers
  <2>4. AddressesEarned /\ AnswersEarned
    BY <2>2, <2>3, EmptySeq DEF AddressesEarned, AnswersEarned
  <2>5. ListJoins /\ netCount >= 0
    BY <2>3, LoadedType DEF ListJoins
  <2>6. ListInv
    BY <2>2, <2>3, <2>5 DEF ListInv, EditOK, ListGood, Editing
  <2>. QED
    BY <2>1, <2>4, <2>6 DEF SavedInv
<1>2. SavedInv /\ [WifiNext]_wifiVars =>
         [~stale' /\ ~overlapped' =>
             /\ Settled' => ListJoins'
             /\ \A c \in Callers : ItemPassword(c) => Joins(Item(c))]_wifiVars
  <2>. SUFFICES ASSUME SavedInv, [WifiNext]_wifiVars, Clean'
                PROVE  /\ Settled' => ListJoins'
                       /\ \A c \in Callers : ItemPassword(c) => Joins(Item(c))
    BY DEF Clean
  <2>1. Clean /\ ListInv' /\ ListInv /\ ListTypeOK
    BY CleanBack, ListInvStep DEF SavedInv, WifiTypeOK
  <2>2. Settled' => ListJoins'
    BY <2>1 DEF ListInv, ListGood
  <2>3. ASSUME NEW c \in Callers, ItemPassword(c) PROVE Joins(Item(c))
    <3>1. /\ caller[c] = "text" /\ newNet[c].ssid = networks[slot[c]].ssid
          /\ slot[c] <= netCount /\ ListJoins
      BY <2>1, <2>3 DEF ItemPassword, At, ListInv, EditOK
    <3>2. /\ slot[c] \in 1..netCount /\ networks[slot[c]] \in Credentials
          /\ newNet[c] \in Credentials
      BY <2>1, <3>1 DEF ListTypeOK, InArray
    <3>3. Joins(networks[slot[c]])
      BY <3>1, <3>2 DEF ListJoins
    <3>. QED
      BY <3>1, <3>2, <3>3, CopyJoins DEF Item
  <2>. QED
    BY <2>2, <2>3
<1>. QED
  BY <1>1, <1>2, SavedInvStep, PTL DEF WifiSpec, SavedUnlessStale
=============================================================================
