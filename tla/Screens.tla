------------------------------ MODULE Screens ------------------------------
(***************************************************************************)
(* The screens on top of FirebaseController: the home screen's choice of   *)
(* the newest reading, the colour screen with its swatches and its gauges, *)
(* the history table with the details of a row, and the tab bar that makes *)
(* screens appear (register) and disappear (unregister).                   *)
(*                                                                         *)
(* A screen's list is sorted by the text of its readings' Unix times.  The *)
(* screens turn other texts into numbers as they show them, and a text     *)
(* that is no number ends the app.                                         *)
(***************************************************************************)
EXTENDS FirebaseController, Integers

CONSTANTS
    Time,        \* the Unix time of a content
    Numbers,     \* the parts of a content whose texts are numbers
    Swatches,    \* swatches beside the newest colour; ten in the app
    NoReading,   \* a fresh SensorData, all of whose texts are blank
    MaxTouches   \* bound: tabs selected, rows tapped, details left

Part == {"temperature", "colour", "gauges"}

ASSUME ScreensAssumption ==
    /\ Listener = {"home", "colour", "history"}
    /\ Time \in [Content -> Nat]
    /\ Numbers \in [Content -> SUBSET Part]
    /\ Swatches \in Nat
    /\ NoReading \notin Doc
    /\ MaxTouches \in Nat

VARIABLES
    tab,         \* selected tab
    pushed,      \* are the details on top of the history table?
    newest,      \* home screen: latestData
    latestData,  \* colour screen: latestData
    swatches,    \* colour screen: the readings behind i1, i2, ...
    timers,      \* colour screen: gauge updates still to come
    gauges,      \* colour screen: the reading the gauges show
    rows,        \* history table: sensorDataList
    details,     \* details screen: currentData
    alive,       \* has no forced unwrap failed?
    touches      \* bounds the model

navigation == <<tab, pushed, details, touches>>
colourScreen == <<latestData, swatches, timers>>
screenVars == <<navigation, newest, colourScreen, gauges, rows, alive>>
allVars == <<vars, screenVars>>

Shown == Doc \cup {NoReading}

Top == IF tab = "history" /\ pushed THEN "details" ELSE tab

ScreensTypeOK ==
    /\ tab \in Listener /\ pushed \in BOOLEAN
    /\ newest \in Shown /\ latestData \in Shown
    /\ swatches \in [1..Swatches -> Shown]
    /\ timers \in Nat
    /\ gauges \in Shown
    /\ rows \in Seq(Doc)
    /\ details \in Shown
    /\ alive \in BOOLEAN
    /\ touches \in 0..MaxTouches

ScreensInit ==
    /\ Init
    /\ tab = "home" /\ pushed = FALSE
    /\ newest = NoReading
    /\ latestData = NoReading
    /\ swatches = [k \in 1..Swatches |-> NoReading]
    /\ timers = 0
    /\ gauges = NoReading
    /\ rows = <<>>
    /\ details = NoReading
    /\ alive = TRUE
    /\ touches = 0

----------------------------------------------------------------------------
(* Sorting.                                                                 *)

Digits(n) == 1 + Cardinality({k \in 1..9 : n >= 10 ^ k})

\* The order of numbers as texts: by the digits both have, then the longer.
TextGreater(m, n) ==
    LET extra == Digits(m) - Digits(n)
    IN  \/ extra = 0 /\ m > n
        \/ extra > 0 /\ m \div 10 ^ extra >= n
        \/ extra < 0 /\ m > n \div 10 ^ (-extra)

TextLater == {x \in Content \X Content : TextGreater(Time[x[1]], Time[x[2]])}

\* Mutant: the comparison turned around.
Earlier(d, e) == <<e.content, d.content>> \in TextLater

Later(d, e) == <<d.content, e.content>> \in TextLater

\* Mutant: the list as it came.
Unsorted(list) == {list}

\* The orders in which no reading comes before a later one.
LatestFirst(list) ==
    {p \in Bijection(DOMAIN list, DOMAIN list) :
        \A j, k \in DOMAIN list : j < k => ~Later(list[p[k]], list[p[j]])}

\* What sort may make of a list: it promises nothing about readings of the
\* same time.
Sorted(list) == {[k \in DOMAIN list |-> list[p[k]]] : p \in LatestFirst(list)}

IsNumber(d, part) == d # NoReading /\ part \in Numbers[d.content]

----------------------------------------------------------------------------
(* onDataListChange, screen by screen.                                      *)

HomeChange(list) ==
    IF list = <<>> THEN UNCHANGED newest
                   ELSE \E sorted \in Sorted(list) : newest' = sorted[1]

\* Mutant: the gauges are also updated for a list without readings.
ColourChangeAlways(list) ==
    /\ timers' = timers + 1
    /\ IF list = <<>>
       THEN UNCHANGED <<latestData, swatches>>
       ELSE \E sorted \in Sorted(list) :
               /\ latestData' = sorted[1]
               /\ swatches' = [k \in 1..Swatches |->
                      IF k < Len(sorted) THEN sorted[k + 1] ELSE swatches[k]]

\* Mutant: the swatches start with the newest reading itself.
ColourChangeFromFirst(list) ==
    IF list = <<>>
    THEN UNCHANGED colourScreen
    ELSE \E sorted \in Sorted(list) :
            /\ latestData' = sorted[1]
            /\ swatches' = [k \in 1..Swatches |->
                   IF k <= Len(sorted) THEN sorted[k] ELSE swatches[k]]
            /\ timers' = timers + 1

\* The gauges follow a second later.
ColourChange(list) ==
    IF list = <<>>
    THEN UNCHANGED colourScreen
    ELSE \E sorted \in Sorted(list) :
            /\ latestData' = sorted[1]
            /\ swatches' = [k \in 1..Swatches |->
                   IF k < Len(sorted) THEN sorted[k + 1] ELSE swatches[k]]
            /\ timers' = timers + 1

TableChange(list) == rows' \in Sorted(list)

\* The texts that are parsed before onDataListChange returns.
ParsedAtOnce(ls, list) ==
    list # <<>> =>
        /\ "home" \in ls => IsNumber(newest', "temperature")
        /\ "colour" \in ls =>
              /\ IsNumber(latestData', "colour")
              /\ \A k \in 1..Swatches : k < Len(list) => IsNumber(swatches'[k], "colour")

\* The list is passed to the listeners ls.
Notify(ls, list) ==
    /\ IF "home" \in ls THEN HomeChange(list) ELSE UNCHANGED newest
    /\ IF "colour" \in ls THEN ColourChange(list) ELSE UNCHANGED colourScreen
    /\ IF "history" \in ls THEN TableChange(list) ELSE UNCHANGED rows
    /\ alive' = ParsedAtOnce(ls, list)
    /\ UNCHANGED gauges

----------------------------------------------------------------------------
(* Steps.                                                                   *)

Running == alive /\ auth # "fatal"

SnapshotShown ==
    /\ Running
    /\ OnSnapshot
    /\ Notify(delegates, dataList')
    /\ UNCHANGED navigation

\* viewWillAppear of the screen chosen.  UIKit calls it before or after
\* viewWillDisappear of the screen left.
Appear(s) ==
    /\ Running
    /\ s = Top /\ s \notin delegates
    /\ AddListener(s)
    /\ Notify({s}, dataList)
    /\ UNCHANGED navigation

Disappear(s) ==
    /\ Running
    /\ s # Top /\ s \in delegates
    /\ RemoveListener(s)
    /\ UNCHANGED screenVars

Touch ==
    /\ Running
    /\ delegates = {Top} \ {"details"}
    /\ touches < MaxTouches
    /\ touches' = touches + 1
    /\ UNCHANGED <<vars, newest, colourScreen, gauges, rows, alive>>

SelectTab(t) ==
    /\ Touch
    /\ t # tab
    /\ tab' = t
    /\ UNCHANGED <<pushed, details>>

TapRow(i) ==
    /\ Touch
    /\ Top = "history"
    /\ details' = rows[i]
    /\ pushed' = TRUE
    /\ UNCHANGED tab

LeaveDetails ==
    /\ Touch
    /\ Top = "details"
    /\ pushed' = FALSE
    /\ details' = NoReading
    /\ UNCHANGED tab

\* A row of the visible table is drawn, in the colour of its reading.
DrawRow(i) ==
    /\ Running
    /\ "history" \in delegates
    /\ alive' = IsNumber(rows[i], "colour")
    /\ UNCHANGED <<vars, navigation, newest, colourScreen, gauges, rows>>

\* Mutant: an update that comes while another screen is shown is dropped.
UpdateVisibleGauges ==
    /\ Running
    /\ timers > 0
    /\ timers' = timers - 1
    /\ gauges' = IF Top = "colour" THEN latestData ELSE gauges
    /\ alive' = IsNumber(latestData, "gauges")
    /\ UNCHANGED <<vars, navigation, newest, latestData, swatches, rows>>

\* Mutant: a repeating timer.
UpdateGaugesAgain ==
    /\ Running
    /\ latestData # NoReading
    /\ timers' = timers - 1
    /\ gauges' = latestData
    /\ alive' = IsNumber(latestData, "gauges")
    /\ UNCHANGED <<vars, navigation, newest, latestData, swatches, rows>>

\* The gauges take the reading that is newest now, not the one the update
\* was scheduled for, whether the screen is shown or not.
UpdateGauges ==
    /\ Running
    /\ timers > 0
    /\ timers' = timers - 1
    /\ gauges' = latestData
    /\ alive' = IsNumber(latestData, "gauges")
    /\ UNCHANGED <<vars, navigation, newest, latestData, swatches, rows>>

Relaunched ==
    /\ Relaunch
    /\ tab' = "home" /\ pushed' = FALSE
    /\ newest' = NoReading
    /\ latestData' = NoReading
    /\ swatches' = [k \in 1..Swatches |-> NoReading]
    /\ timers' = 0
    /\ gauges' = NoReading
    /\ rows' = <<>>
    /\ details' = NoReading
    /\ alive' = TRUE
    /\ UNCHANGED touches

ControllerStep ==
    /\ Running
    /\ \/ SignInSucceeds \/ SignInFails \/ OnListenError
       \/ ListenerStep /\ UNCHANGED controllerVars
    /\ UNCHANGED screenVars

ScreensNext ==
    \/ ControllerStep
    \/ WriterStep /\ UNCHANGED <<controllerVars, screenVars>>
    \/ SnapshotShown
    \/ \E s \in Listener : Appear(s) \/ Disappear(s)
    \/ \E t \in Listener : SelectTab(t)
    \/ \E i \in DOMAIN rows : TapRow(i) \/ DrawRow(i)
    \/ LeaveDetails
    \/ UpdateGauges
    \/ Relaunched

ScreensSpec == ScreensInit /\ [][ScreensNext]_allVars

----------------------------------------------------------------------------
(* Properties.                                                              *)

\* No listed reading is newer than d, in the order of numbers.
IsNewest(d) == d \in Known /\ \A e \in Known : Time[e.content] <= Time[d.content]

\* Home and colour screen, once on screen, are about the newest reading the
\* controller has, whether they were notified, hidden, or replayed to: the
\* order of texts picks the same reading as the order of numbers.
VisibleNewest ==
    alive /\ dataList # <<>> =>
        /\ "home" \in delegates => IsNewest(newest)
        /\ "colour" \in delegates => IsNewest(latestData)

\* The colour screen "shows the recent color along with the 10 last recent
\* colors": no reading is shown twice, and one that is not shown is no newer
\* than any that is.
SwatchesAreNextNewest ==
    LET filled == {k \in 1..Swatches : swatches[k] # NoReading}
        shown == {swatches[k] : k \in filled} \cup {latestData}
    IN  alive /\ dataList # <<>> /\ "colour" \in delegates =>
            /\ Cardinality(shown) = Cardinality(filled) + 1
            /\ Cardinality(shown) =
                   IF Len(dataList) > Swatches THEN Swatches + 1 ELSE Len(dataList)
            /\ \A d \in shown, e \in Known \ shown : Time[e.content] <= Time[d.content]

\* The history table on screen holds every reading the controller has, as
\* often as the controller has it, "in a sorted order": newest first.
TableIsHistory ==
    alive /\ "history" \in delegates =>
        /\ Len(rows) = Len(dataList) /\ Range(rows) = Known
        /\ \A i, j \in DOMAIN rows : i < j => Time[rows[i].content] >= Time[rows[j].content]

\* When no update is due, the gauges agree with the colour beside them, also
\* after lists that came while earlier updates were waiting.
GaugesSettled == alive /\ timers = 0 => gauges = latestData

\* The app dies only of a stored text that is not a number; the blank texts
\* of a fresh SensorData are never parsed.
DiesOfTextOnly == ~alive => \E d \in Known : Numbers[d.content] # Part
=============================================================================
