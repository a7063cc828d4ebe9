--------------------------- MODULE ScreensProofs ---------------------------
(***************************************************************************)
(* Proofs about the screens.  Attaching them leaves the controller what it *)
(* is, so that what FirebaseControllerProofs shows holds of the whole app; *)
(* the gauges settle on the newest reading; each screen shows the whole    *)
(* list, sorted; and only a text that is no number ends the app.           *)
(***************************************************************************)
EXTENDS Screens, FirebaseControllerProofs

\* Every step of the app is a step of the controller or leaves it alone.
LEMMA ControllerSteps ==
    ASSUME [ScreensNext]_allVars
    PROVE  [Next]_vars
<1>1. CASE ControllerStep
  BY <1>1 DEF ControllerStep, Next, AppStep
<1>2. CASE WriterStep /\ UNCHANGED <<controllerVars, screenVars>>
  BY <1>2 DEF Next
<1>3. CASE SnapshotShown
  BY <1>3 DEF SnapshotShown, Next, AppStep
<1>4. ASSUME NEW s \in Listener, Appear(s) \/ Disappear(s)
      PROVE  [Next]_vars
  BY <1>4 DEF Appear, Disappear, Next, AppStep
<1>5. ASSUME NEW t \in Listener, SelectTab(t)
      PROVE  [Next]_vars
  BY <1>5 DEF SelectTab, Touch
<1>6. ASSUME NEW k \in DOMAIN rows, TapRow(k) \/ DrawRow(k)
      PROVE  [Next]_vars
  BY <1>6 DEF TapRow, DrawRow, Touch
<1>7. CASE LeaveDetails
  BY <1>7 DEF LeaveDetails, Touch
<1>8. CASE UpdateGauges
  BY <1>8 DEF UpdateGauges
<1>9. CASE Relaunched
  BY <1>9 DEF Relaunched, Next, AppStep
<1>10. CASE UNCHANGED allVars
  BY <1>10 DEF allVars
<1> QED
  BY <1>1, <1>2, <1>3, <1>4, <1>5, <1>6, <1>7, <1>8, <1>9, <1>10 DEF ScreensNext

\* So the controller's theorems hold of the app: each of its steps conjoins
\* one of the controller's or leaves the controller alone.
LEMMA ControllerInApp == ScreensSpec => Spec
<1>1. ScreensInit => Init
  BY DEF ScreensInit
<1>2. [ScreensNext]_allVars => [Next]_vars
  BY ControllerSteps
<1> QED
  BY <1>1, <1>2, PTL DEF ScreensSpec, Spec

\* In the whole app, while documents are only added, no reading is listed
\* twice and a phone that has caught up lists the readable collection.
THEOREM AppHistory == ScreensSpec => [](ExactlyOnce /\ NothingMissing /\ RegisteredCurrent)
<1>1. ScreensSpec => Spec
  BY ControllerInApp
<1> QED
  BY <1>1, ListedOnce, NoneMissing, ScreensCurrent, PTL

----------------------------------------------------------------------------
(* The gauges.                                                              *)

\* An update is due, or the gauges show what the colour beside them shows.
GaugesDue ==
    /\ timers \in Nat
    /\ timers = 0 => gauges = latestData

\* A list that is passed on schedules an update whenever it changes the
\* newest reading.
LEMMA NotifyGauges ==
    ASSUME NEW ls, NEW list, GaugesDue, Notify(ls, list)
    PROVE  GaugesDue'
<1>1. gauges' = gauges
  BY DEF Notify
<1>2. CASE UNCHANGED colourScreen
  BY <1>1, <1>2 DEF GaugesDue, colourScreen
<1>3. CASE timers' = timers + 1
  BY <1>3 DEF GaugesDue
<1> QED
  BY <1>2, <1>3 DEF Notify, ColourChange

\* Every other step leaves the colour screen alone, runs an update, or starts
\* the app anew.
LEMMA GaugesStep ==
    ASSUME GaugesDue, [ScreensNext]_allVars
    PROVE  GaugesDue'
<1>1. CASE UNCHANGED <<timers, gauges, latestData>>
  BY <1>1 DEF GaugesDue
<1>2. CASE SnapshotShown
  BY <1>2, NotifyGauges DEF SnapshotShown
<1>3. ASSUME NEW s \in Listener, Appear(s)
      PROVE  GaugesDue'
  BY <1>3, NotifyGauges DEF Appear
<1>4. CASE UpdateGauges
  BY <1>4 DEF UpdateGauges, GaugesDue
<1>5. CASE Relaunched
  BY <1>5 DEF Relaunched, GaugesDue
<1>6. CASE ControllerStep \/ (WriterStep /\ UNCHANGED <<controllerVars, screenVars>>)
           \/ UNCHANGED allVars
  BY <1>6, <1>1 DEF ControllerStep, screenVars, colourScreen, allVars
<1>7. ASSUME NEW s \in Listener, Disappear(s)
      PROVE  GaugesDue'
  BY <1>7, <1>1 DEF Disappear, screenVars, colourScreen
<1>8. ASSUME NEW t \in Listener, SelectTab(t)
      PROVE  GaugesDue'
  BY <1>8, <1>1 DEF SelectTab, Touch, colourScreen
<1>9. ASSUME NEW k \in DOMAIN rows, TapRow(k) \/ DrawRow(k)
      PROVE  GaugesDue'
  BY <1>9, <1>1 DEF TapRow, DrawRow, Touch, colourScreen
<1>10. CASE LeaveDetails
  BY <1>10, <1>1 DEF LeaveDetails, Touch, colourScreen
<1> QED
  BY <1>2, <1>3, <1>4, <1>5, <1>6, <1>7, <1>8, <1>9, <1>10 DEF ScreensNext

\* Once no update is due the gauges show the reading the colour screen took
\* for the newest, however lists, tabs and updates came.
THEOREM GaugesSettle == ScreensSpec => []GaugesSettled
<1>1. ScreensInit => GaugesDue
  BY DEF ScreensInit, GaugesDue
<1>2. GaugesDue /\ [ScreensNext]_allVars => GaugesDue'
  BY GaugesStep
<1>3. GaugesDue => GaugesSettled
  BY DEF GaugesDue, GaugesSettled
<1> QED
  BY <1>1, <1>2, <1>3, PTL DEF ScreensSpec

----------------------------------------------------------------------------
(* The orders of a list.                                                    *)

\* All times have equally many digits: the seconds since 1970 have had ten
\* since 2001 and will have ten until 2286.
SameDigits == \A c, d \in Content : Digits(Time[c]) = Digits(Time[d])

\* A sorted list holds what the list holds, each reading as often, and none
\* before a later one.
LEMMA SortedList ==
    ASSUME NEW list \in Seq(Doc), NEW s \in Sorted(list)
    PROVE  /\ s \in Seq(Doc) /\ Len(s) = Len(list) /\ Len(list) \in Nat
           /\ DOMAIN s = 1..Len(list) /\ DOMAIN list = 1..Len(list)
           /\ Range(s) = Range(list)
           /\ \A j, k \in 1..Len(list) : j < k => ~Later(s[k], s[j])
           /\ (\A j, k \in DOMAIN list : list[j].id = list[k].id => j = k) =>
                  \A j, k \in DOMAIN list : s[j].id = s[k].id => j = k
<1>1. Len(list) \in Nat /\ DOMAIN list = 1..Len(list) /\ \A k \in DOMAIN list : list[k] \in Doc
  BY LenProperties, ElementOfSeq
<1>2. PICK p \in LatestFirst(list) : s = [k \in DOMAIN list |-> list[p[k]]]
  BY DEF Sorted
<1>3. /\ p \in [DOMAIN list -> DOMAIN list]
      /\ \A j, k \in DOMAIN list : p[j] = p[k] => j = k
      /\ \A j \in DOMAIN list : \E k \in DOMAIN list : p[k] = j
      /\ \A j, k \in DOMAIN list : j < k => ~Later(list[p[k]], list[p[j]])
  BY <1>2 DEF LatestFirst, Bijection, Injection, Surjection, IsInjective
<1>4. /\ DOMAIN s = DOMAIN list
      /\ \A k \in DOMAIN list : p[k] \in DOMAIN list /\ s[k] = list[p[k]]
  BY <1>2, <1>3
<1>5. s \in [1..Len(list) -> Doc]
  BY <1>1, <1>2, <1>3
<1>6. s \in Seq(Doc) /\ Len(s) = Len(list)
  <2>1. s \in Seq(Doc)
    BY <1>1, <1>5
  <2>2. Len(s) \in Nat /\ DOMAIN s = 1..Len(s)
    BY <2>1, LenProperties
  <2> QED
    BY <1>1, <1>4, <2>1, <2>2
<1>7. Range(s) = Range(list)
  <2>1. Range(s) \subseteq Range(list)
    BY <1>4 DEF Range
  <2>2. ASSUME NEW j \in DOMAIN list
        PROVE  list[j] \in Range(s)
    <3>1. PICK k \in DOMAIN list : p[k] = j
      BY <1>3
    <3> QED
      BY <1>4, <3>1 DEF Range
  <2> QED
    BY <2>1, <2>2 DEF Range
<1>8. \A j, k \in DOMAIN list : j < k => ~Later(s[k], s[j])
  BY <1>3, <1>4
<1>9. ASSUME \A j, k \in DOMAIN list : list[j].id = list[k].id => j = k,
             NEW j \in DOMAIN list, NEW k \in DOMAIN list, s[j].id = s[k].id
      PROVE  j = k
  <2>1. p[j] = p[k]
    BY <1>4, <1>9
  <2> QED
    BY <1>3, <2>1
<1> QED
  BY <1>1, <1>4, <1>6, <1>7, <1>8, <1>9

\* The number of digits is a number.
LEMMA DigitsType == \A n : Digits(n) \in Nat
<1> SUFFICES ASSUME NEW n PROVE Digits(n) \in Nat
  OBVIOUS
<1> DEFINE powers == {k \in 1..9 : n >= 10 ^ k}
<1>1. powers \in SUBSET (1..9)
  OBVIOUS
<1>2. IsFiniteSet(powers)
  <2> HIDE DEF powers
  <2>1. IsFiniteSet(1..9)
    <3>1. \A a, b \in Int : IsFiniteSet(a..b)
      BY FS_Interval
    <3>2. 1 \in Int /\ 9 \in Int
      OBVIOUS
    <3> QED
      BY <3>1, <3>2, Zenon
  <2> QED
    BY <1>1, <2>1, FS_Subset
<1>3. Cardinality(powers) \in Nat
  BY <1>2, FS_CardinalityType
<1> HIDE DEF powers
<1>4. 1 + Cardinality(powers) \in Nat
  BY <1>3
<1> QED
  BY <1>4 DEF Digits, powers

\* Among texts of one length the order of texts is the order of numbers.
LEMMA TextOrder ==
    ASSUME SameDigits, NEW d \in Doc, NEW e \in Doc, ~Later(d, e)
    PROVE  Time[d.content] <= Time[e.content]
<1>1. /\ d.content \in Content /\ e.content \in Content
      /\ Time[d.content] \in Nat /\ Time[e.content] \in Nat
  BY ScreensAssumption DEF Doc
<1>2. ~TextGreater(Time[d.content], Time[e.content])
  BY <1>1 DEF Later, TextLater
<1>3. Digits(Time[d.content]) - Digits(Time[e.content]) = 0
  BY <1>1, DigitsType DEF SameDigits
<1>4. ~(Time[d.content] > Time[e.content])
  BY <1>2, <1>3 DEF TextGreater
<1> QED
  BY <1>1, <1>4

\* Then a sorted list goes from the newest reading to the oldest.
LEMMA SortedTimes ==
    ASSUME SameDigits, NEW list \in Seq(Doc), NEW s \in Sorted(list)
    PROVE  \A j, k \in 1..Len(list) : j < k => Time[s[k].content] <= Time[s[j].content]
<1>1. /\ DOMAIN s = 1..Len(list) /\ s \in Seq(Doc)
      /\ \A j, k \in 1..Len(list) : j < k => ~Later(s[k], s[j])
  BY SortedList
<1>2. \A k \in 1..Len(list) : s[k] \in Doc
  BY <1>1, ElementOfSeq, LenProperties
<1> QED
  BY <1>1, <1>2, TextOrder

----------------------------------------------------------------------------
(* What a step does to the lists and to what is made of them.               *)

\* The list, as it is after the step, is passed to the registered screens or
\* to the one that registers.
Passed ==
    /\ \E ls \in SUBSET Listener :
           /\ Notify(ls, dataList')
           /\ delegates' = delegates \cup ls
           /\ ls = delegates \/ dataList' = dataList
    /\ dataList' \in Seq(Doc)
    /\ Known \subseteq Known' /\ Len(dataList) <= Len(dataList')
    /\ UNCHANGED navigation

\* No screen gets a list; one may disappear.
Kept ==
    /\ UNCHANGED <<dataList, newest, latestData, swatches, rows>>
    /\ delegates' \subseteq delegates
    /\ \/ UNCHANGED <<timers, gauges, alive>>
       \/ UpdateGauges
       \/ \E k \in DOMAIN rows : DrawRow(k)

\* A snapshot makes the list longer.
LEMMA ListGrows ==
    ASSUME TypeOK, OnSnapshot
    PROVE  /\ dataList' \in Seq(Doc)
           /\ Known \subseteq Known' /\ Len(dataList) <= Len(dataList')
<1>1. PICK new \in Seq(Doc) : dataList' = dataList \o new /\ dataList' \in Seq(Doc)
  BY SnapshotStep
<1>2. dataList \in Seq(Doc)
  BY DEF TypeOK
<1>3. Range(dataList') = Range(dataList) \cup Range(new)
  BY <1>1, <1>2, RangeOfConcat
<1>4. Len(dataList') = Len(dataList) + Len(new) /\ Len(dataList) \in Nat /\ Len(new) \in Nat
  BY <1>1, <1>2, ConcatProperties, LenProperties
<1> QED
  BY <1>1, <1>3, <1>4 DEF Known

\* A step passes the list on, or keeps it and what was made of it, or starts
\* the app anew.
LEMMA ListSteps ==
    ASSUME TypeOK, [ScreensNext]_allVars
    PROVE  Passed \/ Kept \/ Relaunched
<1>1. CASE SnapshotShown
  <2>1. OnSnapshot /\ Notify(delegates, dataList') /\ UNCHANGED <<navigation, delegates>>
    BY <1>1 DEF SnapshotShown, OnSnapshot
  <2>2. delegates \in SUBSET Listener
    BY DEF TypeOK
  <2> QED
    BY <2>1, <2>2, ListGrows DEF Passed
<1>2. ASSUME NEW s \in Listener, Appear(s)
      PROVE  Passed
  <2>1. /\ Notify({s}, dataList) /\ delegates' = delegates \cup {s}
        /\ UNCHANGED <<dataList, navigation>>
    BY <1>2 DEF Appear, AddListener
  <2>2. dataList \in Seq(Doc) /\ Len(dataList) \in Nat /\ {s} \in SUBSET Listener
    BY LenProperties DEF TypeOK
  <2>3. Notify({s}, dataList')
    BY <2>1
  <2> QED
    BY <2>1, <2>2, <2>3 DEF Passed, Known
<1>3. ASSUME NEW s \in Listener, Disappear(s)
      PROVE  Kept
  BY <1>3 DEF Disappear, RemoveListener, Kept, screenVars, colourScreen
<1>4. CASE ControllerStep
  <2>1. UNCHANGED <<dataList, delegates, screenVars>>
    BY <1>4 DEF ControllerStep, SignInSucceeds, SignInFails, OnListenError, controllerVars
  <2> QED
    BY <2>1 DEF Kept, screenVars, colourScreen
<1>5. CASE (WriterStep /\ UNCHANGED <<controllerVars, screenVars>>) \/ UNCHANGED allVars
  BY <1>5 DEF Kept, allVars, vars, controllerVars, screenVars, colourScreen
<1>6. ASSUME NEW t \in Listener, SelectTab(t)
      PROVE  Kept
  BY <1>6 DEF SelectTab, Touch, Kept, vars, controllerVars, colourScreen
<1>7. ASSUME NEW k \in DOMAIN rows, TapRow(k)
      PROVE  Kept
  BY <1>7 DEF TapRow, Touch, Kept, vars, controllerVars, colourScreen
<1>8. ASSUME NEW k \in DOMAIN rows, DrawRow(k)
      PROVE  Kept
  <2>1. UNCHANGED <<dataList, delegates, newest, latestData, swatches, rows>>
    BY <1>8 DEF DrawRow, vars, controllerVars, colourScreen
  <2> QED
    BY <1>8, <2>1 DEF Kept
<1>9. CASE LeaveDetails
  BY <1>9 DEF LeaveDetails, Touch, Kept, vars, controllerVars, colourScreen
<1>10. CASE UpdateGauges
  <2>1. UNCHANGED <<dataList, delegates, newest, latestData, swatches, rows>>
    BY <1>10 DEF UpdateGauges, vars, controllerVars
  <2> QED
    BY <1>10, <2>1 DEF Kept
<1> QED
  BY <1>1, <1>2, <1>3, <1>4, <1>5, <1>6, <1>7, <1>8, <1>9, <1>10 DEF ScreensNext

----------------------------------------------------------------------------
(* Type correctness.                                                        *)

\* What screens make of a list are readings.
LEMMA NotifyTypes ==
    ASSUME ScreensTypeOK, NEW ls, NEW list \in Seq(Doc), Notify(ls, list)
    PROVE  /\ newest' \in Shown /\ latestData' \in Shown
           /\ swatches' \in [1..Swatches -> Shown] /\ timers' \in Nat
           /\ gauges' \in Shown /\ rows' \in Seq(Doc) /\ alive' \in BOOLEAN
<1>1. \A s \in Sorted(list) : /\ s \in Seq(Doc) /\ DOMAIN s = 1..Len(list) /\ Len(list) \in Nat
                              /\ \A k \in 1..Len(list) : s[k] \in Doc
  BY SortedList, ElementOfSeq, LenProperties
<1>2. list # <<>> => 1 \in 1..Len(list)
  BY LenProperties, EmptySeq
<1>3. newest' \in Shown
  <2>1. CASE newest' = newest
    BY <2>1 DEF ScreensTypeOK
  <2>2. CASE list # <<>> /\ \E s \in Sorted(list) : newest' = s[1]
    BY <1>1, <1>2, <2>2 DEF Shown
  <2> QED
    BY <2>1, <2>2 DEF Notify, HomeChange
<1>4. latestData' \in Shown /\ swatches' \in [1..Swatches -> Shown] /\ timers' \in Nat
  <2>1. CASE UNCHANGED colourScreen
    BY <2>1 DEF ScreensTypeOK, colourScreen
  <2>2. CASE list # <<>> /\ ColourChange(list)
    <3>1. PICK s \in Sorted(list) :
              /\ latestData' = s[1]
              /\ swatches' = [k \in 1..Swatches |->
                     IF k < Len(s) THEN s[k + 1] ELSE swatches[k]]
              /\ timers' = timers + 1
      BY <2>2 DEF ColourChange
    <3>2. Len(s) = Len(list)
      BY SortedList
    <3>3. \A k \in 1..Swatches : k < Len(s) => s[k + 1] \in Shown
      BY <1>1, <3>2, ScreensAssumption DEF Shown
    <3>4. \A k \in 1..Swatches : swatches[k] \in Shown
      BY DEF ScreensTypeOK
    <3>5. swatches' \in [1..Swatches -> Shown]
      BY <3>1, <3>3, <3>4
    <3>6. latestData' \in Shown
      BY <1>1, <1>2, <2>2, <3>1 DEF Shown
    <3> QED
      BY <3>1, <3>5, <3>6 DEF ScreensTypeOK
  <2> QED
    BY <2>1, <2>2 DEF Notify, ColourChange
<1>5. rows' \in Seq(Doc)
  BY <1>1 DEF Notify, TableChange, ScreensTypeOK
<1>6. gauges' = gauges
  BY DEF Notify
<1>7. alive' \in BOOLEAN
  BY DEF Notify, ParsedAtOnce
<1> QED
  BY <1>3, <1>4, <1>5, <1>6, <1>7 DEF ScreensTypeOK

\* Screens that show nothing yet are well typed.
LEMMA BlankTypes ==
    /\ NoReading \in Shown /\ <<>> \in Seq(Doc)
    /\ [k \in 1..Swatches |-> NoReading] \in [1..Swatches -> Shown]
BY EmptySeq DEF Shown

\* Every step of the app keeps the types of what the screens hold.
LEMMA ScreensTypeStep ==
    ASSUME TypeOK, ScreensTypeOK, [ScreensNext]_allVars
    PROVE  ScreensTypeOK'
<1> USE ScreensAssumption
<1>1. CASE UNCHANGED screenVars
  BY <1>1 DEF screenVars, navigation, colourScreen, ScreensTypeOK
<1>2. CASE SnapshotShown
  <2>1. dataList' \in Seq(Doc) /\ Notify(delegates, dataList') /\ UNCHANGED navigation
    BY <1>2, ListGrows DEF SnapshotShown
  <2> QED
    BY <2>1, NotifyTypes DEF ScreensTypeOK, navigation
<1>3. ASSUME NEW s \in Listener, Appear(s)
      PROVE  ScreensTypeOK'
  <2>1. dataList \in Seq(Doc) /\ Notify({s}, dataList) /\ UNCHANGED navigation
    BY <1>3 DEF Appear, TypeOK
  <2> QED
    BY <2>1, NotifyTypes DEF ScreensTypeOK, navigation
<1>4. ASSUME Touch, tab' \in Listener, pushed' \in BOOLEAN, details' \in Shown
      PROVE  ScreensTypeOK'
  BY <1>4 DEF Touch, ScreensTypeOK, colourScreen
<1>5. ASSUME NEW t \in Listener, SelectTab(t)
      PROVE  ScreensTypeOK'
  BY <1>4, <1>5 DEF SelectTab, ScreensTypeOK
<1>6. ASSUME NEW k \in DOMAIN rows, TapRow(k)
      PROVE  ScreensTypeOK'
  <2>1. rows[k] \in Shown
    BY ElementOfSeq, LenProperties DEF ScreensTypeOK, Shown
  <2> QED
    BY <1>4, <1>6, <2>1 DEF TapRow, ScreensTypeOK
<1>7. ASSUME NEW k \in DOMAIN rows, DrawRow(k)
      PROVE  ScreensTypeOK'
  BY <1>7 DEF DrawRow, IsNumber, ScreensTypeOK, navigation, colourScreen
<1>8. CASE LeaveDetails
  BY <1>4, <1>8 DEF LeaveDetails, ScreensTypeOK, Shown
<1>9. CASE UpdateGauges
  BY <1>9 DEF UpdateGauges, IsNumber, ScreensTypeOK, navigation
<1>10. CASE Relaunched
  <2>1. "home" \in Listener /\ 0 \in Nat
    OBVIOUS
  <2> QED
    BY <1>10, <2>1, BlankTypes DEF Relaunched, ScreensTypeOK
<1>11. ASSUME NEW s \in Listener, Disappear(s)
       PROVE  ScreensTypeOK'
  BY <1>1, <1>11 DEF Disappear
<1>12. CASE ControllerStep \/ (WriterStep /\ UNCHANGED <<controllerVars, screenVars>>)
            \/ UNCHANGED allVars
  BY <1>1, <1>12 DEF ControllerStep, allVars
<1> QED
  BY <1>2, <1>3, <1>5, <1>6, <1>7, <1>8, <1>9, <1>10, <1>11, <1>12 DEF ScreensNext

\* The controller under the screens is well typed.
LEMMA AppTypes == ScreensSpec => []TypeOK
<1>1. ScreensSpec => Spec
  BY ControllerInApp
<1> QED
  BY <1>1, TypeCorrect, PTL

\* Every reachable state of the screens is well typed: whatever is shown is a
\* reading or blank.
THEOREM ScreensTypeCorrect == ScreensSpec => []ScreensTypeOK
<1>1. ScreensInit => ScreensTypeOK
  <2>1. "home" \in Listener /\ 0 \in Nat /\ 0 \in 0..MaxTouches
    BY ScreensAssumption
  <2> QED
    BY <2>1, BlankTypes DEF ScreensInit, ScreensTypeOK
<1>2. TypeOK /\ ScreensTypeOK /\ [ScreensNext]_allVars => ScreensTypeOK'
  BY ScreensTypeStep
<1> QED
  BY <1>1, <1>2, AppTypes, PTL DEF ScreensSpec

----------------------------------------------------------------------------
(* What the screens make of the list.                                       *)

\* The screens on screen hold the list, sorted; the colour screen has as many
\* swatches filled as there are readings for them.
Arranged ==
    /\ "home" \in delegates /\ dataList # <<>> => \E s \in Sorted(dataList) : newest = s[1]
    /\ "colour" \in delegates /\ dataList # <<>> =>
           \E s \in Sorted(dataList) :
               /\ latestData = s[1]
               /\ \A k \in 1..Swatches :
                      swatches[k] = IF k < Len(dataList) THEN s[k + 1] ELSE NoReading
    /\ "history" \in delegates => rows \in Sorted(dataList)
    /\ \A k \in 1..Swatches : k >= Len(dataList) => swatches[k] = NoReading

\* A list that is passed on is arranged by the screens that get it, and was
\* arranged before, as it is, by the others.
LEMMA PassedArranged ==
    ASSUME TypeOK, Arranged, Passed
    PROVE  Arranged'
<1>1. PICK ls \in SUBSET Listener :
          /\ Notify(ls, dataList')
          /\ delegates' = delegates \cup ls
          /\ ls = delegates \/ dataList' = dataList
  BY DEF Passed
<1>2. /\ dataList \in Seq(Doc) /\ dataList' \in Seq(Doc)
      /\ Len(dataList) \in Nat /\ Len(dataList') \in Nat /\ Len(dataList) <= Len(dataList')
  BY LenProperties DEF TypeOK, Passed
<1>3. \A s \in Sorted(dataList') : Len(s) = Len(dataList')
  BY <1>2, SortedList
<1>4. "home" \in delegates' /\ dataList' # <<>> => \E s \in Sorted(dataList') : newest' = s[1]
  <2>1. CASE "home" \in ls
    BY <1>1, <2>1 DEF Notify, HomeChange
  <2>2. CASE "home" \notin ls /\ "home" \in delegates
    <3>1. dataList' = dataList /\ newest' = newest
      BY <1>1, <2>2 DEF Notify
    <3> QED
      BY <2>2, <3>1 DEF Arranged
  <2> QED
    BY <1>1, <2>1, <2>2
<1>5. "history" \in delegates' => rows' \in Sorted(dataList')
  <2>1. CASE "history" \in ls
    BY <1>1, <2>1 DEF Notify, TableChange
  <2>2. CASE "history" \notin ls /\ "history" \in delegates
    <3>1. dataList' = dataList /\ rows' = rows
      BY <1>1, <2>2 DEF Notify
    <3> QED
      BY <2>2, <3>1 DEF Arranged
  <2> QED
    BY <1>1, <2>1, <2>2
<1>6. \A k \in 1..Swatches : k >= Len(dataList') => swatches[k] = NoReading
  BY <1>2, ScreensAssumption DEF Arranged
<1>7. CASE "colour" \in ls /\ dataList' # <<>>
  <2>1. PICK s \in Sorted(dataList') :
            /\ latestData' = s[1]
            /\ swatches' = [k \in 1..Swatches |->
                   IF k < Len(s) THEN s[k + 1] ELSE swatches[k]]
    BY <1>1, <1>7 DEF Notify, ColourChange
  <2>2. \A k \in 1..Swatches :
            swatches'[k] = IF k < Len(dataList') THEN s[k + 1] ELSE NoReading
    BY <1>2, <1>3, <1>6, <2>1, ScreensAssumption
  <2>3. \A k \in 1..Swatches : k >= Len(dataList') => swatches'[k] = NoReading
    BY <1>2, <2>2, ScreensAssumption
  <2> QED
    BY <1>4, <1>5, <2>1, <2>2, <2>3 DEF Arranged
<1>8. CASE ~("colour" \in ls /\ dataList' # <<>>)
  <2>1. latestData' = latestData /\ swatches' = swatches
    BY <1>1, <1>8 DEF Notify, ColourChange, colourScreen
  <2>2. "colour" \in delegates' /\ dataList' # <<>> =>
            "colour" \in delegates /\ dataList' = dataList
    BY <1>1, <1>8
  <2> QED
    BY <1>4, <1>5, <1>6, <2>1, <2>2 DEF Arranged
<1> QED
  BY <1>7, <1>8

\* Every step keeps the lists arranged.
LEMMA ArrangedStep ==
    ASSUME TypeOK, Arranged, [ScreensNext]_allVars
    PROVE  Arranged'
<1>1. CASE Kept
  BY <1>1 DEF Kept, Arranged
<1>2. CASE Relaunched
  <2>1. /\ delegates' = {} /\ dataList' = <<>>
        /\ swatches' = [k \in 1..Swatches |-> NoReading]
    BY <1>2 DEF Relaunched, Relaunch
  <2> QED
    BY <2>1 DEF Arranged
<1> QED
  BY <1>1, <1>2, ListSteps, PassedArranged

\* The inductive invariant of the lists: each screen that is on screen made
\* what it shows of the whole list the controller has now.
THEOREM ListsArranged == ScreensSpec => []Arranged
<1>1. ScreensInit => Arranged
  BY DEF ScreensInit, Init, Arranged
<1>2. TypeOK /\ Arranged /\ [ScreensNext]_allVars => Arranged'
  BY ArrangedStep
<1> QED
  BY <1>1, <1>2, AppTypes, PTL DEF ScreensSpec

\* The newest of the orders of a list is the newest reading of it.
LEMMA FirstIsNewest ==
    ASSUME SameDigits, TypeOK, dataList # <<>>, NEW s \in Sorted(dataList)
    PROVE  IsNewest(s[1])
<1>1. /\ dataList \in Seq(Doc) /\ Len(dataList) \in Nat \ {0} /\ DOMAIN s = 1..Len(dataList)
      /\ Range(s) = Known /\ s \in Seq(Doc)
  BY SortedList, LenProperties, EmptySeq DEF TypeOK, Known
<1>2. s[1] \in Known
  BY <1>1 DEF Range
<1>3. ASSUME NEW e \in Known
      PROVE  Time[e.content] <= Time[s[1].content]
  <2>1. PICK k \in 1..Len(dataList) : e = s[k]
    BY <1>1 DEF Range
  <2>2. CASE k = 1
    <3>1. s[1] \in Doc
      BY <1>1, ElementOfSeq, LenProperties
    <3>2. Time[s[1].content] \in Nat
      BY <3>1, ScreensAssumption DEF Doc
    <3> QED
      BY <2>1, <2>2, <3>2
  <2>3. CASE k # 1
    <3>1. 1 \in 1..Len(dataList) /\ 1 < k
      BY <1>1, <2>3
    <3> QED
      BY <1>1, <2>1, <3>1, SortedTimes
  <2> QED
    BY <2>2, <2>3
<1> QED
  BY <1>2, <1>3 DEF IsNewest

\* While all times have equally many digits, home and colour screen are about
\* the newest reading the controller has, though they compare texts.
THEOREM NewestShown ==
    ASSUME SameDigits
    PROVE  ScreensSpec => []VisibleNewest
<1>1. TypeOK /\ Arranged => VisibleNewest
  BY FirstIsNewest DEF Arranged, VisibleNewest
<1> QED
  BY <1>1, ListsArranged, AppTypes, PTL

\* The history table on screen is the whole history, newest first.
THEOREM TableShowsHistory ==
    ASSUME SameDigits
    PROVE  ScreensSpec => []TableIsHistory
<1>1. TypeOK /\ Arranged => TableIsHistory
  <2> SUFFICES ASSUME TypeOK, Arranged, "history" \in delegates
               PROVE  /\ Len(rows) = Len(dataList) /\ Range(rows) = Known
                      /\ \A i, j \in DOMAIN rows :
                             i < j => Time[rows[i].content] >= Time[rows[j].content]
    BY DEF TableIsHistory
  <2>1. rows \in Sorted(dataList) /\ dataList \in Seq(Doc)
    BY DEF Arranged, TypeOK
  <2>2. /\ Len(rows) = Len(dataList) /\ Range(rows) = Known
        /\ DOMAIN rows = 1..Len(dataList) /\ rows \in Seq(Doc)
    BY <2>1, SortedList DEF Known
  <2>3. \A k \in DOMAIN rows : Time[rows[k].content] \in Nat
    <3>1. \A k \in DOMAIN rows : rows[k] \in Doc
      BY <2>2, ElementOfSeq, LenProperties
    <3> QED
      BY <3>1, ScreensAssumption DEF Doc
  <2>4. \A j, k \in DOMAIN rows : j < k => Time[rows[k].content] <= Time[rows[j].content]
    BY <2>1, <2>2, SortedTimes
  <2> QED
    BY <2>2, <2>3, <2>4
<1> QED
  BY <1>1, ListsArranged, AppTypes, PTL

\* While readings are only added too, the colour screen shows the newest one
\* and, beside it, the next newest, each once.
THEOREM SwatchesShown ==
    ASSUME SameDigits, ~MayEdit
    PROVE  ScreensSpec => []SwatchesAreNextNewest
<1>1. TypeOK /\ ExactlyOnce /\ Arranged => SwatchesAreNextNewest
  <2> DEFINE filled == {k \in 1..Swatches : swatches[k] # NoReading}
             shown == {swatches[k] : k \in filled} \cup {latestData}
             n == Len(dataList)
             m == IF n > Swatches THEN Swatches + 1 ELSE n
  <2> SUFFICES ASSUME TypeOK, ExactlyOnce, Arranged, dataList # <<>>, "colour" \in delegates
               PROVE  /\ Cardinality(shown) = Cardinality(filled) + 1
                      /\ Cardinality(shown) = m
                      /\ \A d \in shown, e \in Known \ shown :
                             Time[e.content] <= Time[d.content]
    BY DEF SwatchesAreNextNewest
  <2>1. PICK s \in Sorted(dataList) :
            /\ latestData = s[1]
            /\ \A k \in 1..Swatches :
                   swatches[k] = IF k < n THEN s[k + 1] ELSE NoReading
    BY DEF Arranged
  <2>2. dataList \in Seq(Doc) /\ n \in Nat \ {0}
    BY LenProperties, EmptySeq DEF TypeOK
  <2>3. /\ DOMAIN s = 1..n /\ DOMAIN dataList = 1..n /\ s \in Seq(Doc) /\ Range(s) = Known
    BY <2>2, SortedList DEF Known
  <2>4. \A j, k \in 1..n : s[j] = s[k] => j = k
    <3>1. \A j, k \in DOMAIN dataList : dataList[j].id = dataList[k].id => j = k
      BY DEF ExactlyOnce
    <3>2. \A j, k \in DOMAIN dataList : s[j].id = s[k].id => j = k
      BY <2>2, <3>1, SortedList
    <3> QED
      BY <2>3, <3>2
  <2>5. \A k \in 1..n : s[k] \in Doc /\ s[k] # NoReading
    BY <2>3, ElementOfSeq, LenProperties, ScreensAssumption
  <2>6. m \in 1..n /\ m - 1 \in 0..Swatches /\ \A k \in 1..Swatches : k < n <=> k \in 1..m - 1
    BY <2>2, ScreensAssumption
  <2> HIDE DEF m, n
  <2>7. filled = 1..m - 1
    <3>1. \A k \in 1..Swatches : k < n <=> swatches[k] # NoReading
      <4> SUFFICES ASSUME NEW k \in 1..Swatches
                   PROVE  k < n <=> swatches[k] # NoReading
        OBVIOUS
      <4>1. k < n => k + 1 \in 1..n
        BY <2>2, ScreensAssumption
      <4> QED
        BY <2>1, <2>5, <4>1
    <3>2. 1..m - 1 \subseteq 1..Swatches
      BY <2>2, <2>6, ScreensAssumption
    <3> QED
      BY <2>6, <3>1, <3>2
  <2>8. shown = {s[k] : k \in 1..m}
    <3>1. \A k \in 1..m - 1 : swatches[k] = s[k + 1]
      BY <2>1, <2>2, <2>6, ScreensAssumption
    <3>2. \A k \in 1..m : k = 1 \/ k - 1 \in 1..m - 1
      BY <2>2, <2>6
    <3>3. \A k \in 1..m - 1 : k + 1 \in 1..m
      BY <2>2, <2>6
    <3>4. 1 \in 1..m /\ \A k \in 1..m : k \in Int /\ (k - 1) + 1 = k
      BY <2>2, <2>6
    <3>5. shown \subseteq {s[k] : k \in 1..m}
      BY <2>1, <2>7, <3>1, <3>3, <3>4
    <3>6. ASSUME NEW k \in 1..m
          PROVE  s[k] \in shown
      <4>1. CASE k = 1
        BY <2>1, <4>1
      <4>2. CASE k # 1
        <5>1. k - 1 \in 1..m - 1 /\ swatches[k - 1] = s[k]
          BY <3>1, <3>2, <3>4, <4>2
        <5> QED
          BY <2>7, <5>1
      <4> QED
        BY <4>1, <4>2
    <3> QED
      BY <3>5, <3>6
  <2> HIDE DEF filled, shown
  <2>9. Cardinality(filled) = m - 1
    <3>1. \A a, b \in Int : Cardinality(a..b) = IF a > b THEN 0 ELSE b - a + 1
      BY FS_Interval
    <3>2. m - 1 \in Int /\ 1 \in Int /\ m - 1 >= 0
      BY <2>2, <2>6
    <3> QED
      BY <2>7, <3>1, <3>2
  <2>10. Cardinality(shown) = m
    <3> DEFINE f == [k \in 1..m |-> s[k]]
    <3>1. f \in Bijection(1..m, shown)
      <4>1. \A k \in 1..m : k \in 1..n
        BY <2>2, <2>6
      <4>2. f \in [1..m -> shown]
        BY <2>8
      <4>3. \A j, k \in 1..m : f[j] = f[k] => j = k
        BY <2>4, <4>1
      <4>4. \A d \in shown : \E k \in 1..m : f[k] = d
        BY <2>8
      <4> HIDE DEF f
      <4> QED
        BY <4>2, <4>3, <4>4 DEF Bijection, Injection, Surjection, IsInjective
    <3>2. m \in Nat
      BY <2>2, <2>6
    <3> HIDE DEF f
    <3> QED
      BY <3>1, <3>2, FS_CountingElements DEF ExistsBijection
  <2>11. \A d \in shown, e \in Known \ shown : Time[e.content] <= Time[d.content]
    <3> SUFFICES ASSUME NEW d \in shown, NEW e \in Known \ shown
                 PROVE  Time[e.content] <= Time[d.content]
      OBVIOUS
    <3>1. PICK j \in 1..m : d = s[j]
      BY <2>8
    <3>2. PICK k \in 1..n : e = s[k]
      BY <2>3 DEF Range
    <3>3. k \notin 1..m
      BY <2>8, <3>2
    <3>4. j \in 1..n /\ j < k
      BY <2>2, <2>6, <3>3
    <3> QED
      BY <2>2, <3>1, <3>2, <3>4, SortedTimes DEF n
  <2> QED
    BY <2>2, <2>6, <2>9, <2>10, <2>11
<1>2. ScreensSpec => Spec
  BY ControllerInApp
<1> QED
  BY <1>1, <1>2, ListedOnce, ListsArranged, AppTypes, PTL

----------------------------------------------------------------------------
(* Texts that are no numbers.                                               *)

\* The table and, while an update of the gauges is due, the newest reading
\* are the controller's; the app lives unless one of its readings has a text
\* that is no number.
Stored ==
    /\ Range(rows) \subseteq Known
    /\ timers > 0 => latestData \in Known
    /\ ~alive => \E d \in Known : Numbers[d.content] # Part

\* A reading whose text was not a number has a text that is none.
LEMMA Unparsed ==
    ASSUME NEW d \in Doc, NEW part \in Part, ~IsNumber(d, part)
    PROVE  Numbers[d.content] # Part
BY ScreensAssumption DEF IsNumber

\* What is parsed while a list is passed on comes from that list.
LEMMA NotifyStored ==
    ASSUME Stored, NEW ls, NEW list \in Seq(Doc), Notify(ls, list), Known \subseteq Range(list)
    PROVE  /\ Range(rows') \subseteq Range(list)
           /\ timers' > 0 => latestData' \in Range(list)
           /\ ~alive' => \E d \in Range(list) : Numbers[d.content] # Part
<1>1. \A s \in Sorted(list) :
          /\ Len(s) = Len(list) /\ Len(list) \in Nat /\ Range(s) = Range(list)
          /\ \A k \in 1..Len(list) : s[k] \in Range(list) /\ s[k] \in Doc
  <2> SUFFICES ASSUME NEW s \in Sorted(list)
               PROVE  /\ Len(s) = Len(list) /\ Len(list) \in Nat /\ Range(s) = Range(list)
                      /\ \A k \in 1..Len(list) : s[k] \in Range(list) /\ s[k] \in Doc
    OBVIOUS
  <2>1. /\ s \in Seq(Doc) /\ Len(s) = Len(list) /\ Len(list) \in Nat
        /\ DOMAIN s = 1..Len(list) /\ Range(s) = Range(list)
    BY SortedList
  <2>2. \A k \in 1..Len(list) : s[k] \in Range(s) /\ s[k] \in Doc
    BY <2>1, ElementOfSeq, LenProperties DEF Range
  <2> QED
    BY <2>1, <2>2
<1>2. list # <<>> => 1 \in 1..Len(list)
  BY LenProperties, EmptySeq
<1>3. Range(rows') \subseteq Range(list)
  BY <1>1 DEF Notify, TableChange, Stored
<1>4. timers' > 0 => latestData' \in Range(list)
  <2>1. CASE UNCHANGED colourScreen
    BY <2>1 DEF Stored, colourScreen
  <2>2. CASE list # <<>> /\ \E s \in Sorted(list) : latestData' = s[1]
    BY <1>1, <1>2, <2>2
  <2> QED
    BY <2>1, <2>2 DEF Notify, ColourChange
<1>5. ASSUME ~alive'
      PROVE  \E d \in Range(list) : Numbers[d.content] # Part
  <2>1. list # <<>> /\ ~ParsedAtOnce(ls, list)
    BY <1>5 DEF Notify, ParsedAtOnce
  <2>2. CASE "home" \in ls /\ ~IsNumber(newest', "temperature")
    <3>1. PICK s \in Sorted(list) : newest' = s[1]
      BY <2>1, <2>2 DEF Notify, HomeChange
    <3>2. newest' \in Range(list) /\ newest' \in Doc
      BY <1>1, <1>2, <2>1, <3>1
    <3> QED
      BY <2>2, <3>2, Unparsed DEF Part
  <2>3. CASE "colour" \in ls /\ ~(/\ IsNumber(latestData', "colour")
                                 /\ \A k \in 1..Swatches :
                                        k < Len(list) => IsNumber(swatches'[k], "colour"))
    <3>1. PICK s \in Sorted(list) :
              /\ latestData' = s[1]
              /\ swatches' = [k \in 1..Swatches |->
                     IF k < Len(s) THEN s[k + 1] ELSE swatches[k]]
      BY <2>1, <2>3 DEF Notify, ColourChange
    <3>2. CASE ~IsNumber(latestData', "colour")
      <4>1. latestData' \in Range(list) /\ latestData' \in Doc
        BY <1>1, <1>2, <2>1, <3>1
      <4> QED
        BY <3>2, <4>1, Unparsed DEF Part
    <3>3. ASSUME NEW k \in 1..Swatches, k < Len(list), ~IsNumber(swatches'[k], "colour")
          PROVE  \E d \in Range(list) : Numbers[d.content] # Part
      <4>1. k + 1 \in 1..Len(list) /\ swatches'[k] = s[k + 1]
        BY <1>1, <3>1, <3>3, ScreensAssumption
      <4>2. swatches'[k] \in Range(list) /\ swatches'[k] \in Doc
        BY <1>1, <4>1
      <4> QED
        BY <3>3, <4>2, Unparsed DEF Part
    <3> QED
      BY <2>3, <3>2, <3>3
  <2> QED
    BY <2>1, <2>2, <2>3 DEF ParsedAtOnce
<1> QED
  BY <1>3, <1>4, <1>5

\* Every step parses texts of listed readings only.
LEMMA StoredStep ==
    ASSUME TypeOK, ScreensTypeOK, Stored, [ScreensNext]_allVars
    PROVE  Stored'
<1>1. CASE Passed
  <2>1. PICK ls \in SUBSET Listener : Notify(ls, dataList')
    BY <1>1 DEF Passed
  <2>2. dataList' \in Seq(Doc) /\ Known \subseteq Range(dataList')
    BY <1>1 DEF Passed, Known
  <2> QED
    BY <2>1, <2>2, NotifyStored DEF Stored, Known
<1>2. CASE Kept
  <2>1. Known' = Known /\ UNCHANGED <<rows, latestData>>
    BY <1>2 DEF Kept, Known
  <2>2. CASE UNCHANGED <<timers, gauges, alive>>
    BY <2>1, <2>2 DEF Stored
  <2>3. CASE UpdateGauges
    <3>1. /\ timers > 0 /\ timers' = timers - 1 /\ alive' = IsNumber(latestData, "gauges")
      BY <2>3 DEF UpdateGauges
    <3>2. latestData \in Known /\ latestData \in Doc
      <4>1. Known \subseteq Doc
        BY ElementOfSeq, LenProperties DEF TypeOK, Known, Range
      <4> QED
        BY <3>1, <4>1 DEF Stored
    <3>3. ~alive' => Numbers[latestData.content] # Part
      BY <3>1, <3>2, Unparsed DEF Part
    <3> QED
      BY <2>1, <3>2, <3>3 DEF Stored
  <2>4. ASSUME NEW k \in DOMAIN rows, DrawRow(k)
        PROVE  Stored'
    <3>1. alive' = IsNumber(rows[k], "colour") /\ timers' = timers
      BY <2>4 DEF DrawRow, colourScreen
    <3>2. rows[k] \in Known /\ rows[k] \in Doc
      BY <2>4, ElementOfSeq, LenProperties DEF Stored, Range, ScreensTypeOK
    <3>3. ~alive' => Numbers[rows[k].content] # Part
      BY <3>1, <3>2, Unparsed DEF Part
    <3> QED
      BY <2>1, <3>1, <3>2, <3>3 DEF Stored
  <2> QED
    BY <1>2, <2>2, <2>3, <2>4 DEF Kept
<1>3. CASE Relaunched
  <2>1. rows' = <<>> /\ timers' = 0 /\ alive' = TRUE
    BY <1>3 DEF Relaunched
  <2>2. Range(rows') = {}
    BY <2>1, EmptySeq DEF Range
  <2> QED
    BY <2>1, <2>2 DEF Stored
<1> QED
  BY <1>1, <1>2, <1>3, ListSteps

\* The app dies of nothing but a stored text that is not a number: no list,
\* tab, row or update of the gauges makes it parse a blank text.
THEOREM OnlyTextKills == ScreensSpec => []DiesOfTextOnly
<1>1. ScreensInit => Stored
  <2>1. ScreensInit => Range(rows) = {}
    BY EmptySeq DEF ScreensInit, Range
  <2> QED
    BY <2>1 DEF ScreensInit, Stored
<1>2. TypeOK /\ ScreensTypeOK /\ Stored /\ [ScreensNext]_allVars => Stored'
  BY StoredStep
<1>3. Stored => DiesOfTextOnly
  BY DEF Stored, DiesOfTextOnly
<1> QED
  BY <1>1, <1>2, <1>3, AppTypes, ScreensTypeCorrect, PTL DEF ScreensSpec
============================================================================
