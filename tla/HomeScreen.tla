----------------------------- MODULE HomeScreen -----------------------------
(***************************************************************************)
(* The home screen: the mood and the animated picture for the newest       *)
(* reading of the room, next to the weather outside.                       *)
(*                                                                         *)
(* Three kinds of work leave the main queue and come back to it as blocks: *)
(* decoding a picture (a concurrent queue), asking the weather service     *)
(* (answers come in any order and are handled one at a time, each storing  *)
(* its temperature before it queues the labels), and fetching the weather  *)
(* icon (a queue of its own per request).  Main-queue blocks run in order. *)
(***************************************************************************)
EXTENDS Integers, Sequences

CONSTANTS
    Temp,        \* room temperatures, hundredths of a degree Celsius
    Kelvin,      \* outside temperatures as the weather service gives them
    Place,       \* positions of the phone
    Home,        \* the position the screen assumes before the phone knows one
    Sky,         \* weather conditions; each has a description and an icon
    None,        \* not set yet
    MaxReadings, \* bound: calls of onDataListChange with a non-empty list
    MaxMoves     \* bound: location updates

ASSUME HomeAssumption ==
    /\ Temp \subseteq Int /\ Kelvin \subseteq Nat
    /\ Home \in Place
    /\ None \notin Sky
    /\ None \notin [place : Place, sky : Sky \cup {None}, kelvin : Kelvin]
    /\ MaxReadings \in Nat /\ MaxMoves \in Nat

VARIABLES
    temp,            \* temperature of the newest reading
    moodLabel,       \* the mood of the room
    descLabel,       \* "warmer" or "colder" than outside
    image,           \* the picture shown
    loads,           \* pictures being decoded, how many of each
    location,        \* lat and long
    apiTemperature,  \* outside temperature of the last answer
    weatherTasks,    \* weather requests in flight, how many for each place
    answering,       \* answers stored whose labels are not queued yet
    iconTasks,       \* icon requests in flight, how many for each sky
    apiLabels,       \* the answer the weather labels show
    apiIcon,         \* the sky the weather icon shows
    mainQueue,       \* blocks on the main queue, oldest first
    alive,           \* has no forced unwrap failed?
    readings, moves  \* bound the model

room == <<temp, moodLabel, descLabel, readings>>
weather == <<location, apiTemperature, weatherTasks, answering, moves>>
vars == <<room, image, loads, weather, iconTasks, apiLabels, apiIcon, mainQueue, alive>>

Mood == {"Feeling Cold", "Shivering", "Feeling Happy", "Sweaty", "Feeling Hot"}

Gif == {"tC", "tCN", "tN", "tNH", "tH"}

\* A report may come without any sky.
Answer == [place : Place, sky : Sky \cup {None}, kelvin : Kelvin]

GifBlock(g) == [kind |-> "gif", gif |-> g]
LabelsBlock(a) == [kind |-> "labels", answer |-> a]
IconBlock(s) == [kind |-> "icon", sky |-> s]
LostIconBlock == [kind |-> "lostIcon"]

Block ==
    {GifBlock(g) : g \in Gif} \cup {LabelsBlock(a) : a \in Answer}
    \cup {IconBlock(s) : s \in Sky} \cup {LostIconBlock}

TypeOK ==
    /\ temp \in Temp \cup {0}
    /\ moodLabel \in Mood \cup {None}
    /\ descLabel \in {"warmer", "colder", None}
    /\ image \in Gif \cup {None}
    /\ loads \in [Gif -> Nat]
    /\ location \in Place
    /\ apiTemperature \in Kelvin \cup {0}
    /\ weatherTasks \in [Place -> Nat]
    /\ answering \subseteq Answer
    /\ iconTasks \in [Sky -> Nat]
    /\ apiLabels \in Answer \cup {None}
    /\ apiIcon \in Sky \cup {None}
    /\ mainQueue \in Seq(Block)
    /\ alive \in BOOLEAN
    /\ readings \in 0..MaxReadings /\ moves \in 0..MaxMoves

\* viewDidLoad has sent the first weather request, for the assumed position.
Init ==
    /\ temp = 0 /\ moodLabel = None /\ descLabel = None /\ image = None
    /\ loads = [g \in Gif |-> 0]
    /\ location = Home
    /\ apiTemperature = 0
    /\ weatherTasks = [p \in Place |-> IF p = Home THEN 1 ELSE 0]
    /\ answering = {}
    /\ iconTasks = [s \in Sky |-> 0]
    /\ apiLabels = None /\ apiIcon = None
    /\ mainQueue = <<>>
    /\ alive = TRUE
    /\ readings = 0 /\ moves = 0

----------------------------------------------------------------------------
(* The room.                                                                *)

Band(t) ==
    IF t <= 800 THEN [mood |-> "Feeling Cold", gif |-> "tC"]
    ELSE IF t <= 1500 THEN [mood |-> "Shivering", gif |-> "tCN"]
    ELSE IF t <= 2500 THEN [mood |-> "Feeling Happy", gif |-> "tN"]
    ELSE IF t <= 3100 THEN [mood |-> "Sweaty", gif |-> "tNH"]
    ELSE [mood |-> "Feeling Hot", gif |-> "tH"]

\* Int(temp) cuts the fraction off, towards zero.
WholeDegrees(t) == IF t >= 0 THEN t \div 100 ELSE -((-t) \div 100)

Compare(t) == IF apiTemperature < WholeDegrees(t) THEN "warmer" ELSE "colder"

\* A list whose newest reading has temperature t; the method that sets mood,
\* text and picture is called twice.
OnDataListChange(t) ==
    /\ alive
    /\ readings < MaxReadings
    /\ readings' = readings + 1
    /\ temp' = t
    /\ moodLabel' = Band(t).mood
    /\ descLabel' = Compare(t)
    /\ loads' = [loads EXCEPT ![Band(t).gif] = @ + 2]
    /\ UNCHANGED <<image, weather, iconTasks, apiLabels, apiIcon, mainQueue, alive>>

\* The decoder's threads finish in any order.
FinishGif(g) ==
    /\ alive
    /\ loads[g] > 0
    /\ loads' = [loads EXCEPT ![g] = @ - 1]
    /\ mainQueue' = Append(mainQueue, GifBlock(g))
    /\ UNCHANGED <<room, image, weather, iconTasks, apiLabels, apiIcon, alive>>

----------------------------------------------------------------------------
(* The weather.                                                             *)

LocationUpdate(p) ==
    /\ alive
    /\ moves < MaxMoves
    /\ moves' = moves + 1
    /\ location' = p
    /\ weatherTasks' = [weatherTasks EXCEPT ![p] = @ + 1]
    /\ UNCHANGED <<room, image, loads, apiTemperature, answering, iconTasks, apiLabels,
                   apiIcon, mainQueue, alive>>

\* Mutant: a session whose queue handles several answers at the same time.
TakeWeatherTaskAtOnce(p) ==
    /\ alive
    /\ weatherTasks[p] > 0
    /\ weatherTasks' = [weatherTasks EXCEPT ![p] = @ - 1]
    /\ UNCHANGED <<room, image, loads, location, moves, iconTasks, apiLabels, apiIcon>>

\* The session's queue handles one answer after the other.
TakeWeatherTask(p) ==
    /\ alive
    /\ answering = {}
    /\ weatherTasks[p] > 0
    /\ weatherTasks' = [weatherTasks EXCEPT ![p] = @ - 1]
    /\ UNCHANGED <<room, image, loads, location, moves, iconTasks, apiLabels, apiIcon>>

\* The temperature is stored on the session's queue, where the main queue may
\* read it before the labels are queued there.
WeatherAnswered(p, s, k) ==
    /\ TakeWeatherTask(p)
    /\ apiTemperature' = k
    /\ answering' = answering \cup {[place |-> p, sky |-> s, kelvin |-> k]}
    /\ UNCHANGED <<mainQueue, alive>>

QueueLabels(a) ==
    /\ alive
    /\ answering' = answering \ {a}
    /\ mainQueue' = Append(mainQueue, LabelsBlock(a))
    /\ UNCHANGED <<room, image, loads, location, apiTemperature, weatherTasks, moves,
                   iconTasks, apiLabels, apiIcon, alive>>

\* No data: nothing is changed, and nothing is tried again.
WeatherFailed(p) ==
    /\ TakeWeatherTask(p)
    /\ UNCHANGED <<apiTemperature, answering, mainQueue, alive>>

\* Data that is not a weather report fails the forced unwrap.
WeatherUndecodable(p) ==
    /\ TakeWeatherTask(p)
    /\ alive' = FALSE
    /\ UNCHANGED <<apiTemperature, answering, mainQueue>>

\* Icon or not, the completion goes on to the main queue.
IconAnswered(s) ==
    /\ alive
    /\ iconTasks[s] > 0
    /\ iconTasks' = [iconTasks EXCEPT ![s] = @ - 1]
    /\ \E b \in {IconBlock(s), LostIconBlock} : mainQueue' = Append(mainQueue, b)
    /\ UNCHANGED <<room, image, loads, weather, apiLabels, apiIcon, alive>>

----------------------------------------------------------------------------
(* The main queue.                                                          *)

TakeBlock(kind) ==
    /\ alive
    /\ mainQueue # <<>>
    /\ Head(mainQueue).kind = kind
    /\ mainQueue' = Tail(mainQueue)
    /\ UNCHANGED <<room, loads, weather>>

\* Mutant: a picture that is shown already is not replaced.
ShowFirstGif ==
    /\ TakeBlock("gif")
    /\ image' = IF image = None THEN Head(mainQueue).gif ELSE image
    /\ UNCHANGED <<iconTasks, apiLabels, apiIcon, alive>>

ShowGif ==
    /\ TakeBlock("gif")
    /\ image' = Head(mainQueue).gif
    /\ UNCHANGED <<iconTasks, apiLabels, apiIcon, alive>>

ShowWeather ==
    /\ TakeBlock("labels")
    /\ Head(mainQueue).answer.sky # None
    /\ LET a == Head(mainQueue).answer IN
           /\ apiLabels' = a
           /\ iconTasks' = [iconTasks EXCEPT ![a.sky] = @ + 1]
    /\ UNCHANGED <<image, apiIcon, alive>>

\* The first sky of a report is taken without looking whether there is one.
ShowNoSky ==
    /\ TakeBlock("labels")
    /\ Head(mainQueue).answer.sky = None
    /\ alive' = FALSE
    /\ UNCHANGED <<image, iconTasks, apiLabels, apiIcon>>

ShowIcon ==
    /\ TakeBlock("icon")
    /\ apiIcon' = Head(mainQueue).sky
    /\ UNCHANGED <<image, iconTasks, apiLabels, alive>>

\* A lost icon request has no data to unwrap.
ShowLostIcon ==
    /\ TakeBlock("lostIcon")
    /\ alive' = FALSE
    /\ UNCHANGED <<image, iconTasks, apiLabels, apiIcon>>

RunBlock == ShowGif \/ ShowWeather \/ ShowNoSky \/ ShowIcon \/ ShowLostIcon

----------------------------------------------------------------------------

Next ==
    \/ \E t \in Temp : OnDataListChange(t)
    \/ \E g \in Gif : FinishGif(g)
    \/ \E p \in Place :
           \/ LocationUpdate(p)
           \/ \E s \in Sky \cup {None}, k \in Kelvin : WeatherAnswered(p, s, k)
           \/ WeatherFailed(p)
           \/ WeatherUndecodable(p)
    \/ \E a \in answering : QueueLabels(a)
    \/ \E s \in Sky : IconAnswered(s)
    \/ RunBlock

Spec == Init /\ [][Next]_vars

\* Decoding ends and the main queue runs; no network answer is owed.
FairSpec ==
    /\ Spec
    /\ \A g \in Gif : WF_vars(FinishGif(g))
    /\ WF_vars(RunBlock)

----------------------------------------------------------------------------
(* Properties.                                                              *)

Waiting(kind) == {k \in DOMAIN mainQueue : mainQueue[k].kind = kind}

\* The answer the weather labels show, or will show when the queue is empty.
LatestQueued ==
    IF Waiting("labels") = {} THEN apiLabels
    ELSE mainQueue[CHOOSE k \in Waiting("labels") : \A j \in Waiting("labels") : j <= k].answer

\* The outside temperature the room is compared with is that of the answer being
\* handled or, when there is none, of the answer the labels show or are about
\* to: it is stored on the session's queue and they are set later on the main
\* queue, which may compare a reading in between, and requests for several
\* places may be answered in any order.
LabelsFollowTemperature ==
    alive =>
        /\ \A a \in answering : apiTemperature = a.kelvin
        /\ answering = {} =>
               apiTemperature = IF LatestQueued = None THEN 0 ELSE LatestQueued.kelvin

\* Each picture that is asked for is shown, if only for a moment.
EveryGifShown == \A g \in Gif : loads[g] > 0 ~> (image = g \/ ~alive)

GifsSettled == Waiting("gif") = {} /\ \A g \in Gif : loads[g] = 0

\* loadImageAndMood "changes the mood, description and other text": once the
\* pictures have been decoded, the one shown belongs to the mood.
GifMatchesMood ==
    (alive /\ GifsSettled /\ moodLabel # None) => image = Band(temp).gif

\* "Looks like you room is warmer than outside" is what a reading is told that
\* arrives when it is warmer in the room than the weather labels say it is
\* outside, also when no other answer is on its way to the labels.
WarmerMeansWarmer ==
    [][(readings' > readings /\ apiLabels # None /\ Waiting("labels") = {} /\ answering = {})
          => (descLabel' = "warmer" <=> apiLabels.kelvin - 273 < WholeDegrees(temp'))]_vars
=============================================================================
