-------------------------- MODULE HomeScreenProofs --------------------------
(***************************************************************************)
(* Proofs about the home screen: whatever the order in which weather       *)
(* requests are answered and whatever the main queue runs while an answer  *)
(* is handled, labels and comparison temperature do not drift apart.       *)
(***************************************************************************)
EXTENDS HomeScreen, SequenceTheorems, TLAPS

----------------------------------------------------------------------------
(* Blocks.                                                                  *)

\* Blocks tell what they hold.
LEMMA BlockTypes ==
    ASSUME NEW b \in Block
    PROVE  /\ b.kind = "labels" => b.answer \in Answer
           /\ b.kind = "gif" => b.gif \in Gif
           /\ b.kind = "icon" => b.sky \in Sky
BY DEF Block, GifBlock, LabelsBlock, IconBlock, LostIconBlock

\* The blocks that are queued.
LEMMA QueuedBlocks ==
    /\ \A g \in Gif : GifBlock(g) \in Block /\ GifBlock(g).kind = "gif"
    /\ \A a \in Answer : /\ LabelsBlock(a) \in Block /\ LabelsBlock(a).kind = "labels"
                         /\ LabelsBlock(a).answer = a
    /\ \A s \in Sky : IconBlock(s) \in Block /\ IconBlock(s).kind = "icon"
    /\ LostIconBlock \in Block /\ LostIconBlock.kind = "lostIcon"
BY DEF Block, GifBlock, LabelsBlock, IconBlock, LostIconBlock

----------------------------------------------------------------------------
(* Type correctness.                                                        *)

\* A screen that has just been loaded is well typed.
LEMMA HomeInit == Init => TypeOK
<1> SUFFICES ASSUME Init PROVE TypeOK
  OBVIOUS
<1>1. mainQueue \in Seq(Block)
  BY EmptySeq DEF Init
<1> QED
  BY <1>1, HomeAssumption DEF Init, TypeOK

\* Every temperature has a mood of the five and a picture of the five.
LEMMA BandType ==
  ASSUME NEW t
  PROVE  Band(t).mood \in Mood /\ Band(t).gif \in Gif
<1>1. CASE t <= 800
  <2>1. Band(t).mood = "Feeling Cold" /\ Band(t).gif = "tC"
    BY <1>1 DEF Band
  <2> QED
    BY <2>1 DEF Mood, Gif
<1>2. CASE ~(t <= 800) /\ t <= 1500
  <2>1. Band(t).mood = "Shivering" /\ Band(t).gif = "tCN"
    BY <1>2 DEF Band
  <2> QED
    BY <2>1 DEF Mood, Gif
<1>3. CASE ~(t <= 800) /\ ~(t <= 1500) /\ t <= 2500
  <2>1. Band(t).mood = "Feeling Happy" /\ Band(t).gif = "tN"
    BY <1>3 DEF Band
  <2> QED
    BY <2>1 DEF Mood, Gif
<1>4. CASE ~(t <= 800) /\ ~(t <= 1500) /\ ~(t <= 2500) /\ t <= 3100
  <2>1. Band(t).mood = "Sweaty" /\ Band(t).gif = "tNH"
    BY <1>4 DEF Band
  <2> QED
    BY <2>1 DEF Mood, Gif
<1>5. CASE ~(t <= 800) /\ ~(t <= 1500) /\ ~(t <= 2500) /\ ~(t <= 3100)
  <2>1. Band(t).mood = "Feeling Hot" /\ Band(t).gif = "tH"
    BY <1>5 DEF Band
  <2> QED
    BY <2>1 DEF Mood, Gif
<1> QED
  BY <1>1, <1>2, <1>3, <1>4, <1>5

\* Each callback and block keeps the types.
LEMMA HomeStep ==
    ASSUME TypeOK, [Next]_vars
    PROVE  TypeOK'
<1> USE DEF TypeOK
<1>1. ASSUME NEW t \in Temp, OnDataListChange(t)
      PROVE  TypeOK'
  <2>1. Band(t).mood \in Mood /\ Band(t).gif \in Gif
    BY BandType
  <2>2. descLabel' \in {"warmer", "colder", None}
    BY <1>1 DEF OnDataListChange, Compare
  <2>3. readings' \in 0..MaxReadings
    BY <1>1, HomeAssumption DEF OnDataListChange
  <2>4. loads' \in [Gif -> Nat]
    BY <1>1, <2>1 DEF OnDataListChange
  <2> QED
    BY <1>1, <2>1, <2>2, <2>3, <2>4 DEF OnDataListChange, weather
<1>2. ASSUME NEW g \in Gif, FinishGif(g)
      PROVE  TypeOK'
  <2>1. mainQueue' \in Seq(Block)
    BY <1>2, QueuedBlocks DEF FinishGif
  <2>2. loads' \in [Gif -> Nat]
    BY <1>2 DEF FinishGif
  <2> QED
    BY <1>2, <2>1, <2>2 DEF FinishGif, room, weather
<1>3. ASSUME NEW p \in Place, LocationUpdate(p)
      PROVE  TypeOK'
  <2>1. moves' \in 0..MaxMoves /\ weatherTasks' \in [Place -> Nat]
    BY <1>3, HomeAssumption DEF LocationUpdate
  <2> QED
    BY <1>3, <2>1 DEF LocationUpdate, room
<1>4. ASSUME NEW p \in Place, NEW s \in Sky \cup {None}, NEW k \in Kelvin,
             WeatherAnswered(p, s, k)
      PROVE  TypeOK'
  <2>1. [place |-> p, sky |-> s, kelvin |-> k] \in Answer
    BY DEF Answer
  <2>2. answering' \subseteq Answer
    BY <1>4, <2>1 DEF WeatherAnswered
  <2>3. weatherTasks' \in [Place -> Nat]
    BY <1>4 DEF WeatherAnswered, TakeWeatherTask
  <2> QED
    BY <1>4, <2>2, <2>3 DEF WeatherAnswered, TakeWeatherTask, room
<1>5. ASSUME NEW p \in Place, WeatherFailed(p) \/ WeatherUndecodable(p)
      PROVE  TypeOK'
  <2>1. TakeWeatherTask(p) /\ alive' \in BOOLEAN /\ UNCHANGED <<apiTemperature, answering, mainQueue>>
    BY <1>5 DEF WeatherFailed, WeatherUndecodable
  <2>2. weatherTasks' \in [Place -> Nat]
    BY <2>1 DEF TakeWeatherTask
  <2> QED
    BY <2>1, <2>2 DEF TakeWeatherTask, room
<1>6. ASSUME NEW s \in Sky, IconAnswered(s)
      PROVE  TypeOK'
  <2>1. PICK b \in {IconBlock(s), LostIconBlock} : mainQueue' = Append(mainQueue, b)
    BY <1>6 DEF IconAnswered
  <2>2. mainQueue' \in Seq(Block)
    BY <2>1, QueuedBlocks
  <2>3. iconTasks' \in [Sky -> Nat]
    BY <1>6 DEF IconAnswered
  <2> QED
    BY <1>6, <2>2, <2>3 DEF IconAnswered, room, weather
<1>7. CASE RunBlock
  <2>1. mainQueue # <<>> => Head(mainQueue) \in Block /\ Tail(mainQueue) \in Seq(Block)
    BY HeadTailProperties
  <2>2. CASE ShowGif
    <3>1. Head(mainQueue).gif \in Gif
      BY <2>1, <2>2, BlockTypes DEF ShowGif, TakeBlock
    <3> QED
      BY <2>1, <2>2, <3>1 DEF ShowGif, TakeBlock, room, weather
  <2>3. CASE ShowWeather
    <3>1. Head(mainQueue).answer \in Answer
      BY <2>1, <2>3, BlockTypes DEF ShowWeather, TakeBlock
    <3>2. Head(mainQueue).answer.sky \in Sky
      BY <2>3, <3>1 DEF Answer, ShowWeather
    <3>3. iconTasks' \in [Sky -> Nat]
      BY <2>3, <3>2 DEF ShowWeather
    <3> QED
      BY <2>1, <2>3, <3>1, <3>3 DEF ShowWeather, TakeBlock, room, weather
  <2>4. CASE ShowIcon
    <3>1. Head(mainQueue).sky \in Sky
      BY <2>1, <2>4, BlockTypes DEF ShowIcon, TakeBlock
    <3> QED
      BY <2>1, <2>4, <3>1 DEF ShowIcon, TakeBlock, room, weather
  <2>5. CASE ShowNoSky \/ ShowLostIcon
    BY <2>1, <2>5 DEF ShowNoSky, ShowLostIcon, TakeBlock, room, weather
  <2> QED
    BY <1>7, <2>2, <2>3, <2>4, <2>5 DEF RunBlock
<1>8. ASSUME NEW a \in answering, QueueLabels(a)
      PROVE  TypeOK'
  <2>1. mainQueue' \in Seq(Block)
    BY <1>8, QueuedBlocks DEF QueueLabels
  <2> QED
    BY <1>8, <2>1 DEF QueueLabels, room
<1>9. CASE UNCHANGED vars
  BY <1>9 DEF vars, room, weather
<1> QED
  BY <1>1, <1>2, <1>3, <1>4, <1>5, <1>6, <1>7, <1>8, <1>9 DEF Next

\* Every reachable state of the home screen is well typed.
THEOREM HomeTypeCorrect == Spec => []TypeOK
BY HomeInit, HomeStep, PTL DEF Spec

----------------------------------------------------------------------------
(* Labels and comparison temperature.                                       *)

Labels == Waiting("labels")

\* The temperature is that of the labels, or of the last answer queued for
\* them, which is there.
LabelsTell ==
    \/ /\ Labels = {}
       /\ apiTemperature = IF apiLabels = None THEN 0 ELSE apiLabels.kelvin
    \/ \E k \in Labels :
           /\ \A j \in Labels : j <= k
           /\ apiTemperature = mainQueue[k].answer.kelvin

\* The session's queue handles one answer, whose temperature is stored, or none.
Follows ==
    alive =>
        \/ \E a \in answering : answering = {a} /\ apiTemperature = a.kelvin
        \/ answering = {} /\ LabelsTell

\* A block that is no answer changes nothing when it is queued.
LEMMA OtherQueued ==
    ASSUME TypeOK, LabelsTell, NEW b \in Block, b.kind # "labels",
           mainQueue' = Append(mainQueue, b), UNCHANGED <<apiTemperature, apiLabels>>
    PROVE  LabelsTell'
<1>1. /\ Len(mainQueue) \in Nat /\ DOMAIN mainQueue = 1..Len(mainQueue)
      /\ DOMAIN mainQueue' = 1..Len(mainQueue) + 1
      /\ \A k \in 1..Len(mainQueue) : mainQueue'[k] = mainQueue[k]
      /\ mainQueue'[Len(mainQueue) + 1] = b
  BY LenProperties DEF TypeOK
<1>2. Labels' = Labels
  BY <1>1 DEF Labels, Waiting
<1>3. \A k \in Labels : mainQueue'[k] = mainQueue[k]
  BY <1>1 DEF Labels, Waiting
<1> QED
  BY <1>2, <1>3 DEF LabelsTell

\* An answer is queued whose temperature has been stored.
LEMMA AnswerQueued ==
    ASSUME TypeOK, NEW a \in Answer, mainQueue' = Append(mainQueue, LabelsBlock(a)),
           apiTemperature' = a.kelvin
    PROVE  LabelsTell'
<1> DEFINE last == Len(mainQueue) + 1
<1>1. LabelsBlock(a).kind = "labels" /\ LabelsBlock(a).answer = a
  BY QueuedBlocks
<1>2. /\ Len(mainQueue) \in Nat
      /\ DOMAIN mainQueue' = 1..last /\ mainQueue'[last] = LabelsBlock(a)
  BY LenProperties, QueuedBlocks DEF TypeOK
<1>3. last \in Labels' /\ \A j \in Labels' : j <= last
  BY <1>1, <1>2 DEF Labels, Waiting
<1>4. mainQueue'[last].answer.kelvin = a.kelvin
  BY <1>1, <1>2
<1> HIDE DEF last
<1> QED
  BY <1>3, <1>4 DEF LabelsTell

\* A block is taken off the queue, and if it is an answer the labels show it.
LEMMA BlockTaken ==
    ASSUME TypeOK, LabelsTell, mainQueue # <<>>, mainQueue' = Tail(mainQueue),
           apiTemperature' = apiTemperature,
           apiLabels' = IF Head(mainQueue).kind = "labels" THEN Head(mainQueue).answer ELSE apiLabels
    PROVE  LabelsTell'
<1>1. /\ Len(mainQueue) \in Nat \ {0} /\ DOMAIN mainQueue = 1..Len(mainQueue)
      /\ DOMAIN mainQueue' = 1..Len(mainQueue) - 1
      /\ \A k \in 1..Len(mainQueue) - 1 : mainQueue'[k] = mainQueue[k + 1]
      /\ Head(mainQueue) = mainQueue[1]
  BY LenProperties, HeadTailProperties DEF TypeOK
<1>2. Labels' = {k \in 1..Len(mainQueue) - 1 : k + 1 \in Labels}
  BY <1>1 DEF Labels, Waiting
<1>3. Labels \subseteq 1..Len(mainQueue)
  BY <1>1 DEF Labels, Waiting
<1>4. 1 \in Labels <=> Head(mainQueue).kind = "labels"
  BY <1>1 DEF Labels, Waiting
<1>5. CASE Labels = {}
  BY <1>2, <1>4, <1>5 DEF LabelsTell
<1>6. CASE Labels # {}
  <2>1. PICK k \in Labels :
            /\ \A j \in Labels : j <= k
            /\ apiTemperature = mainQueue[k].answer.kelvin
    BY <1>6 DEF LabelsTell
  <2>2. CASE k = 1
    <3>1. Labels' = {}
      BY <1>1, <1>2, <1>3, <2>1, <2>2
    <3>2. apiLabels' = mainQueue[1].answer
      BY <1>1, <1>4, <2>2
    <3>3. apiLabels' # None
      <4>1. mainQueue[1] \in Block /\ mainQueue[1].kind = "labels"
        BY <1>1, <1>4, <2>2, ElementOfSeq DEF TypeOK
      <4>2. mainQueue[1].answer \in Answer
        BY <4>1, BlockTypes
      <4> QED
        BY <3>2, <4>2, HomeAssumption DEF Answer
    <3> QED
      BY <2>1, <2>2, <3>1, <3>2, <3>3 DEF LabelsTell
  <2>3. CASE k # 1
    <3>1. /\ k - 1 \in Labels' /\ k - 1 \in 1..Len(mainQueue) - 1
          /\ mainQueue'[k - 1] = mainQueue[k]
      BY <1>1, <1>2, <1>3, <2>3
    <3>2. \A j \in Labels' : j <= k - 1
      BY <1>1, <1>2, <1>3, <2>1
    <3> QED
      BY <2>1, <3>1, <3>2 DEF LabelsTell
  <2> QED
    BY <2>2, <2>3
<1> QED
  BY <1>5, <1>6

\* Each step keeps labels and temperature together.
LEMMA FollowsStep ==
    ASSUME TypeOK, Follows, [Next]_vars
    PROVE  Follows'
<1>0. ASSUME UNCHANGED <<answering, mainQueue, apiTemperature, apiLabels>>, alive' => alive
      PROVE  Follows'
  BY <1>0 DEF Follows, LabelsTell, Labels, Waiting
<1>a. ASSUME alive, NEW b \in Block, b.kind # "labels", mainQueue' = Append(mainQueue, b),
             UNCHANGED <<answering, apiTemperature, apiLabels>>
      PROVE  Follows'
  BY <1>a, OtherQueued DEF Follows
<1>1. ASSUME NEW t \in Temp, OnDataListChange(t)
      PROVE  Follows'
  BY <1>0, <1>1 DEF OnDataListChange, weather
<1>2. ASSUME NEW g \in Gif, FinishGif(g)
      PROVE  Follows'
  BY <1>2, <1>a, QueuedBlocks DEF FinishGif, weather
<1>3. ASSUME NEW p \in Place, LocationUpdate(p)
      PROVE  Follows'
  BY <1>0, <1>3 DEF LocationUpdate
<1>4. ASSUME NEW p \in Place, NEW s \in Sky \cup {None}, NEW k \in Kelvin,
             WeatherAnswered(p, s, k)
      PROVE  Follows'
  <2> DEFINE answer == [place |-> p, sky |-> s, kelvin |-> k]
  <2>1. answer.kelvin = k
    OBVIOUS
  <2>2. answering' = {answer} /\ apiTemperature' = k
    BY <1>4 DEF WeatherAnswered, TakeWeatherTask
  <2> HIDE DEF answer
  <2> QED
    BY <2>1, <2>2 DEF Follows
<1>5. ASSUME NEW a \in answering, QueueLabels(a)
      PROVE  Follows'
  <2>1. answering = {a} /\ apiTemperature = a.kelvin
    BY <1>5 DEF QueueLabels, Follows
  <2>2. answering' = {} /\ apiTemperature' = a.kelvin /\ a \in Answer
    BY <1>5, <2>1 DEF QueueLabels, TypeOK
  <2>3. LabelsTell'
    BY <1>5, <2>2, AnswerQueued DEF QueueLabels
  <2> QED
    BY <2>2, <2>3 DEF Follows
<1>6. ASSUME NEW p \in Place, WeatherFailed(p) \/ WeatherUndecodable(p)
      PROVE  Follows'
  BY <1>0, <1>6 DEF WeatherFailed, WeatherUndecodable, TakeWeatherTask
<1>7. ASSUME NEW s \in Sky, IconAnswered(s)
      PROVE  Follows'
  <2>1. PICK b \in {IconBlock(s), LostIconBlock} : mainQueue' = Append(mainQueue, b)
    BY <1>7 DEF IconAnswered
  <2>2. b \in Block /\ b.kind # "labels"
    BY QueuedBlocks
  <2> QED
    BY <1>7, <1>a, <2>1, <2>2 DEF IconAnswered, weather
<1>8. CASE RunBlock
  <2>1. /\ mainQueue # <<>> /\ mainQueue' = Tail(mainQueue) /\ alive
        /\ apiTemperature' = apiTemperature /\ answering' = answering
    BY <1>8 DEF RunBlock, ShowGif, ShowWeather, ShowNoSky, ShowIcon, ShowLostIcon, TakeBlock,
                weather
  <2>2. alive' => apiLabels' = IF Head(mainQueue).kind = "labels" THEN Head(mainQueue).answer
                               ELSE apiLabels
    BY <1>8 DEF RunBlock, ShowGif, ShowWeather, ShowNoSky, ShowIcon, ShowLostIcon, TakeBlock
  <2>3. CASE LabelsTell /\ alive'
    <3>1. LabelsTell'
      BY <2>1, <2>2, <2>3, BlockTaken
    <3> QED
      BY <2>1, <3>1 DEF Follows
  <2> QED
    BY <2>1, <2>3 DEF Follows
<1>9. CASE UNCHANGED vars
  BY <1>0, <1>9 DEF vars, weather
<1> QED
  BY <1>1, <1>2, <1>3, <1>4, <1>5, <1>6, <1>7, <1>8, <1>9 DEF Next

\* Among labels that tell of the last answer queued, CHOOSE finds that answer.
LEMMA LatestTold ==
    ASSUME TypeOK, LabelsTell
    PROVE  apiTemperature = IF LatestQueued = None THEN 0 ELSE LatestQueued.kelvin
<1>1. CASE Labels = {}
  BY <1>1 DEF LabelsTell, LatestQueued, Labels
<1>2. CASE Labels # {}
  <2>1. PICK k \in Labels :
            /\ \A j \in Labels : j <= k
            /\ apiTemperature = mainQueue[k].answer.kelvin
    BY <1>2 DEF LabelsTell
  <2> DEFINE last == CHOOSE n \in Labels : \A j \in Labels : j <= n
  <2>2. last \in Labels /\ \A j \in Labels : j <= last
    BY <2>1
  <2>3. Labels \subseteq Nat
    BY LenProperties DEF Labels, Waiting, TypeOK
  <2> HIDE DEF last
  <2>4. last = k
    BY <2>1, <2>2, <2>3
  <2>5. LatestQueued = mainQueue[k].answer
    BY <1>2, <2>4 DEF LatestQueued, Labels, last
  <2>6. mainQueue[k].answer \in Answer
    BY <2>1, BlockTypes, LenProperties, ElementOfSeq DEF Labels, Waiting, TypeOK
  <2>7. LatestQueued # None
    BY <2>5, <2>6, HomeAssumption DEF Answer
  <2> QED
    BY <2>1, <2>5, <2>7
<1> QED
  BY <1>1, <1>2

\* The temperature a room is compared with is the one of the answer being
\* handled or else the one the labels show or will show, however many requests
\* are in flight and whatever the main queue runs in between.
THEOREM LabelsFollow == Spec => []LabelsFollowTemperature
<1>1. TypeOK /\ Follows => LabelsFollowTemperature
  BY LatestTold DEF Follows, LabelsFollowTemperature
<1>2. Init => Follows
  BY DEF Init, Follows, LabelsTell, Labels, Waiting
<1>3. Spec => []Follows
  BY <1>2, HomeTypeCorrect, FollowsStep, PTL DEF Spec
<1> QED
  BY <1>1, <1>3, HomeTypeCorrect, PTL
=============================================================================
