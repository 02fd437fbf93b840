---------------------------- MODULE SensingProofs ---------------------------
(***************************************************************************)
(* That the sensing chain uses the monitor only as the monitor's own       *)
(* module allows, for every cadence, dial and configuration: every message *)
(* in the queue is a reading the module may consider, every tick heard one *)
(* it may hear, and what happens around the monitor leaves it alone.       *)
(*                                                                         *)
(* The one delicate point is a divergence, which is published in the step  *)
(* that raises it and gone in the next, whatever that is: as a step of the *)
(* monitor's it must then be running, to hear the time it knows.           *)
(***************************************************************************)
EXTENDS Sensing, SequenceTheorems, TLAPS

\* The types of what surrounds the monitor.
ChainTypes ==
    /\ now \in 0..MaxTick /\ queue \in Seq(Observations)
    /\ platformUp \in BOOLEAN /\ platformHeard \in BOOLEAN
    /\ lastStepped \in 0..MaxTick \cup {None} /\ reportInterval \in Nat \ {0}
    /\ sensorsUp \in BOOLEAN /\ sensorsHeard \in BOOLEAN
    /\ lastSampled \in 0..MaxTick \cup {None}
    /\ position \in 0..MaxTick \cup {None} /\ sampleInterval \in Nat \ {0}
    /\ platformFirst \in BOOLEAN /\ ingestUp \in BOOLEAN
    /\ rows \subseteq {Temperature, Salinity, Deep, Ownship} \X (0..MaxTick)
    /\ prompts \in 0..MaxPrompts /\ stops \in 0..MaxStops
    /\ disturbed \in 0..MaxTick /\ missed \in BOOLEAN

\* A monitor that has just raised something is running, and knows the time.
MonitorHears ==
    /\ monitorUp \in BOOLEAN /\ monitorTick \in 0..MaxTick
    /\ ~monitorUp => raised = None

IInv == ChainTypes /\ MonitorHears

-----------------------------------------------------------------------------
(* What is put in the queue.                                               *)

\* What an observation is made of.
LEMMA ObservationType ==
    ASSUME NEW d \in {Temperature, Salinity, Deep, Ownship}, NEW t \in 0..MaxTick,
           NEW sound \in BOOLEAN
    PROVE  Observation(d, t, sound) \in Observations
  BY DEF Observation, Observations

\* A queue of one observation.
LEMMA OneObservation ==
    ASSUME NEW o \in Observations PROVE <<o>> \in Seq(Observations)
  OBVIOUS

\* There is an instrument, and every one of them is known.
LEMMA InstrumentsNamed ==
    /\ Len(Instruments) \in Nat /\ DOMAIN Instruments = 1..Len(Instruments)
    /\ \A i \in DOMAIN Instruments : Instruments[i] \in {Temperature, Salinity, Deep}
    /\ 1 \in DOMAIN Instruments
<1>1. Instruments \in Seq({Temperature, Salinity, Deep}) /\ Instruments # <<>>
  BY SensingAssumption
<1> QED
  BY <1>1

\* A batch is a sequence of observations.
LEMMA BatchType == ASSUME NEW t \in 0..MaxTick PROVE Batch(t) \in Seq(Observations)
<1>1. \A i \in 1..Len(Instruments) :
          Observation(Instruments[i], t, TRUE) \in Observations
  BY InstrumentsNamed, ObservationType
<1>2. Batch(t) = [i \in 1..Len(Instruments) |-> Observation(Instruments[i], t, TRUE)]
  BY InstrumentsNamed DEF Batch
<1>3. Batch(t) \in [1..Len(Instruments) -> Observations]
  BY <1>1, <1>2
<1> QED
  BY <1>3, InstrumentsNamed, SeqDef

\* What a sample publishes are observations.
LEMMA SampleSays ==
    ASSUME NEW t \in 0..MaxTick
    PROVE  /\ PlatformSays(t) \o SensorsSay(t) \in Seq(Observations)
           /\ SensorsSay(t) \o PlatformSays(t) \in Seq(Observations)
<1>1. <<>> \in Seq(Observations)
  OBVIOUS
<1>2. PlatformSays(t) \in Seq(Observations)
  BY <1>1, ObservationType, OneObservation DEF PlatformSays
<1>3. SensorsSay(t) \in Seq(Observations)
  BY <1>1, BatchType DEF SensorsSay
<1> QED
  BY <1>2, <1>3, ConcatProperties

-----------------------------------------------------------------------------
\* Nothing is sensed before the first sample.
LEMMA InitIInv == Init => IInv
<1> SUFFICES ASSUME Init PROVE IInv
  OBVIOUS
<1>1. <<>> \in Seq(Observations) /\ 0 \in 0..MaxTick /\ 0 \in 0..MaxPrompts
      /\ 0 \in 0..MaxStops
  BY MonitorAssumption, SensingAssumption
<1>2. ChainTypes
  BY <1>1, SensingAssumption DEF Init, ChainTypes
<1>3. MonitorHears
  BY <1>1 DEF Init, Mon!Init, MonitorHears
<1> QED
  BY <1>2, <1>3 DEF IInv

\* A sample keeps the invariant.
LEMMA SampleKeeps ==
    ASSUME IInv, NEW t \in 0..MaxTick, Sample(t), now' = t, prompts' \in 0..MaxPrompts
    PROVE  IInv'
<1>1. queue' \in Seq(Observations)
  BY SampleSays DEF Sample
<1>2. /\ platformUp' = platformUp /\ reportInterval' = reportInterval
      /\ platformHeard' \in BOOLEAN /\ lastStepped' \in 0..MaxTick \cup {None}
  BY DEF Sample, PlatformSample, platformVars, IInv, ChainTypes
<1>3. /\ sensorsUp' = sensorsUp /\ position' = position
      /\ sampleInterval' = sampleInterval
      /\ sensorsHeard' \in BOOLEAN /\ lastSampled' \in 0..MaxTick \cup {None}
  BY DEF Sample, SensorsSample, sensorsVars, IInv, ChainTypes
<1>4. ChainTypes'
  BY <1>1, <1>2, <1>3 DEF Sample, IInv, ChainTypes, ingestVars, plane
<1>5. MonitorHears'
  BY DEF Sample, Mon!HearClock, IInv, MonitorHears
<1> QED
  BY <1>4, <1>5 DEF IInv

\* The delivery of an observation keeps the invariant.
LEMMA DeliverKeeps == ASSUME IInv, Deliver PROVE IInv'
<1> DEFINE o == Head(queue)
<1>1. queue # <<>> /\ queue \in Seq(Observations)
  BY DEF Deliver, Drained, IInv, ChainTypes
<1>2. o \in Observations /\ Tail(queue) \in Seq(Observations)
  BY <1>1, HeadTailProperties
<1>3. rows' \subseteq {Temperature, Salinity, Deep, Ownship} \X (0..MaxTick)
  BY <1>2 DEF Deliver, Identifier, Observations, IInv, ChainTypes
<1>4. position' \in 0..MaxTick \cup {None}
  BY <1>2 DEF Deliver, Observations, IInv, ChainTypes
<1>5. ChainTypes'
  BY <1>2, <1>3, <1>4
     DEF Deliver, IInv, ChainTypes, platformVars, plane
<1>6. CASE monitorUp
  <2>1. Mon!Consider(o)
    BY <1>6 DEF Deliver
  <2>2. monitorUp' = monitorUp /\ monitorTick' = monitorTick
    BY <2>1 DEF Mon!Consider, Mon!instance
  <2> QED
    BY <1>5, <1>6, <2>2 DEF IInv, MonitorHears
<1>7. CASE ~monitorUp
  BY <1>5, <1>7 DEF Deliver, monitorState, IInv, MonitorHears
<1> QED
  BY <1>6, <1>7

\* Actions that leave the monitor alone but for the divergence, which is gone.
LEMMA QuietKeeps ==
    ASSUME IInv, raised' = None, UNCHANGED monitorState
    PROVE  MonitorHears'
  BY DEF monitorState, IInv, MonitorHears

\* A request for a sample keeps the invariant.
LEMMA RequestsKeep ==
    ASSUME IInv, SampleOnRequest \/ FaultySample \/ ReportOnRequest
    PROVE  IInv'
<1>1. MayAsk /\ Quietly
  BY DEF SampleOnRequest, FaultySample, ReportOnRequest
<1>2. <<>> \in Seq(Observations) /\ Batch(now) \in Seq(Observations)
  BY BatchType DEF IInv, ChainTypes
<1>3. \A sound \in BOOLEAN :
          /\ <<Observation(Ownship, now, sound)>> \in Seq(Observations)
          /\ <<Observation(Instruments[1], now, sound)>> \in Seq(Observations)
  BY ObservationType, OneObservation, InstrumentsNamed DEF IInv, ChainTypes
<1>4. queue' \in Seq(Observations)
  BY <1>2, <1>3 DEF SampleOnRequest, FaultySample, ReportOnRequest
<1>5. UNCHANGED <<platformVars, sensorsVars, stops, disturbed>>
  BY DEF SampleOnRequest, FaultySample, ReportOnRequest
<1>6. prompts' \in 0..MaxPrompts
  BY <1>1, SensingAssumption DEF MayAsk, IInv, ChainTypes
<1>7. ChainTypes'
  BY <1>1, <1>4, <1>5, <1>6
     DEF Quietly, platformVars, sensorsVars, ingestVars, IInv, ChainTypes
<1> QED
  BY <1>1, <1>7, QuietKeeps DEF Quietly, IInv

\* Tuning keeps the invariant.
LEMMA TuningKeeps ==
    ASSUME IInv, TunePlatform \/ TuneSensors \/ TuneMonitor
    PROVE  IInv'
<1>1. prompts' \in 0..MaxPrompts
  BY SensingAssumption
     DEF TunePlatform, TuneSensors, TuneMonitor, MayAsk, IInv, ChainTypes
<1>2. CASE TunePlatform
  <2>1. ChainTypes'
    BY <1>1, <1>2, SensingAssumption
       DEF TunePlatform, Quietly, sensorsVars, ingestVars, IInv, ChainTypes
  <2> QED
    BY <1>2, <2>1, QuietKeeps DEF TunePlatform, Quietly, IInv
<1>3. CASE TuneSensors
  <2>1. ChainTypes'
    BY <1>1, <1>3, SensingAssumption
       DEF TuneSensors, Quietly, platformVars, ingestVars, IInv, ChainTypes
  <2> QED
    BY <1>3, <2>1, QuietKeeps DEF TuneSensors, Quietly, IInv
<1>4. CASE TuneMonitor
  BY <1>1, <1>4
     DEF TuneMonitor, Mon!Tune, platformVars, sensorsVars, ingestVars, IInv,
         ChainTypes, MonitorHears
<1> QED
  BY <1>2, <1>3, <1>4

\* The operator's verbs keep the invariant.
LEMMA VerbsKeep ==
    ASSUME IInv,
           \/ StopPlatform \/ StartPlatform \/ StopSensors \/ StartSensors
           \/ StopIngest \/ StartIngest
    PROVE  IInv'
<1>1. /\ raised' = None /\ UNCHANGED <<monitorState, now, queue, rows, prompts>>
      /\ stops' \in 0..MaxStops
  BY SensingAssumption
     DEF StopPlatform, StartPlatform, StopSensors, StartSensors, StopIngest,
         StartIngest, MayStop, Quietly, ingestVars, plane, IInv, ChainTypes
<1>2. /\ platformUp' \in BOOLEAN /\ platformHeard' \in BOOLEAN
      /\ lastStepped' \in 0..MaxTick \cup {None} /\ reportInterval' \in Nat \ {0}
  BY SensingAssumption
     DEF StopPlatform, StartPlatform, StopSensors, StartSensors, StopIngest,
         StartIngest, platformVars, IInv, ChainTypes
<1>3. /\ sensorsUp' \in BOOLEAN /\ sensorsHeard' \in BOOLEAN
      /\ lastSampled' \in 0..MaxTick \cup {None}
      /\ position' \in 0..MaxTick \cup {None} /\ sampleInterval' \in Nat \ {0}
  BY SensingAssumption
     DEF StopPlatform, StartPlatform, StopSensors, StartSensors, StopIngest,
         StartIngest, sensorsVars, IInv, ChainTypes
<1>4. /\ platformFirst' \in BOOLEAN /\ ingestUp' \in BOOLEAN
      /\ disturbed' \in 0..MaxTick /\ missed' \in BOOLEAN
  BY DEF StopPlatform, StartPlatform, StopSensors, StartSensors, StopIngest,
         StartIngest, Quietly, ingestVars, plane, IInv, ChainTypes
<1>5. ChainTypes'
  BY <1>1, <1>2, <1>3, <1>4 DEF IInv, ChainTypes
<1> QED
  BY <1>1, <1>5, QuietKeeps DEF IInv

\* The verbs that stop and start the monitor keep the invariant.
LEMMA MonitorVerbsKeep ==
    ASSUME IInv, StopMonitor \/ StartMonitor \/ Forecast
    PROVE  IInv'
<1>1. /\ UNCHANGED <<now, queue, platformVars, sensorsVars, ingestVars,
                     platformFirst, prompts, disturbed, missed>>
      /\ stops' \in 0..MaxStops
  BY SensingAssumption
     DEF StopMonitor, StartMonitor, Forecast, MayStop, plane, IInv, ChainTypes
<1>2. ChainTypes'
  BY <1>1 DEF platformVars, sensorsVars, ingestVars, IInv, ChainTypes
<1>3. ASSUME StopMonitor PROVE MonitorHears'
  <2>1. monitorUp' = FALSE /\ monitorTick' = 0 /\ raised' = None
    BY <1>3 DEF StopMonitor, Mon!Stop, Mon!Blank
  <2>2. 0 \in 0..MaxTick
    BY MonitorAssumption
  <2> QED
    BY <2>1, <2>2 DEF MonitorHears
<1>4. ASSUME StartMonitor PROVE MonitorHears'
  BY <1>4 DEF StartMonitor, Mon!Start, IInv, MonitorHears
<1>5. ASSUME Forecast PROVE MonitorHears'
  BY <1>5 DEF Forecast, Mon!NewForecast, Mon!instance, IInv, MonitorHears
<1> QED
  BY <1>2, <1>3, <1>4, <1>5 DEF IInv

\* Every step of sensing keeps the invariant.
LEMMA StepKeeps == IInv /\ [Next]_vars => IInv'
<1> SUFFICES ASSUME IInv, [Next]_vars PROVE IInv'
  OBVIOUS
<1>1. CASE Tick
  <2>1. now + 1 \in 0..MaxTick /\ now' = now + 1 /\ Sample(now + 1)
    BY <1>1, MonitorAssumption DEF Tick, IInv, ChainTypes
  <2>2. prompts' \in 0..MaxPrompts
    BY <2>1 DEF Sample, plane, IInv, ChainTypes
  <2> QED
    BY <2>1, <2>2, SampleKeeps
<1>2. CASE Repeat
  <2>1. now \in 0..MaxTick /\ now' = now /\ Sample(now)
    BY <1>2 DEF Repeat, IInv, ChainTypes
  <2>2. prompts' \in 0..MaxPrompts
    BY <2>1 DEF Sample, plane, IInv, ChainTypes
  <2> QED
    BY <2>1, <2>2, SampleKeeps
<1>3. CASE UNCHANGED vars
  BY <1>3
     DEF vars, monitorVars, monitorState, platformVars, sensorsVars, ingestVars,
         plane, IInv, ChainTypes, MonitorHears
<1> QED
  BY <1>1, <1>2, <1>3, DeliverKeeps, RequestsKeep, TuningKeeps, VerbsKeep,
     MonitorVerbsKeep DEF Next

-----------------------------------------------------------------------------
(* Every step is one of the monitor's, or leaves it alone.                 *)

\* The time heard again, which takes a divergence off the air.
LEMMA QuietIsAStep ==
    ASSUME IInv, raised' = None, UNCHANGED <<standing, monitorState>>
    PROVE  [Mon!Next]_(Mon!vars)
<1>1. CASE monitorUp
  <2>1. monitorTick \in 0..MaxTick /\ Mon!HearClock(monitorTick)
    BY DEF IInv, MonitorHears, Mon!HearClock, monitorState
  <2> QED
    BY <1>1, <2>1 DEF Mon!Next, monitorState
<1>2. CASE ~monitorUp
  BY <1>2 DEF IInv, MonitorHears, Mon!vars, Mon!instance, monitorState
<1> QED
  BY <1>1, <1>2

\* A sample is a step of the monitor, or nothing to it.
LEMMA SampleIsAStep ==
    ASSUME IInv, NEW t \in 0..MaxTick, Sample(t)
    PROVE  [Mon!Next]_(Mon!vars)
<1>1. CASE monitorUp
  BY <1>1 DEF Sample, Mon!Next
<1>2. CASE ~monitorUp
  BY <1>2, QuietIsAStep DEF Sample, monitorState
<1> QED
  BY <1>1, <1>2

\* A delivery is a step of the monitor, or nothing to it.
LEMMA DeliverIsAStep == ASSUME IInv, Deliver PROVE [Mon!Next]_(Mon!vars)
<1>1. queue # <<>> /\ queue \in Seq(Observations)
  BY DEF Deliver, Drained, IInv, ChainTypes
<1>2. Head(queue) \in Mon!Readings
  <2>1. Head(queue) \in Observations
    BY <1>1, HeadTailProperties
  <2>2. {Temperature, Salinity, Deep, Ownship} = Mon!Datastreams
    BY DEF Mon!Datastreams, Mon!Pair
  <2> QED
    BY <2>1, <2>2 DEF Observations, Mon!Readings
<1>3. CASE monitorUp
  BY <1>2, <1>3 DEF Deliver, Mon!Next
<1>4. CASE ~monitorUp
  BY <1>4, QuietIsAStep DEF Deliver
<1> QED
  BY <1>3, <1>4

\* Every step of sensing is one of the monitor, or nothing to it.
LEMMA StepIsTheMonitors == IInv /\ [Next]_vars => [Mon!Next]_(Mon!vars)
<1> SUFFICES ASSUME IInv, [Next]_vars PROVE [Mon!Next]_(Mon!vars)
  OBVIOUS
<1>1. CASE Tick
  BY <1>1, SampleIsAStep, MonitorAssumption DEF Tick, IInv, ChainTypes
<1>2. CASE Repeat
  BY <1>2, SampleIsAStep DEF Repeat, IInv, ChainTypes
<1>3. CASE Deliver
  BY <1>3, DeliverIsAStep
<1>4. CASE \/ SampleOnRequest \/ FaultySample \/ ReportOnRequest
           \/ TunePlatform \/ TuneSensors
           \/ StopPlatform \/ StartPlatform \/ StopSensors \/ StartSensors
           \/ StopIngest \/ StartIngest
  <2>1. raised' = None /\ UNCHANGED <<standing, monitorState>>
    BY <1>4
       DEF SampleOnRequest, FaultySample, ReportOnRequest, TunePlatform,
           TuneSensors, StopPlatform, StartPlatform, StopSensors, StartSensors,
           StopIngest, StartIngest, Quietly
  <2> QED
    BY <2>1, QuietIsAStep
<1>5. CASE Forecast \/ TuneMonitor \/ StopMonitor \/ StartMonitor
  BY <1>5 DEF Forecast, TuneMonitor, StopMonitor, StartMonitor, Mon!Next
<1>6. CASE UNCHANGED vars
  BY <1>6 DEF vars, monitorVars, monitorState, Mon!vars, Mon!instance
<1> QED
  BY <1>1, <1>2, <1>3, <1>4, <1>5, <1>6 DEF Next

-----------------------------------------------------------------------------
\* The inductive invariant: the types of the chain, and a monitor that has just
\* raised something is running (platform.ts:71-86, sensors.ts:82-96, monitor.ts:64-73).
THEOREM SensingInvariance == Spec => []IInv
  BY InitIInv, StepKeeps, PTL DEF Spec

\* The platform, the sensors, the seam and the reader drive the monitor only as its
\* own module allows: what is proved of the monitor holds of it in the chain, for
\* every cadence, dial, threshold and persistence (monitor.ts:120-145).
THEOREM SensingImplementsMonitor == Spec => MonitorSpec
<1>1. Init => Mon!Init
  BY DEF Init
<1> QED
  BY <1>1, StepIsTheMonitors, SensingInvariance, PTL DEF Spec, MonitorSpec, Mon!Spec

-----------------------------------------------------------------------------
(* What is proved of the monitor, said of the chain.                       *)

Proved == INSTANCE MonitorProofs WITH Others <- {Deep, Ownship}

\* The monitor whose proofs are at hand is the chain's.
LEMMA SameMonitor == MonitorSpec => Proved!Spec
<1>1. Mon!Init => Proved!Init
  BY DEF Mon!Init, Proved!Init
<1>2. UNCHANGED Mon!vars => UNCHANGED Proved!vars
  BY DEF Mon!vars, Proved!vars, Mon!instance, Proved!instance
<1>3. ASSUME NEW t, Mon!HearClock(t) PROVE Proved!HearClock(t)
  BY <1>3 DEF Mon!HearClock, Proved!HearClock
<1>4. ASSUME NEW o, Mon!Consider(o) PROVE Proved!Consider(o)
  BY <1>4
     DEF Mon!Consider, Proved!Consider, Mon!Pair, Proved!Pair, Mon!instance,
         Proved!instance, Mon!Complete, Proved!Complete, Mon!Filled,
         Proved!Filled, Mon!Slot, Proved!Slot, Mon!Score, Proved!Score,
         Mon!Scores, Proved!Scores, Mon!Over, Proved!Over, Mon!ScoreOver,
         Proved!ScoreOver, Mon!ScoreWithin, Proved!ScoreWithin, Mon!Streak,
         Proved!Streak, Mon!BreachOf, Proved!BreachOf, Mon!DivergenceOf,
         Proved!DivergenceOf
<1>5. Mon!Readings = Proved!Readings
  BY DEF Mon!Readings, Proved!Readings, Mon!Datastreams, Proved!Datastreams,
         Mon!Pair, Proved!Pair
<1>6. /\ Mon!Tune => Proved!Tune
      /\ Mon!Stop => Proved!Stop
      /\ Mon!Start => Proved!Start
      /\ Mon!NewForecast => Proved!NewForecast
  BY DEF Mon!Tune, Proved!Tune, Mon!Stop, Proved!Stop, Mon!Blank, Proved!Blank,
         Mon!Start, Proved!Start, Mon!NewForecast, Proved!NewForecast,
         Mon!instance, Proved!instance
<1>7. Mon!Next => Proved!Next
  BY <1>3, <1>4, <1>5, <1>6 DEF Mon!Next, Proved!Next
<1>8. [Mon!Next]_(Mon!vars) => [Proved!Next]_(Proved!vars)
  BY <1>2, <1>7
<1> QED
  BY <1>1, <1>8, PTL DEF MonitorSpec, Mon!Spec, Proved!Spec

\* A divergence raised anywhere in the chain, after any prompts, tunings, faulty
\* samples and restarts, rests on consecutive breaching pairs scored against the
\* forecast it names (monitor.ts:194-224, sensors.ts:311-340).
THEOREM ChainDivergencesAreEarned == Spec => []EvidenceIsConsecutive
<1>1. Proved!EvidenceIsConsecutive => EvidenceIsConsecutive
  BY DEF EvidenceIsConsecutive, Mon!EvidenceIsConsecutive,
         Proved!EvidenceIsConsecutive
<1>2. Proved!Spec => []Proved!EvidenceIsConsecutive
  BY Proved!DivergencesAreEarned, MonitorAssumption
<1> QED
  BY <1>1, <1>2, SensingImplementsMonitor, SameMonitor, PTL

\* Every field of the chain keeps its type, for every configuration
\* (platform.ts:71-86, sensors.ts:82-96, observation-store/store.ts:14).
THEOREM SensingTypeCorrect == Spec => []SensingTypeOK
<1>1. Proved!TypeOK => Mon!TypeOK
  BY DEF Proved!TypeOK, Mon!TypeOK, Proved!Readings, Mon!Readings,
         Proved!Datastreams, Mon!Datastreams, Proved!Pair, Mon!Pair,
         Proved!Breaches, Mon!Breaches
<1>2. Proved!Spec => []Proved!TypeOK
  BY Proved!MonitorTypeCorrect, MonitorAssumption
<1>3. IInv /\ Mon!TypeOK => SensingTypeOK
  BY DEF IInv, ChainTypes, SensingTypeOK
<1> QED
  BY <1>1, <1>2, <1>3, SensingInvariance, SensingImplementsMonitor, SameMonitor,
     PTL

-----------------------------------------------------------------------------
(* The monitor and the store, which never speak.                           *)

\* Where no observation was missed, what the monitor waits with and what it counts
\* is stored.
OnRecord ==
    ~missed =>
        /\ ingestUp
        /\ \A h \in pending : h.sound => <<h.datastream, h.tick>> \in rows
        /\ \A i \in DOMAIN breaches :
              {Temperature, Salinity} \X {breaches[i].tick} \subseteq rows

\* A reading that completes its pair, whose breach is then of two stored halves.
LEMMA PairOnRecord ==
    ASSUME NEW o, NEW held, Mon!Complete(Mon!Filled(o)),
           \A h \in Mon!Filled(o) : <<h.datastream, h.tick>> \in held
    PROVE  {Temperature, Salinity} \X {Mon!BreachOf(Mon!Filled(o)).tick} \subseteq held
<1>1. \A h \in Mon!Filled(o) : h.tick = o.tick
  BY DEF Mon!Filled, Mon!Slot
<1>2. /\ \E h \in Mon!Filled(o) : h.datastream = Temperature
      /\ \E h \in Mon!Filled(o) : h.datastream = Salinity
  BY DEF Mon!Complete, Mon!Pair
<1>3. Mon!BreachOf(Mon!Filled(o)).tick = o.tick
  BY <1>1, <1>2 DEF Mon!BreachOf
<1>4. <<Temperature, o.tick>> \in held /\ <<Salinity, o.tick>> \in held
  BY <1>1, <1>2
<1> QED
  BY <1>3, <1>4

\* What a reading leaves of the streak.
LEMMA StreakConsidered ==
    ASSUME Mon!TypeOK, NEW o, Mon!Consider(o)
    PROVE  \/ \A i \in DOMAIN breaches' : i \in DOMAIN breaches /\ breaches'[i] = breaches[i]
           \/ /\ Mon!Complete(Mon!Filled(o)) /\ \A h \in Mon!Filled(o) : h.sound
              /\ \A i \in DOMAIN breaches' :
                    \/ i \in DOMAIN breaches /\ breaches'[i] = breaches[i]
                    \/ breaches'[i] = Mon!BreachOf(Mon!Filled(o))
<1> DEFINE halves == Mon!Filled(o)
           b == Mon!BreachOf(halves)
<1>1. CASE UNCHANGED breaches \/ breaches' = <<>> \/ breaches' = Mon!Streak
  BY <1>1 DEF Mon!Streak
<1>2. CASE /\ Mon!Complete(halves) /\ breaches' = Append(Mon!Streak, b)
           /\ \A h \in halves : h.sound
  <2>1. Mon!Streak \in Seq(Mon!Breaches)
        /\ \A i \in DOMAIN Mon!Streak : i \in DOMAIN breaches /\ Mon!Streak[i] = breaches[i]
    BY EmptySeq DEF Mon!Streak, Mon!TypeOK
  <2> DEFINE streak == Mon!Streak
  <2> HIDE DEF streak, b
  <2>2. streak \in Seq(Mon!Breaches) /\ breaches' = Append(streak, b)
    BY <1>2, <2>1 DEF streak, b
  <2>3. \A i \in DOMAIN breaches' : (i \in DOMAIN streak /\ breaches'[i] = streak[i])
                                    \/ breaches'[i] = b
    BY <2>2
  <2>4. \A i \in DOMAIN streak : i \in DOMAIN breaches /\ streak[i] = breaches[i]
    BY <2>1 DEF streak
  <2> QED
    BY <1>2, <2>3, <2>4 DEF b
<1>3. CASE o.datastream \notin Mon!Pair \/ ~Mon!Complete(halves)
  BY <1>1, <1>3 DEF Mon!Consider, Mon!instance
<1>4. CASE o.datastream \in Mon!Pair /\ Mon!Complete(halves)
  <2>1. Mon!Score(halves)
    BY <1>4 DEF Mon!Consider
  <2>2. CASE \E h \in halves : ~h.sound
    <3>1. Mon!Scores(halves) = {NotANumber, Outside}
      BY <2>2 DEF Mon!Scores
    <3>2. UNCHANGED breaches \/ breaches' = <<>> \/ breaches' = Mon!Streak
      BY <2>1, <3>1 DEF Mon!Score, Mon!Over, Mon!ScoreWithin
    <3> QED
      BY <1>1, <3>2
  <2>3. CASE \A h \in halves : h.sound
    <3>1. \/ UNCHANGED breaches \/ breaches' = <<>> \/ breaches' = Mon!Streak
          \/ breaches' = Append(Mon!Streak, b)
      BY <2>1 DEF Mon!Score, Mon!ScoreOver, Mon!ScoreWithin
    <3> QED
      BY <1>1, <1>2, <1>4, <2>3, <3>1
  <2> QED
    BY <2>2, <2>3
<1> QED
  BY <1>3, <1>4

\* A delivery: the seam hears what the monitor hears.
LEMMA DeliverRecords ==
    ASSUME SensingTypeOK, OnRecord, Deliver
    PROVE  OnRecord'
<1> DEFINE o == Head(queue)
<1> SUFFICES ASSUME ~missed
             PROVE  /\ ingestUp'
                    /\ \A h \in pending' : h.sound => <<h.datastream, h.tick>> \in rows'
                    /\ \A i \in DOMAIN breaches' :
                          {Temperature, Salinity} \X {breaches'[i].tick} \subseteq rows'
  BY DEF OnRecord, Deliver, plane
<1>1. /\ ingestUp' /\ rows \subseteq rows'
      /\ o.sound => <<o.datastream, o.tick>> \in rows'
      /\ \A h \in pending : h.sound => <<h.datastream, h.tick>> \in rows'
      /\ \A i \in DOMAIN breaches :
            {Temperature, Salinity} \X {breaches[i].tick} \subseteq rows'
  BY DEF OnRecord, Deliver, Stores, Identifier
<1>2. CASE ~monitorUp
  BY <1>1, <1>2 DEF Deliver, monitorState
<1>3. CASE monitorUp
  <2>1. Mon!TypeOK /\ Mon!Consider(o)
    BY <1>3 DEF SensingTypeOK, Deliver
  <2> HIDE DEF o
  <2>2. Mon!Filled(o) \subseteq pending \cup {o} /\ pending' \subseteq pending \cup {o}
    BY <2>1 DEF Mon!Consider, Mon!instance, Mon!Filled, Mon!Slot
  <2>3. \A h \in Mon!Filled(o) : h.sound => <<h.datastream, h.tick>> \in rows'
    BY <1>1, <2>2
  <2>4. CASE \A i \in DOMAIN breaches' : i \in DOMAIN breaches /\ breaches'[i] = breaches[i]
    BY <1>1, <2>2, <2>4
  <2>5. CASE /\ Mon!Complete(Mon!Filled(o)) /\ \A h \in Mon!Filled(o) : h.sound
             /\ \A i \in DOMAIN breaches' :
                   \/ i \in DOMAIN breaches /\ breaches'[i] = breaches[i]
                   \/ breaches'[i] = Mon!BreachOf(Mon!Filled(o))
    <3>1. {Temperature, Salinity} \X {Mon!BreachOf(Mon!Filled(o)).tick} \subseteq rows'
      BY <2>3, <2>5, PairOnRecord
    <3>2. \A i \in DOMAIN breaches' :
             {Temperature, Salinity} \X {breaches'[i].tick} \subseteq rows'
      BY <1>1, <2>5, <3>1
    <3> QED
      BY <1>1, <2>2, <3>2
  <2> QED
    BY <2>1, <2>4, <2>5, StreakConsidered
<1> QED
  BY <1>2, <1>3

\* Every step keeps what is counted on record.
LEMMA StepRecords == SensingTypeOK /\ OnRecord /\ [Next]_vars => OnRecord'
<1> SUFFICES ASSUME SensingTypeOK, OnRecord, [Next]_vars PROVE OnRecord'
  OBVIOUS
<1>1. CASE Deliver
  BY <1>1, DeliverRecords
<1>2. CASE Tick \/ Repeat
  BY <1>2 DEF Tick, Repeat, Sample, ingestVars, plane, OnRecord
<1>3. CASE SampleOnRequest \/ FaultySample \/ ReportOnRequest \/ TunePlatform \/ TuneSensors
  BY <1>3
     DEF SampleOnRequest, FaultySample, ReportOnRequest, TunePlatform, TuneSensors,
         Quietly, monitorState, ingestVars, OnRecord
<1>4. CASE TuneMonitor \/ Forecast
  BY <1>4
     DEF TuneMonitor, Forecast, Mon!Tune, Mon!NewForecast, Mon!instance, ingestVars,
         plane, OnRecord
<1>5. CASE StopPlatform \/ StartPlatform \/ StopSensors \/ StartSensors
  BY <1>5
     DEF StopPlatform, StartPlatform, StopSensors, StartSensors, Quietly, monitorState,
         ingestVars, OnRecord
<1>6. CASE StopIngest \/ StartIngest
  BY <1>6 DEF StopIngest, StartIngest, monitorState, plane, OnRecord
<1>7. CASE StopMonitor \/ StartMonitor
  <2>1. UNCHANGED <<ingestUp, rows, missed>>
    BY <1>7 DEF StopMonitor, StartMonitor, ingestVars, plane
  <2>2. \/ pending' = {} /\ breaches' = <<>>
        \/ UNCHANGED <<pending, breaches>>
    BY <1>7 DEF StopMonitor, StartMonitor, Mon!Stop, Mon!Start, Mon!Blank
  <2> QED
    BY <2>1, <2>2 DEF OnRecord
<1>8. CASE UNCHANGED vars
  BY <1>8 DEF vars, monitorVars, monitorState, ingestVars, plane, OnRecord
<1> QED
  BY <1>1, <1>2, <1>3, <1>4, <1>5, <1>6, <1>7, <1>8 DEF Next

\* Where the ingestion seam was never stopped, the store holds both readings of every
\* breach in the streak, for every cadence, dial and order of instruments
\* (ingest.ts:69-96, monitor.ts:120-145).
THEOREM EvidenceStaysOnRecord == Spec => []EvidenceIsOnRecord
<1>1. Init => OnRecord
  BY DEF Init, Mon!Init, OnRecord
<1>2. OnRecord => EvidenceIsOnRecord
  BY DEF OnRecord, EvidenceIsOnRecord
<1> QED
  BY <1>1, <1>2, StepRecords, SensingTypeCorrect, PTL DEF Spec

-----------------------------------------------------------------------------
(* Halves that wait.                                                       *)

\* One instrument of the pair is read ahead of the other, and each but once.
Leads(F, G) ==
    /\ {F, G} = Pair /\ F # G
    /\ \E f, g \in DOMAIN Instruments :
          /\ f < g
          /\ \A i \in DOMAIN Instruments : /\ Instruments[i] = F <=> i = f
                                           /\ Instruments[i] = G <=> i = g

\* The pair is read from one list of instruments (as configured: run.json, sensors).
PairSensed == \E F, G \in Pair : Leads(F, G)

\* In a queue, the second half of a pair comes once, sound and after its first; a sound
\* first half comes ahead of its second.
InPairs(F, G, messages) ==
    /\ \A i \in DOMAIN messages : messages[i].datastream = G =>
          /\ messages[i].sound
          /\ \E j \in DOMAIN messages : /\ j < i /\ messages[j].datastream = F
                                        /\ messages[j].tick = messages[i].tick
    /\ \A i \in DOMAIN messages : messages[i].datastream = F /\ messages[i].sound =>
          \E j \in DOMAIN messages : /\ i < j /\ messages[j].datastream = G
                                     /\ messages[j].tick = messages[i].tick
    /\ \A i, j \in DOMAIN messages :
          messages[i].datastream = G /\ messages[j].datastream = G => i = j

\* The same while a drain is under way, the first half delivered: it waits.
HalvesMeet(F, G) ==
    /\ ~monitorUp => pending = {}
    /\ \A h \in pending : h.datastream = F
    /\ \A h \in pending : h.sound =>
          \E i \in DOMAIN queue : queue[i].datastream = G /\ queue[i].tick = h.tick
    /\ \A i \in DOMAIN queue : queue[i].datastream = G =>
          /\ queue[i].sound
          /\ monitorUp =>
                \/ \E h \in pending : h.tick = queue[i].tick
                \/ \E j \in DOMAIN queue : /\ j < i /\ queue[j].datastream = F
                                           /\ queue[j].tick = queue[i].tick
    /\ \A i \in DOMAIN queue : queue[i].datastream = F /\ queue[i].sound =>
          \E j \in DOMAIN queue : /\ i < j /\ queue[j].datastream = G
                                  /\ queue[j].tick = queue[i].tick
    /\ \A i, j \in DOMAIN queue :
          queue[i].datastream = G /\ queue[j].datastream = G => i = j

\* The datastreams are not one another.
LEMMA PairNames ==
    ASSUME NEW F \in Pair, NEW G \in Pair, Leads(F, G)
    PROVE  /\ F # G /\ Pair = {F, G} /\ Ownship \notin {F, G}
           /\ Instruments[1] # G /\ 1 \in DOMAIN Instruments
<1>1. \E f, g \in DOMAIN Instruments :
          f < g /\ \A i \in DOMAIN Instruments : Instruments[i] = G <=> i = g
  BY DEF Leads
<1>2. 1 \in DOMAIN Instruments /\ \A f \in DOMAIN Instruments : f \in Nat /\ f >= 1
  BY InstrumentsNamed
<1>3. Instruments[1] # G
  BY <1>1, <1>2
<1>4. Ownship \notin {F, G}
  BY SensingAssumption DEF Pair
<1> QED
  BY <1>2, <1>3, <1>4 DEF Leads

\* A batch comes in pairs.
LEMMA BatchInPairs ==
    ASSUME NEW F \in Pair, NEW G \in Pair, Leads(F, G), NEW t \in 0..MaxTick
    PROVE  InPairs(F, G, Batch(t))
<1>1. PICK f \in DOMAIN Instruments, g \in DOMAIN Instruments :
         /\ f < g
         /\ \A i \in DOMAIN Instruments : /\ Instruments[i] = F <=> i = f
                                          /\ Instruments[i] = G <=> i = g
  BY DEF Leads
<1>2. /\ DOMAIN Batch(t) = DOMAIN Instruments
      /\ \A i \in DOMAIN Instruments : /\ Batch(t)[i].datastream = Instruments[i]
                                       /\ Batch(t)[i].tick = t /\ Batch(t)[i].sound
  BY DEF Batch, Observation
<1> QED
  BY <1>1, <1>2 DEF InPairs

\* A report of the platform's does not come between.
LEMMA ReportsInPairs ==
    ASSUME NEW F \in Pair, NEW G \in Pair, Leads(F, G),
           NEW a \in Seq(Observations), NEW b \in Seq(Observations),
           \/ /\ \A i \in DOMAIN a : a[i].datastream = Ownship
              /\ InPairs(F, G, b)
           \/ /\ \A i \in DOMAIN b : b[i].datastream = Ownship
              /\ InPairs(F, G, a)
    PROVE  InPairs(F, G, a \o b)
<1> DEFINE m == Len(a)
           n == Len(b)
           c == a \o b
<1>1. /\ m \in Nat /\ n \in Nat /\ DOMAIN a = 1..m /\ DOMAIN b = 1..n
      /\ DOMAIN c = 1..(m + n)
      /\ \A i \in 1..m : c[i] = a[i]
      /\ \A i \in 1..n : c[m + i] = b[i]
      /\ \A i \in (m + 1)..(m + n) : i - m \in 1..n /\ c[i] = b[i - m]
  BY LenProperties, ConcatProperties
<1>2. F # Ownship /\ G # Ownship
  BY PairNames
<1> HIDE DEF c, m, n
<1>3. CASE /\ \A i \in DOMAIN a : a[i].datastream = Ownship
           /\ InPairs(F, G, b)
  <2>1. \A i \in DOMAIN c : c[i].datastream \in {F, G} =>
           i - m \in DOMAIN b /\ c[i] = b[i - m]
    BY <1>1, <1>2, <1>3
  <2>2. \A i \in DOMAIN b : m + i \in DOMAIN c /\ c[m + i] = b[i]
    BY <1>1
  <2>3. ASSUME NEW i \in DOMAIN c, c[i].datastream = G
        PROVE  /\ c[i].sound
               /\ \E j \in DOMAIN c : j < i /\ c[j].datastream = F /\ c[j].tick = c[i].tick
    <3>1. i - m \in DOMAIN b /\ c[i] = b[i - m]
      BY <2>1, <2>3
    <3>2. PICK j \in DOMAIN b : /\ j < i - m /\ b[j].datastream = F
                                /\ b[j].tick = b[i - m].tick
      BY <1>3, <2>3, <3>1 DEF InPairs
    <3>3. m + j < i
      BY <1>1, <3>2
    <3> QED
      BY <1>3, <2>2, <2>3, <3>1, <3>2, <3>3 DEF InPairs
  <2>4. ASSUME NEW i \in DOMAIN c, c[i].datastream = F, c[i].sound
        PROVE  \E j \in DOMAIN c : i < j /\ c[j].datastream = G /\ c[j].tick = c[i].tick
    <3>1. i - m \in DOMAIN b /\ c[i] = b[i - m]
      BY <2>1, <2>4
    <3>2. PICK j \in DOMAIN b : /\ i - m < j /\ b[j].datastream = G
                                /\ b[j].tick = b[i - m].tick
      BY <1>3, <2>4, <3>1 DEF InPairs
    <3>3. i < m + j
      BY <1>1, <3>2
    <3> QED
      BY <2>2, <3>1, <3>2, <3>3
  <2>5. ASSUME NEW i \in DOMAIN c, NEW j \in DOMAIN c, c[i].datastream = G,
               c[j].datastream = G
        PROVE  i = j
    <3>1. i - m = j - m
      BY <1>3, <2>1, <2>5 DEF InPairs
    <3> QED
      BY <1>1, <3>1
  <2> QED
    BY <2>3, <2>4, <2>5 DEF InPairs, c
<1>4. CASE /\ \A i \in DOMAIN b : b[i].datastream = Ownship
           /\ InPairs(F, G, a)
  <2>1. ASSUME NEW i \in DOMAIN c, c[i].datastream \in {F, G}
        PROVE  i \in DOMAIN a /\ c[i] = a[i]
    <3>1. i \in 1..m \/ i \in (m + 1)..(m + n)
      BY <1>1
    <3>2. i \in (m + 1)..(m + n) => c[i].datastream = Ownship
      BY <1>1, <1>4
    <3> QED
      BY <1>1, <1>2, <2>1, <3>1, <3>2
  <2>2. \A i \in DOMAIN a : i \in DOMAIN c /\ c[i] = a[i]
    BY <1>1
  <2>3. InPairs(F, G, c)
    BY <1>4, <2>1, <2>2 DEF InPairs
  <2> QED
    BY <2>3 DEF c
<1> QED
  BY <1>3, <1>4

\* What is put in an empty queue comes in pairs.
LEMMA QueueInPairs ==
    ASSUME NEW F \in Pair, NEW G \in Pair, HalvesMeet(F, G), queue = <<>>,
           InPairs(F, G, queue'), UNCHANGED <<monitorUp, pending>>
    PROVE  HalvesMeet(F, G)'
<1>1. /\ (~monitorUp => pending = {}) /\ (\A h \in pending : h.datastream = F)
      /\ \A h \in pending : ~h.sound
  BY DEF HalvesMeet
<1> QED
  BY <1>1 DEF HalvesMeet, InPairs

\* Nothing is in pairs.
LEMMA NothingInPairs == ASSUME NEW F, NEW G PROVE InPairs(F, G, <<>>)
  BY DEF InPairs

\* A clock sample puts pairs in the queue.
LEMMA SampleInPairs ==
    ASSUME NEW F \in Pair, NEW G \in Pair, Leads(F, G), HalvesMeet(F, G),
           NEW t \in 0..MaxTick, Sample(t)
    PROVE  HalvesMeet(F, G)'
<1> DEFINE a == PlatformSays(t)
           b == SensorsSay(t)
<1>1. a \in Seq(Observations) /\ \A i \in DOMAIN a : a[i].datastream = Ownship
  <2>1. Observation(Ownship, t, TRUE) \in Observations
    BY ObservationType
  <2>2. a = <<>> \/ a = <<Observation(Ownship, t, TRUE)>>
    BY DEF PlatformSays
  <2>3. Observation(Ownship, t, TRUE).datastream = Ownship
    BY DEF Observation
  <2> DEFINE r == Observation(Ownship, t, TRUE)
  <2> HIDE DEF a
  <2>4. CASE a = <<>>
    BY <2>4
  <2>5. CASE a = <<r>>
    <3>1. r \in Observations /\ r.datastream = Ownship
      BY <2>1, <2>3
    <3> HIDE DEF r
    <3>2. \A i \in DOMAIN <<r>> : <<r>>[i] = r
      OBVIOUS
    <3>3. <<r>> \in Seq(Observations)
      BY <3>1, OneObservation
    <3>4. \A i \in DOMAIN a : a[i].datastream = Ownship
      BY <2>5, <3>1, <3>2
    <3> QED
      BY <2>5, <3>3, <3>4
  <2> QED
    BY <2>2, <2>4, <2>5
<1>2. b \in Seq(Observations) /\ InPairs(F, G, b)
  <2>1. CASE b = <<>>
    BY <2>1, NothingInPairs
  <2>2. CASE b = Batch(t)
    BY <2>2, BatchType, BatchInPairs
  <2> QED
    BY <2>1, <2>2 DEF SensorsSay
<1>3. queue = <<>> /\ (queue' = a \o b \/ queue' = b \o a)
      /\ UNCHANGED <<monitorUp, pending>>
  BY DEF Sample, Drained
<1> HIDE DEF a, b
<1>4. InPairs(F, G, a \o b) /\ InPairs(F, G, b \o a)
  BY <1>1, <1>2, ReportsInPairs
<1> QED
  BY <1>3, <1>4, QueueInPairs

\* What the reader asks for comes in pairs, or is half of none that is sound.
LEMMA RequestsInPairs ==
    ASSUME IInv, NEW F \in Pair, NEW G \in Pair, Leads(F, G), HalvesMeet(F, G),
           SampleOnRequest \/ FaultySample \/ ReportOnRequest
    PROVE  HalvesMeet(F, G)'
<1>1. queue = <<>> /\ UNCHANGED <<monitorUp, pending>> /\ now \in 0..MaxTick
  BY DEF SampleOnRequest, FaultySample, ReportOnRequest, MayAsk, Drained, Quietly,
         monitorState, IInv, ChainTypes
<1>2. InPairs(F, G, Batch(now))
  BY <1>1, BatchInPairs
<1>3. ASSUME NEW o, o.datastream # G, ~(o.datastream = F /\ o.sound)
      PROVE  InPairs(F, G, <<o>>)
  <2>1. \A i \in DOMAIN <<o>> : <<o>>[i] = o
    OBVIOUS
  <2> QED
    BY <1>3, <2>1 DEF InPairs
<1>4. InPairs(F, G, <<Observation(Instruments[1], now, FALSE)>>)
  <2>1. /\ Observation(Instruments[1], now, FALSE).datastream # G
        /\ ~Observation(Instruments[1], now, FALSE).sound
    BY PairNames DEF Observation
  <2> QED
    BY <1>3, <2>1
<1>5. \A sound \in BOOLEAN : InPairs(F, G, <<Observation(Ownship, now, sound)>>)
  <2>1. \A sound \in BOOLEAN : Observation(Ownship, now, sound).datastream \notin {F, G}
    BY PairNames DEF Observation
  <2> QED
    BY <1>3, <2>1
<1>6. InPairs(F, G, queue')
  BY <1>2, <1>4, <1>5, NothingInPairs DEF SampleOnRequest, FaultySample, ReportOnRequest
<1> QED
  BY <1>1, <1>6, QueueInPairs

\* A reading delivered waits for the other half behind it, or completes the one ahead.
LEMMA HalvesMeetOnDelivery ==
    ASSUME IInv, NEW F \in Pair, NEW G \in Pair, Leads(F, G), HalvesMeet(F, G), Deliver
    PROVE  HalvesMeet(F, G)'
<1> DEFINE o == Head(queue)
<1>1. /\ queue' = Tail(queue) /\ queue # <<>> /\ queue \in Seq(Observations)
      /\ monitorUp' = monitorUp
  BY DEF Deliver, Drained, Mon!Consider, Mon!instance, monitorState, IInv, ChainTypes
<1>2. /\ 1 \in DOMAIN queue /\ o = queue[1] /\ DOMAIN queue = 1..Len(queue)
      /\ Len(queue) \in Nat \ {0} /\ DOMAIN queue' = 1..(Len(queue) - 1)
      /\ \A i \in DOMAIN queue' : i + 1 \in DOMAIN queue /\ queue'[i] = queue[i + 1]
      /\ \A i \in DOMAIN queue : i # 1 => i - 1 \in DOMAIN queue' /\ queue'[i - 1] = queue[i]
  <2>1. Len(queue) \in Nat \ {0} /\ DOMAIN queue = 1..Len(queue) /\ Head(queue) = queue[1]
    BY <1>1, EmptySeq, LenProperties, HeadTailProperties
  <2>2. /\ Tail(queue) \in Seq(Observations) /\ Len(Tail(queue)) = Len(queue) - 1
        /\ \A i \in 1..(Len(queue) - 1) : Tail(queue)[i] = queue[i + 1]
    BY <1>1, <2>1, HeadTailProperties
  <2>3. DOMAIN Tail(queue) = 1..(Len(queue) - 1)
    BY <2>2, LenProperties
  <2> QED
    BY <1>1, <2>1, <2>2, <2>3
<1>3. F # G /\ Pair = {F, G} /\ Mon!Pair = {F, G}
  BY PairNames DEF Mon!Pair, Pair
<1>4. CASE monitorUp
  <2>1. Mon!Consider(o)
    BY <1>4 DEF Deliver
  <2> HIDE DEF o
  <2>2. /\ \A i \in DOMAIN queue' : queue'[i].datastream = G => queue'[i].sound
        /\ \A i, j \in DOMAIN queue' :
              queue'[i].datastream = G /\ queue'[j].datastream = G => i = j
    <3>1. \A i, j \in DOMAIN queue' : i + 1 = j + 1 => i = j
      BY <1>2
    <3> QED
      BY <1>2, <3>1 DEF HalvesMeet
  <2>3. ASSUME NEW i \in DOMAIN queue', queue'[i].datastream = F, queue'[i].sound
        PROVE  \E j \in DOMAIN queue' : /\ i < j /\ queue'[j].datastream = G
                                        /\ queue'[j].tick = queue'[i].tick
    <3>1. PICK j \in DOMAIN queue : /\ i + 1 < j /\ queue[j].datastream = G
                                    /\ queue[j].tick = queue[i + 1].tick
      BY <1>2, <2>3 DEF HalvesMeet
    <3>2. j # 1 /\ i < j - 1
      BY <1>2, <3>1
    <3> QED
      BY <1>2, <3>1, <3>2
  <2>4. ASSUME NEW i \in DOMAIN queue', queue'[i].datastream = G
        PROVE  \/ \E h \in pending : h.tick = queue'[i].tick
               \/ o.datastream = F /\ o.tick = queue'[i].tick
               \/ \E j \in DOMAIN queue' : /\ j < i /\ queue'[j].datastream = F
                                           /\ queue'[j].tick = queue'[i].tick
    <3>1. CASE \E h \in pending : h.tick = queue[i + 1].tick
      BY <1>2, <3>1
    <3>2. CASE \E j \in DOMAIN queue : /\ j < i + 1 /\ queue[j].datastream = F
                                       /\ queue[j].tick = queue[i + 1].tick
      <4>1. PICK j \in DOMAIN queue : /\ j < i + 1 /\ queue[j].datastream = F
                                      /\ queue[j].tick = queue[i + 1].tick
        BY <3>2
      <4>2. CASE j = 1
        BY <1>2, <4>1, <4>2
      <4>3. CASE j # 1
        <5>1. j - 1 \in DOMAIN queue' /\ queue'[j - 1] = queue[j] /\ j - 1 < i
          BY <1>2, <4>1, <4>3
        <5> QED
          BY <1>2, <4>1, <5>1
      <4> QED
        BY <4>2, <4>3
    <3> QED
      BY <1>2, <1>4, <2>4, <3>1, <3>2 DEF HalvesMeet
  <2>5. CASE o.datastream = F
    <3>1. \A h \in Mon!Filled(o) : h.datastream = F
      BY <2>5 DEF HalvesMeet, Mon!Filled, Mon!Slot
    <3>2. ~Mon!Complete(Mon!Filled(o))
      BY <1>3, <3>1 DEF Mon!Complete
    <3>3. Mon!Filled(o) = {o}
      BY <2>5 DEF HalvesMeet, Mon!Filled, Mon!Slot
    <3>4. pending' = (pending \ Mon!Slot(o)) \cup {o}
      BY <1>3, <2>1, <2>5, <3>2, <3>3 DEF Mon!Consider
    <3>5. ASSUME NEW h \in pending', h.sound
          PROVE  \E i \in DOMAIN queue' : queue'[i].datastream = G /\ queue'[i].tick = h.tick
      <4>1. PICK i \in DOMAIN queue : queue[i].datastream = G /\ queue[i].tick = h.tick
        <5>1. CASE h = o
          BY <1>2, <2>5, <3>5, <5>1 DEF HalvesMeet
        <5>2. CASE h \in pending
          BY <3>5, <5>2 DEF HalvesMeet
        <5> QED
          BY <3>4, <5>1, <5>2
      <4>2. i # 1
        BY <1>2, <1>3, <2>5, <4>1
      <4> QED
        BY <1>2, <4>1, <4>2
    <3>6. ASSUME NEW i \in DOMAIN queue', queue'[i].datastream = G
          PROVE  \/ \E h \in pending' : h.tick = queue'[i].tick
                 \/ \E j \in DOMAIN queue' : /\ j < i /\ queue'[j].datastream = F
                                             /\ queue'[j].tick = queue'[i].tick
      <4>1. CASE \E h \in pending : h.tick = queue'[i].tick
        <5>1. PICK h \in pending : h.tick = queue'[i].tick
          BY <4>1
        <5>2. h \in Mon!Slot(o) => o.tick = queue'[i].tick
          BY <5>1 DEF Mon!Slot
        <5> QED
          BY <3>4, <5>1, <5>2
      <4> QED
        BY <2>4, <3>4, <3>6, <4>1
    <3>7. \A h \in pending' : h.datastream = F
      BY <2>5, <3>4 DEF HalvesMeet
    <3> QED
      BY <1>1, <1>4, <2>2, <2>3, <3>5, <3>6, <3>7 DEF HalvesMeet
  <2>6. CASE o.datastream = G
    <3>1. PICK h \in pending : h.tick = o.tick
      BY <1>2, <1>4, <2>6 DEF HalvesMeet
    <3>2. h \in Mon!Filled(o) /\ o \in Mon!Filled(o) /\ h.datastream = F
      BY <1>3, <2>6, <3>1 DEF HalvesMeet, Mon!Filled, Mon!Slot
    <3>3. Mon!Complete(Mon!Filled(o))
      <4>1. \A x \in Mon!Filled(o) : x.datastream \in {F, G}
        BY <2>6 DEF HalvesMeet, Mon!Filled, Mon!Slot
      <4> QED
        BY <1>3, <2>6, <3>2, <4>1 DEF Mon!Complete
    <3>4. pending' = pending \ Mon!Slot(o)
      BY <1>3, <2>1, <2>6, <3>3 DEF Mon!Consider
    <3>5. \A i \in DOMAIN queue' : queue'[i].datastream # G
      <4> SUFFICES ASSUME NEW i \in DOMAIN queue', queue'[i].datastream = G PROVE FALSE
        OBVIOUS
      <4>1. i + 1 = 1
        BY <1>2, <2>6 DEF HalvesMeet
      <4> QED
        BY <1>2, <4>1
    <3>6. \A x \in pending' : ~x.sound
      <4> SUFFICES ASSUME NEW x \in pending', x.sound PROVE FALSE
        OBVIOUS
      <4>1. PICK i \in DOMAIN queue : queue[i].datastream = G /\ queue[i].tick = x.tick
        BY <3>4 DEF HalvesMeet
      <4>2. i = 1
        BY <1>2, <2>6, <4>1 DEF HalvesMeet
      <4> QED
        BY <1>2, <3>4, <4>1, <4>2 DEF Mon!Slot
    <3>7. \A x \in pending' : x.datastream = F
      BY <3>4 DEF HalvesMeet
    <3> QED
      BY <1>1, <1>4, <2>2, <2>3, <3>5, <3>6, <3>7 DEF HalvesMeet
  <2>7. CASE o.datastream \notin {F, G}
    <3>1. pending' = pending
      BY <1>3, <2>1, <2>7 DEF Mon!Consider, Mon!instance
    <3>2. ASSUME NEW h \in pending, h.sound
          PROVE  \E i \in DOMAIN queue' : queue'[i].datastream = G /\ queue'[i].tick = h.tick
      <4>1. PICK i \in DOMAIN queue : queue[i].datastream = G /\ queue[i].tick = h.tick
        BY <3>2 DEF HalvesMeet
      <4>2. i # 1
        BY <1>2, <2>7, <4>1
      <4> QED
        BY <1>2, <4>1, <4>2
    <3>3. \A h \in pending : h.datastream = F
      BY DEF HalvesMeet
    <3> QED
      BY <1>1, <1>4, <2>2, <2>3, <2>4, <2>7, <3>1, <3>2, <3>3 DEF HalvesMeet
  <2> QED
    BY <2>5, <2>6, <2>7
<1>5. CASE ~monitorUp
  <2>1. pending = {} /\ pending' = {}
    BY <1>5 DEF Deliver, monitorState, HalvesMeet
  <2>2. /\ \A i \in DOMAIN queue' : queue'[i].datastream = G => queue'[i].sound
        /\ \A i, j \in DOMAIN queue' :
              queue'[i].datastream = G /\ queue'[j].datastream = G => i = j
    <3>1. \A i, j \in DOMAIN queue' : i + 1 = j + 1 => i = j
      BY <1>2
    <3> QED
      BY <1>2, <3>1 DEF HalvesMeet
  <2>3. ASSUME NEW i \in DOMAIN queue', queue'[i].datastream = F, queue'[i].sound
        PROVE  \E j \in DOMAIN queue' : /\ i < j /\ queue'[j].datastream = G
                                        /\ queue'[j].tick = queue'[i].tick
    <3>1. PICK j \in DOMAIN queue : /\ i + 1 < j /\ queue[j].datastream = G
                                    /\ queue[j].tick = queue[i + 1].tick
      BY <1>2, <2>3 DEF HalvesMeet
    <3>2. j # 1 /\ i < j - 1
      BY <1>2, <3>1
    <3> QED
      BY <1>2, <3>1, <3>2
  <2> QED
    BY <1>1, <1>5, <2>1, <2>2, <2>3 DEF HalvesMeet
<1> QED
  BY <1>4, <1>5


\* Every step keeps the halves meeting.
LEMMA HalvesMeetOnStep ==
    ASSUME IInv, NEW F \in Pair, NEW G \in Pair, Leads(F, G), HalvesMeet(F, G),
           [Next]_vars
    PROVE  HalvesMeet(F, G)'
<1>1. CASE Deliver
  BY <1>1, HalvesMeetOnDelivery
<1>2. CASE Tick
  <2>1. now + 1 \in 0..MaxTick
    BY <1>2, MonitorAssumption DEF Tick, IInv, ChainTypes
  <2> QED
    BY <1>2, <2>1, SampleInPairs DEF Tick
<1>3. CASE Repeat
  BY <1>3, SampleInPairs DEF Repeat, IInv, ChainTypes
<1>4. CASE SampleOnRequest \/ FaultySample \/ ReportOnRequest
  BY <1>4, RequestsInPairs
<1>5. CASE TunePlatform \/ TuneSensors
  BY <1>5 DEF TunePlatform, TuneSensors, Quietly, monitorState, HalvesMeet
<1>6. CASE TuneMonitor \/ Forecast
  BY <1>6 DEF TuneMonitor, Forecast, Mon!Tune, Mon!NewForecast, Mon!instance, HalvesMeet
<1>7. CASE StopPlatform \/ StartPlatform \/ StopSensors \/ StartSensors
  BY <1>7
     DEF StopPlatform, StartPlatform, StopSensors, StartSensors, Quietly, monitorState,
         HalvesMeet
<1>8. CASE StopIngest \/ StartIngest
  BY <1>8 DEF StopIngest, StartIngest, monitorState, HalvesMeet
<1>9. CASE StopMonitor
  <2>1. queue' = <<>> /\ pending' = {}
    BY <1>9 DEF StopMonitor, MayStop, Drained, Mon!Stop, Mon!Blank
  <2> QED
    BY <2>1 DEF HalvesMeet
<1>10. CASE StartMonitor
  <2>1. queue' = <<>> /\ pending' = {}
    BY <1>10 DEF StartMonitor, Drained, Mon!Start, HalvesMeet
  <2> QED
    BY <2>1 DEF HalvesMeet
<1>11. CASE UNCHANGED vars
  BY <1>11 DEF vars, monitorVars, monitorState, HalvesMeet
<1> QED
  BY <1>1, <1>2, <1>3, <1>4, <1>5, <1>6, <1>7, <1>8, <1>9, <1>10, <1>11 DEF Next

\* Where the pair is read from one list of instruments, between drains no sound
\* half of a pair waits, whatever was asked for, tuned, stopped or repeated
\* (sensors.ts:206-237, monitor.ts:120-131).
THEOREM NoSoundHalfWaits ==
    ASSUME PairSensed PROVE Spec => []OnlyFaultyHalvesWait
<1>1. PICK F \in Pair, G \in Pair : Leads(F, G)
  BY DEF PairSensed
<1>2. Init => HalvesMeet(F, G)
  BY DEF Init, Mon!Init, HalvesMeet
<1>3. IInv /\ HalvesMeet(F, G) /\ [Next]_vars => HalvesMeet(F, G)'
  BY <1>1, HalvesMeetOnStep
<1>4. HalvesMeet(F, G) => OnlyFaultyHalvesWait
  BY DEF HalvesMeet, OnlyFaultyHalvesWait, Drained
<1> QED
  BY <1>2, <1>3, <1>4, SensingInvariance, PTL DEF Spec

-----------------------------------------------------------------------------
(* A place in time for every sample.                                       *)

\* What is in the queue is of this tick, and nothing remembered is of a later one.
OfThisTick ==
    /\ \A i \in DOMAIN queue : queue[i].tick = now
    /\ position # None => position <= now
    /\ lastStepped # None => lastStepped <= now
    /\ lastSampled # None => lastSampled <= now

\* A datastream is among those of some messages.
Among(d, messages) == \E i \in DOMAIN messages : messages[i].datastream = d

\* Since the last disturbance, the sensors hold a place as recent as every tick the
\* platform was to report at, or the report is still on its way to them.
PlacesHeard ==
    platformUp /\ sensorsUp =>
        \A p \in (disturbed + 1)..now : p % reportInterval = 0 =>
            \/ position # None /\ p <= position
            \/ Among(Ownship, queue)

\* A batch is of one tick, and what a sample publishes is of that tick.
LEMMA SaidOfTick ==
    ASSUME NEW t \in 0..MaxTick
    PROVE  /\ \A i \in DOMAIN Batch(t) : Batch(t)[i].tick = t
           /\ \A i \in DOMAIN PlatformSays(t) : PlatformSays(t)[i].tick = t
           /\ \A i \in DOMAIN SensorsSay(t) : SensorsSay(t)[i].tick = t
           /\ PlatformSays(t) \in Seq(Observations)
           /\ SensorsSay(t) \in Seq(Observations)
<1>1. \A i \in DOMAIN Batch(t) : Batch(t)[i].tick = t
  BY DEF Batch, Observation
<1>2. /\ SensorsSay(t) \in Seq(Observations)
      /\ \A i \in DOMAIN SensorsSay(t) : SensorsSay(t)[i].tick = t
  <2>1. CASE SensorsSay(t) = <<>>
    BY <2>1
  <2>2. CASE SensorsSay(t) = Batch(t)
    BY <1>1, <2>2, BatchType
  <2> QED
    BY <2>1, <2>2 DEF SensorsSay
<1>3. /\ PlatformSays(t) \in Seq(Observations)
      /\ \A i \in DOMAIN PlatformSays(t) : PlatformSays(t)[i].tick = t
  <2> DEFINE r == Observation(Ownship, t, TRUE)
  <2>1. CASE PlatformSays(t) = <<>>
    BY <2>1
  <2>2. CASE PlatformSays(t) = <<r>>
    <3>1. r \in Observations /\ r.tick = t
      BY ObservationType DEF Observation
    <3> HIDE DEF r
    <3>2. <<r>> \in Seq(Observations) /\ \A i \in DOMAIN <<r>> : <<r>>[i] = r
      BY <3>1, OneObservation
    <3> QED
      BY <2>2, <3>1, <3>2
  <2> QED
    BY <2>1, <2>2 DEF PlatformSays
<1> QED
  BY <1>1, <1>2, <1>3

\* What holds of the elements of two sequences holds of those of both together, and
\* both together hold what either holds.
LEMMA Together ==
    ASSUME NEW a \in Seq(Observations), NEW b \in Seq(Observations)
    PROVE  /\ \A i \in DOMAIN (a \o b) :
                 \/ \E j \in DOMAIN a : (a \o b)[i] = a[j]
                 \/ \E j \in DOMAIN b : (a \o b)[i] = b[j]
           /\ \A j \in DOMAIN a : \E i \in DOMAIN (a \o b) : (a \o b)[i] = a[j]
           /\ \A j \in DOMAIN b : \E i \in DOMAIN (a \o b) : (a \o b)[i] = b[j]
<1> DEFINE m == Len(a)
           n == Len(b)
           c == a \o b
<1>1. /\ m \in Nat /\ n \in Nat /\ DOMAIN a = 1..m /\ DOMAIN b = 1..n
      /\ DOMAIN c = 1..(m + n)
      /\ \A i \in 1..m : c[i] = a[i]
      /\ \A i \in 1..n : c[m + i] = b[i]
      /\ \A i \in (m + 1)..(m + n) : i - m \in 1..n /\ c[i] = b[i - m]
  BY LenProperties, ConcatProperties
<1> HIDE DEF c, m, n
<1>2. \A i \in DOMAIN c : \/ \E j \in DOMAIN a : c[i] = a[j]
                          \/ \E j \in DOMAIN b : c[i] = b[j]
  <2> SUFFICES ASSUME NEW i \in DOMAIN c
               PROVE  \/ \E j \in DOMAIN a : c[i] = a[j]
                      \/ \E j \in DOMAIN b : c[i] = b[j]
    OBVIOUS
  <2>1. i \in 1..m \/ i \in (m + 1)..(m + n)
    BY <1>1
  <2> QED
    BY <1>1, <2>1
<1>3. \A j \in DOMAIN a : j \in DOMAIN c /\ c[j] = a[j]
  BY <1>1
<1>4. \A j \in DOMAIN b : m + j \in DOMAIN c /\ c[m + j] = b[j]
  BY <1>1
<1> QED
  BY <1>2, <1>3, <1>4 DEF c

\* A datastream in a sequence is in all it is part of.
LEMMA StillThere ==
    ASSUME NEW a \in Seq(Observations), NEW b \in Seq(Observations), NEW d, Among(d, a)
    PROVE  Among(d, a \o b) /\ Among(d, b \o a)
<1>1. PICK j \in DOMAIN a : a[j].datastream = d
  BY DEF Among
<1>2. PICK i \in DOMAIN (a \o b) : (a \o b)[i] = a[j]
  BY Together
<1>3. PICK k \in DOMAIN (b \o a) : (b \o a)[k] = a[j]
  BY Together
<1>4. Among(d, a \o b)
  BY <1>1, <1>2 DEF Among
<1>5. Among(d, b \o a)
  BY <1>1, <1>3 DEF Among
<1> QED
  BY <1>4, <1>5

\* A sample leaves everything of the tick it is of.
LEMMA SampleOfTick ==
    ASSUME IInv, OfThisTick, NEW t \in 0..MaxTick, t >= now, Sample(t), now' = t
    PROVE  OfThisTick'
<1> DEFINE a == PlatformSays(t)
           b == SensorsSay(t)
<1>1. /\ \A i \in DOMAIN a : a[i].tick = t
      /\ \A i \in DOMAIN b : b[i].tick = t
      /\ a \in Seq(Observations) /\ b \in Seq(Observations)
  BY SaidOfTick
<1>2. queue' = a \o b \/ queue' = b \o a
  BY DEF Sample
<1> HIDE DEF a, b
<1>3. \A i \in DOMAIN queue' : queue'[i].tick = t
  <2>1. \A i \in DOMAIN (a \o b) : (a \o b)[i].tick = t
    BY <1>1, Together
  <2>2. \A i \in DOMAIN (b \o a) : (b \o a)[i].tick = t
    BY <1>1, Together
  <2> QED
    BY <1>2, <2>1, <2>2
<1>4. /\ now \in Nat /\ t \in Nat /\ position \in Nat \cup {None}
      /\ lastStepped \in Nat \cup {None} /\ lastSampled \in Nat \cup {None}
  BY DEF IInv, ChainTypes
<1>5. /\ position' = position
      /\ lastStepped' = lastStepped \/ lastStepped' = t
      /\ lastSampled' = lastSampled \/ lastSampled' = t
  BY DEF Sample, PlatformSample, SensorsSample, platformVars, sensorsVars
<1> QED
  BY <1>3, <1>4, <1>5 DEF OfThisTick

\* What is asked for is of the present tick.
LEMMA RequestsOfTick ==
    ASSUME IInv, OfThisTick, SampleOnRequest \/ FaultySample \/ ReportOnRequest
    PROVE  OfThisTick'
<1>1. /\ UNCHANGED <<now, position, lastStepped, lastSampled>> /\ now \in 0..MaxTick
  BY DEF SampleOnRequest, FaultySample, ReportOnRequest, Quietly, platformVars,
         sensorsVars, IInv, ChainTypes
<1>2. \A d, sound : \A i \in DOMAIN <<Observation(d, now, sound)>> :
          <<Observation(d, now, sound)>>[i].tick = now
  <2>1. \A o : \A i \in DOMAIN <<o>> : <<o>>[i] = o
    OBVIOUS
  <2>2. \A d, sound : Observation(d, now, sound).tick = now
    BY DEF Observation
  <2> QED
    BY <2>1, <2>2
<1>3. \A i \in DOMAIN queue' : queue'[i].tick = now
  <2>1. CASE queue' = <<>>
    BY <2>1
  <2>2. CASE queue' = Batch(now)
    <3>1. \A i \in DOMAIN Batch(now) : Batch(now)[i].tick = now
      BY <1>1, SaidOfTick
    <3> QED
      BY <2>2, <3>1
  <2>3. CASE \E d, sound : queue' = <<Observation(d, now, sound)>>
    BY <1>2, <2>3
  <2> QED
    BY <2>1, <2>2, <2>3 DEF SampleOnRequest, FaultySample, ReportOnRequest
<1> QED
  BY <1>1, <1>3 DEF OfThisTick

\* What a delivery takes from the queue, and what it leaves.
LEMMA DeliverTakes ==
    ASSUME IInv, Deliver
    PROVE  /\ 1 \in DOMAIN queue /\ Head(queue) = queue[1]
           /\ \A i \in DOMAIN queue' : \E j \in DOMAIN queue : queue'[i] = queue[j]
           /\ \A j \in DOMAIN queue :
                 j = 1 \/ \E i \in DOMAIN queue' : queue'[i] = queue[j]
<1>1. queue' = Tail(queue) /\ queue # <<>> /\ queue \in Seq(Observations)
  BY DEF Deliver, Drained, IInv, ChainTypes
<1>2. Len(queue) \in Nat \ {0} /\ DOMAIN queue = 1..Len(queue) /\ Head(queue) = queue[1]
  BY <1>1, EmptySeq, LenProperties, HeadTailProperties
<1>3. /\ Tail(queue) \in Seq(Observations) /\ Len(Tail(queue)) = Len(queue) - 1
      /\ \A i \in 1..(Len(queue) - 1) : Tail(queue)[i] = queue[i + 1]
  BY <1>1, <1>2, HeadTailProperties
<1>4. DOMAIN Tail(queue) = 1..(Len(queue) - 1)
  BY <1>3, LenProperties
<1>5. \A i \in DOMAIN queue' : i + 1 \in DOMAIN queue /\ queue'[i] = queue[i + 1]
  BY <1>1, <1>2, <1>3, <1>4
<1>6. \A j \in DOMAIN queue : j # 1 => j - 1 \in DOMAIN queue' /\ queue'[j - 1] = queue[j]
  BY <1>1, <1>2, <1>3, <1>4
<1> QED
  BY <1>2, <1>5, <1>6

\* Every step keeps what is remembered and queued of the present tick.
LEMMA StepOfTick ==
    ASSUME IInv, OfThisTick, [Next]_vars
    PROVE  OfThisTick'
<1>1. CASE Tick
  <2>1. now + 1 \in 0..MaxTick /\ now + 1 >= now
    BY <1>1, MonitorAssumption DEF Tick, IInv, ChainTypes
  <2> QED
    BY <1>1, <2>1, SampleOfTick DEF Tick
<1>2. CASE Repeat
  <2>1. now \in 0..MaxTick /\ now >= now
    BY MonitorAssumption DEF IInv, ChainTypes
  <2> QED
    BY <1>2, <2>1, SampleOfTick DEF Repeat
<1>3. CASE Deliver
  <2>1. /\ UNCHANGED <<now, lastStepped, lastSampled>>
        /\ position' = position \/ position' = Head(queue).tick
    BY <1>3 DEF Deliver, platformVars
  <2>2. Head(queue).tick = now /\ \A i \in DOMAIN queue' : queue'[i].tick = now
    BY <1>3, DeliverTakes DEF OfThisTick
  <2>3. now <= now
    BY DEF IInv, ChainTypes
  <2> QED
    BY <2>1, <2>2, <2>3 DEF OfThisTick
<1>4. CASE SampleOnRequest \/ FaultySample \/ ReportOnRequest
  BY <1>4, RequestsOfTick
<1>5. CASE TunePlatform \/ TuneSensors
  BY <1>5 DEF TunePlatform, TuneSensors, Quietly, platformVars, sensorsVars, OfThisTick
<1>6. CASE TuneMonitor \/ Forecast
  BY <1>6 DEF TuneMonitor, Forecast, platformVars, sensorsVars, OfThisTick
<1>7. CASE StopPlatform \/ StartPlatform \/ StopSensors \/ StartSensors
  BY <1>7
     DEF StopPlatform, StartPlatform, StopSensors, StartSensors, Quietly, platformVars,
         sensorsVars, OfThisTick
<1>8. CASE StopIngest \/ StartIngest \/ StopMonitor \/ StartMonitor
  BY <1>8
     DEF StopIngest, StartIngest, StopMonitor, StartMonitor, platformVars, sensorsVars,
         OfThisTick
<1>9. CASE UNCHANGED vars
  BY <1>9 DEF vars, platformVars, sensorsVars, OfThisTick
<1> QED
  BY <1>1, <1>2, <1>3, <1>4, <1>5, <1>6, <1>7, <1>8, <1>9 DEF Next

\* A sample puts the report of its tick in the queue, if it is due.
LEMMA ReportQueued ==
    ASSUME IInv, NEW t \in 0..MaxTick, Sample(t), Reports(t)
    PROVE  Among(Ownship, queue')
<1> DEFINE a == PlatformSays(t)
           b == SensorsSay(t)
           r == Observation(Ownship, t, TRUE)
<1>1. a \in Seq(Observations) /\ b \in Seq(Observations)
  BY SaidOfTick
<1>2. queue' = a \o b \/ queue' = b \o a
  BY DEF Sample
<1>3. a = <<r>> /\ r.datastream = Ownship
  BY DEF PlatformSays, Observation
<1> HIDE DEF a, b, r
<1>4. Among(Ownship, a)
  <2>1. 1 \in DOMAIN <<r>> /\ <<r>>[1] = r
    OBVIOUS
  <2> QED
    BY <1>3, <2>1 DEF Among
<1>5. Among(Ownship, a \o b) /\ Among(Ownship, b \o a)
  BY <1>1, <1>4, StillThere
<1> QED
  BY <1>2, <1>5

\* Every step keeps the places heard.
LEMMA PlacesHeardOnStep ==
    ASSUME IInv, OfThisTick, PlacesHeard, [Next]_vars
    PROVE  PlacesHeard'
<1>1. ASSUME NEW t \in 0..MaxTick, t = now \/ t = now + 1, now' = t, Sample(t),
             platformUp, sensorsUp,
             NEW p \in (disturbed + 1)..t, p % reportInterval = 0
      PROVE  \/ position # None /\ p <= position
             \/ Among(Ownship, queue')
  <2>1. queue = <<>>
    BY <1>1 DEF Sample, Drained
  <2>2. CASE p \in (disturbed + 1)..now
    BY <1>1, <2>1, <2>2 DEF PlacesHeard, Among
  <2>3. CASE p = now + 1
    <3>1. p = t
      BY <1>1, <2>3 DEF IInv, ChainTypes
    <3>2. t # lastStepped
      BY <1>1, <2>3, <3>1, MonitorAssumption DEF OfThisTick, IInv, ChainTypes
    <3>3. Reports(t)
      BY <1>1, <3>1, <3>2 DEF Reports, Steps
    <3> QED
      BY <1>1, <3>3, ReportQueued
  <2> QED
    BY <1>1, <2>2, <2>3 DEF IInv, ChainTypes
<1>2. ASSUME NEW t \in 0..MaxTick, t = now \/ t = now + 1, now' = t, Sample(t),
             UNCHANGED plane
      PROVE  PlacesHeard'
  <2>1. UNCHANGED <<platformUp, sensorsUp, position, reportInterval, disturbed>>
    BY <1>2
       DEF Sample, PlatformSample, SensorsSample, platformVars, sensorsVars, plane
  <2> QED
    BY <1>1, <1>2, <2>1 DEF PlacesHeard
<1>3. CASE Tick
  <2>1. now + 1 \in 0..MaxTick
    BY <1>3, MonitorAssumption DEF Tick, IInv, ChainTypes
  <2> QED
    BY <1>2, <1>3, <2>1 DEF Tick, Sample
<1>4. CASE Repeat
  BY <1>2, <1>4 DEF Repeat, Sample, IInv, ChainTypes
<1>5. CASE Deliver
  <2>1. UNCHANGED <<now, platformUp, reportInterval, sensorsUp, disturbed>>
    BY <1>5 DEF Deliver, platformVars, plane
  <2> SUFFICES ASSUME platformUp, sensorsUp,
                      NEW p \in (disturbed + 1)..now, p % reportInterval = 0
               PROVE  \/ position' # None /\ p <= position'
                      \/ Among(Ownship, queue')
    BY <2>1 DEF PlacesHeard
  <2>2. CASE Head(queue).datastream = Ownship
    <3>1. position' = Head(queue).tick
      BY <1>5, <2>2 DEF Deliver
    <3>2. Head(queue).tick = now
      BY <1>5, DeliverTakes DEF OfThisTick
    <3>3. now # None /\ p <= now
      BY MonitorAssumption DEF IInv, ChainTypes
    <3> QED
      BY <3>1, <3>2, <3>3
  <2>3. CASE Head(queue).datastream # Ownship
    <3>1. position' = position
      BY <1>5, <2>3 DEF Deliver
    <3>2. Among(Ownship, queue) => Among(Ownship, queue')
      BY <1>5, <2>3, DeliverTakes DEF Among
    <3> QED
      BY <3>1, <3>2 DEF PlacesHeard
  <2> QED
    BY <2>2, <2>3
<1>6. CASE SampleOnRequest \/ FaultySample \/ ReportOnRequest
  <2>1. /\ UNCHANGED <<now, platformUp, reportInterval, sensorsUp, position, disturbed>>
        /\ queue = <<>>
    BY <1>6
       DEF SampleOnRequest, FaultySample, ReportOnRequest, MayAsk, Drained, Quietly,
           platformVars, sensorsVars
  <2> QED
    BY <2>1 DEF PlacesHeard, Among
<1>7. CASE \/ TunePlatform \/ TuneSensors
           \/ StopPlatform \/ StartPlatform \/ StopSensors \/ StartSensors
  <2>1. disturbed' = now /\ now' = now
    BY <1>7
       DEF TunePlatform, TuneSensors, StopPlatform, StartPlatform, StopSensors,
           StartSensors, Quietly
  <2>2. (now + 1)..now = {}
    BY DEF IInv, ChainTypes
  <2> QED
    BY <2>1, <2>2 DEF PlacesHeard
<1>8. CASE TuneMonitor \/ Forecast
  BY <1>8 DEF TuneMonitor, Forecast, platformVars, sensorsVars, plane, PlacesHeard
<1>9. CASE StopIngest \/ StartIngest \/ StopMonitor \/ StartMonitor
  BY <1>9
     DEF StopIngest, StartIngest, StopMonitor, StartMonitor, platformVars, sensorsVars,
         plane, PlacesHeard
<1>10. CASE UNCHANGED vars
  BY <1>10 DEF vars, platformVars, sensorsVars, plane, PlacesHeard
<1> QED
  BY <1>3, <1>4, <1>5, <1>6, <1>7, <1>8, <1>9, <1>10 DEF Next

\* Any number is within a step of a multiple of the step.
LEMMA LastMultiple ==
    ASSUME NEW n \in Nat, NEW r \in Nat \ {0}
    PROVE  \E p \in Nat : p % r = 0 /\ p <= n /\ n < p + r
<1>1. PICK q \in Nat : q = n \div r
  OBVIOUS
<1>2. n = r * q + (n % r) /\ n % r \in 0..(r - 1)
  BY <1>1
<1>3. (r * q) % r = 0 /\ r * q \in Nat
  OBVIOUS
<1>4. r * q <= n /\ n < r * q + r
  BY <1>2, <1>3
<1> QED
  BY <1>3, <1>4, Zenon

\* Where the platform reports at least as often as the sensors sample, a sampling
\* tick an interval after the last disturbance is sampled.
LEMMA CadenceKept ==
    ASSUME \E i \in DOMAIN Instruments : Instruments[i] = Salinity,
           IInv, OfThisTick, PlacesHeard, [Next]_vars,
           now' # now, platformUp, sensorsUp, reportInterval <= sampleInterval,
           now' % sampleInterval = 0, now' > disturbed + sampleInterval
    PROVE  Among(Salinity, queue')
<1> DEFINE t == now + 1
           a == PlatformSays(t)
           b == SensorsSay(t)
<1>1. Tick
  BY DEF Next, Repeat, Deliver, SampleOnRequest, FaultySample, ReportOnRequest,
         TunePlatform, TuneSensors, Quietly, TuneMonitor, Forecast, StopPlatform,
         StartPlatform, StopSensors, StartSensors, StopIngest, StartIngest, StopMonitor,
         StartMonitor, vars
<1>2. /\ now \in Nat /\ t \in 0..MaxTick /\ now' = t /\ disturbed \in Nat
      /\ reportInterval \in Nat \ {0} /\ sampleInterval \in Nat \ {0}
      /\ position \in Nat \cup {None} /\ lastSampled \in Nat \cup {None}
  BY <1>1, MonitorAssumption DEF Tick, IInv, ChainTypes
<1>3. PICK p \in Nat : /\ p % reportInterval = 0
                        /\ p <= now /\ now < p + reportInterval
  BY <1>2, LastMultiple
<1>4. p \in (disturbed + 1)..now
  BY <1>2, <1>3
<1>5. queue = <<>> /\ Sample(t)
  BY <1>1 DEF Tick, Sample, Drained
<1>6. position # None /\ p <= position
  BY <1>3, <1>4, <1>5 DEF PlacesHeard, Among
<1>7. Fresh(t)
  <2>1. t - position <= sampleInterval
    BY <1>2, <1>3, <1>6
  <2> QED
    BY <1>6, <2>1 DEF Fresh
<1>8. Due(t)
  <2>1. t # lastSampled
    BY <1>2, MonitorAssumption DEF OfThisTick
  <2> QED
    BY <1>2, <2>1 DEF Due
<1>9. b = Batch(t)
  BY <1>7, <1>8 DEF SensorsSay
<1>10. Among(Salinity, b)
  BY <1>9 DEF Batch, Observation, Among
<1>11. a \in Seq(Observations) /\ b \in Seq(Observations)
  BY <1>2, SaidOfTick
<1>12. queue' = a \o b \/ queue' = b \o a
  BY <1>5 DEF Sample
<1> HIDE DEF a, b
<1>13. Among(Salinity, b \o a) /\ Among(Salinity, a \o b)
  BY <1>10, <1>11, StillThere
<1> QED
  BY <1>12, <1>13

\* Where salinity is among the instruments and the platform reports at least as often
\* as the sensors sample, no sampling tick an interval after the last stop, start or
\* tuning is skipped (sensors.ts:206-257, platform.ts:137-168).
THEOREM NoCadenceSkipped ==
    ASSUME \E i \in DOMAIN Instruments : Instruments[i] = Salinity
    PROVE  Spec => CadenceNeverSkipped
<1> DEFINE Kept == IInv /\ OfThisTick /\ PlacesHeard
           Promised == /\ now' # now /\ platformUp /\ sensorsUp
                       /\ reportInterval <= sampleInterval
                       /\ now' % sampleInterval = 0
                       /\ now' > disturbed + sampleInterval
           Sampled == \E i \in DOMAIN queue' : queue'[i].datastream = Salinity
<1>1. Init => OfThisTick /\ PlacesHeard
  <2>1. (0 + 1)..0 = {}
    OBVIOUS
  <2> QED
    BY <2>1 DEF Init, OfThisTick, PlacesHeard
<1>2. Kept /\ [Next]_vars => OfThisTick' /\ PlacesHeard'
  BY StepOfTick, PlacesHeardOnStep
<1>3. Kept /\ [Next]_vars => (Promised => Sampled)
  BY CadenceKept DEF Among
<1> QED
  BY <1>1, <1>2, <1>3, SensingInvariance, PTL DEF Spec, CadenceNeverSkipped
=============================================================================
