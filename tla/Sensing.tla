------------------------------- MODULE Sensing ------------------------------
(***************************************************************************)
(* From the platform's motion to a divergence: the platform reports where  *)
(* it is, the sensors sample there, the ingestion seam stores what is      *)
(* sound, and the monitor scores pairs.  They meet on the broker, a queue  *)
(* drained in order with every handler run to completion: ingest.ts,       *)
(* monitor.ts and, for positions, sensors.ts all hear obs/#.               *)
(*                                                                         *)
(* The clock, the reader's requests and the stop and start verbs act       *)
(* between drains; a forecast may be published between any two messages.   *)
(* A report is one message for the platform's three instruments, since     *)
(* each carries the same place, and a place is known by the tick it was    *)
(* reported at.  A component that has heard the clock has heard the        *)
(* present tick, so only whether it has is kept.                           *)
(***************************************************************************)
EXTENDS MonitorConfig

CONSTANTS
    Deep, Ownship,      \* a datastream no pair names, and the platform's own
    Instruments,        \* the sensors' datastreams, in configured order
    SampleInterval,     \* sensors: config.sample_interval_ticks
    ReportInterval,     \* platform: config.report_interval_ticks
    SampleDial, ReportDial,     \* values the operator may tune them to
    MaxPrompts,         \* bound: requests and tunings from the operator plane
    MaxStops            \* bound: how often the stop verb is used

ASSUME SensingAssumption ==
    /\ Instruments \in Seq({Temperature, Salinity, Deep}) /\ Instruments # <<>>
    /\ Deep \notin Pair /\ Ownship \notin {Temperature, Salinity, Deep}
    /\ SampleInterval \in Nat \ {0} /\ SampleDial \subseteq Nat \ {0}
    /\ ReportInterval \in Nat \ {0} /\ ReportDial \subseteq Nat \ {0}
    /\ MaxPrompts \in Nat /\ MaxStops \in Nat

VARIABLES
    standing, monitorUp, monitorTick, pending, breaches, scoredAgainst,
    residualCount, threshold, persistence, raised,  \* the monitor's
    now,            \* the clock's tick
    queue,          \* observations published and not yet delivered
    platformUp,     \* is a platform subscribed?
    platformHeard,  \* has it heard the clock (simTime.value # '')?
    lastStepped,    \* lastSteppedTick
    reportInterval, \* tunedReportInterval ?? config.report_interval_ticks
    sensorsUp, sensorsHeard,
    lastSampled,    \* lastSampledTick
    position,       \* heardPosition.tick, or None
    sampleInterval, \* tunedInterval ?? config.sample_interval_ticks
    platformFirst,  \* did the platform subscribe before the sensors?
    ingestUp,       \* is the ingestion seam subscribed?
    rows,           \* identifiers the observation store holds
    prompts, stops,
    disturbed,      \* history: tick of the last stop, start or tuning
    missed          \* history: was the ingestion seam ever stopped?

Mon == INSTANCE Monitor WITH Others <- {Deep, Ownship}

monitorState == <<monitorUp, monitorTick, pending, breaches, scoredAgainst,
                  residualCount, threshold, persistence>>
monitorVars == <<standing, monitorState, raised>>
platformVars == <<platformUp, platformHeard, lastStepped, reportInterval>>
sensorsVars == <<sensorsUp, sensorsHeard, lastSampled, position,
                 sampleInterval>>
ingestVars == <<ingestUp, rows>>
plane == <<platformFirst, prompts, stops, disturbed, missed>>
vars == <<monitorVars, now, queue, platformVars, sensorsVars, ingestVars,
          plane>>

Observation(datastream, t, sound) ==
    [datastream |-> datastream, tick |-> t, sound |-> sound]
Drained == queue = <<>>

-----------------------------------------------------------------------------
(* The platform.  A repeated sample moves it no further and reports        *)
(* nothing; its faulty depth is a number out of range, at the true place.  *)

Steps(t) == platformUp /\ t # lastStepped

Reports(t) == Steps(t) /\ t % reportInterval = 0

PlatformSays(t) ==
    IF Reports(t) THEN <<Observation(Ownship, t, TRUE)>> ELSE <<>>

PlatformSample(t) ==
    IF platformUp
    THEN /\ platformHeard' = TRUE /\ lastStepped' = t
         /\ UNCHANGED <<platformUp, reportInterval>>
    ELSE UNCHANGED platformVars

-----------------------------------------------------------------------------
(* The sensors.                                                            *)

\* Fault: a position one sampling interval old is already stale.
FreshStrictly(t) == position # None /\ t - position < sampleInterval

\* The freshest place a sampling tick can hold is an interval old: this tick's
\* own report is still queued behind the clock sample.
Fresh(t) == position # None /\ t - position <= sampleInterval

Due(t) == sensorsUp /\ t % sampleInterval = 0 /\ t # lastSampled

Batch(t) ==
    [i \in DOMAIN Instruments |-> Observation(Instruments[i], t, TRUE)]

SensorsSay(t) == IF Due(t) /\ Fresh(t) THEN Batch(t) ELSE <<>>

SensorsSample(t) ==
    IF sensorsUp
    THEN /\ sensorsHeard' = TRUE
         /\ lastSampled' = IF Due(t) THEN t ELSE lastSampled
         /\ UNCHANGED <<sensorsUp, position, sampleInterval>>
    ELSE UNCHANGED sensorsVars

-----------------------------------------------------------------------------
(* A clock sample, published and delivered in the order of subscription.   *)

Sample(t) ==
    /\ Drained
    /\ PlatformSample(t) /\ SensorsSample(t)
    /\ queue' = IF platformFirst THEN PlatformSays(t) \o SensorsSay(t)
                                 ELSE SensorsSay(t) \o PlatformSays(t)
    /\ raised' = None
    /\ IF monitorUp THEN Mon!HearClock(t) ELSE UNCHANGED monitorTick
    /\ UNCHANGED <<standing, monitorUp, pending, breaches, scoredAgainst,
                   residualCount, threshold, persistence, ingestVars, plane>>

Tick == now < MaxTick /\ now' = now + 1 /\ Sample(now + 1)

\* A change of rate publishes the present tick again.
Repeat == Sample(now) /\ UNCHANGED now

-----------------------------------------------------------------------------
(* One observation, delivered to everything that hears it.                 *)

\* Fault: the identifier leaves out the datastream.
StoresOnePerTick(o) ==
    /\ ingestUp /\ o.sound
    /\ o.datastream = Ownship
       \/ ~\E r \in rows : r[1] # Ownship /\ r[2] = o.tick

\* Refused by its schema, flagged out of range, or stored; a second reading of
\* one identifier is absorbed.
Stores(o) == ingestUp /\ o.sound

Identifier(o) == <<o.datastream, o.tick>>

Deliver ==
    /\ ~Drained
    /\ LET o == Head(queue) IN
       /\ rows' = IF Stores(o) THEN rows \cup {Identifier(o)} ELSE rows
       /\ position' = IF sensorsUp /\ o.datastream = Ownship
                      THEN o.tick ELSE position
       /\ IF monitorUp
          THEN Mon!Consider(o) /\ UNCHANGED standing
          ELSE raised' = None /\ UNCHANGED <<standing, monitorState>>
    /\ queue' = Tail(queue)
    /\ UNCHANGED <<now, platformVars, sensorsUp, sensorsHeard, lastSampled,
                   sampleInterval, ingestUp, plane>>

Forecast == /\ Mon!NewForecast
            /\ UNCHANGED <<now, queue, platformVars, sensorsVars, ingestVars,
                           plane>>

-----------------------------------------------------------------------------
(* What a reader asks for from the operator plane.                         *)

MayAsk == Drained /\ prompts < MaxPrompts /\ prompts' = prompts + 1

Quietly == /\ raised' = None
           /\ UNCHANGED <<standing, monitorState, now, ingestVars, missed,
                          platformFirst>>

\* sample-now: a batch outside the cadence, at a place still fresh.
SampleOnRequest ==
    /\ MayAsk /\ Quietly
    /\ sensorsUp /\ sensorsHeard
    /\ queue' = IF Fresh(now) THEN Batch(now) ELSE <<>>
    /\ UNCHANGED <<platformVars, sensorsVars, stops, disturbed>>

\* fault-sample: the first instrument's reading, with a text for its result,
\* however old the place.
FaultySample ==
    /\ MayAsk /\ Quietly
    /\ sensorsUp /\ sensorsHeard /\ position # None
    /\ queue' = <<Observation(Instruments[1], now, FALSE)>>
    /\ UNCHANGED <<platformVars, sensorsVars, stops, disturbed>>

\* report-now and fault-depth.
ReportOnRequest ==
    /\ MayAsk /\ Quietly
    /\ platformUp /\ platformHeard
    /\ \E sound \in BOOLEAN : queue' = <<Observation(Ownship, now, sound)>>
    /\ UNCHANGED <<platformVars, sensorsVars, stops, disturbed>>

TunePlatform ==
    /\ MayAsk /\ Quietly
    /\ platformUp /\ reportInterval' \in ReportDial
    /\ disturbed' = now
    /\ UNCHANGED <<queue, platformUp, platformHeard, lastStepped, sensorsVars,
                   stops>>

TuneSensors ==
    /\ MayAsk /\ Quietly
    /\ sensorsUp /\ sampleInterval' \in SampleDial
    /\ disturbed' = now
    /\ UNCHANGED <<queue, platformVars, sensorsUp, sensorsHeard, lastSampled,
                   position, stops>>

TuneMonitor ==
    /\ MayAsk /\ Mon!Tune
    /\ UNCHANGED <<now, queue, platformVars, sensorsVars, ingestVars,
                   platformFirst, stops, disturbed, missed>>

-----------------------------------------------------------------------------
(* The stop and start verbs: a started component is a new one, last in the *)
(* order of subscription.                                                  *)

MayStop == Drained /\ stops < MaxStops /\ stops' = stops + 1

StopPlatform ==
    /\ MayStop /\ Quietly
    /\ platformUp /\ platformUp' = FALSE /\ platformHeard' = FALSE
    /\ lastStepped' = None /\ reportInterval' = ReportInterval
    /\ disturbed' = now
    /\ UNCHANGED <<queue, sensorsVars, prompts>>

StartPlatform ==
    /\ Drained /\ ~platformUp /\ platformUp' = TRUE
    /\ platformFirst' = FALSE /\ disturbed' = now /\ raised' = None
    /\ UNCHANGED <<standing, monitorState, now, queue, platformHeard,
                   lastStepped, reportInterval, sensorsVars, ingestVars,
                   prompts, stops, missed>>

StopSensors ==
    /\ MayStop /\ Quietly
    /\ sensorsUp /\ sensorsUp' = FALSE /\ sensorsHeard' = FALSE
    /\ lastSampled' = None /\ position' = None
    /\ sampleInterval' = SampleInterval
    /\ disturbed' = now
    /\ UNCHANGED <<queue, platformVars, prompts>>

StartSensors ==
    /\ Drained /\ ~sensorsUp /\ sensorsUp' = TRUE
    /\ platformFirst' = TRUE /\ disturbed' = now /\ raised' = None
    /\ UNCHANGED <<standing, monitorState, now, queue, platformVars,
                   sensorsHeard, lastSampled, position, sampleInterval,
                   ingestVars, prompts, stops, missed>>

StopIngest ==
    /\ MayStop /\ ingestUp /\ ingestUp' = FALSE
    /\ missed' = TRUE /\ raised' = None
    /\ UNCHANGED <<standing, monitorState, now, queue, platformVars,
                   sensorsVars, rows, platformFirst, prompts, disturbed>>

StartIngest ==
    /\ Drained /\ ~ingestUp /\ ingestUp' = TRUE /\ raised' = None
    /\ UNCHANGED <<standing, monitorState, now, queue, platformVars,
                   sensorsVars, rows, plane>>

\* Fault: the streak survives the stop verb.
StopMonitorKeeping ==
    /\ MayStop /\ monitorUp /\ monitorUp' = FALSE /\ raised' = None
    /\ UNCHANGED <<standing, monitorTick, pending, breaches, scoredAgainst,
                   residualCount, threshold, persistence, now, queue,
                   platformVars, sensorsVars, ingestVars, platformFirst,
                   prompts, disturbed, missed>>

StopMonitor ==
    /\ MayStop /\ Mon!Stop
    /\ UNCHANGED <<now, queue, platformVars, sensorsVars, ingestVars,
                   platformFirst, prompts, disturbed, missed>>

StartMonitor ==
    /\ Drained /\ Mon!Start
    /\ UNCHANGED <<now, queue, platformVars, sensorsVars, ingestVars, plane>>

-----------------------------------------------------------------------------
Init ==
    /\ Mon!Init /\ now = 0 /\ queue = <<>>
    /\ platformUp = TRUE /\ platformHeard = FALSE /\ lastStepped = None
    /\ reportInterval = ReportInterval
    /\ sensorsUp = TRUE /\ sensorsHeard = FALSE /\ lastSampled = None
    /\ position = None /\ sampleInterval = SampleInterval
    /\ platformFirst = TRUE /\ ingestUp = TRUE /\ rows = {}
    /\ prompts = 0 /\ stops = 0 /\ disturbed = 0 /\ missed = FALSE

Next ==
    \/ Tick \/ Repeat \/ Deliver \/ Forecast
    \/ SampleOnRequest \/ FaultySample \/ ReportOnRequest
    \/ TunePlatform \/ TuneSensors \/ TuneMonitor
    \/ StopPlatform \/ StartPlatform \/ StopSensors \/ StartSensors
    \/ StopIngest \/ StartIngest \/ StopMonitor \/ StartMonitor

Spec == Init /\ [][Next]_vars

-----------------------------------------------------------------------------
Observations == [datastream : {Temperature, Salinity, Deep, Ownship},
                 tick : 0..MaxTick, sound : BOOLEAN]

\* The types of what the four components and the broker hold (platform.ts:71-86,
\* sensors.ts:82-96, observation-store/store.ts:14).
SensingTypeOK ==
    /\ Mon!TypeOK
    /\ now \in 0..MaxTick /\ queue \in Seq(Observations)
    /\ platformUp \in BOOLEAN /\ platformHeard \in BOOLEAN
    /\ lastStepped \in 0..MaxTick \cup {None} /\ reportInterval \in Nat \ {0}
    /\ sensorsUp \in BOOLEAN /\ sensorsHeard \in BOOLEAN
    /\ lastSampled \in 0..MaxTick \cup {None}
    /\ position \in 0..MaxTick \cup {None} /\ sampleInterval \in Nat \ {0}
    /\ platformFirst \in BOOLEAN /\ ingestUp \in BOOLEAN
    /\ rows \subseteq {Temperature, Salinity, Deep, Ownship} \X (0..MaxTick)
    /\ prompts \in 0..MaxPrompts /\ stops \in 0..MaxStops
    /\ disturbed \in 0..MaxTick /\ missed \in BOOLEAN

\* The composition drives the monitor only as its own module allows.
MonitorSpec == Mon!Spec

EvidenceIsConsecutive == Mon!EvidenceIsConsecutive

\* What the monitor counts against a forecast can be looked up: where the
\* ingestion seam was never stopped, the store holds both readings of every
\* breach in the streak, although the two components never speak.
EvidenceIsOnRecord ==
    ~missed => \A i \in DOMAIN breaches :
        {Temperature, Salinity} \X {breaches[i].tick} \subseteq rows

\* Between drains the only halves the monitor still waits to complete are
\* deliberately faulty samples: no sound reading is left without its pair,
\* whatever was stopped, prompted or repeated.
OnlyFaultyHalvesWait == Drained => \A h \in pending : ~h.sound

\* With the platform reporting at least as often as the sensors sample, and both
\* left alone for an interval, no sampling tick is skipped for want of a place,
\* although each uses the place before last (sensors.ts:250-257).
CadenceNeverSkipped ==
    [][ (/\ now' # now /\ platformUp /\ sensorsUp
         /\ reportInterval <= sampleInterval
         /\ now' % sampleInterval = 0 /\ now' > disturbed + sampleInterval)
        => \E i \in DOMAIN queue' : queue'[i].datastream = Salinity ]_vars
=============================================================================
