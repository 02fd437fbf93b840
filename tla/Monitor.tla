------------------------------ MODULE Monitor -------------------------------
(***************************************************************************)
(* The monitor (app/src/backend/monitor/monitor.ts): it pairs the          *)
(* temperature and the salinity one sampling platform reports for a tick,  *)
(* scores the pair against the forecast that stands, and raises a          *)
(* divergence once enough consecutive pairs have breached.                 *)
(*                                                                         *)
(* A reading is known by its datastream, its tick and whether it is a      *)
(* number at all: the sensors publish one that is not when asked to, and   *)
(* the monitor validates nothing.  What a pair scores is any magnitude of  *)
(* Residuals, or Outside where the forecast does not reach.  The fields    *)
(* run and ordinal of a breach are history: the code keeps its tick, its   *)
(* residual and its place.                                                 *)
(***************************************************************************)
EXTENDS MonitorConfig

CONSTANT Others         \* datastreams no pair names

Datastreams == Pair \cup Others

VARIABLES
    standing,       \* the run the store's instance pointer names, or None
    monitorUp,      \* is an instance subscribed?
    monitorTick,    \* its simTime.tick
    pending,        \* halves waiting for their other half
    breaches,       \* the streak
    scoredAgainst,  \* the run the streak was scored against, or None
    residualCount,  \* pairs scored
    threshold,      \* tunedThreshold ?? config.threshold_m_per_s
    persistence,    \* tunedPersistence ?? config.persistence_count
    raised          \* the divergence the last step published, or None

instance == <<monitorUp, monitorTick, pending, breaches, scoredAgainst,
              residualCount, threshold, persistence>>
vars == <<standing, instance, raised>>

Readings == [datastream : Datastreams, tick : 0..MaxTick, sound : BOOLEAN]

-----------------------------------------------------------------------------
(* Scoring.                                                                *)

\* A comparison with what is not a number is false.
Over(residual) == residual # NotANumber /\ residual > threshold

\* What halves may score: sound speed of a text is not a number.
Scores(halves) ==
    IF \A h \in halves : h.sound THEN Residuals \cup {Outside}
                                 ELSE {NotANumber, Outside}

\* Fault: the streak outlives the forecast it was gathered against.
StreakKept == breaches

\* The streak so far, which a forecast not scored against before clears.
Streak == IF scoredAgainst = standing THEN breaches ELSE <<>>

BreachOf(halves) ==
    LET h == CHOOSE h \in halves : h.datastream = Temperature
    IN  [tick |-> h.tick, run |-> standing, ordinal |-> residualCount + 1]

DivergenceOf(streak) ==
    [run |-> standing, tick |-> monitorTick, evidence |-> streak]

ScoreOver(halves) ==
    LET streak == Append(Streak, BreachOf(halves)) IN
    IF Len(streak) >= persistence
    THEN breaches' = <<>> /\ raised' = DivergenceOf(streak)
    ELSE breaches' = streak /\ raised' = None

ScoreWithin == breaches' = <<>> /\ raised' = None

\* Without a forecast the pair is dropped before anything is noted; outside its
\* extent, after the run has been.
Score(halves) ==
    IF standing = None
    THEN /\ raised' = None
         /\ UNCHANGED <<breaches, scoredAgainst, residualCount>>
    ELSE /\ scoredAgainst' = standing
         /\ \E residual \in Scores(halves) :
                IF residual = Outside
                THEN /\ breaches' = Streak /\ raised' = None
                     /\ UNCHANGED residualCount
                ELSE /\ residualCount' = residualCount + 1
                     /\ IF Over(residual) THEN ScoreOver(halves)
                                          ELSE ScoreWithin

-----------------------------------------------------------------------------
(* Handlers.                                                               *)

HearClock(t) == monitorTick' = t

\* The halves of a reading's tick, the reading in its own place among them.
Slot(o) == {h \in pending : h.tick = o.tick}
Filled(o) == {h \in Slot(o) : h.datastream # o.datastream} \cup {o}
Complete(halves) == {h.datastream : h \in halves} = Pair

\* Fault: a scored pair stays in the pending map.
ConsiderKeeping(o) ==
    IF o.datastream \notin Pair
    THEN raised' = None /\ UNCHANGED instance
    ELSE /\ pending' = (pending \ Slot(o)) \cup Filled(o)
         /\ IF Complete(Filled(o))
            THEN Score(Filled(o))
            ELSE raised' = None
                 /\ UNCHANGED <<breaches, scoredAgainst, residualCount>>
         /\ UNCHANGED <<monitorUp, monitorTick, threshold, persistence>>

Consider(o) ==
    IF o.datastream \notin Pair
    THEN raised' = None /\ UNCHANGED instance
    ELSE /\ IF Complete(Filled(o))
            THEN pending' = pending \ Slot(o) /\ Score(Filled(o))
            ELSE /\ pending' = (pending \ Slot(o)) \cup Filled(o)
                 /\ raised' = None
                 /\ UNCHANGED <<breaches, scoredAgainst, residualCount>>
         /\ UNCHANGED <<monitorUp, monitorTick, threshold, persistence>>

\* A tightened threshold does not re-score what has been scored.
Tune ==
    /\ monitorUp
    /\ \/ \E v \in ThresholdDial : threshold' = v /\ UNCHANGED persistence
       \/ \E v \in PersistenceDial : persistence' = v /\ UNCHANGED threshold
    /\ raised' = None
    /\ UNCHANGED <<standing, monitorUp, monitorTick, pending, breaches,
                   scoredAgainst, residualCount>>

\* A stopped instance is dropped; the next is built from configuration.
Blank ==
    /\ monitorTick' = 0 /\ pending' = {} /\ breaches' = <<>>
    /\ scoredAgainst' = None /\ residualCount' = 0
    /\ threshold' = Threshold /\ persistence' = Persistence

Stop == /\ monitorUp /\ monitorUp' = FALSE
        /\ Blank /\ raised' = None /\ UNCHANGED standing

Start == /\ ~monitorUp /\ monitorUp' = TRUE /\ raised' = None
         /\ UNCHANGED <<standing, monitorTick, pending, breaches,
                        scoredAgainst, residualCount, threshold, persistence>>

\* The runner publishes a forecast, which the store points at from then on.
NewForecast ==
    /\ standing' = IF standing = None THEN 1 ELSE standing + 1
    /\ standing' <= MaxRun
    /\ raised' = None
    /\ UNCHANGED instance

-----------------------------------------------------------------------------
Init ==
    /\ standing = None /\ monitorUp = TRUE /\ monitorTick = 0 /\ pending = {}
    /\ breaches = <<>> /\ scoredAgainst = None /\ residualCount = 0
    /\ threshold = Threshold /\ persistence = Persistence /\ raised = None

Next ==
    \/ \E t \in 0..MaxTick :
           /\ monitorUp /\ HearClock(t) /\ raised' = None
           /\ UNCHANGED <<standing, monitorUp, pending, breaches,
                          scoredAgainst, residualCount, threshold,
                          persistence>>
    \/ \E o \in Readings : monitorUp /\ Consider(o) /\ UNCHANGED standing
    \/ Tune \/ Stop \/ Start \/ NewForecast

Spec == Init /\ [][Next]_vars

-----------------------------------------------------------------------------
Breaches == [tick : 0..MaxTick, run : 1..MaxRun, ordinal : Nat]

\* The types of the monitor's fields (monitor.ts:64-73).
TypeOK ==
    /\ standing \in 1..MaxRun \cup {None}
    /\ monitorUp \in BOOLEAN /\ monitorTick \in 0..MaxTick
    /\ pending \subseteq Readings
    /\ breaches \in Seq(Breaches)
    /\ scoredAgainst \in 1..MaxRun \cup {None}
    /\ residualCount \in Nat /\ threshold \in Nat
    /\ persistence \in Nat \ {0, 1}
    /\ \/ raised = None
       \/ raised \in [run : 1..MaxRun, tick : 0..MaxTick,
                      evidence : Seq(Breaches)]

\* The streak is the last pairs scored, every one against the same forecast.
StreakIsRecent ==
    \A i \in DOMAIN breaches :
        /\ breaches[i].ordinal = residualCount - Len(breaches) + i
        /\ breaches[i].run = scoredAgainst

\* A divergence rests on consecutive breaching pairs, at least two and as many
\* as the persistence in force, every one scored against the forecast it names:
\* nothing between them came back within the threshold, was scored against a
\* superseded forecast, or served an earlier divergence.
EvidenceIsConsecutive ==
    raised # None =>
        /\ Len(raised.evidence) >= persistence
        /\ raised.run = standing
        /\ breaches = <<>>
        /\ \A i \in DOMAIN raised.evidence :
               /\ raised.evidence[i].run = raised.run
               /\ raised.evidence[i].ordinal
                      = residualCount - Len(raised.evidence) + i
=============================================================================
