------------------------------ MODULE Outbound ------------------------------
(***************************************************************************)
(* What leaves the loop: the offload packager stages a bundle for each     *)
(* release, telemetry keeps the ledger of the forecast that stands, and    *)
(* the shore source writes advisories into their store (packager.ts,       *)
(* telemetry.ts, advisories/source.ts, advisories/store.ts).               *)
(*                                                                         *)
(* All four learn of the world by message and two of them by reading the   *)
(* stores as well, so what they hold depends on how the two are            *)
(* interleaved: a release stands in the store before it is announced, a    *)
(* replayed one is never announced, and a runner started again announces   *)
(* the one that stands a second time.  The runner, the sensors and the     *)
(* monitor are here only what they say, and when: of a sample's messages   *)
(* the first are those of whoever subscribed first, and a component        *)
(* started again subscribes behind the rest.                               *)
(*                                                                         *)
(* A run is a number in order of release; its spread is held with it, and  *)
(* so is its forecast, which the store never lets go.  A measurement is    *)
(* the tick it was made at.                                                *)
(***************************************************************************)
EXTENDS Naturals, Sequences, FiniteSets

CONSTANTS
    SkillCadence,       \* telemetry: config.cadence_ticks
    AdvisoryCadence,    \* advisory source: config.cadence_ticks
    FieldBytes,         \* a forecast's field.byte_length
    Bound,              \* packager: config.staging_bound_bytes
    None,
    MaxTick,            \* bound: the last tick of the model
    MaxRun,             \* bound: forecasts released
    MaxPrompts,         \* bound: requests from the operator plane
    MaxStops            \* bound: how often the stop verb is used

ASSUME OutboundAssumption ==
    /\ SkillCadence \in Nat \ {0} /\ AdvisoryCadence \in Nat \ {0}
    /\ FieldBytes \in Nat \ {0} /\ Bound \in Nat \ {0}
    /\ MaxTick \in Nat /\ MaxRun \in Nat
    /\ MaxPrompts \in Nat /\ MaxStops \in Nat
    /\ None \notin Nat

Ticks == 0..MaxTick
Runs == 1..MaxRun
Voices == {"sensors", "runner", "source"}
Orders == {o \in [1..3 -> Voices] : \A m, n \in 1..3 : o[m] = o[n] => m = n}

VARIABLES
    now,            \* the clock's tick
    queue,          \* messages published and not yet delivered
    standing,       \* the store: the run its instance pointer names, or None
    dated,          \* the tick that run was released at
    rows,           \* the observation store: ticks measured at
    order,          \* who speaks on a sample, in order of subscription
    runnerUp,
    resumed,        \* runner: resumeConsidered
    runnerLast,     \* does the runner hear a sample after telemetry?
    packagerUp,
    packagerTick,   \* packager: simTime.tick
    intervalStart,  \* packager: intervalStartTick
    stagedFor,      \* packager: stagedForRunId
    bundles,        \* packager: stagedBundles
    declined,       \* packager: windows declined
    producing,
    forecastRun,    \* telemetry: forecastRunId
    ledger,         \* telemetry: the run each residual was scored against
    sourceUp,
    sourceHeard,    \* has the source heard the clock (simTime.value # '')?
    sequence,       \* advisory source: the next advisory's number
    advisories,     \* advisory store: numbers held
    prompts, stops,
    scored          \* history: scores published of each run

storeVars == <<standing, dated, rows>>
runnerVars == <<runnerUp, resumed, runnerLast>>
packagerState == <<packagerTick, intervalStart, stagedFor, bundles, declined,
                   producing>>
packagerVars == <<packagerUp, packagerState>>
telemetryVars == <<forecastRun, ledger>>
sourceVars == <<sourceUp, sourceHeard, sequence>>
shore == <<sourceVars, advisories>>
bounds == <<prompts, stops>>
vars == <<now, queue, order, storeVars, runnerVars, packagerVars, telemetryVars,
          shore, bounds, scored>>

Drained == queue = <<>>

Published(run, t) == [kind |-> "published", run |-> run, tick |-> t]
Row(t) == [kind |-> "row", tick |-> t]
Scored(run) == [kind |-> "scored", run |-> run]
Advisory(n) == [kind |-> "advisory", number |-> n]

Only(condition, message) == IF condition THEN <<message>> ELSE <<>>

-----------------------------------------------------------------------------
(* The packager.                                                           *)

Bytes == FieldBytes * Len(bundles)
AtBound == ~producing \/ Bytes >= Bound

\* Fault: the end of the interval belongs to it.
MeasuredClosed(upto) == {t \in rows : t >= intervalStart /\ t <= upto}

\* Half open: the release's own tick is the next interval's.
Measured(upto) == {t \in rows : t >= intervalStart /\ t < upto}

Decline == /\ declined' = declined + 1
           /\ producing' = (producing /\ ~AtBound)
           /\ UNCHANGED <<intervalStart, stagedFor, bundles>>

Bundle(run, upto) ==
    /\ bundles' = Append(bundles,
                         [run |-> run, index |-> Len(bundles) + declined,
                          measured |-> Measured(upto)])
    /\ intervalStart' = upto
    /\ producing' = (Bytes + FieldBytes < Bound)
    /\ UNCHANGED declined

\* Fault: production does not stop at the bound.
StageBeyond(run, upto) ==
    IF Measured(upto) = {} THEN Decline
    ELSE Bundle(run, upto) /\ stagedFor' = run

\* The bound, then the interval; a run is noted only when a bundle is made of it.
Stage(run, upto) ==
    IF AtBound \/ Measured(upto) = {} THEN Decline
    ELSE Bundle(run, upto) /\ stagedFor' = run

\* An announcement of a run already bundled says nothing new.
HearPublished(run, t) ==
    /\ IF packagerUp /\ stagedFor # run THEN Stage(run, t)
       ELSE UNCHANGED <<intervalStart, stagedFor, bundles, declined, producing>>
    /\ UNCHANGED <<packagerUp, packagerTick>>

\* Fault: a run bundled on request is not noted.
OffloadForgetting ==
    /\ Drained /\ prompts < MaxPrompts /\ prompts' = prompts + 1 /\ packagerUp
    /\ IF standing = None \/ AtBound \/ Measured(packagerTick) = {} THEN Decline
       ELSE Bundle(standing, packagerTick) /\ UNCHANGED stagedFor
    /\ UNCHANGED <<now, queue, order, storeVars, runnerVars, packagerUp,
                   packagerTick, forecastRun, ledger, shore, stops, scored>>

\* offload-now: the store is asked what stands, announced or not.
OffloadOnRequest ==
    /\ Drained /\ prompts < MaxPrompts /\ prompts' = prompts + 1 /\ packagerUp
    /\ IF standing = None
       THEN /\ declined' = declined + 1
            /\ UNCHANGED <<intervalStart, stagedFor, bundles, producing>>
       ELSE Stage(standing, packagerTick)
    /\ UNCHANGED <<now, queue, order, storeVars, runnerVars, packagerUp,
                   packagerTick, forecastRun, ledger, shore, stops, scored>>

-----------------------------------------------------------------------------
(* Telemetry, which no verb stops.                                         *)

\* Fault: a restatement closes the ledger too.
AdoptAfresh(run) == /\ forecastRun' = run /\ ledger' = <<>>

\* A new run closes the ledger; the run being scored closes nothing.
Adopt(run) ==
    IF run \in {None, forecastRun} THEN UNCHANGED <<forecastRun, ledger>>
    ELSE forecastRun' = run /\ ledger' = <<>>

\* A score, against the run the store says stands.
Absorb(run) ==
    LET adopted == IF standing = None THEN forecastRun ELSE standing
        kept == IF adopted = forecastRun THEN ledger ELSE <<>>
    IN  /\ forecastRun' = adopted
        /\ ledger' = IF run = adopted THEN Append(kept, run) ELSE kept

\* On a cadence tick not heard before, the run the store is read to hold is adopted,
\* and statistics and skill are published of it; a prompt publishes without asking.
Cadence(t, read) ==
    IF t > now /\ t % SkillCadence = 0 THEN Adopt(read)
    ELSE UNCHANGED <<forecastRun, ledger>>

-----------------------------------------------------------------------------
(* The shore source and its store.                                         *)

\* A repeated sample of a cadence tick authors again.
Authors(t) == sourceUp /\ t > 0 /\ t % AdvisoryCadence = 0

Author(t) ==
    /\ sequence' = IF Authors(t) THEN sequence + 1 ELSE sequence
    /\ sourceHeard' = sourceUp
    /\ UNCHANGED <<sourceUp, advisories>>

\* Fault: only the cadence advances the sequence.
AdvisoryOffCadence ==
    /\ Drained /\ prompts < MaxPrompts /\ prompts' = prompts + 1 /\ sourceHeard
    /\ queue' = <<Advisory(sequence)>>
    /\ UNCHANGED <<now, order, storeVars, runnerVars, packagerVars, forecastRun,
                   ledger, sourceVars, advisories, stops, scored>>

\* advisory-now: the next in the sequence, now.
AdvisoryOnRequest ==
    /\ Drained /\ prompts < MaxPrompts /\ prompts' = prompts + 1 /\ sourceHeard
    /\ queue' = <<Advisory(sequence)>>
    /\ sequence' = sequence + 1
    /\ UNCHANGED <<now, order, storeVars, runnerVars, packagerVars, forecastRun,
                   ledger, sourceUp, sourceHeard, advisories, stops, scored>>

-----------------------------------------------------------------------------
(* A clock sample and what follows from it.                                *)

\* A replayed run stands without a word while the runner is held back; a runner
\* releases one, and first restates what stands if it has not considered that.  Each
\* speaks in its turn: at boot the sensors, the runner, the source.
Sample(t) ==
    /\ Drained
    /\ \E released, measured \in BOOLEAN :
       LET next == IF standing = None THEN 1 ELSE standing + 1
           restates == runnerUp /\ ~resumed /\ standing # None
           announces == runnerUp /\ released
           Says(c) ==
               CASE c = "sensors" -> Only(measured, Row(t))
                 [] c = "runner" -> Only(restates, Published(standing, dated))
                                    \o Only(announces, Published(next, t))
                 [] c = "source" -> Only(Authors(t), Advisory(sequence))
       IN
       /\ released => next <= MaxRun /\ (standing # None => dated < t)
       /\ standing' = IF released THEN next ELSE standing
       /\ dated' = IF released THEN t ELSE dated
       /\ resumed' = (resumed \/ runnerUp)
       /\ Cadence(t, IF runnerLast THEN standing ELSE standing')
       /\ queue' = Says(order[1]) \o Says(order[2]) \o Says(order[3])
    /\ Author(t)
    /\ packagerTick' = IF packagerUp THEN t ELSE packagerTick
    /\ UNCHANGED <<order, rows, runnerUp, runnerLast, packagerUp,
                   intervalStart, stagedFor, bundles, declined, producing,
                   stops, scored>>

Tick == now < MaxTick /\ now' = now + 1 /\ Sample(now + 1) /\ UNCHANGED prompts

\* A change of rate publishes the present tick again.
Repeat == /\ prompts < MaxPrompts /\ prompts' = prompts + 1
          /\ Sample(now) /\ UNCHANGED now

\* The first message waiting, heard by everything that subscribes to it.
Deliver ==
    /\ ~Drained
    /\ LET m == Head(queue) IN
       \/ /\ m.kind = "published"
          /\ HearPublished(m.run, m.tick) /\ Adopt(m.run)
          /\ queue' = Tail(queue)
          /\ UNCHANGED <<rows, advisories, scored>>
       \/ /\ m.kind = "row"     \* stored; and scored, where the forecast reaches
          /\ rows' = rows \cup {m.tick}
          /\ \E reached \in BOOLEAN :
             LET scores == reached /\ standing # None IN
             /\ queue' = Tail(queue) \o Only(scores, Scored(standing))
             /\ scored' = [r \in Runs |-> IF scores /\ r = standing
                                          THEN scored[r] + 1 ELSE scored[r]]
          /\ UNCHANGED <<packagerVars, forecastRun, ledger, advisories>>
       \/ /\ m.kind = "scored"
          /\ Absorb(m.run) /\ queue' = Tail(queue)
          /\ UNCHANGED <<rows, packagerVars, advisories, scored>>
       \/ /\ m.kind = "advisory"    \* absorbed, if the number is held
          /\ advisories' = advisories \cup {m.number} /\ queue' = Tail(queue)
          /\ UNCHANGED <<rows, packagerVars, forecastRun, ledger, scored>>
    /\ UNCHANGED <<now, order, standing, dated, runnerVars, sourceVars,
                   bounds>>

-----------------------------------------------------------------------------
(* The stop and start verbs.                                               *)

MayStop == Drained /\ stops < MaxStops /\ stops' = stops + 1

\* What is started again subscribes last.
Rejoin(c) ==
    order' = IF order[1] = c THEN <<order[2], order[3], c>>
             ELSE IF order[2] = c THEN <<order[1], order[3], c>>
             ELSE order

\* Stopped sensors measure nothing, as they may at any sample: their start is a step.
RestartSensors ==
    /\ MayStop /\ Rejoin("sensors")
    /\ UNCHANGED <<now, queue, storeVars, runnerVars, packagerVars,
                   forecastRun, ledger, shore, prompts, scored>>

StopRunner ==
    /\ MayStop /\ runnerUp /\ runnerUp' = FALSE /\ resumed' = FALSE
    /\ UNCHANGED <<now, queue, order, storeVars, runnerLast, packagerVars,
                   forecastRun, ledger, shore, prompts, scored>>

StartRunner ==
    /\ Drained /\ ~runnerUp /\ runnerUp' = TRUE /\ runnerLast' = TRUE
    /\ Rejoin("runner")
    /\ UNCHANGED <<now, queue, storeVars, resumed, packagerVars, forecastRun,
                   ledger, shore, bounds, scored>>

StopPackager ==
    /\ MayStop /\ packagerUp /\ packagerUp' = FALSE
    /\ packagerTick' = 0 /\ intervalStart' = 0 /\ stagedFor' = None
    /\ bundles' = <<>> /\ declined' = 0 /\ producing' = TRUE
    /\ UNCHANGED <<now, queue, order, storeVars, runnerVars, forecastRun, ledger,
                   shore, prompts, scored>>

StartPackager ==
    /\ Drained /\ ~packagerUp /\ packagerUp' = TRUE
    /\ UNCHANGED <<now, queue, order, storeVars, runnerVars, packagerState,
                   forecastRun, ledger, shore, bounds, scored>>

StopSource ==
    /\ MayStop /\ sourceUp /\ sourceUp' = FALSE
    /\ sourceHeard' = FALSE /\ sequence' = 0
    /\ UNCHANGED <<now, queue, order, storeVars, runnerVars, packagerVars,
                   forecastRun, ledger, advisories, prompts, scored>>

StartSource ==
    /\ Drained /\ ~sourceUp /\ sourceUp' = TRUE /\ Rejoin("source")
    /\ UNCHANGED <<now, queue, storeVars, runnerVars, packagerVars,
                   forecastRun, ledger, sourceHeard, sequence, advisories, bounds,
                   scored>>

-----------------------------------------------------------------------------
\* Tick 0 has been heard; the runner may have been held back for an artefact since.
Init ==
    /\ now = 0 /\ queue = <<>> /\ standing = None /\ dated = 0 /\ rows = {}
    /\ order = <<"sensors", "runner", "source">>
    /\ runnerUp \in BOOLEAN /\ resumed = runnerUp /\ runnerLast = FALSE
    /\ packagerUp = TRUE /\ packagerTick = 0 /\ intervalStart = 0
    /\ stagedFor = None /\ bundles = <<>> /\ declined = 0 /\ producing = TRUE
    /\ forecastRun = None /\ ledger = <<>>
    /\ sourceUp = TRUE /\ sourceHeard = TRUE /\ sequence = 0 /\ advisories = {}
    /\ prompts = 0 /\ stops = 0
    /\ scored = [r \in Runs |-> 0]

Next ==
    \/ Tick \/ Repeat \/ Deliver
    \/ OffloadOnRequest \/ AdvisoryOnRequest
    \/ RestartSensors \/ StopRunner \/ StartRunner
    \/ StopPackager \/ StartPackager \/ StopSource \/ StartSource

Spec == Init /\ [][Next]_vars

-----------------------------------------------------------------------------
Bundles == [run : Runs, index : Nat, measured : SUBSET Ticks]

\* The types of what the packager, telemetry and the source keep (packager.ts:54-82,
\* telemetry.ts:60-76); the staging area passes its bound by less than one field.
OutboundTypeOK ==
    /\ now \in Ticks /\ standing \in Runs \cup {None} /\ dated \in 0..now
    /\ order \in Orders
    /\ rows \subseteq 0..now
    /\ intervalStart \in 0..packagerTick /\ packagerTick \in 0..now
    /\ stagedFor \in Runs \cup {None}
    /\ bundles \in Seq(Bundles) /\ declined \in Nat /\ producing \in BOOLEAN
    /\ Bytes < Bound + FieldBytes /\ (Bytes >= Bound => ~producing)
    /\ forecastRun \in Runs \cup {None} /\ ledger \in Seq(Runs)
    /\ sequence \in Nat /\ advisories \subseteq Nat
    /\ prompts \in 0..MaxPrompts /\ stops \in 0..MaxStops

\* One packager's bundles divide the measurements among them: between drains every
\* one made before the interval under way is in exactly one bundle, though bundles
\* are made of releases, restatements and prompts, and the sensors are heard on
\* another topic (packager.ts:217-229, 275).
MeasuredOnce ==
    Drained /\ packagerUp =>
        /\ UNION {bundles[n].measured : n \in DOMAIN bundles}
               = {t \in rows : t < intervalStart}
        /\ \A m, n \in DOMAIN bundles :
               m # n => bundles[m].measured \cap bundles[n].measured = {}

\* A run once bundled, whether on its release or on request, is bundled or
\* declined again only on request: a runner that restates it opens no window
\* (packager.ts:58-76).
RestatementIsInert ==
    [][ (queue # <<>> /\ Head(queue).kind = "published"
         /\ \E n \in DOMAIN bundles : bundles[n].run = Head(queue).run)
        => UNCHANGED packagerState ]_vars

\* Between drains telemetry's ledger is every score published of the run it names
\* and none of another, although it hears of runs three ways: no restatement closes
\* it and no silent replay loses it a sample (telemetry.ts:146-160, 173-203).
LedgerIsWhole ==
    Drained =>
        /\ \A n \in DOMAIN ledger : ledger[n] = forecastRun
        /\ forecastRun # None => Len(ledger) = scored[forecastRun]

\* However the source is prompted and restarted, the store holds an unbroken
\* beginning of the one sequence it authors: a number is never passed over, and until
\* the source is stopped none is taken for another's redelivery.  A source started
\* again is behind, and what it writes is absorbed until it has caught up
\* (advisories/source.ts:119, advisories/store.ts:69-72).
AdvisoriesAreInSequence ==
    Drained =>
        /\ advisories = 0..Cardinality(advisories) - 1
        /\ sequence <= Cardinality(advisories)
        /\ stops = 0 => sequence = Cardinality(advisories)
=============================================================================
