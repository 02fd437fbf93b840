---------------------------- MODULE ForecastLoop ----------------------------
(***************************************************************************)
(* The loop a forecast comes from: the scheduler asks for a run, the       *)
(* analyst corrects the standing forecast and announces an analysis, the   *)
(* model runner forecasts from it, occupies the ticks a run costs, and     *)
(* publishes.  They meet on the broker (app/src/backend/broker/broker.ts), *)
(* a queue drained in order with every handler run to completion, and in   *)
(* the coverage store, which they call directly.                           *)
(*                                                                         *)
(* The clock, the operator plane and its stop and start verbs act between  *)
(* drains, when the queue is empty; a divergence may be delivered between  *)
(* any two messages of a drain, since a sounding of the sample raises it.  *)
(* A clock sample reaches the scheduler and the runner in the order they   *)
(* subscribed.  The kernel has a cost of at least one tick, the now-cast a *)
(* first cycle starts from is held, and tuning is left to the scheduler's  *)
(* own module.                                                             *)
(***************************************************************************)
EXTENDS Integers, Sequences, FiniteSets

CONSTANTS
    MinInterval, MaxInterval, ReleaseMargin, Lifetime, MaxTick, None,
    Cost,           \* ticks a run costs: the runner's costTicks()
    RestateEvery,   \* config.cost.restate_every_ticks
    MaxStops        \* bound: how often the stop verb is used

\* What the runner keeps of the run it occupies its cost with.
Occupations == [run : Nat, publishAt : Nat, began : Nat]

ASSUME LoopAssumption ==
    /\ MinInterval \in Nat \ {0} /\ MaxInterval \in Nat \ {0}
    /\ ReleaseMargin \in Nat /\ Lifetime \in Nat /\ MaxTick \in Nat
    /\ Cost \in Nat \ {0} /\ RestateEvery \in Nat \ {0} /\ MaxStops \in Nat
    /\ None \notin Int /\ None \notin Occupations

VARIABLES
    now, running, heard, tick, paced, lastRequest, inFlight, validityEnd,
    runCost, reportedHolds, promptHeld, minimum, maximum, requested,
    asked, decided,     \* the scheduler's, as in its module
    queue,              \* messages published and not yet delivered
    schedulerFirst,     \* did the scheduler subscribe before the runner?
    analystUp,          \* is an analyst subscribed?
    spreadRun,          \* the run its spreadHoldingId belongs to, or None
    analysed,           \* runs whose analysis holdings the store holds
    runnerUp,           \* is a model runner subscribed?
    runnerTick,         \* its simTime.tick
    occupying,          \* the run it occupies its cost with, or None
    costStated,         \* costStatedAtTick
    resumed,            \* resumeConsidered
    standing,           \* the run the store's instance pointer names, or None
    forecast,           \* runs whose forecast holding the store holds
    stops,              \* how often the stop verb was used
    newest,             \* history: the latest run any scheduler asked for
    unheard             \* history: runs whose request or analysis was dropped

Sched == INSTANCE Scheduler WITH Costs <- {Cost}, Dial <- {}

schedVars == <<now, running, heard, tick, paced, lastRequest, inFlight,
               validityEnd, runCost, reportedHolds, promptHeld, minimum,
               maximum, requested, asked, decided>>
analystVars == <<analystUp, spreadRun, analysed>>
runnerVars == <<runnerUp, runnerTick, occupying, costStated, resumed>>
storeVars == <<standing, forecast>>
plane == <<schedulerFirst, stops>>
history == <<newest, unheard>>
vars == <<schedVars, analystVars, runnerVars, storeVars, plane, queue, history>>

-----------------------------------------------------------------------------
(* Messages.                                                               *)

RequestFor(r, timed) == [kind |-> "request", run |-> r, timed |-> timed]
AnalysisOf(r, timed) == [kind |-> "analysis", run |-> r, timed |-> timed]
Published(r) == [kind |-> "published", run |-> r, timed |-> TRUE]
RunFailed(r) == [kind |-> "failed", run |-> r, timed |-> TRUE]
CostStated == [kind |-> "cost", run |-> None, timed |-> TRUE]

\* What the scheduler published in this step, as messages.
Asked ==
    IF asked' = {} THEN <<>>
    ELSE LET m == CHOOSE m \in asked' : TRUE
         IN  <<RequestFor(m.run, m.timed)>>

Remember ==
    /\ newest' = IF asked' = {} THEN newest
                 ELSE LET m == CHOOSE m \in asked' : TRUE
                      IN  IF m.run > newest THEN m.run ELSE newest
    /\ unheard' = unheard \ {m.run : m \in asked'}

\* Nobody takes the message up, and nobody says so.
Drop(m) == unheard' = unheard \cup {m.run}

-----------------------------------------------------------------------------
(* The model runner.                                                       *)

Resumes == ~resumed /\ standing # None
CostDue(t) == costStated = None \/ t - costStated >= RestateEvery
\* Fault: the staged publication a tick late.
SpentLate(t) == occupying # None /\ t > occupying.publishAt

Spent(t) == occupying # None /\ t >= occupying.publishAt

\* resumeStandingRun, stateCost, releaseIfSpent, in that order: the standing run
\* is the one before this sample's own publication.
RunnerSays(t) ==
    (IF Resumes THEN <<Published(standing)>> ELSE <<>>) \o
    (IF CostDue(t) THEN <<CostStated>> ELSE <<>>) \o
    (IF Spent(t) THEN <<Published(occupying.run)>> ELSE <<>>)

\* Fault: a run is published without moving the instance pointer.
RunnerSampleUnpointed(t) ==
    /\ runnerUp
    /\ runnerTick' = t /\ resumed' = TRUE
    /\ costStated' = IF CostDue(t) THEN t ELSE costStated
    /\ IF Spent(t)
       THEN occupying' = None /\ forecast' = forecast \cup {occupying.run}
       ELSE UNCHANGED <<occupying, forecast>>
    /\ UNCHANGED <<runnerUp, standing>>

\* The spread, then the forecast, then the announcement: run to completion,
\* the store's instance pointer ends on the forecast.
RunnerSample(t) ==
    /\ runnerUp
    /\ runnerTick' = t
    /\ resumed' = TRUE
    /\ costStated' = IF CostDue(t) THEN t ELSE costStated
    /\ IF Spent(t)
       THEN /\ occupying' = None
            /\ standing' = occupying.run
            /\ forecast' = forecast \cup {occupying.run}
       ELSE UNCHANGED <<occupying, standing, forecast>>
    /\ UNCHANGED runnerUp

\* Fault: the release instant is left undefined.
OccupyUndated(r) == [run |-> r, publishAt |-> None, began |-> now]

\* A run is refused aloud while another occupies the runner; one that names no
\* initialisation instant throws, and the broker only counts that.
Occupy(r) == [run |-> r, publishAt |-> runnerTick + Cost, began |-> now]

\* Fault: a run that names no initialisation instant is run all the same.
RunnerHandlesUntimed(m) ==
    \/ ~runnerUp /\ queue' = Tail(queue) /\ Drop(m) /\ UNCHANGED occupying
    \/ /\ runnerUp /\ occupying # None
       /\ queue' = Append(Tail(queue), RunFailed(m.run))
       /\ UNCHANGED <<occupying, unheard>>
    \/ /\ runnerUp /\ occupying = None
       /\ queue' = Tail(queue) /\ occupying' = Occupy(m.run)
       /\ UNCHANGED unheard

RunnerHandles(m) ==
    \/ /\ ~runnerUp
       /\ queue' = Tail(queue) /\ Drop(m) /\ UNCHANGED occupying
    \/ /\ runnerUp /\ occupying # None
       /\ queue' = Append(Tail(queue), RunFailed(m.run))
       /\ UNCHANGED <<occupying, unheard>>
    \/ /\ runnerUp /\ occupying = None /\ m.timed
       /\ queue' = Tail(queue) /\ occupying' = Occupy(m.run)
       /\ UNCHANGED unheard
    \/ /\ runnerUp /\ occupying = None /\ ~m.timed
       /\ queue' = Tail(queue) /\ Drop(m) /\ UNCHANGED occupying

-----------------------------------------------------------------------------
(* Deliveries, one message and every handler of it at a time.              *)

NextIs(kind) == queue # <<>> /\ Head(queue).kind = kind

\* The analyst's cycle.  Its holdings are named for the run: a run asked for
\* again is refused by the store unless the cycle produced the same bytes, and
\* a refusal throws before the announcement.
DeliverRequest ==
    /\ NextIs("request")
    /\ LET m == Head(queue) IN
       \/ /\ ~analystUp
          /\ queue' = Tail(queue) /\ Drop(m) /\ UNCHANGED analysed
       \/ /\ analystUp
          /\ analysed' = analysed \cup {m.run}
          /\ queue' = Append(Tail(queue), AnalysisOf(m.run, m.timed))
          /\ UNCHANGED unheard
       \/ /\ analystUp /\ m.run \in analysed
          /\ queue' = Tail(queue) /\ Drop(m) /\ UNCHANGED analysed
    /\ UNCHANGED <<schedVars, analystUp, spreadRun, runnerVars, storeVars,
                   plane, newest>>

DeliverAnalysis ==
    /\ NextIs("analysis")
    /\ RunnerHandles(Head(queue))
    /\ UNCHANGED <<schedVars, analystVars, runnerUp, runnerTick, costStated,
                   resumed, storeVars, plane, newest>>

DeliverPublished ==
    /\ NextIs("published")
    /\ LET r == Head(queue).run IN
       /\ IF running THEN Sched!HearRunPublished(r) ELSE UNCHANGED schedVars
       /\ spreadRun' = IF analystUp THEN r ELSE spreadRun
    /\ queue' = Tail(queue)
    /\ UNCHANGED <<analystUp, analysed, runnerVars, storeVars, plane, history>>

\* Fault: a refused run is asked for again at once.
DeliverFailedRetrying ==
    /\ NextIs("failed")
    /\ queue' = Append(Tail(queue), RequestFor(Head(queue).run, TRUE))
    /\ UNCHANGED <<schedVars, analystVars, runnerVars, storeVars, plane, history>>

DeliverFailed ==
    /\ NextIs("failed")
    /\ IF running THEN Sched!HearRunFailed(Head(queue).run)
                  ELSE UNCHANGED schedVars
    /\ queue' = Tail(queue)
    /\ UNCHANGED <<analystVars, runnerVars, storeVars, plane, history>>

DeliverCost ==
    /\ NextIs("cost")
    /\ IF running THEN Sched!HearRunCost(Cost) ELSE UNCHANGED schedVars
    /\ queue' = Tail(queue)
    /\ UNCHANGED <<analystVars, runnerVars, storeVars, plane, history>>

Deliver == \/ DeliverRequest \/ DeliverAnalysis \/ DeliverPublished
           \/ DeliverFailed \/ DeliverCost

-----------------------------------------------------------------------------
(* A clock sample, published and delivered: between drains.                *)

Drained == queue = <<>>

Sample(t) ==
    /\ Drained
    /\ IF runnerUp THEN RunnerSample(t) ELSE UNCHANGED <<runnerVars, storeVars>>
    /\ LET fromRunner == IF runnerUp THEN RunnerSays(t) ELSE <<>>
       IN  queue' = IF schedulerFirst THEN Asked \o fromRunner
                                      ELSE fromRunner \o Asked
    /\ Remember
    /\ UNCHANGED <<analystVars, plane>>

Tick == Sched!Tick /\ Sample(now + 1)

Repeat ==
    /\ IF running THEN Sched!Repeat ELSE UNCHANGED schedVars
    /\ Sample(now)

-----------------------------------------------------------------------------
(* The reader's prompt, the monitor's divergence, and the lifecycle verbs. *)

Prompt ==
    /\ Drained
    /\ Sched!ConsiderPrompt
    /\ queue' = Asked
    /\ Remember
    /\ UNCHANGED <<analystVars, runnerVars, storeVars, plane>>

Divergence ==
    /\ Sched!ConsiderDivergence
    /\ queue' = queue \o Asked
    /\ Remember
    /\ UNCHANGED <<analystVars, runnerVars, storeVars, plane>>

MayStop == Drained /\ stops < MaxStops /\ stops' = stops + 1

\* Fault: the scheduler's memory survives the stop verb.
StopSchedulerKeeping ==
    /\ MayStop
    /\ running /\ running' = FALSE
    /\ asked' = {} /\ decided' = {}
    /\ UNCHANGED <<now, heard, tick, paced, lastRequest, inFlight, validityEnd,
                   runCost, reportedHolds, promptHeld, minimum, maximum,
                   requested, analystVars, runnerVars, storeVars,
                   schedulerFirst, queue, history>>

StopScheduler ==
    /\ MayStop
    /\ Sched!Stop
    /\ UNCHANGED <<analystVars, runnerVars, storeVars, schedulerFirst, queue,
                   history>>

\* A fresh client subscribes after everything already connected.
StartScheduler ==
    /\ Drained
    /\ Sched!Start
    /\ schedulerFirst' = FALSE
    /\ UNCHANGED <<analystVars, runnerVars, storeVars, stops, queue, history>>

\* Fault: the spread an analyst remembers survives the stop verb.
StopAnalystKeeping ==
    /\ MayStop
    /\ analystUp /\ analystUp' = FALSE
    /\ UNCHANGED <<schedVars, spreadRun, analysed, runnerVars, storeVars,
                   schedulerFirst, queue, history>>

StopAnalyst ==
    /\ MayStop
    /\ analystUp
    /\ analystUp' = FALSE /\ spreadRun' = None
    /\ UNCHANGED <<schedVars, analysed, runnerVars, storeVars, schedulerFirst,
                   queue, history>>

StartAnalyst ==
    /\ Drained
    /\ ~analystUp
    /\ analystUp' = TRUE
    /\ UNCHANGED <<schedVars, spreadRun, analysed, runnerVars, storeVars, plane,
                   queue, history>>

\* Fault: a runner stopped inside a run's cost says nothing of it.
StopRunnerSilently ==
    /\ MayStop
    /\ runnerUp
    /\ runnerUp' = FALSE /\ queue' = <<>>
    /\ runnerTick' = 0 /\ occupying' = None
    /\ costStated' = None /\ resumed' = FALSE
    /\ UNCHANGED <<schedVars, analystVars, storeVars, schedulerFirst, history>>

\* The runner says what will not be published before its client disconnects.
StopRunner ==
    /\ MayStop
    /\ runnerUp
    /\ runnerUp' = FALSE
    /\ queue' = IF occupying = None THEN <<>> ELSE <<RunFailed(occupying.run)>>
    /\ runnerTick' = 0 /\ occupying' = None
    /\ costStated' = None /\ resumed' = FALSE
    /\ UNCHANGED <<schedVars, analystVars, storeVars, schedulerFirst, history>>

StartRunner ==
    /\ Drained
    /\ ~runnerUp
    /\ runnerUp' = TRUE
    /\ schedulerFirst' = TRUE
    /\ UNCHANGED <<schedVars, analystVars, runnerTick, occupying, costStated,
                   resumed, storeVars, stops, queue, history>>

Control == \/ StopScheduler \/ StartScheduler \/ StopAnalyst
           \/ StartAnalyst \/ StopRunner \/ StartRunner

\* After the clock's first sample: the runner has stated its cost.
Init ==
    /\ Sched!Init
    /\ queue = <<CostStated>>
    /\ schedulerFirst = TRUE
    /\ analystUp = TRUE /\ spreadRun = None /\ analysed = {}
    /\ runnerUp = TRUE /\ runnerTick = 0 /\ occupying = None
    /\ costStated = 0 /\ resumed = TRUE
    /\ standing = None /\ forecast = {}
    /\ stops = 0 /\ newest = 0 /\ unheard = {}

Next == Deliver \/ Tick \/ Repeat \/ Prompt \/ Divergence \/ Control

\* The broker drains what it is given, and the clock's timer fires.
Spec == Init /\ [][Next]_vars
FairSpec == Spec /\ WF_vars(Deliver) /\ WF_vars(Tick)

-----------------------------------------------------------------------------
(* Properties.                                                             *)

Messages == [kind : {"request", "analysis", "published", "failed", "cost"},
             run : Nat \cup {None}, timed : BOOLEAN]
\* The fields of the analyst, the runner, the store and the broker are what
\* their declarations say; the scheduler's are checked in its own module.
LoopTypeOK ==
    /\ queue \in Seq(Messages)
    /\ schedulerFirst \in BOOLEAN
    /\ analystUp \in BOOLEAN /\ spreadRun \in Nat \cup {None}
    /\ analysed \subseteq Nat
    /\ runnerUp \in BOOLEAN /\ runnerTick \in Nat
    /\ occupying \in Occupations \cup {None}
    /\ costStated \in Nat \cup {None} /\ resumed \in BOOLEAN
    /\ standing \in Nat \cup {None} /\ forecast \subseteq Nat
    /\ stops \in Nat /\ newest \in Nat /\ unheard \subseteq Nat

\* The composition drives the scheduler only as its own module allows.
SchedulerSpec == Sched!Spec

\* A scheduler that waits once the queue is drained waits for the very run the
\* runner is occupied with, whoever was stopped and started; unless the request or
\* the analysis was dropped, since it was asked for, by a party that was away or
\* could not use it.  What the runner refuses, or abandons when it is stopped, is
\* waited for no longer (scheduler.ts:210-226, runner.ts:377-430).
OutstandingIsAccountedFor ==
    Drained /\ inFlight # None =>
        \/ occupying # None /\ occupying.run = inFlight
        \/ inFlight \in unheard

\* The watchdog never gives up a run the runner is still working on, whatever
\* is stopped and started and whenever the cost is heard, as long as the margin
\* alone covers the cost (as configured: 30 against 9).
WatchdogSparesLiveRuns ==
    [][inFlight # None /\ inFlight' # inFlight /\ "abandoned" \in decided' =>
         occupying = None \/ occupying.run # inFlight]_vars

\* The background and its covariance are one run's: whenever the analyst cycles
\* on the standing forecast, the spread it holds is that forecast's or it holds
\* none, though one is read from the store and the other was heard on the bus.
SpreadMatchesBackground ==
    NextIs("request") /\ analystUp /\ spreadRun # None => spreadRun = standing

Publishes == occupying # None /\ occupying' = None /\ runnerUp'

\* A forecast that another has replaced is never made and published again, and
\* the one that stands only in a visit that stopped two components: one restart,
\* whichever component's and wherever it falls, never makes the loop run again what
\* it has run (scheduler.ts:402, 612, runner.ts:395-431, 607-655).
ReplacedNeverReturns ==
    [][Publishes => \/ occupying.run \notin forecast
                    \/ occupying.run = standing /\ stops > 1]_vars

\* The standing forecast is replaced before it lapses, for as long as no
\* component is stopped and the cadence floor fits in a forecast's life.
NeverLapses ==
    stops = 0 /\ Drained /\ now > MaxInterval + Cost =>
        standing # None /\ now <= standing + Lifetime

\* Every outstanding run is resolved: published, refused aloud, or given up by
\* the watchdog, even when the request, the analysis or the run was lost.  The
\* bound only leaves the model's clock the ticks the watchdog needs.
EveryRunResolved ==
    \A r \in 0..MaxTick :
        (inFlight = r /\ now + Cost + ReleaseMargin < MaxTick) ~> inFlight # r

\* What is in the broker is delivered: no exchange of messages is endless.
QueueDrains == []<>Drained

\* run-request.schema.json: "a restarted scheduler counts from zero again while
\* the identifiers it issues keep moving forward".
IdentifiersMoveForward == [][\A m \in asked' : m.run >= newest]_vars

\* runner.ts:623: "The staged publication, once the ticks it costs have been
\* spent and not before".
PublishedOnceSpent ==
    [][occupying # None /\ standing' # standing =>
         now' >= occupying.began + Cost]_vars
=============================================================================
