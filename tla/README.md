# drogna: a verification development

drogna is a learning harness for a maritime environmental data architecture. Its
backend (`app/src/backend`) is a set of components in one browser page that meet
on an in-page message broker and in four stores, around one loop: *sense, decide,
act, publish*. A clock sample makes the platform move and the sensors measure;
the monitor scores what was measured against the standing forecast and raises a
divergence; the scheduler decides whether a model run is warranted; the analyst
corrects the standing forecast; the model runner forecasts from the analysis and
publishes; the planner replans.

This directory holds TLA+ modules for that loop and for what leaves it, TLC
configurations that check them on small instances, and proofs, checked by TLAPS,
that every component modelled keeps its safety properties for every value of its
parameters.

Source lines below are of `app/src/backend` unless another path is given.

## 1. How the program executes, and what a step is

JavaScript runs to completion. A component's handler is therefore atomic, and
everything a handler publishes is queued (`broker/broker.ts:88-113`): the broker
drains its queue in order, delivers each message to the audience of that moment
in subscription order, and only counts a handler that throws. So

* one handler, with every call it makes, is one action;
* a message is one queue element, and its delivery to all its subscribers is one
  action, because nothing else runs in between (`Broker` is the one module that
  looks inside: there each handler's call is a step);
* what enters from outside (the clock's timer, a step, a change of rate, a
  command of the operator, a stop or a start) enters when the queue is empty. A
  divergence is the exception: the monitor raises it while soundings are
  delivered, so it may fall between any two messages.

The hard behaviours are those of a system of restartable parties. The operator
plane stops and starts components at any time (`runtime/runtime.ts:197-215`); a
started component is a new instance, with none of its memory, that has not heard
the time, and that subscribes after everyone else. A message for a stopped
component is gone. A run occupies the ticks it costs, so there is always a window
with work outstanding. A rate change republishes a tick. A start condition
replays old holdings.

## 2. Inventory

| Component | State | Operations | Meets | Hard behaviour | What makes it correct |
|---|---|---|---|---|---|
| Scheduler (`scheduler/scheduler.ts`) | last sample, pacing, last request, outstanding run, validity, heard cost, reported holds, held prompt, tuned intervals | sample (watchdog, held prompt, floor), cost, failure, publication, divergence, prompt, tuning | analyst by request, runner by cost, failure, publication | restart, lost request, stale publication, hold across anything | unique ids, intervals, one run outstanding, never becalmed, a held prompt answered |
| Analyst (`analyst/analyst.ts`) | pending observations, carried state, spread holding, last announcement | cycle, hear publication, restate | store by call, runner by announcement | partial failure, background and spread from two places | background and covariance of one run, request resolved |
| Model runner (`model-runner/runner.ts`) | last sample, occupying run, cost and features stated, resumed | run, refuse, release, resume, restate, abandon | store by call, scheduler by three topics | stopped with work outstanding, restart before a sample, two-step publication | one run at a time, none made again once replaced, nothing lost silently |
| Coverage store (`coverage-store/store.ts`) | holdings by id, three era pointers | publish, announce, read | called by generator, analyst, runner, snapshot source | replay, collision of ids, rewinding | one field per id, pointers never go back, one now-cast |
| Broker (`broker/broker.ts`) | queue, subscriptions | publish, subscribe, disconnect, drain | everyone | order, throwing handlers, disconnection in a drain | in order, to the audience of the moment, drains |
| Clock (`clock/clock.ts`) | tick, rate, running | start, stop, step, set rate, timer | everyone | repeat samples, step against timer | ticks advance by one |
| Control registry (`runtime/runtime.ts`) | running flag and instance per component | stop, start | operator plane | order of disconnection, subscription order | the last message of a stop is delivered |
| Snapshot source (`snapshot/source.ts`) | holdings still to replay | release by tick | store | restart replays everything | nothing current is rewound |
| Environment generator (`env-generator/generator.ts`) | last now-cast tick | provision, now-cast on cadence or prompt | store | resume from the store | one now-cast per tick |
| Platform, sensors (`platform`, `sensors`) | position, cadence, last tick | move, sample, prompted sample | ingest | repeated ticks, prompts | one sample per cadence |
| Ingest, observation store (`ingest`, `observation-store`) | observations by id | validate, flag, put | analyst, monitor | duplicates | absorbed by id |
| Monitor (`monitor/monitor.ts`) | halves awaiting a pair, streak | consider, score, raise, tune | scheduler by divergence | unpaired halves, streak across runs | a divergence only on persistence |
| Planner (`planner`) | field it scores, place, last attempt, last plan, collapsed doubt | replan on interval, announcement or prompt; inform | analyst by announcement, store by call | an attempt that fails, restart, announcement within the interval | a plan of the newest analysis |
| Advisories (`advisories`) | sequence; advisories by id | author, absorb | planner | sequence restarts | no advisory lost |
| Offload (`offload/packager.ts`) | bundles, bytes, last run, latch | stage, decline | store | restatement, bound | staged once, within the bound |
| Telemetry (`telemetry`) | ledger of runs | hear, sample | everyone | late facts | one ledger per run |
| Operator plane (`operator`) | none of its own | demand, step, tune, event | registry, clock | protected components | refuses what it must |
| Query, feature store, gate, library, bootstrap, interface | read only, constant or arithmetic | | | | |

The hazards each of these meets, at their lines, are listed in `PROJECT.json`.

## 3. Modules

| Module | What it is |
|---|---|
| `Broker` | roles, filters, the queue and its drain, one handler call to a step |
| `BrokerProofs` | that a covering rule is sound, that the rules are kept, and that each subscription hears what it is owed in order |
| `Scheduler` | the scheduler alone, in an environment that sends any message about any tick the clock has reached |
| `SchedulerProofs` | its inductive invariant and six theorems |
| `CoverageStore` | the store alone, under any publication its producers can make |
| `Catalogue` | what the store promises: names bound once, those it let go of too, and dates that advance |
| `CoverageStoreProofs` | the store's invariant, its safety theorems, and that it implements `Catalogue` |
| `ForecastLoop` | the scheduler composed with the analyst, the runner, the store's pointer and the broker's queue |
| `ForecastLoopProofs` | the loop's safety, and that it implements `Scheduler` |
| `Authors` | everything that writes the store, over `CoverageStore`: the snapshot source, the generator, the analyst, the runner, the pre-roll that winds them forward; and the planner, which follows them |
| `AuthorsProofs` | that the authors use the store as `CoverageStore` allows, and what they promise of the now-cast, the archive, the brief, the instance pointer, the plan and the opening state |
| `MonitorConfig`, `Monitor` | the monitor alone, under any reading, and its parameters |
| `MonitorProofs` | what a divergence rests on |
| `Sensing` | platform, sensors, ingestion seam and observation store composed with the monitor |
| `SensingProofs` | that the chain drives the monitor as `Monitor` allows, so that its theorems hold of the chain; what is on record, which halves wait, and the cadence |
| `Outbound` | offload packager, telemetry's ledger, advisory source and store |
| `OutboundProofs` | measurements divided, a whole ledger, an unbroken sequence, inert restatements |
| `MCBroker`, `MCScheduler`, `MCCoverageStore`, `MCForecastLoop`, `MCAuthors`, `MCSensing`, `MCOutbound` | the instances TLC checks |

Operators marked `Fault` are slips the code could have had. No specification uses
them; each is substituted for the definition it imitates to show that a property
would notice.

### Broker

A topic and a filter are the sequences of their parts, and `topicMatches` and
`filterCovers` are the two comparisons of `broker.ts:20-30` and `120-134`. Code runs
between drains or as the handler under way, and there may `Publish`, `Subscribe`,
`Unsubscribe` or `Disconnect`; `Take`, `Call` and `Finish` are the drain's loop, and
`Idle` its end. A subscription is never removed in the code, only marked: `active` is
the set of those not yet ended. `Call` passes an ended one over even when it was in
the audience, and `Finish` stands for a return and for a throw alike, since a throw is
only counted. `published`, `heard`, `joined` and `left` are history.

### Scheduler

A run is named by the tick it was requested at, as its identifier is
(`scheduler.ts:611-613`), and is valid for `Lifetime` ticks from there, so that the
sim-time arithmetic of `tickOf` and `remainingValidityTicks` becomes subtraction.
That arithmetic needs to know how long a tick is, which an instance learns from
its second sample: `paced`. `heard` says whether it has heard any. The boot order
(`runtime.ts:433-444`) starts the clock last, so the first instance has heard
tick 0; a restarted one has not heard anything.

A clock sample is one action with five outcomes, which are the paths through
`abandonStalledRun`, `releaseHeldPrompt` and `considerCadenceFloor` in the code's
order: a run is still outstanding; the held prompt is released; the floor requests;
the floor holds; nothing is due (with or without declining the held prompt).
`asked` and `decided` are what the step published. `requested` is the list the
code keeps under that name.

### CoverageStore

`Publish` has the code's three outcomes in the code's order: refused for a digest,
a length, or an id that names other bytes; superseded for a date behind its era's
pointer; written, letting go the now-cast it replaces. Its input is any staging,
restricted to what producers can author (`WellDated`): a now-cast and the brief always
carry the date their id names, a replay restating the recorded one
(`snapshot/source.ts:159-162`); a run's spread and forecast may be released again, and
then no earlier than they are held; an analysis may be repeated at any tick; and
now-casts of different ids have different ticks (`env-generator/generator.ts:357`).
`book` remembers what each id was first written with, which no field of the store does
once a now-cast is let go. The tick is part of it only where the id names one.

`Catalogue` sees of each id the field it is held with, or was held with before it was
let go. A publication that overwrote a holding, or brought a let-go one back as
something else, would not be one of its steps, and neither would a pointer's date that
went back.

The now-cast proof needs the second restriction: at equal dates `rewinds` is false,
and two now-casts of one tick could replace each other for ever.

### ForecastLoop

The scheduler's actions are those of `Scheduler`, by `INSTANCE`, with the guess
about what arrives replaced by a queue and by the two parties that fill it:

* `DeliverRequest` is `Analyst.cycle`: it announces an analysis, unless the store
  refuses a holding named for a run that was analysed before, in which case it
  throws and says nothing. Whether a second cycle produces the same bytes depends on
  the observations, so both outcomes are there.
* `DeliverAnalysis` is `ModelRunner.run`: refused aloud while occupied, thrown away
  when the run names no initialisation instant (`isoPlusSeconds('')` throws at
  `runner.ts:559`), otherwise occupying until `simTime.tick + cost`.
* `Sample` delivers a clock sample to the scheduler and the runner. The runner
  resumes the standing run, states its cost, releases what is spent, in that order
  (`runner.ts:321-341`); the spread goes out before the forecast, so the store's
  instance pointer ends on the forecast. The order in which the two published
  depends on who subscribed first, which a restart changes: `schedulerFirst`.
* `StopRunner` says that the occupying run will not be published before the client
  disconnects (`runner.ts:353-393`). `StopAnalyst` forgets the spread.

`newest` and `unheard` are history variables, as is the `began` of an occupation.
`unheard` has the runs whose request or analysis nobody took up (`Drop`): the party was
stopped, the store refused the analyst, or the runner threw on a run without an instant.
`OutstandingIsAccountedFor` excuses exactly those, so that a runner that refused or
abandoned a run without saying so would show, although the watchdog covers it up later.
`ReplacedNeverReturns` is about what may be made twice. It can happen: a restarted
runner may release a run within the tick that asked for it (`loop_spent`), and a
scheduler restarted in that same tick may ask for it again. That takes two components
stopped, and concerns the forecast that stands; nothing replaced is ever made again.

### Authors

A clock sample is heard by one author after another, in the order they subscribed
(`order`, which a restart changes). A handler's decision is one step, `Hear`, and each
publication it makes another, `Publish`, which is the store's own action: a live
author throws at the first that is not written and loses the rest (`runner.ts:805`),
the snapshot source counts the verdict and goes on. The four holdings of an analysis
share one run's name and one content, so the store answers the later three as the
first; here they are one.

`Request` runs the analyst's cycle under the present tick, whatever was asked for or
forecast under it before: a run that stands may be analysed and released again in the
tick that names it, and the store's rules on dates are then an obligation of the
release (`StoreSpec`), not of the request.

`PinClock`, `HoldBack`, `RestoreRate` and `StartCrew` are the pre-roll, in its order
(`preroll.ts:122-236`); `artefact` is what was committed for the start condition,
whole, with a damaged holding, or nothing. A field is `Clean`, `Other` or `Spoilt`:
what the seed determines, what other observations determine, or not a number.

The planner hears the samples last (`runtime.ts:328`). `HearPlanner` counts its interval
from the last attempt, plan or no plan; `Notice` is the announcement of an analysis,
which sets the count to -1; `CanPlan` is what a replan needs (the field held, a
now-cast, a place). A plan is the run it was scored against and its tick.

### Monitor and Sensing

A reading is its datastream, its tick, and whether it is a number. `Consider` fills a
half's slot (a second reading of a datastream replaces the first), and a complete pair
is scored once and dropped, whatever comes of it: nothing stands, it lies outside the
forecast, it is within the threshold, or it breaches. A residual is any magnitude; a
comparison with what is not a number is false, so a faulty pair ends a streak. `run`
and `ordinal` of a breach are history.

`Sensing` replaces the guessed readings by the queue. `Tick` and `Repeat` are a clock
sample heard by the platform and the sensors in the order they subscribed; the place a
sampling tick uses is therefore the one before this tick's report (`Fresh`). `Deliver`
gives one observation to the ingestion seam, the sensors and the monitor together. The
requests of the operator plane, its tunings, and stop and start of each component act
between drains; `Forecast` may fall between any two messages.

### Outbound

`Sample` is what a clock sample makes of three parties, who speak in the order they
subscribed (`order`): at boot the sensors, the runner, the advisory source
(`runtime.ts:263`, `324`, `346`, started in that order at `433`), and whoever is started
again last (`Rejoin`). The sensors may measure. The runner is here only what it says:
it restates what stands if it has not considered that, and may release a run, in the
store at once and announced by a message. So the measurement of a release's own tick
may be stored before the release is heard of, or after it. A replayed run stands
without a word. `Deliver` gives a message to all who hear it: an announcement to the packager and
to telemetry; a measurement to the observation store and, scored against what stands
at that moment, on to telemetry; an advisory to its store. `Stage` tests the bound,
then the interval, then bundles; `Adopt` and `Absorb` are the two ways the ledger
changes hands. `scored` is history.

## 4. Runs

| Run | Instance | Shows |
|---|---|---|
| `scheduler` | intervals 2 and 3, margin 1, lifetime 4, costs 0 and 2, dial {1, 3}, 6 ticks | the scheduler's safety, alone and under any messages (512,825 states) |
| `store` | two now-casts, two instances, one analysis, two byte strings, dates 0 to 2 | the store's safety and its refinement of `Catalogue` (11,743 states up to symmetry) |
| `loop` | intervals 2 and 3, margin 2, cost 2, lifetime 7, restated every 3, 2 stops, 9 ticks | the loop's safety, and that it drives the scheduler only as `Scheduler` allows (1,069,170 states) |
| `loop_live` | margin 1, cost 1, lifetime 6, 1 stop, 7 ticks | every outstanding run is resolved; the broker always drains (31,177 states) |
| `sensing` | two instruments that pair and one that does not, intervals 1 or 2, persistence 2 or 3, 2 prompts, 1 stop, 2 forecasts, 3 ticks | that a divergence is earned and on record, no sound half waits, no sampling tick is skipped; the refinement of `Monitor` (775,279 states) |
| `authors` | now-cast and replan intervals 2, cost 1, a pre-roll of 2 ticks, four artefacts, 2 prompts, 1 stop, 4 ticks | the store's contract is kept by everything that writes it; now-cast, archive, brief, instance pointer, plan and opening state (1,324,590 states) |
| `outbound` | cadences 2, a bound two fields overfill, 2 releases, 2 prompts, 1 stop, 4 ticks | measurements divided without loss, inert restatements, a whole ledger, an unbroken advisory sequence (3,246,294 states) |
| `broker` | three of the committed roles, 2 topics, 2 filters, 2 subscriptions, 4 messages | what each subscription hears, and under which rules (776,430 states) |
| `authors_faulty` | as `authors` | *violated*: `FieldsAreSound` |
| `scheduler_floor` | both intervals 3 | *violated*: `NoTwoRunsCloser` |
| `loop_restart` | as `loop_live` | *violated*: `IdentifiersMoveForward` |
| `loop_spent` | as `loop_live`, cost and margin 2 | *violated*: `PublishedOnceSpent` |

### Why the bounds are enough

The scheduler's decisions compare differences of ticks with the minimum interval,
the floor, the lifetime and the cost plus the margin. In `scheduler` these four are
different from one another (2, 3, 4, 1 or 3) and six ticks hold a whole cycle of
request, publication, hold and lapse with a second request after it; the dial
reaches both sides of the default. All of the properties proved in
`SchedulerProofs` hold beyond these bounds by proof.

In `store` two ids of an era are enough for a publication to meet a pointer that is
another's, the same, older, newer or of the same date; three dates let a holding be
older than both. Holdings of one era, and byte strings, are only compared for
equality, so permuting them is a symmetry, and all the properties are safety. The `departure` era
behaves as `instance` does and is left to the proof.

In `loop` nine ticks hold a cold start, a second forecast and the beginning of a
third; two stops are enough to stop two parties, or one party twice. The floor, a
cost and the margin fit into a lifetime, as they do in `app/config/run.json` (1800,
about 9 and 30 against 2700), and the margin covers the cost, as 30 covers 9:
`WatchdogSparesLiveRuns` depends on it, because a restarted scheduler has not heard
the cost and waits for the margin alone. Two intervals suffice for
`NeverLapses`, which begins after the first floor.

In `sensing` three ticks hold a streak of the default persistence with a pair to
spare; a persistence of 3, reached by tuning, needs every one of them or a prompted
second reading of a tick. Two forecasts let one be replaced within a streak. One stop
takes any one component through a restart, and two prompts allow a faulty sample after
a tuning, or two readings of one tick. Both intervals reach both values of their dial,
so the platform may report more often than the sensors sample, as often, or less.

In `authors` the pre-roll's two ticks are a whole interval of the now-cast and of the
planner, and two more follow once the console is open: enough for a lapse, a forecast
requested and released, and an analysis announced between two plans. The artefacts
differ in what is damaged: the forecast, whose spread is then what the pointer names,
or the now-cast, without which the generator must provision one.

In `outbound` the two bundles that fit and the one that does not are reached in four
ticks; two releases let a run be superseded while a message about it is under way.

In `broker` two subscriptions and four messages let the first handler end the second's
subscription in the middle of a delivery, and the second publish in the drain of the
first; one filter is covered by a rule of the shell and refused to the planner. What
may be heard under which rule is proved for every table (`BrokerProofs`).

`CHECK_DEADLOCK FALSE` is set where the model's bounds stop it: a loop at its last tick
with its stops and prompts used up, and a broker that has carried all its messages,
may have nothing left to do. `scheduler` and `store` never stop.

### Fairness

`loop_live` assumes weak fairness of `Deliver`, since `Broker.enqueue` does not
return before its queue is empty, and of `Tick`, since the clock's timer fires again
after every tick while its rate is positive (`clock/clock.ts:134-143`). Nothing is
assumed of the operator, the monitor, prompts, or stopped components being started
again. `EveryRunResolved` speaks of runs outstanding early enough that the bounded
clock still has the ticks the watchdog needs.

### What the code says and does not do

* `scheduler_floor`: `app/config/run.json:941` describes the minimum interval as "No
  two runs closer together than this". The cadence floor does not ask it, and both
  dials move independently.
* `loop_restart`: `contracts/schemas/run-request.schema.json:47` says that a
  restarted scheduler's identifiers "keep moving forward". A prompt before its first
  sample asks for the run of tick 0.
* `loop_spent`: `runner.ts:623` says that a staged publication goes out "once the
  ticks it costs have been spent and not before". A restarted runner handed an
  analysis before its first sample counts from tick 0.
* `authors_faulty`: `src/srd.md:725` says of a prompted fault that "it is refused or
  flagged by the ordinary seam ... and nothing softens it on the way". The ingestion seam
  refuses it; the analyst hears the same topic, validates nothing
  (`analyst.ts:144-149`) and assimilates a text, so that every cell the kernel reaches
  is not a number, and the store accepts the analysis.

Smaller disagreements met while modelling, for which no run is kept:

* `divergence.schema.json:89` calls the mean residual signed; `monitor.ts:296` takes
  absolute values. Its line 41 derives the identifier from an ordinal; the code
  writes the tick (`monitor.ts:303`), so two divergences of one tick would share it.
  Its line 113 says a temporal streak spans a length of simulation time; persistence
  counts samples, and two prompted readings of a tick count twice.
* `observation.schema.json:26` derives an observation's identifier from a sequence; the
  code uses the tick, so a prompted second reading of a tick is absorbed by the store
  although the monitor scores it and the analyst assimilates it.
* `planner.ts:144` says that an announcement makes it "replan on the next tick rather
  than waiting out the cadence". The count is set to -1, so in the first interval of a
  run it waits until the tick itself has reached the interval (`planner.ts:123`);
  `PlanIsCurrent` makes that exception, and `operator.test.ts:835` relies on it.
* `planner.ts:321` argues that no guard on time is needed, because there cannot be a
  field before the clock has spoken. A planner started again with the clock paused can
  be told of an analysis and prompted before its first sample, and dates a plan at
  tick 0.
* A damaged forecast in an artefact leaves its spread as what the instance pointer
  names (`InstanceIsForecast` is about artefacts that are whole).
* A packager started again counts bundles from nothing, forgets which run it staged for
  and may bundle it twice; an advisory source started again writes numbers the store
  absorbs until it has caught up (`AdvisoriesAreInSequence` says exactly this much).

## 5. Proofs

All theorems hold for every value of the constants that satisfies the module's
assumption: intervals of at least one tick, a margin, lifetime and costs that are
natural numbers, any dial of positive values; any set of ids, eras and byte strings.

**Scheduler.** The inductive invariant `IInv` is `TypeOK` and: every run in
`requested` is no later than `lastRequest`. Types alone would not do, because
`lastRequest` is also moved by publications of runs somebody else asked for;
`Later` never moves it back, so the difference measured from it bounds the
difference to all runs this instance asked for. From it:

* `UniqueIdentifiers` and `IntervalIsKept`: what is asked for in a step is asked for
  at least the minimum interval, or for a floor run the maximum, after all of
  `requested`, and both are at least one;
* `LoopNotBecalmed`: by the five outcomes of a sample;
* `HeldPromptsAnswered`: with the invariant that a stopped scheduler holds no prompt;
* `FloorYields`: a floor run is requested only if the prompt is not due or declined,
  and it is due whenever the floor may request, as both ask the same headroom.

**CoverageStore.** `StoreInv` is the conjunction of the safety properties and
`Forgotten`: a now-cast that is in `book` and no longer held is dated behind the
pointer's. Without it a replayed now-cast could be written over a newer one. From it
follow each of the properties, that only replaced now-casts leave, and
`StoreImplementsCatalogue`, step by step.

**Broker.** Of the rules, two halves. `CoveringIsSound`: a rule that covers a filter
matches every topic the filter matches. Its delicate case is a filter with a `#` of its
own, which only a `#` of the rule at or before that place covers. The invariant then
carries two facts from where they are checked to where they matter: every
subscription's filter is covered by a rule of its client's, and every message waiting,
being delivered or heard was published under one of its sender's. The history makes
the second expressible: what waits is the tail of `published`. `RulesAlwaysKept` follows
for every table of rules.

Of the order, `HeardInOrder` speaks of moments between drains, so `OrderInv` says what
holds inside one: a turn is a place in `published`, the message under delivery has the
last that has come, and a subscription that stands lacks nothing owed to it but that
message, and only while it is still in the audience. Ending a subscription, in whichever
handler of whichever drain, freezes what it has heard at that point
(`EveryoneHearsInOrder`).

**Monitor.** `EvidenceIsConsecutive` speaks of a divergence, which is made from the
streak; so the inductive invariant is `TypeOK`, `StreakIsRecent` (the streak is the
last pairs scored, all against the forecast noted) and the property. `Append` to such a
streak is `LongerStreak`; that a changed forecast clears it first is `StreakFacts`.

**Sensing.** `SensingImplementsMonitor`: every step of the chain is one of `Monitor`'s or
leaves its variables alone. It needs that what is in the queue is a reading, hence the
types of the chain, and that a monitor which has just raised something is running: a
divergence is on the air for one step, and the step that takes it off is, to the
monitor, hearing the time again. `SensingProofs` instantiates `MonitorProofs` and so
says of the chain what was proved of the monitor: `ChainDivergencesAreEarned` and,
with its own invariant, `SensingTypeCorrect`.

Three more invariants relate the monitor to its surroundings. `OnRecord`: where no
observation was missed, what the monitor waits with and what its streak counts is
stored, because the ingestion seam and the monitor hear the same delivery.
`HalvesMeet`, under the hypothesis `PairSensed` that one sensor of the pair stands
before the other in one list and each once, as `run.json` has temperature and salinity:
a sound half waits only for a second that is in the queue, so between drains only
faulty ones wait. `OfThisTick` and `PlacesHeard`: since the last disturbance the sensors
hold a place as recent as every tick the platform was to report at, or the report is
still ahead of them in the queue; the last multiple of a cadence is then never passed
over (`NoCadenceSkipped`).

**ForecastLoop.** Four invariants, each resting on the one before.

* `LoopInv`: every run in flight, on the bus or in the store is one the clock has
  reached, and a message that names its instant names this tick, because the clock waits
  for the drain (`Dated`); a run already forecast is run again only while it stands
  (`Once`); the runner releases no later than a cost after the tick a run is named for
  (`Spending`). These are the guards `Scheduler` puts on what it hears, so
  `LoopImplementsScheduler` follows step by step.
  With `Spending` and the hypothesis `MarginCoversCost` (`Cost <= ReleaseMargin`; about 9
  and 30 as configured) the watchdog spares a run in work (`LiveRunsSpared`).
* `RoundInv`: no two messages on their way to a forecast are of one run while the
  scheduler hears a sample first (`Distinct`), and whoever was stopped, the run a
  scheduler waits for is a message, the runner's, or one somebody dropped (`Carried`):
  `OutstandingOccupies`. `Single` adds that until two components were stopped, either the
  runner never was, and dates its releases by the clock, or the scheduler never was, and
  asks for nothing twice: each alone keeps a run that is forecast from being made again.
  Beyond that `Once` leaves only the forecast that stands (`ReplacedRunsNeverReturn`).
* `SpreadInv`: whenever the spread an analyst holds is not the standing forecast's, the
  publication that puts it right is in the queue, before any request and after every
  other publication. `SpreadMatches` therefore holds across stops and starts, though the
  two halves of a background come from two places; it too needs `MarginCoversCost`.
* `SoloInv`: until a stop one run is under way, as one message or as the runner's, and
  the scheduler knows the standing forecast but for the moment its publication is on the
  bus. `StandingNeverLapses` then needs `LifeFits`, that the floor with a cost, and two
  costs, fit into a lifetime (1800, 9 and 2700 as configured).

**Authors.** `Inv` says what each author still has to publish, because a handler's
publications are steps others can fall between: the source a stretch of the artefact
that ends where its queue begins; the generator what the store lacks, the now-cast
last; the analyst one analysis; the runner a spread and its forecast, under names no
artefact and no earlier run has used. A lemma apiece says what a publication does to
the store (`Publications`), what it can never take away (`Leaves`) and that each
author's next holding is `Sound`, dated as its name says. Hence `AuthorsUseTheStore`:
every publication is one `CoverageStore` allows, a run released again included (it is dated
the tick of the release, which is no earlier), and what `CoverageStoreProofs` proves
holds of the page. The rest of the invariant is what the properties need of it:
`Cadenced` (the cadence counts from no later than the now-cast that stands, or that one
is in hand) for `NowcastStaysFresh`; `Provisions` for `EachProvisionedOnce`; `Instances`
(the pointer rests on a spread only while its forecast is next) for
`InstanceStaysForecast`; `Planning` for `PlanStaysCurrent`.

`ConsoleOpensOnArtefact` has an invariant of its own, `Opening`, about the time before
the console opens: the source hears every sample first; nobody of the crew publishes
once held back; what has been replayed of the artefact is held, its now-cast pointed to
from then on; and until the now-cast's turn what the pointer names is older, and
the generator prepares one only of an earlier tick. A start condition's last sample then
leaves nothing to replay.

What is assumed of an artefact is what a store at the end of a pre-roll is known to
hold (`scripts/build-snapshots.ts:85-98` exports it as it stands): an id once, in order
of publication, a forecast right behind its spread; and, for the last theorem, at least
one forecast and exactly one now-cast (`ArtefactAssumption`), which the four start
conditions shipped with the page satisfy.

**Outbound.** A message waits between what is said and who hears it, and the components
compare notes only through it; so `IInv` says where in a drain each kind of message may
be and what it may still say. A measurement waits anywhere in its drain, for the order
of subscription is anyone's; its score, said when it is heard, is behind every
announcement, and the two never wait together (`Measurement`); an announcement is of a
run no earlier than the one bundled last, and a second one
waiting is the release that made it so: hence `RestatementsAreInert`, and that telemetry
never adopts a run it has left. Between, `Divided` cuts what was measured at the start
of the interval under way (`EachMeasuredOnce`), and `Scores` counts what was scored
as the ledger and at most one score unheard (`LedgerStaysWhole`).
`AdvisoriesStayInSequence` needs the number up to which the store holds everything,
which a restarted source repeats before it passes it.

What only TLC checks: the two liveness properties, `EveryRunResolved` and
`QueueDrains`, since fairness is beyond TLAPS; and the runs that expect a violation.
Every invariant and action property that another run checks is the statement of a
theorem. Hypotheses of theorems that are not assumptions of the module
(`MarginCoversCost`, `LifeFits`, `PairSensed`) hold in every run that checks the
property.

## 6. Not modelled

Most of the implementation carries no state a model checker could explore. Of some
65,000 lines, 16,000 are generated types and schemas, 25,000 are the console's panels
and 8,000 are scripts; the backend has about 12,500. Of those, much is arithmetic on
fields: the ocean, the ensemble, optimal interpolation, the route search, the motion of
the platform, the codecs and digests, whose results are here any value, or a value that
tells only what a property needs told. The modules cover the control of the rest.

In the modelled components:

* scheduler, store, broker, monitor, sensors: counters, wording, heartbeats, the payload;
* analyst: the interpolation, and the standing restatement, which only the console
  hears (`analyst.ts:357-390`); runner: a kernel without a cost, and its features;
* planner: the search and the collapse of doubt; platform: motion, and the demanded
  course, speed and depth;
* telemetry: regions and latency, closed with the ledger; clock: the timer's handle and
  the refusals of the rate route, which change nothing;
* in the loop: tuning, and a start condition whose forecast stands at boot.

Not modelled at all: the query surface, which reads one state of a store and changes
none; the feature store and the boundary gate, a constant and a stateless table; the
shared library; the interface.

A held prompt that a stopped scheduler forgets, and a stream of divergences that keeps
one waiting, are known hazards without a property: the code promises nothing about the
one, and only the environment's restraint bounds the other.

## 7. Plan

1. The standing conditions under which the loop resolves every run, as safety: that a
   run outstanding longer than the watchdog's threshold is given up at the next sample,
   which with the fairness assumed is `EveryRunResolved`.
2. That the authors and the loop agree: what `ForecastLoop` takes the store's pointer
   and the analyst's and runner's outcomes to be is what `Authors` makes of them.
3. The clock and the control registry as a component of their own, with the loop's
   `Tick` and the stop and start verbs as their steps.
