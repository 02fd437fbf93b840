------------------------------- MODULE Authors ------------------------------
(***************************************************************************)
(* Everything that writes the coverage store, from the page's boot on: the *)
(* snapshot source replaying a start condition's artefact, the environment *)
(* generator, the analyst and the model runner, wound forward through a    *)
(* pre-roll and then left to the reader, who may prompt, stop and start    *)
(* them (snapshot/source.ts, env-generator/generator.ts, analyst.ts,       *)
(* runner.ts, bootstrap/preroll.ts); and the planner, which writes nothing *)
(* there but plans from what they say and hold (planner.ts).               *)
(*                                                                         *)
(* A clock sample is heard by one author after another, in the order they  *)
(* subscribed.  A handler runs to completion, but it may publish several   *)
(* holdings, each answered by the store, and a live author throws at the   *)
(* first that is not written: so a handler is here its decision, taken     *)
(* when it starts, and one step for each publication.                      *)
(*                                                                         *)
(* An analysis is four holdings with one run's name and one content, so    *)
(* the store answers the later three as it did the first: here it is one.  *)
(*                                                                         *)
(* A field is known by whether it is what the run's seed determines        *)
(* (Clean), what another set of observations determines (Other), or not a  *)
(* number somewhere (Spoilt).  A run is known by the tick it was asked     *)
(* for, as its identifier is.                                              *)
(***************************************************************************)
EXTENDS Integers, Sequences, FiniteSets, FiniteSetsExt

CONSTANTS
    NowcastInterval,    \* generator: config.nowcast.interval_ticks
    ReplanInterval,     \* planner: config.replan_interval_ticks
    Cost,               \* ticks a model run costs
    PreRollTicks,       \* ticks the start condition's legs advance
    Artefacts,          \* what may have been committed for it; <<>> is nothing
    Clean, Other, Spoilt, None,
    MaxTick,            \* bound: the last tick of the model
    MaxPrompts,         \* bound: runs requested and prompts
    MaxStops            \* bound: how often the reader uses the stop verb

Ticks == 0..MaxTick
Authored == {"archive", "departure", "nowcast"}
RunParts == {"analysis", "spread", "forecast"}
Ids == (Authored \cup RunParts) \X Ticks
Fields == {Clean, Other, Spoilt}

EraOf == [i \in Ids |->
            IF i[1] \in Authored THEN i[1]
            ELSE IF i[1] \in {"spread", "forecast"} THEN "instance"
            ELSE "analysis"]

Crew == {"generator", "analyst", "runner"}
All == Crew \cup {"source", "planner"}
BootOrder == <<"source", "generator", "analyst", "runner", "planner">>

\* A holding as its author describes it.
Staging(id, t, content) ==
    [id |-> id, tick |-> t, bytes |-> content, recorded |-> content,
     sized |-> TRUE]

Holdings == [id : Ids, tick : Ticks, bytes : Fields, recorded : Fields,
             sized : BOOLEAN]

Whole(artefact) ==
    \A n \in DOMAIN artefact :
        artefact[n].bytes = artefact[n].recorded /\ artefact[n].sized

\* What was authored names the tick it is dated; archive and brief, the first.
NamesItsDate(h) ==
    /\ h.id[1] \in Authored => h.id[2] = h.tick
    /\ h.id[1] \in {"archive", "departure"} => h.tick = 0

\* A forecast comes right after its spread, of one date, later than its run's.
ReleasesWhole(artefact) ==
    \A n \in DOMAIN artefact : LET h == artefact[n] IN
        /\ h.id[1] \in {"spread", "forecast"} => h.id[2] < h.tick
        /\ h.id[1] = "spread" =>
               /\ n + 1 \in DOMAIN artefact
               /\ artefact[n + 1].id = <<"forecast", h.id[2]>>
               /\ artefact[n + 1].tick = h.tick
        /\ h.id[1] = "forecast" =>
               n > 1 /\ artefact[n - 1].id = <<"spread", h.id[2]>>

\* An artefact is a run's holdings in the order they were published in, an id
\* once; nothing in it is dated past the pre-roll it was built by.
ASSUME AuthorsAssumption ==
    /\ NowcastInterval \in Nat \ {0} /\ Cost \in Nat \ {0}
    /\ ReplanInterval \in Nat \ {0}
    /\ MaxTick \in Nat /\ PreRollTicks \in Ticks
    /\ MaxPrompts \in Nat /\ MaxStops \in Nat
    /\ Cardinality(Fields) = 3
    /\ None \notin Fields \cup Ids \cup All \cup Nat
    /\ None \notin [field : Fields, tick : Nat \cup {None}]
    /\ \A artefact \in Artefacts :
           /\ artefact \in Seq(Holdings) /\ ReleasesWhole(artefact)
           /\ \A n \in DOMAIN artefact :
                  artefact[n].tick <= PreRollTicks /\ NamesItsDate(artefact[n])
           /\ \A m, n \in DOMAIN artefact : m < n =>
                  /\ artefact[m].tick <= artefact[n].tick
                  /\ artefact[m].id # artefact[n].id

\* It was taken of a store at the end of a pre-roll that forecast: that holds one
\* now-cast, the newest.
ASSUME ArtefactAssumption ==
    \A artefact \in Artefacts \ {<<>>} :
        /\ \E n \in DOMAIN artefact : artefact[n].id[1] = "forecast"
        /\ \E n \in DOMAIN artefact : \A m \in DOMAIN artefact :
              artefact[m].id[1] = "nowcast" <=> m = n

VARIABLES
    field, date, pointer, announced, verdict, book,     \* the store's
    now,            \* the clock's tick
    phase,          \* how far the boot has come
    artefact,       \* what was fetched for the start condition
    order,          \* authors running, in order of subscription
    hearing,        \* those yet to hear the present sample
    author,         \* whose handler is under way, or None
    work,           \* what it has still to publish
    awaiting,       \* the run whose analysis is announced after, or None
    replay,         \* source: pending
    provisioned,    \* generator: has it heard a sample?
    lastNowcast,    \* generator: lastNowcastTick
    analystTick,    \* analyst: simTime.tick
    faultPending,   \* analyst: is a faulty sample among its observations?
    runnerTick,     \* runner: simTime.tick
    occupying,      \* runner: the run it occupies, or None
    plannerTick,    \* planner: simTime.tick
    placed,         \* planner: has it heard where the platform is?
    errorRun,       \* planner: errorRunId, or None
    lastPlanTick,   \* planner: -1 when a plan is due whatever the interval
    plan,           \* planner: the run and the tick of lastPlan, or None
    prompts, stops,
    lastAnnounced   \* history: the last analysis announced, and when

storeVars == <<field, date, pointer, announced, verdict, book>>
generatorVars == <<provisioned, lastNowcast>>
analystVars == <<analystTick, faultPending>>
runnerVars == <<runnerTick, occupying>>
plannerVars == <<plannerTick, placed, errorRun, lastPlanTick, plan>>
bounds == <<prompts, stops>>
vars == <<storeVars, now, phase, artefact, order, hearing, author, work,
          awaiting, replay, generatorVars, analystVars, runnerVars, plannerVars,
          bounds, lastAnnounced>>

Store == INSTANCE CoverageStore

Up(c) == \E n \in DOMAIN order : order[n] = c
Idle == hearing = <<>> /\ author = None /\ awaiting = None
Held(era) == {i \in Ids : field[i] # None /\ EraOf[i] = era}

-----------------------------------------------------------------------------
(* A handler's decision: what it will publish, one holding after another.  *)

Undertake(c, stagings) ==
    /\ work' = stagings
    /\ author' = IF stagings = <<>> THEN None ELSE c

Only(condition, staging) == IF condition THEN <<staging>> ELSE <<>>

\* The source's: every holding from the front of the queue whose instant has come.
Ripe == Max({n \in 0..Len(replay) : \A m \in 1..n : replay[m].tick <= now})

\* Fault: what is replayed is dated when it is replayed.
HearSourceRedating ==
    /\ Undertake("source", [n \in 1..Ripe |-> [replay[n] EXCEPT !.tick = now]])
    /\ replay' = SubSeq(replay, Ripe + 1, Len(replay))
    /\ UNCHANGED <<generatorVars, analystVars, runnerVars, plannerVars>>

HearSource ==
    /\ Undertake("source", SubSeq(replay, 1, Ripe))
    /\ replay' = SubSeq(replay, Ripe + 1, Len(replay))
    /\ UNCHANGED <<generatorVars, analystVars, runnerVars, plannerVars>>

\* What the generator authors is a function of the instant.
Evaluated(era) == Staging(<<era, now>>, now, Clean)

Lapsed(since) == now - since >= NowcastInterval

StandingDate == date[CHOOSE i \in Held("nowcast") : TRUE]

\* Fault: only the now-cast is resumed; archive and brief are authored again.
ProvisionAfresh ==
    LET due == Held("nowcast") = {} \/ Lapsed(StandingDate) IN
    /\ Undertake("generator", <<Evaluated("archive"), Evaluated("departure")>>
                              \o Only(due, Evaluated("nowcast")))
    /\ lastNowcast' = IF due THEN now ELSE StandingDate

\* Fault: the cadence counted from the provisioning.
ProvisionFromNow ==
    LET due == Held("nowcast") = {} \/ Lapsed(StandingDate) IN
    /\ Undertake("generator",
           Only(Held("archive") = {}, Evaluated("archive"))
           \o Only(Held("departure") = {}, Evaluated("departure"))
           \o Only(due, Evaluated("nowcast")))
    /\ lastNowcast' = now

\* The first sample: what the store lacks, and the cadence resumed from the
\* now-cast it holds.
Provision ==
    LET due == Held("nowcast") = {} \/ Lapsed(StandingDate) IN
    /\ Undertake("generator",
           Only(Held("archive") = {}, Evaluated("archive"))
           \o Only(Held("departure") = {}, Evaluated("departure"))
           \o Only(due, Evaluated("nowcast")))
    /\ lastNowcast' = IF due THEN now ELSE StandingDate

Cadence ==
    /\ Undertake("generator", Only(Lapsed(lastNowcast), Evaluated("nowcast")))
    /\ lastNowcast' = IF Lapsed(lastNowcast) THEN now ELSE lastNowcast

HearGenerator ==
    /\ provisioned' = TRUE
    /\ IF provisioned THEN Cadence ELSE Provision
    /\ UNCHANGED <<replay, analystVars, runnerVars, plannerVars>>

HearAnalyst ==
    /\ Undertake("analyst", <<>>)
    /\ analystTick' = now
    /\ UNCHANGED <<replay, generatorVars, faultPending, runnerVars, plannerVars>>

\* Fault: the forecast published ahead of its spread.
ReleaseForecastFirst(run, content) ==
    <<Staging(<<"forecast", run>>, now, content),
      Staging(<<"spread", run>>, now, content)>>

\* Spread first, forecast second: the pointer names what was published last.
Release(run, content) ==
    <<Staging(<<"spread", run>>, now, content),
      Staging(<<"forecast", run>>, now, content)>>

HearRunner ==
    LET spent == occupying # None /\ now >= occupying.at IN
    /\ runnerTick' = now
    /\ occupying' = IF spent THEN None ELSE occupying
    /\ Undertake("runner",
           IF spent THEN Release(occupying.run, occupying.content) ELSE <<>>)
    /\ UNCHANGED <<replay, generatorVars, analystVars, plannerVars>>

\* The field it scores, held; a now-cast to read the sea's timescale from; a place.
CanPlan == /\ errorRun # None /\ field[<<"analysis", errorRun>>] # None
           /\ pointer["nowcast"] # None /\ placed

\* What a replan leaves: the last plan, where there is nothing to plan from.
Replan(t) == IF CanPlan THEN [run |-> errorRun, tick |-> t] ELSE plan

\* The interval is counted from the attempt, whether or not it made a plan.
HearPlanner ==
    LET due == now > 0 /\ now - lastPlanTick >= ReplanInterval IN
    /\ Undertake("planner", <<>>)
    /\ plannerTick' = now
    /\ lastPlanTick' = IF due THEN now ELSE lastPlanTick
    /\ plan' = IF due THEN Replan(now) ELSE plan
    /\ UNCHANGED <<placed, errorRun, replay, generatorVars, analystVars,
                   runnerVars>>

Hear ==
    /\ hearing # <<>> /\ author = None
    /\ hearing' = Tail(hearing)
    /\ CASE Head(hearing) = "source" -> HearSource
         [] Head(hearing) = "generator" -> HearGenerator
         [] Head(hearing) = "analyst" -> HearAnalyst
         [] Head(hearing) = "runner" -> HearRunner
         [] Head(hearing) = "planner" -> HearPlanner
    /\ UNCHANGED <<storeVars, now, phase, artefact, order, awaiting, bounds,
                   lastAnnounced>>

\* The source counts the verdict and goes on; a live author throws, and what it
\* had still to publish or to announce goes with it.
Publish ==
    /\ work # <<>>
    /\ Store!Publish(Head(work))
    /\ LET thrown == author # "source" /\ verdict' # "written" IN
       /\ work' = IF thrown THEN <<>> ELSE Tail(work)
       /\ awaiting' = IF thrown THEN None ELSE awaiting
    /\ author' = IF work' = <<>> THEN None ELSE author
    /\ UNCHANGED <<now, phase, artefact, order, hearing, replay, generatorVars,
                   analystVars, runnerVars, plannerVars, bounds, lastAnnounced>>

\* Fault: the new field waits out the interval of the plan it replaces.
NoticeIdly(run) == errorRun' = run /\ UNCHANGED lastPlanTick

\* The planner's field has been replaced: it plans again at the next sample.
Notice(run) == errorRun' = run /\ lastPlanTick' = -1

\* The finished analysis, announced: a free runner takes it up, and dates its
\* release from the last sample it heard.  One without an initialisation instant
\* stops it with an exception.
Announce ==
    /\ awaiting # None /\ author = None
    /\ awaiting' = None
    /\ occupying' = IF Up("runner") /\ occupying = None /\ awaiting.dated
                    THEN [run |-> awaiting.run, at |-> runnerTick + Cost,
                          content |-> awaiting.content]
                    ELSE occupying
    /\ IF Up("planner") THEN Notice(awaiting.run)
                         ELSE UNCHANGED <<errorRun, lastPlanTick>>
    /\ lastAnnounced' = [run |-> awaiting.run, tick |-> now]
    /\ UNCHANGED <<storeVars, now, phase, artefact, order, hearing, author,
                   work, replay, generatorVars, analystVars, runnerTick,
                   plannerTick, placed, plan, bounds>>

-----------------------------------------------------------------------------
(* What is asked of them between drains.                                   *)

MayAsk == Idle /\ prompts < MaxPrompts /\ prompts' = prompts + 1

Background ==
    IF pointer["instance"] # None THEN pointer["instance"]
                                  ELSE pointer["nowcast"]

\* A run is requested and the analyst's cycle runs on the observations it has:
\* under the present tick, whatever has been asked for or forecast under it, or
\* under tick 0 and without an instant by a scheduler that has heard no sample.
Request ==
    /\ MayAsk /\ Up("analyst") /\ Background # None
    /\ \E dated \in BOOLEAN :
       LET run == IF dated THEN now ELSE 0 IN
       /\ dated \/ phase = "open"
       /\ \E content \in IF faultPending \/ field[Background] = Spoilt
                         THEN {Spoilt} ELSE {Clean, Other} :
          /\ Undertake("analyst",
                 <<Staging(<<"analysis", run>>, analystTick, content)>>)
          /\ awaiting' = [run |-> run, dated |-> dated, content |-> content]
    /\ faultPending' = FALSE
    /\ UNCHANGED <<storeVars, now, phase, artefact, order, hearing, replay,
                   generatorVars, analystTick, runnerVars, plannerVars, stops,
                   lastAnnounced>>

\* fault-sample: the analyst hears what the ingestion seam refuses.
FaultySample ==
    /\ phase = "open" /\ MayAsk /\ Up("analyst")
    /\ faultPending' = TRUE
    /\ UNCHANGED <<storeVars, now, phase, artefact, order, hearing, author,
                   work, awaiting, replay, generatorVars, analystTick,
                   runnerVars, plannerVars, stops, lastAnnounced>>

\* The generator's prompt, ignored before its first sample.
NowcastOnRequest ==
    /\ phase = "open" /\ MayAsk /\ Up("generator") /\ provisioned
    /\ Undertake("generator", <<Evaluated("nowcast")>>)
    /\ lastNowcast' = now
    /\ UNCHANGED <<storeVars, now, phase, artefact, order, hearing, awaiting,
                   replay, provisioned, analystVars, runnerVars, plannerVars,
                   stops, lastAnnounced>>

\* The planner's: it restarts the interval, plan or no plan.
ReplanOnRequest ==
    /\ phase = "open" /\ MayAsk /\ Up("planner")
    /\ lastPlanTick' = plannerTick /\ plan' = Replan(plannerTick)
    /\ UNCHANGED <<storeVars, now, phase, artefact, order, hearing, author,
                   work, awaiting, replay, generatorVars, analystVars,
                   runnerVars, plannerTick, placed, errorRun, stops,
                   lastAnnounced>>

\* A sounding reaches the planner: it knows a place from then on.
Sounding ==
    /\ Idle /\ Up("planner") /\ ~placed /\ placed' = TRUE
    /\ UNCHANGED <<storeVars, now, phase, artefact, order, hearing, author,
                   work, awaiting, replay, generatorVars, analystVars,
                   runnerVars, plannerTick, errorRun, lastPlanTick, plan,
                   bounds, lastAnnounced>>

-----------------------------------------------------------------------------
(* The clock, the pre-roll, and the reader's stop and start verbs.         *)

Sample == /\ Idle /\ hearing' = order
          /\ UNCHANGED <<storeVars, artefact, order, author, work, awaiting,
                         replay, generatorVars, analystVars, runnerVars,
                         plannerVars, bounds, lastAnnounced>>

Tick == /\ \/ phase = "winding" /\ now < PreRollTicks
           \/ phase = "open" /\ now < MaxTick
        /\ Sample /\ now' = now + 1 /\ UNCHANGED phase

\* A change of rate publishes the tick in force again.
Repeat == phase = "open" /\ Sample /\ UNCHANGED <<now, phase>>

\* The pre-roll starts by pinning the clock.
PinClock == /\ phase = "boot" /\ phase' = "pinned"
            /\ Sample /\ UNCHANGED now

Without(c) ==
    LET n == CHOOSE n \in DOMAIN order : order[n] = c
    IN  SubSeq(order, 1, n - 1) \o SubSeq(order, n + 1, Len(order))

\* A stopped component is dropped, and with it all it remembers.
Forget(S) ==
    /\ replay' = IF "source" \in S THEN <<>> ELSE replay
    /\ provisioned' = (provisioned /\ "generator" \notin S)
    /\ lastNowcast' = IF "generator" \in S THEN 0 ELSE lastNowcast
    /\ analystTick' = IF "analyst" \in S THEN 0 ELSE analystTick
    /\ faultPending' = (faultPending /\ "analyst" \notin S)
    /\ runnerTick' = IF "runner" \in S THEN 0 ELSE runnerTick
    /\ occupying' = IF "runner" \in S THEN None ELSE occupying
    /\ IF "planner" \in S
       THEN /\ plannerTick' = 0 /\ placed' = FALSE /\ errorRun' = None
            /\ lastPlanTick' = -1 /\ plan' = None
       ELSE UNCHANGED plannerVars

\* Fault: only the generator is held back.
HoldBackGenerator ==
    /\ phase = "pinned" /\ phase' = "winding" /\ Idle
    /\ LET held == IF artefact = <<>> THEN {} ELSE {"generator"} IN
       /\ order' = SelectSeq(order, LAMBDA c : c \notin held)
       /\ Forget(held)
    /\ UNCHANGED <<storeVars, now, artefact, hearing, author, work, awaiting,
                   bounds, lastAnnounced>>

\* Whoever an artefact speaks for is stopped for the pre-roll.
HoldBack ==
    /\ phase = "pinned" /\ phase' = "winding" /\ Idle
    /\ order' = IF artefact = <<>> THEN order ELSE <<"source", "planner">>
    /\ Forget(IF artefact = <<>> THEN {} ELSE Crew)
    /\ UNCHANGED <<storeVars, now, artefact, hearing, author, work, awaiting,
                   bounds, lastAnnounced>>

\* The rate goes back before the crew does, so nobody started hears this sample.
RestoreRate == /\ phase = "winding" /\ now = PreRollTicks /\ phase' = "restored"
               /\ Sample /\ UNCHANGED now

StartCrew ==
    /\ phase = "restored" /\ phase' = "open" /\ Idle
    /\ order' = IF artefact = <<>> THEN order
                ELSE order \o <<"generator", "analyst", "runner">>
    /\ UNCHANGED <<storeVars, now, artefact, hearing, author, work, awaiting,
                   replay, generatorVars, analystVars, runnerVars, plannerVars,
                   bounds, lastAnnounced>>

Stop(c) ==
    /\ phase = "open" /\ Idle /\ stops < MaxStops /\ Up(c)
    /\ stops' = stops + 1
    /\ order' = Without(c) /\ Forget({c})
    /\ UNCHANGED <<storeVars, now, phase, artefact, hearing, author, work,
                   awaiting, prompts, lastAnnounced>>

\* Fault: a second instance is built of what is running.
StartAgain(c) ==
    /\ phase = "open" /\ Idle /\ Len(order) < 5
    /\ order' = Append(order, c)
    /\ replay' = IF c = "source" THEN artefact ELSE replay
    /\ UNCHANGED <<storeVars, now, phase, artefact, hearing, author, work,
                   awaiting, generatorVars, analystVars, runnerVars,
                   plannerVars, bounds, lastAnnounced>>

Start(c) ==
    /\ phase = "open" /\ Idle /\ ~Up(c)
    /\ order' = Append(order, c)
    /\ replay' = IF c = "source" THEN artefact ELSE replay
    /\ UNCHANGED <<storeVars, now, phase, artefact, hearing, author, work,
                   awaiting, generatorVars, analystVars, runnerVars,
                   plannerVars, bounds, lastAnnounced>>

-----------------------------------------------------------------------------
Init ==
    /\ Store!Init
    /\ now = 0 /\ phase = "boot" /\ artefact \in Artefacts
    /\ order = BootOrder /\ hearing = BootOrder
    /\ author = None /\ work = <<>> /\ awaiting = None
    /\ replay = artefact /\ provisioned = FALSE /\ lastNowcast = 0
    /\ analystTick = 0 /\ faultPending = FALSE
    /\ runnerTick = 0 /\ occupying = None
    /\ plannerTick = 0 /\ placed = FALSE /\ errorRun = None
    /\ lastPlanTick = -1 /\ plan = None
    /\ prompts = 0 /\ stops = 0 /\ lastAnnounced = None

Next ==
    \/ Hear \/ Publish \/ Announce
    \/ Request \/ FaultySample \/ NowcastOnRequest
    \/ ReplanOnRequest \/ Sounding
    \/ Tick \/ Repeat \/ PinClock \/ HoldBack \/ RestoreRate \/ StartCrew
    \/ \E c \in All : Stop(c) \/ Start(c)

Spec == Init /\ [][Next]_vars

-----------------------------------------------------------------------------
Runs == [run : Ticks, dated : BOOLEAN, content : Fields]
Plans == [run : Ticks, tick : Ticks]

\* The types of what the authors keep (source.ts:50-64, generator.ts:66-80,
\* analyst.ts:77-83, runner.ts:73-101).
AuthorsTypeOK ==
    /\ Store!TypeOK
    /\ now \in Ticks
    /\ phase \in {"boot", "pinned", "winding", "restored", "open"}
    /\ order \in Seq(All) /\ hearing \in Seq(All)
    /\ \A m, n \in DOMAIN order : order[m] = order[n] => m = n
    /\ author \in All \cup {None} /\ (author = None <=> work = <<>>)
    /\ awaiting \in Runs \cup {None}
    /\ lastNowcast \in Ticks /\ analystTick \in 0..now /\ runnerTick \in 0..now
    /\ \/ occupying = None
       \/ /\ occupying.run \in Ticks /\ occupying.content \in Fields
          /\ occupying.at \in Nat
    /\ plannerTick \in 0..now /\ placed \in BOOLEAN
    /\ errorRun \in Ticks \cup {None} /\ lastPlanTick \in -1..plannerTick
    /\ {plan, lastAnnounced} \subseteq Plans \cup {None}
    /\ prompts \in 0..MaxPrompts /\ stops \in 0..MaxStops

\* Whatever is replayed, prompted, stopped and started, the four authors use the
\* store as its own module allows (Store!Spec, the step's witness named): a now-cast
\* and a brief are dated the tick they name however often they are published, a run
\* forecast again is dated no earlier than it is held, and a tick has one now-cast.
\* What is proved of the store therefore holds of this system.
StoreSpec ==
    /\ Store!Init
    /\ [][ LET s == Head(work) IN
             /\ work # <<>> /\ s.tick \in 0..MaxTick
             /\ Store!WellDated(s) /\ Store!OneNowcastPerTick(s)
             /\ Store!Publish(s) ]_storeVars

\* Between drains the now-cast the store points to is younger than the interval,
\* whoever authored it: the cadence survives a replay, a prompt and a restart of
\* the generator (generator.ts:196-237).
NowcastIsFresh ==
    Idle /\ Up("generator") /\ provisioned =>
        /\ pointer["nowcast"] # None
        /\ now - date[pointer["nowcast"]] < NowcastInterval

\* A run is issued one archive and one brief, however often the generator is
\* provisioned and whether or not an artefact brought them.
ProvisionedOnce ==
    Cardinality(Held("archive")) <= 1 /\ Cardinality(Held("departure")) <= 1

\* Between drains the forecast pointer names a forecast whose spread is held, as
\* everything that reads the standing run assumes (standing-run.ts): the runner
\* and the replay agree on an order that dates do not decide.
InstanceIsForecast ==
    Idle /\ pointer["instance"] # None /\ Whole(artefact) =>
        /\ pointer["instance"][1] = "forecast"
        /\ field[<<"spread", pointer["instance"][2]>>] # None

\* The console opens on what the artefact holds, all of it and nothing newer of
\* an era with a pointer: the crew is held back in time, and what it did before
\* is superseded.
OpensOnArtefact ==
    [][ (phase' = "open" /\ phase # "open" /\ Whole(artefact))
        => /\ replay = <<>>
           /\ \A n \in DOMAIN artefact : field[artefact[n].id] # None
           /\ artefact # <<>> => \A e \in {"nowcast", "instance"} :
                \E n \in DOMAIN artefact : pointer[e] = artefact[n].id ]_vars

\* A planner that recommends at all recommends from the newest analysis anyone
\* announced, within a tick of hearing it, and never from a plan an interval old,
\* however prompts, repeated samples, cycles that fail and restarts fall; only while
\* the clock itself is younger than the interval may a new field wait
\* (planner.ts:119-146, 319-337).
PlanIsCurrent ==
    Idle /\ Up("planner") /\ plan # None /\ plannerTick = now =>
        /\ now - plan.tick < ReplanInterval
        /\ \/ plan.run = lastAnnounced.run
           \/ lastAnnounced.tick = now
           \/ now + 1 < ReplanInterval

\* What is deliberately malformed is refused by the ingestion seam and reaches
\* nothing the store holds.
FieldsAreSound == \A i \in Ids : field[i] # Spoilt
=============================================================================
