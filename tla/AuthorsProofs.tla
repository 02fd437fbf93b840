---------------------------- MODULE AuthorsProofs ---------------------------
(***************************************************************************)
(* That everything which writes the coverage store uses it as its own      *)
(* module allows, for every artefact, interval, cost and pre-roll, and     *)
(* with it what the authors promise of the now-cast, the archive and the   *)
(* brief, the instance pointer and the plan, and that the console opens on *)
(* what its artefact holds.                                                *)
(*                                                                         *)
(* The argument is about what each author has still to publish: the source *)
(* a stretch of the artefact, the generator what the store lacks, the      *)
(* runner a spread and its forecast of what was analysed, the analyst one  *)
(* analysis.  What the store then holds of each is dated by the tick it    *)
(* names, or by the artefact, or no later than the clock; and a run asked  *)
(* for and forecast again is forecast again from the one analysis its name *)
(* is bound to, so that its two holdings are never half replaced.          *)
(***************************************************************************)
EXTENDS Authors, SequenceTheorems, FiniteSetTheorems, WellFoundedInduction, TLAPS

\* The store, with what is proved of it.
Proved == INSTANCE CoverageStoreProofs

Among(c, crew) == \E n \in DOMAIN crew : crew[n] = c
Live(s) == s.bytes = s.recorded /\ s.sized
Early == phase \in {"boot", "pinned"}

\* The types of what the authors and the planner keep.
CrewTypes ==
    /\ now \in Ticks
    /\ phase \in {"boot", "pinned", "winding", "restored", "open"}
    /\ artefact \in Artefacts
    /\ order \in Seq(All) /\ hearing \in Seq(All)
    /\ \A m, n \in DOMAIN order : order[m] = order[n] => m = n
    /\ provisioned \in BOOLEAN /\ lastNowcast \in 0..now
    /\ analystTick \in 0..now /\ faultPending \in BOOLEAN /\ runnerTick \in 0..now
    /\ prompts \in 0..MaxPrompts /\ stops \in 0..MaxStops

\* The types of what is under way.
WorkTypes ==
    /\ author \in All \cup {None} /\ (author = None <=> work = <<>>)
    /\ work \in Seq(Holdings) /\ replay \in Seq(Holdings)
    /\ awaiting \in Runs \cup {None}
    /\ \/ occupying = None
       \/ /\ occupying.run \in Ticks /\ occupying.content \in Fields
          /\ occupying.at \in Nat /\ occupying.at >= Cost

\* The types of the planner's, and of the last announcement.
PlanTypes ==
    /\ plannerTick \in 0..now /\ placed \in BOOLEAN
    /\ errorRun \in Ticks \cup {None} /\ lastPlanTick \in -1..plannerTick
    /\ plan \in Plans \cup {None} /\ lastAnnounced \in Plans \cup {None}

Types == CrewTypes /\ WorkTypes /\ PlanTypes

\* How far the boot has come says who is running, and how late it is.
Staged ==
    /\ Early => now = 0 /\ order = BootOrder
    /\ phase \in {"winding", "restored"} =>
          order = IF artefact = <<>> THEN BootOrder ELSE <<"source", "planner">>
    /\ phase \in {"restored", "open"} => now >= PreRollTicks
    /\ \A n \in DOMAIN hearing : Up(hearing[n])

\* Who is stopped remembers nothing.
Forgotten ==
    /\ ~Up("source") => replay = <<>>
    /\ ~Up("generator") => ~provisioned
    /\ ~Up("runner") => occupying = None
    /\ ~Up("planner") => errorRun = None /\ plan = None

\* What is still to be replayed is the end of the artefact, and what the source is
\* publishing comes right before it.
Replaying ==
    LET w == IF author = "source" THEN Len(work) ELSE 0 IN
    \E k \in 0..Len(artefact) :
        /\ k + w + Len(replay) = Len(artefact)
        /\ author = "source" =>
              \A n \in 1..w : work[n] = artefact[k + n] /\ work[n].tick <= now
        /\ \A n \in 1..Len(replay) : replay[n] = artefact[k + w + n]
        /\ author = "source" /\ replay # <<>> => replay[1].tick > now
        /\ replay # <<>> => replay[1].id[1] # "forecast"

\* The generator publishes what the store lacks, dated now, the now-cast last.
Generating ==
    author = "generator" =>
        /\ \A n \in DOMAIN work :
              /\ work[n].id[1] \in Authored /\ work[n] = Evaluated(work[n].id[1])
              /\ work[n].id[1] = "nowcast" => n = Len(work)
              /\ work[n].id[1] # "nowcast" => now = 0 /\ field[work[n].id] = None
        /\ \A m, n \in DOMAIN work : work[m].id = work[n].id => m = n

\* The analyst publishes the analysis that is then announced.
Analysing ==
    /\ awaiting # None => hearing = <<>> /\ author \in {"analyst", None}
    /\ author = "analyst" =>
          /\ Len(work) = 1 /\ work[1].id[1] = "analysis"
          /\ awaiting # None => /\ work[1].id = <<"analysis", awaiting.run>>
                                /\ work[1].recorded = awaiting.content
          /\ work[1].tick <= now /\ Live(work[1])
    /\ author = None /\ awaiting # None =>
          field[<<"analysis", awaiting.run>>] = awaiting.content
    /\ author # "planner"

\* A run was analysed, and this is the analysis held of it.
Analysed(run, content) == field[<<"analysis", run>>] = content
\* No artefact speaks of a run.
Own(run) == artefact = <<>> \/ run >= PreRollTicks

\* The runner releases what was analysed: the spread, then the forecast.
Releasing ==
    /\ occupying # None =>
          /\ Analysed(occupying.run, occupying.content)
          /\ Early \/ Own(occupying.run)
    /\ awaiting # None /\ awaiting.dated => Early \/ Own(awaiting.run)
    /\ author = "runner" => occupying = None
    /\ author = "runner" =>
          \E run \in Ticks, content \in Fields :
              /\ Own(run) /\ ~Early /\ Analysed(run, content)
              /\ \/ work = Release(run, content)
                 \/ /\ work = <<Staging(<<"forecast", run>>, now, content)>>
                    /\ field[<<"spread", run>>] # None
                    /\ pointer["instance"] = <<"spread", run>>

\* Who publishes is publishing as it does.
Working == Replaying /\ Generating /\ Analysing /\ Releasing

\* What is held is dated by the tick it names, or as the artefact says, and of a
\* run of one's own it is what was analysed.
Dates ==
    /\ \A i \in Ids : field[i] # None => date[i] <= now
    /\ \A i \in Ids : i[1] \in Proved!DatedByName /\ book[i] # None =>
          book[i].tick = i[2]
    /\ \A n \in DOMAIN artefact :
          LET h == artefact[n] IN
          h.id[1] \in {"spread", "forecast"} /\ field[h.id] # None =>
              field[h.id] = h.recorded /\ date[h.id] = h.tick
    /\ \A run \in Ticks : \A part \in {"spread", "forecast"} :
          Own(run) /\ field[<<part, run>>] # None =>
              Analysed(run, field[<<part, run>>])

\* One archive and one brief, from the first sample on.
Provisions ==
    \A era \in {"archive", "departure"} :
        /\ \A i \in Held(era) : i[2] = 0
        /\ provisioned \/ ~(phase = "boot") =>
              \/ field[<<era, 0>>] # None
              \/ author = "generator" /\ \E n \in DOMAIN work : work[n].id = <<era, 0>>

ProvisionedAtBoot ==
    phase = "boot" => provisioned \/ Among("generator", hearing)

\* The cadence is counted from no later than the now-cast that stands.
Cadenced ==
    /\ provisioned =>
          \/ /\ pointer["nowcast"] # None
             /\ date[pointer["nowcast"]] >= lastNowcast
          \/ /\ author = "generator" /\ lastNowcast = now
             /\ \E n \in DOMAIN work : work[n].id = <<"nowcast", now>>
    /\ provisioned /\ ~Among("generator", hearing) =>
          now - lastNowcast < NowcastInterval

\* The instance pointer names a forecast, or a spread whose forecast is next.
Instances ==
    LET at == pointer["instance"] IN
    Whole(artefact) =>
        /\ at # None =>
              \/ at[1] = "forecast" /\ field[<<"spread", at[2]>>] # None
              \/ /\ at[1] = "spread" /\ author \in {"source", "runner"}
                 /\ work[1].id = <<"forecast", at[2]>>
                 /\ work[1].tick = date[at]
        /\ author = "source" /\ work[1].id[1] = "forecast" =>
              \/ field[<<"spread", work[1].id[2]>>] # None
              \/ /\ at # None /\ at # work[1].id
                 /\ date[at] > work[1].tick

\* The plan is of the field last announced, unless that came after it.
Planning ==
    /\ errorRun # None =>
          /\ field[<<"analysis", errorRun>>] # None
          /\ lastAnnounced \in Plans
          /\ lastAnnounced.run = errorRun /\ lastAnnounced.tick <= now
    /\ lastPlanTick = -1 \/ plannerTick - lastPlanTick < ReplanInterval
    /\ plan # None =>
          /\ CanPlan /\ plan.tick <= plannerTick
          /\ plannerTick - plan.tick < ReplanInterval
          /\ lastPlanTick = -1 =>
                \/ lastAnnounced.tick >= plannerTick
                \/ plannerTick = 0
                \/ plannerTick + 1 < ReplanInterval
          /\ lastPlanTick # -1 => plan.run = errorRun /\ plan.tick = lastPlanTick

\* What the authors keep of one another and of the store.
Inv ==
    /\ Types /\ Proved!StoreInv
    /\ Staged /\ Forgotten /\ Working /\ Dates
    /\ Provisions /\ ProvisionedAtBoot /\ Cadenced /\ Instances /\ Planning

-----------------------------------------------------------------------------
(* Names, and what the store does with a holding.                          *)

\* A holding is named by what it is and by a tick.
LEMMA IdNames ==
    /\ \A i \in Ids : /\ i[1] \in Authored \cup RunParts /\ i[2] \in Ticks
                      /\ i = <<i[1], i[2]>>
    /\ \A part \in Authored \cup RunParts : \A t \in Ticks :
          /\ <<part, t>> \in Ids
          /\ <<part, t>>[1] = part /\ <<part, t>>[2] = t
  BY DEF Ids

\* The era of each holding, and which holdings are of an era.
LEMMA EraNames ==
    /\ EraOf \in [Ids -> Proved!Eras]
    /\ \A i \in Ids :
          /\ i[1] \in Authored => EraOf[i] = i[1]
          /\ i[1] \in {"spread", "forecast"} <=> EraOf[i] = "instance"
          /\ i[1] = "analysis" <=> EraOf[i] = "analysis"
          /\ EraOf[i] \in Authored => i[1] = EraOf[i]
<1>1. \A i \in Ids : i[1] \in {"archive", "departure", "nowcast", "analysis", "spread",
                               "forecast"}
  BY IdNames DEF Authored, RunParts
<1>2. \A i \in Ids : EraOf[i] = IF i[1] \in Authored THEN i[1]
                                ELSE IF i[1] \in {"spread", "forecast"} THEN "instance"
                                ELSE "analysis"
  BY DEF EraOf
<1>3. \A i \in Ids : EraOf[i] \in Proved!Eras
  BY <1>1, <1>2 DEF Proved!Eras, Authored
<1>4. EraOf \in [Ids -> Proved!Eras]
  BY <1>3 DEF EraOf
<1> QED
  BY <1>1, <1>2, <1>4 DEF Authored

\* The store's constants are as its module assumes.
LEMMA StoreAssumed == Proved!StoreAssumption
<1>1. MaxTick \in Nat
  BY AuthorsAssumption
<1> QED
  BY <1>1, AuthorsAssumption, EraNames DEF Proved!StoreAssumption

\* A holding the store takes, as what it leaves and what it lets go.
Wrote(s) ==
    /\ field'[s.id] = s.recorded /\ date'[s.id] = s.tick
    /\ \A i \in Ids : i # s.id =>
          \/ field'[i] = field[i] /\ date'[i] = date[i]
          \/ /\ EraOf[s.id] = "nowcast" /\ i = pointer["nowcast"]
             /\ field'[i] = None /\ date'[i] = None
    /\ \A e \in Proved!PointedEras :
          pointer'[e] = IF e = EraOf[s.id] THEN s.id ELSE pointer[e]
    /\ \A i \in Ids : i # s.id \/ book[i] # None => book'[i] = book[i]
    /\ book[s.id] = None => book'[s.id] = Proved!FirstWrite(s)

\* Why the store does not take one: it is damaged, another holding has the name, or
\* the era already points at something newer.
Damaged(s) == ~Live(s)
Taken(s) == field[s.id] # None /\ field[s.id] # s.recorded
Late(s) ==
    LET at == pointer[EraOf[s.id]] IN
    /\ EraOf[s.id] \in Proved!PointedEras /\ at # None /\ at # s.id /\ s.tick < date[at]

\* The store as the authors use it is the store whose proofs are at hand.
LEMMA SameStore ==
    /\ Store!Init => Proved!Init
    /\ \A s : /\ Store!Publish(s) => Proved!Publish(s)
              /\ Store!WellDated(s) <=> Proved!WellDated(s)
              /\ Store!OneNowcastPerTick(s) <=> Proved!OneNowcastPerTick(s)
<1>1. Store!Init => Proved!Init
  BY DEF Store!Init, Proved!Init, Store!PointedEras, Proved!PointedEras
<1>2. ASSUME NEW s, Store!Publish(s) PROVE Proved!Publish(s)
  BY <1>2
     DEF Store!Publish, Proved!Publish, Store!Refused, Proved!Refused, Store!Corrupt,
         Proved!Corrupt, Store!Clashes, Proved!Clashes, Store!Held, Proved!Held,
         Store!Rewinds, Proved!Rewinds, Store!Pointed, Proved!Pointed, Store!Era,
         Proved!Era, Store!PointedEras, Proved!PointedEras, Store!DoNotWrite,
         Proved!DoNotWrite, Store!Write, Proved!Write, Store!Put, Proved!Put,
         Store!Replaced, Proved!Replaced, Store!FirstWrite, Proved!FirstWrite,
         Store!DatedByName, Proved!DatedByName
<1>3. ASSUME NEW s
      PROVE  /\ Store!WellDated(s) <=> Proved!WellDated(s)
             /\ Store!OneNowcastPerTick(s) <=> Proved!OneNowcastPerTick(s)
  BY DEF Store!WellDated, Proved!WellDated, Store!OneNowcastPerTick,
         Proved!OneNowcastPerTick, Store!Era, Proved!Era, Store!DatedByName,
         Proved!DatedByName, Store!Held, Proved!Held
<1> QED
  BY <1>1, <1>2, <1>3

\* A publication the producers' rules allow keeps the store's invariant.
LEMMA StoreKept ==
    ASSUME Proved!StoreInv, NEW s \in Holdings, Store!WellDated(s),
           Store!OneNowcastPerTick(s), Store!Publish(s)
    PROVE  Proved!StoreInv'
<1>1. /\ Proved!WellDated(s) /\ Proved!OneNowcastPerTick(s) /\ Proved!Publish(s)
  BY SameStore
<1>2. /\ s.id \in Ids /\ s.tick \in 0..MaxTick /\ s.bytes \in Fields
      /\ s.recorded \in Fields /\ s.sized \in BOOLEAN
      /\ s = [id |-> s.id, tick |-> s.tick, bytes |-> s.bytes,
              recorded |-> s.recorded, sized |-> s.sized]
  BY DEF Holdings, Ticks
<1>3. Proved!PublishAny
  BY <1>1, <1>2, Zenon DEF Proved!PublishAny
<1>4. Proved!StoreInv /\ [Proved!Next]_(Proved!vars) => Proved!StoreInv'
  BY StoreAssumed, Proved!StoreStep
<1> QED
  BY <1>3, <1>4 DEF Proved!Next

\* What a publication does, by why it is taken or not.
LEMMA Publications ==
    ASSUME Proved!StoreInv, NEW s \in Holdings, Store!Publish(s)
    PROVE  \/ /\ verdict' = "written" /\ Wrote(s)
              /\ ~Damaged(s) /\ ~Taken(s) /\ ~Late(s)
           \/ /\ verdict' # "written" /\ UNCHANGED <<field, date, pointer, book>>
              /\ Damaged(s) \/ Taken(s) \/ Late(s)
<1>1. /\ s.id \in Ids /\ s.tick \in Nat /\ s.recorded \in Fields
      /\ field \in [Ids -> Fields \cup {None}] /\ date \in [Ids -> Nat \cup {None}]
      /\ book \in [Ids -> Proved!Entries \cup {None}]
      /\ pointer \in [Proved!PointedEras -> Ids \cup {None}]
      /\ \A e \in Proved!PointedEras : pointer[e] # None => field[pointer[e]] # None
  BY DEF Holdings, Ticks, Proved!StoreInv, Proved!TypeOK, Proved!PointerNamesNewest,
         Proved!Held
<1>2. Proved!Refused(s) <=> Damaged(s) \/ Taken(s)
  BY DEF Proved!Refused, Proved!Corrupt, Proved!Clashes, Proved!Held, Damaged, Taken, Live
<1>3. Proved!Rewinds(s) <=> Late(s)
  BY <1>1
     DEF Proved!Rewinds, Proved!Pointed, Proved!Era, Proved!Held, Late, Proved!PointedEras
<1>4. ASSUME Proved!Write(s) PROVE verdict' = "written" /\ Wrote(s)
  <2>1. /\ verdict' = "written"
        /\ field' = Proved!Put(field, s, s.recorded) /\ date' = Proved!Put(date, s, s.tick)
        /\ pointer' = IF EraOf[s.id] \in Proved!PointedEras
                      THEN [pointer EXCEPT ![EraOf[s.id]] = s.id] ELSE pointer
        /\ book' = IF book[s.id] = None
                   THEN [book EXCEPT ![s.id] = Proved!FirstWrite(s)]
                   ELSE book
    BY <1>4 DEF Proved!Write, Proved!Era
  <2>2. /\ field'[s.id] = s.recorded /\ date'[s.id] = s.tick
        /\ \A i \in Ids : i # s.id =>
              \/ field'[i] = field[i] /\ date'[i] = date[i]
              \/ /\ EraOf[s.id] = "nowcast" /\ i = pointer["nowcast"]
                 /\ field'[i] = None /\ date'[i] = None
    BY <1>1, <2>1 DEF Proved!Put, Proved!Replaced, Proved!Era
  <2>3. \A e \in Proved!PointedEras :
           pointer'[e] = IF e = EraOf[s.id] THEN s.id ELSE pointer[e]
    BY <1>1, <2>1
  <2>4. /\ \A i \in Ids : i # s.id \/ book[i] # None => book'[i] = book[i]
        /\ book[s.id] = None => book'[s.id] = Proved!FirstWrite(s)
    BY <1>1, <2>1
  <2> QED
    BY <2>1, <2>2, <2>3, <2>4 DEF Wrote
<1>5. ASSUME NEW outcome, outcome # "written", Proved!DoNotWrite(outcome)
      PROVE  verdict' # "written" /\ UNCHANGED <<field, date, pointer, book>>
  BY <1>5 DEF Proved!DoNotWrite
<1>6. Proved!Publish(s)
  BY SameStore
<1> QED
  BY <1>2, <1>3, <1>4, <1>5, <1>6 DEF Proved!Publish

-----------------------------------------------------------------------------
(* Between drains: the reader's verbs, the clock's samples and the boot.   *)

\* What the artefact is known to be.
LEMMA ArtefactFacts ==
    ASSUME artefact \in Artefacts
    PROVE  /\ artefact \in Seq(Holdings) /\ Len(artefact) \in Nat
           /\ DOMAIN artefact = 1..Len(artefact)
           /\ \A n \in 1..Len(artefact) :
                 /\ artefact[n] \in Holdings
                 /\ artefact[n].id \in Ids /\ artefact[n].tick \in Ticks
                 /\ artefact[n].tick \in Nat /\ artefact[n].tick <= PreRollTicks
                 /\ NamesItsDate(artefact[n])
                 /\ artefact[n].id[1] \in {"spread", "forecast"} =>
                       artefact[n].id[2] < artefact[n].tick
                 /\ artefact[n].id[1] = "spread" =>
                       /\ n + 1 \in 1..Len(artefact)
                       /\ artefact[n + 1].id = <<"forecast", artefact[n].id[2]>>
                       /\ artefact[n + 1].tick = artefact[n].tick
                 /\ artefact[n].id[1] = "forecast" =>
                       /\ n - 1 \in 1..Len(artefact)
                       /\ artefact[n - 1].id = <<"spread", artefact[n].id[2]>>
           /\ \A m, n \in 1..Len(artefact) : m < n =>
                 /\ artefact[m].tick <= artefact[n].tick
                 /\ artefact[m].id # artefact[n].id
<1>1. /\ artefact \in Seq(Holdings) /\ ReleasesWhole(artefact)
      /\ \A n \in DOMAIN artefact :
            artefact[n].tick <= PreRollTicks /\ NamesItsDate(artefact[n])
      /\ \A m, n \in DOMAIN artefact : m < n =>
            /\ artefact[m].tick <= artefact[n].tick
            /\ artefact[m].id # artefact[n].id
  BY AuthorsAssumption
<1>2. Len(artefact) \in Nat /\ DOMAIN artefact = 1..Len(artefact)
  BY <1>1
<1>3. ASSUME NEW n \in 1..Len(artefact)
      PROVE  /\ artefact[n] \in Holdings /\ artefact[n].id \in Ids
             /\ artefact[n].tick \in Ticks /\ artefact[n].tick \in Nat
  <2>1. artefact[n] \in Holdings
    BY <1>1, <1>2
  <2> QED
    BY <2>1 DEF Holdings, Ticks
<1>4. ASSUME NEW n \in 1..Len(artefact)
      PROVE  /\ artefact[n].id[1] \in {"spread", "forecast"} =>
                    artefact[n].id[2] < artefact[n].tick
             /\ artefact[n].id[1] = "spread" =>
                    /\ n + 1 \in 1..Len(artefact)
                    /\ artefact[n + 1].id = <<"forecast", artefact[n].id[2]>>
                    /\ artefact[n + 1].tick = artefact[n].tick
             /\ artefact[n].id[1] = "forecast" =>
                    n > 1 /\ artefact[n - 1].id = <<"spread", artefact[n].id[2]>>
  BY <1>1, <1>2 DEF ReleasesWhole
<1> QED
  BY <1>1, <1>2, <1>3, <1>4

\* The store's invariant is about the store alone.
LEMMA StoreStays == Proved!StoreInv /\ UNCHANGED storeVars => Proved!StoreInv'
<1>1. Proved!StoreInv /\ [Proved!Next]_(Proved!vars) => Proved!StoreInv'
  BY StoreAssumed, Proved!StoreStep
<1> QED
  BY <1>1 DEF storeVars, Proved!vars

\* A step between drains that leaves the store and what is under way alone.
Quiet ==
    /\ Idle /\ UNCHANGED <<storeVars, artefact, author, work, awaiting>>
    /\ now <= now' /\ now' \in Ticks
    /\ replay' \in {replay, <<>>, artefact}
    /\ \/ occupying' = None
       \/ /\ occupying' = occupying
          /\ Early' => Early
          /\ Early /\ ~Early' => artefact = <<>>

\* What holds between drains of what is under way goes on holding.
LEMMA QuietSteps ==
    ASSUME Inv, Quiet
    PROVE  Proved!StoreInv' /\ WorkTypes' /\ Working' /\ Dates' /\ Instances'
<1>1. /\ author = None /\ awaiting = None /\ hearing = <<>> /\ work = <<>>
      /\ author' = None /\ awaiting' = None /\ work' = <<>> /\ artefact' = artefact
      /\ UNCHANGED <<field, date, pointer, book>>
      /\ None \notin All
  BY AuthorsAssumption
     DEF Quiet, Idle, Inv, Types, WorkTypes, storeVars
<1>2. Proved!StoreInv'
  BY StoreStays DEF Inv, Quiet
<1>3. artefact \in Artefacts /\ now \in Ticks
  BY DEF Inv, Types, CrewTypes
<1>4. author # "source" /\ author # "generator" /\ author # "runner" /\ author # "analyst"
  BY <1>1 DEF All, Crew
<1>5. replay \in Seq(Holdings) /\ Len(replay) \in Nat
  BY DEF Inv, Types, WorkTypes
<1>6. WorkTypes'
  <2>1. artefact \in Seq(Holdings)
    BY <1>3, ArtefactFacts
  <2>2. <<>> \in Seq(Holdings) /\ replay' \in {replay, <<>>, artefact}
    BY DEF Quiet
  <2>3. replay' \in Seq(Holdings)
    BY <1>5, <2>1, <2>2
  <2>4. occupying' = occupying \/ occupying' = None
    BY DEF Quiet
  <2> QED
    BY <1>1, <2>3, <2>4 DEF Inv, Types, WorkTypes
<1>7. Replaying'
  <2>1. PICK k \in 0..Len(artefact) :
           /\ k + Len(replay) = Len(artefact)
           /\ \A n \in 1..Len(replay) : replay[n] = artefact[k + n]
           /\ replay # <<>> => replay[1].id[1] # "forecast"
    BY <1>1, <1>3, <1>4, <1>5, ArtefactFacts DEF Inv, Working, Replaying
  <2>2. \E j \in 0..Len(artefact) :
           /\ j + Len(replay') = Len(artefact)
           /\ \A n \in 1..Len(replay') : replay'[n] = artefact[j + n]
           /\ replay' # <<>> => replay'[1].id[1] # "forecast"
    <3>1. CASE replay' = replay
      BY <2>1, <3>1
    <3>2. CASE replay' = <<>>
      <4>1. Len(replay') = 0 /\ Len(artefact) \in 0..Len(artefact)
        BY <1>3, <3>2, ArtefactFacts
      <4>2. Len(artefact) + Len(replay') = Len(artefact)
        BY <1>3, <4>1, ArtefactFacts
      <4>3. \A n \in 1..Len(replay') : FALSE
        BY <4>1
      <4>4. \A n \in 1..Len(replay') : replay'[n] = artefact[Len(artefact) + n]
        BY <4>3, Zenon
      <4> QED
        BY <3>2, <4>1, <4>2, <4>4, Zenon
    <3>3. CASE replay' = artefact
      <4>1. artefact # <<>> => artefact[1].id[1] # "forecast"
        <5>1. ASSUME artefact # <<>> PROVE 1 \in 1..Len(artefact)
          BY <1>3, <5>1, ArtefactFacts
        <5>2. ASSUME 1 \in 1..Len(artefact), artefact[1].id[1] = "forecast" PROVE FALSE
          <6>1. 1 - 1 \in 1..Len(artefact)
            BY <1>3, <5>2, ArtefactFacts
          <6> QED
            BY <6>1
        <5> QED
          BY <5>1, <5>2
      <4>2. 0 \in 0..Len(artefact) /\ 0 + Len(artefact) = Len(artefact)
        BY <1>3, ArtefactFacts
      <4>3. \A n \in 1..Len(artefact) : artefact[n] = artefact[0 + n]
        OBVIOUS
      <4> QED
        BY <3>3, <4>1, <4>2, <4>3
    <3> QED
      BY <3>1, <3>2, <3>3 DEF Quiet
  <2>3. Len(replay') \in Nat
    BY <1>6 DEF WorkTypes
  <2>4. Len(artefact) \in Nat
    BY <1>3, ArtefactFacts
  <2>5. \A j \in 0..Len(artefact) : j + 0 = j
    BY <2>4
  <2> QED
    BY <1>1, <1>4, <2>2, <2>5 DEF Replaying
<1>8. Generating' /\ Analysing'
  <2>1. author' # "planner" /\ author' # "generator" /\ author' # "analyst"
    BY <1>1 DEF All, Crew
  <2> QED
    BY <1>1, <2>1 DEF Generating, Analysing
<1>9. Releasing'
  <2>1. author' # "runner"
    BY <1>1, <1>4
  <2> QED
    BY <1>1, <2>1 DEF Quiet, Inv, Working, Releasing, Analysed, Own
<1>10. Dates'
  <2>1. \A i \in Ids : field[i] # None => date[i] <= now'
    <3>1. \A i \in Ids : field[i] # None => date[i] \in Nat
      BY DEF Inv, Proved!StoreInv, Proved!TypeOK
    <3>2. \A i \in Ids : field[i] # None => date[i] <= now
      BY DEF Inv, Dates
    <3> QED
      BY <1>3, <3>1, <3>2 DEF Quiet, Ticks
  <2> QED
    BY <1>1, <2>1 DEF Inv, Dates, Analysed, Own
<1>11. Instances'
  BY <1>1 DEF Inv, Instances, Whole
<1> QED
  BY <1>2, <1>6, <1>7, <1>8, <1>9, <1>10, <1>11 DEF Working

\* A sample is handed to everyone who is running.
LEMMA Samples ==
    ASSUME Inv, Sample, now' \in Ticks, now' \in {now, now + 1},
           \/ UNCHANGED phase /\ ~Early
           \/ phase = "boot" /\ phase' = "pinned" /\ now' = now
           \/ phase = "winding" /\ phase' = "restored" /\ now' = now
                 /\ now = PreRollTicks
    PROVE  Inv'
<1>1. /\ author = None /\ awaiting = None /\ hearing = <<>> /\ work = <<>>
      /\ hearing' = order
      /\ UNCHANGED <<field, date, pointer, book, artefact, order, author, work, awaiting,
                     replay, provisioned, lastNowcast, analystTick, faultPending,
                     runnerTick, occupying, plannerTick, placed, errorRun, lastPlanTick,
                     plan, prompts, stops, lastAnnounced>>
  BY DEF Sample, Idle, Inv, Types, WorkTypes, storeVars, generatorVars, analystVars,
         runnerVars, plannerVars, bounds
<1>2. now \in Nat /\ now' \in Nat /\ now <= now' /\ PreRollTicks \in Nat
  <2>1. Ticks \subseteq Nat /\ now \in Ticks /\ PreRollTicks \in Ticks
    BY AuthorsAssumption DEF Inv, Types, CrewTypes, Ticks
  <2> QED
    BY <2>1
<1>3. Proved!StoreInv' /\ WorkTypes' /\ Working' /\ Dates' /\ Instances'
  <2>1. Early' => Early
    BY DEF Early
  <2>2. Early /\ ~Early' => artefact = <<>>
    BY DEF Early
  <2>3. Quiet
    BY <1>1, <1>2, <2>1, <2>2 DEF Quiet, Sample
  <2> QED
    BY <2>3, QuietSteps
<1>4. CrewTypes'
  <2>1. phase' \in {"boot", "pinned", "winding", "restored", "open"}
    BY DEF Inv, Types, CrewTypes
  <2>2. lastNowcast \in 0..now' /\ analystTick \in 0..now' /\ runnerTick \in 0..now'
    BY <1>2 DEF Inv, Types, CrewTypes
  <2> QED
    BY <1>1, <2>1, <2>2 DEF Inv, Types, CrewTypes
<1>5. PlanTypes'
  <2>1. plannerTick \in 0..now'
    BY <1>2 DEF Inv, Types, PlanTypes
  <2> QED
    BY <1>1, <2>1 DEF Inv, Types, PlanTypes
<1>6. Staged'
  <2>1. Early' => now' = 0 /\ order = BootOrder
    BY DEF Early, Inv, Staged
  <2>2. phase' \in {"winding", "restored"} =>
           order = IF artefact = <<>> THEN BootOrder ELSE <<"source", "planner">>
    BY DEF Inv, Staged
  <2>3. phase' \in {"restored", "open"} => now' >= PreRollTicks
    BY <1>2 DEF Inv, Staged
  <2>4. \A n \in DOMAIN order : Up(order[n])
    BY DEF Up
  <2> QED
    BY <1>1, <2>1, <2>2, <2>3, <2>4 DEF Staged, Early, Up
<1>7. Forgotten'
  BY <1>1 DEF Inv, Forgotten, Up
<1>8. ProvisionedAtBoot'
  <2>1. phase' # "boot"
    BY DEF Early
  <2> QED
    BY <2>1 DEF ProvisionedAtBoot
<1>9. Provisions'
  <2>1. ~Among("generator", hearing)
    BY <1>1 DEF Among
  <2>2. provisioned \/ phase # "boot"
    BY <2>1 DEF Inv, ProvisionedAtBoot
  <2>3. \A era \in {"archive", "departure"} : field[<<era, 0>>] # None
    <3>1. author # "generator"
      BY <1>1, AuthorsAssumption DEF All, Crew
    <3> QED
      BY <2>2, <3>1 DEF Inv, Provisions
  <2> QED
    BY <1>1, <2>3 DEF Inv, Provisions, Held
<1>10. Cadenced'
  <2>1. author # "generator"
    BY <1>1, AuthorsAssumption DEF All, Crew
  <2>2. provisioned => pointer["nowcast"] # None /\ date[pointer["nowcast"]] >= lastNowcast
    BY <2>1 DEF Inv, Cadenced
  <2>3. provisioned => Among("generator", order)
    BY DEF Inv, Forgotten, Up, Among
  <2> QED
    BY <1>1, <2>2, <2>3 DEF Cadenced
<1>11. Planning'
  <2>1. errorRun # None => lastAnnounced.tick <= now'
    <3>1. lastAnnounced \in Plans => lastAnnounced.tick \in Nat
      BY AuthorsAssumption DEF Plans, Ticks
    <3>2. errorRun # None => lastAnnounced \in Plans /\ lastAnnounced.tick <= now
      BY DEF Inv, Planning
    <3> QED
      BY <1>2, <3>1, <3>2
  <2> QED
    BY <1>1, <2>1 DEF Inv, Planning, CanPlan
<1> QED
  BY <1>3, <1>4, <1>5, <1>6, <1>7, <1>8, <1>9, <1>10, <1>11 DEF Inv, Types

\* The four ways a sample is given.
LEMMA SampleSteps ==
    ASSUME Inv, Tick \/ Repeat \/ PinClock \/ RestoreRate
    PROVE  Inv'
<1>1. now \in Nat /\ now \in Ticks /\ PreRollTicks \in 0..MaxTick /\ MaxTick \in Nat
  BY AuthorsAssumption DEF Inv, Types, CrewTypes, Ticks
<1>2. CASE Tick
  <2>1. now' = now + 1 /\ now' \in Ticks
    BY <1>1, <1>2 DEF Tick, Ticks
  <2>2. UNCHANGED phase /\ ~Early /\ Sample
    BY <1>2 DEF Tick, Early
  <2> QED
    BY <2>1, <2>2, Samples
<1>3. CASE Repeat
  BY <1>1, <1>3, Samples DEF Repeat, Early
<1>4. CASE PinClock
  BY <1>1, <1>4, Samples DEF PinClock
<1>5. CASE RestoreRate
  BY <1>1, <1>5, Samples DEF RestoreRate
<1> QED
  BY <1>2, <1>3, <1>4, <1>5

\* The order without one of the crew is the order of the others.
LEMMA Withouts ==
    ASSUME CrewTypes, NEW c \in All, Up(c)
    PROVE  /\ Without(c) \in Seq(All)
           /\ \A m, n \in DOMAIN Without(c) : Without(c)[m] = Without(c)[n] => m = n
           /\ \A d : d # c /\ Up(d) => \E n \in DOMAIN Without(c) : Without(c)[n] = d
<1> DEFINE at == CHOOSE n \in DOMAIN order : order[n] = c
           before == SubSeq(order, 1, at - 1)
           after == SubSeq(order, at + 1, Len(order))
<1>1. /\ order \in Seq(All) /\ Len(order) \in Nat /\ DOMAIN order = 1..Len(order)
      /\ \A m, n \in DOMAIN order : order[m] = order[n] => m = n
  BY DEF CrewTypes
<1>2. at \in 1..Len(order) /\ order[at] = c
  BY <1>1 DEF Up
<1> HIDE DEF at, before, after
<1>3. /\ before \in Seq(All) /\ Len(before) = at - 1
      /\ \A n \in 1..(at - 1) : before[n] = order[n]
  BY <1>1, <1>2 DEF before
<1>4. /\ after \in Seq(All) /\ Len(after) = Len(order) - at
      /\ \A n \in 1..(Len(order) - at) : after[n] = order[at + n]
  <2>1. /\ at + 1 \in Int /\ Len(order) \in Int
        /\ \A n \in (at + 1)..Len(order) : order[n] \in All
    BY <1>1, <1>2
  <2>2. /\ after \in Seq(All)
        /\ Len(after) = IF at + 1 <= Len(order) THEN Len(order) - (at + 1) + 1 ELSE 0
        /\ \A n \in 1..(Len(order) - (at + 1) + 1) : after[n] = order[(at + 1) + (n - 1)]
    BY <2>1, SubSeqProperties DEF after
  <2>3. Len(after) = Len(order) - at
    <3>1. Len(after) = IF at + 1 <= Len(order) THEN (Len(order) - (at + 1)) + 1 ELSE 0
      BY <2>2
    <3>2. Len(order) \in Nat /\ at \in Nat /\ at <= Len(order)
      BY <1>1, <1>2
    <3> QED
      BY <3>1, <3>2
  <2>4. /\ 1..((Len(order) - (at + 1)) + 1) = 1..(Len(order) - at)
        /\ \A n \in 1..(Len(order) - at) : (at + 1) + (n - 1) = at + n
    BY <1>1, <1>2
  <2>5. \A n \in 1..(Len(order) - at) : after[n] = order[(at + 1) + (n - 1)]
    BY <2>2, <2>4
  <2> QED
    BY <2>2, <2>3, <2>4, <2>5
<1>5. Without(c) = before \o after
  BY DEF Without, at, before, after
<1>6. /\ Without(c) \in Seq(All) /\ Len(Without(c)) = Len(order) - 1
      /\ DOMAIN Without(c) = 1..(Len(order) - 1)
  <2>1. /\ before \o after \in Seq(All)
        /\ Len(before \o after) = Len(before) + Len(after)
    BY <1>3, <1>4, ConcatProperties
  <2>2. Len(before) + Len(after) = Len(order) - 1
    BY <1>1, <1>2, <1>3, <1>4
  <2> QED
    BY <1>5, <2>1, <2>2
<1>7. \A n \in 1..(Len(order) - 1) :
         Without(c)[n] = IF n < at THEN order[n] ELSE order[n + 1]
  <2> SUFFICES ASSUME NEW n \in 1..(Len(order) - 1)
               PROVE  Without(c)[n] = IF n < at THEN order[n] ELSE order[n + 1]
    OBVIOUS
  <2>1. Without(c)[n] = IF n <= Len(before) THEN before[n] ELSE after[n - Len(before)]
    BY <1>1, <1>2, <1>3, <1>4, <1>5
  <2>2. CASE n < at
    BY <1>1, <1>2, <1>3, <2>1, <2>2
  <2>3. CASE ~(n < at)
    <3>1. n - Len(before) \in 1..(Len(order) - at) /\ at + (n - Len(before)) = n + 1
      BY <1>1, <1>2, <1>3, <2>3
    <3>2. after[n - Len(before)] = order[n + 1]
      BY <1>4, <3>1
    <3> QED
      BY <1>1, <1>2, <1>3, <2>1, <2>3, <3>2
  <2> QED
    BY <2>2, <2>3
<1>8. ASSUME NEW m \in 1..(Len(order) - 1), NEW n \in 1..(Len(order) - 1),
             Without(c)[m] = Without(c)[n]
      PROVE  m = n
  <2> DEFINE place(k) == IF k < at THEN k ELSE k + 1
  <2>1. place(m) \in 1..Len(order) /\ place(n) \in 1..Len(order)
    BY <1>1, <1>2
  <2>2. order[place(m)] = order[place(n)]
    BY <1>7, <1>8
  <2>3. place(m) = place(n)
    BY <1>1, <2>1, <2>2
  <2> QED
    BY <1>1, <1>2, <2>3
<1>9. ASSUME NEW d, d # c, Up(d)
      PROVE  \E n \in 1..(Len(order) - 1) : Without(c)[n] = d
  <2>1. PICK k \in 1..Len(order) : order[k] = d
    BY <1>1, <1>9 DEF Up
  <2>2. k # at
    BY <1>2, <1>9, <2>1
  <2>3. CASE k < at
    <3>1. k \in 1..(Len(order) - 1)
      BY <1>1, <1>2, <2>3
    <3> QED
      BY <1>7, <2>1, <2>3, <3>1
  <2>4. CASE k > at
    <3>1. k - 1 \in 1..(Len(order) - 1) /\ ~(k - 1 < at) /\ (k - 1) + 1 = k
      BY <1>1, <1>2, <2>4
    <3>2. Without(c)[k - 1] = order[k]
      BY <1>7, <3>1
    <3> QED
      BY <2>1, <3>1, <3>2
  <2> QED
    BY <1>1, <1>2, <2>2, <2>3, <2>4
<1> QED
  BY <1>6, <1>8, <1>9

\* Who is dropped is forgotten, the rest and what is under way are left as they are.
LEMMA Drops ==
    ASSUME Inv, Idle, NEW S \in SUBSET All, Forget(S),
           UNCHANGED <<storeVars, now, artefact, hearing, author, work, awaiting,
                       prompts, lastAnnounced>>,
           phase' \in {"boot", "pinned", "winding", "restored", "open"}, phase' # "boot",
           phase # "boot",
           Early' => Early, Early /\ ~Early' => artefact = <<>> \/ "runner" \in S,
           order' \in Seq(All), stops' \in 0..MaxStops,
           \A m, n \in DOMAIN order' : order'[m] = order'[n] => m = n,
           \A d \in All \ S : Up(d) => Up(d)', Staged'
    PROVE  Inv'
<1>1. /\ author = None /\ awaiting = None /\ hearing = <<>> /\ work = <<>>
      /\ hearing' = <<>> /\ work' = <<>> /\ author' = None
      /\ UNCHANGED <<field, date, pointer, book, now, artefact, author, awaiting, prompts,
                     lastAnnounced>>
      /\ author # "generator"
  BY AuthorsAssumption DEF Idle, Inv, Types, WorkTypes, storeVars, All, Crew
<1>2. now \in Nat /\ now \in Ticks
  BY AuthorsAssumption DEF Inv, Types, CrewTypes, Ticks
<1>3. Proved!StoreInv' /\ WorkTypes' /\ Working' /\ Dates' /\ Instances'
  <2>1. replay' \in {replay, <<>>, artefact}
    BY DEF Forget
  <2>2. now <= now' /\ now' \in Ticks
    BY <1>1, <1>2
  <2>3. \/ occupying' = None
        \/ /\ occupying' = occupying
           /\ Early' => Early
           /\ Early /\ ~Early' => artefact = <<>>
    BY DEF Forget
  <2>4. Quiet
    BY <2>1, <2>2, <2>3 DEF Quiet
  <2> QED
    BY <2>4, QuietSteps
<1>4. CrewTypes'
  <2>1. /\ provisioned' \in BOOLEAN /\ faultPending' \in BOOLEAN
        /\ lastNowcast' \in {0, lastNowcast} /\ analystTick' \in {0, analystTick}
        /\ runnerTick' \in {0, runnerTick}
    BY DEF Forget
  <2>2. lastNowcast \in 0..now /\ analystTick \in 0..now /\ runnerTick \in 0..now
    BY DEF Inv, Types, CrewTypes
  <2>3. lastNowcast' \in 0..now' /\ analystTick' \in 0..now' /\ runnerTick' \in 0..now'
    BY <1>1, <1>2, <2>1, <2>2
  <2>4. hearing' \in Seq(All)
    BY <1>1
  <2> QED
    BY <1>1, <2>1, <2>3, <2>4 DEF Inv, Types, CrewTypes
<1>5. \/ UNCHANGED plannerVars
      \/ /\ plannerTick' = 0 /\ placed' = FALSE /\ errorRun' = None /\ lastPlanTick' = -1
         /\ plan' = None
  BY DEF Forget
<1>6. PlanTypes'
  <2>1. CASE UNCHANGED plannerVars
    BY <1>1, <2>1 DEF Inv, Types, PlanTypes, plannerVars
  <2>2. CASE /\ plannerTick' = 0 /\ placed' = FALSE /\ errorRun' = None
             /\ lastPlanTick' = -1 /\ plan' = None
    <3>1. plannerTick' \in 0..now' /\ lastPlanTick' \in -1..plannerTick'
      BY <1>1, <1>2, <2>2
    <3> QED
      BY <1>1, <2>2, <3>1 DEF Inv, Types, PlanTypes
  <2> QED
    BY <1>5, <2>1, <2>2
<1>7. Planning'
  <2>1. CASE UNCHANGED plannerVars
    BY <1>1, <2>1 DEF Inv, Planning, CanPlan, plannerVars
  <2>2. CASE /\ plannerTick' = 0 /\ placed' = FALSE /\ errorRun' = None
             /\ lastPlanTick' = -1 /\ plan' = None
    BY <1>1, <2>2 DEF Inv, Planning, CanPlan
  <2> QED
    BY <1>5, <2>1, <2>2
<1>8. Forgotten'
  <2>1. \A d \in All : ~Up(d)' => d \in S \/ ~Up(d)
    OBVIOUS
  <2>2. {"source", "generator", "runner", "planner"} \subseteq All
    BY DEF All, Crew
  <2>3. ~Up("source")' => replay' = <<>>
    BY <2>1, <2>2 DEF Forget, Inv, Forgotten
  <2>4. ~Up("generator")' => ~provisioned'
    BY <2>1, <2>2 DEF Forget, Inv, Forgotten
  <2>5. ~Up("runner")' => occupying' = None
    BY <2>1, <2>2 DEF Forget, Inv, Forgotten
  <2>6. ~Up("planner")' => errorRun' = None /\ plan' = None
    BY <2>1, <2>2 DEF Forget, Inv, Forgotten, plannerVars
  <2> QED
    BY <2>3, <2>4, <2>5, <2>6 DEF Forgotten
<1>9. ProvisionedAtBoot'
  BY DEF ProvisionedAtBoot
<1>10. Provisions'
  <2>1. \A era \in {"archive", "departure"} : field[<<era, 0>>] # None
    BY <1>1 DEF Inv, Provisions
  <2> QED
    BY <1>1, <2>1 DEF Inv, Provisions, Held
<1>11. Cadenced'
  <2>1. provisioned' => provisioned /\ lastNowcast' = lastNowcast
    BY DEF Forget
  <2>2. provisioned => pointer["nowcast"] # None /\ date[pointer["nowcast"]] >= lastNowcast
    BY <1>1 DEF Inv, Cadenced
  <2>3. provisioned => now - lastNowcast < NowcastInterval
    <3>1. ~Among("generator", hearing)
      BY <1>1 DEF Among
    <3> QED
      BY <3>1 DEF Inv, Cadenced
  <2> QED
    BY <1>1, <2>1, <2>2, <2>3 DEF Cadenced
<1> QED
  BY <1>3, <1>4, <1>6, <1>7, <1>8, <1>9, <1>10, <1>11 DEF Inv, Types

\* Stopping for the pre-roll, and the stop verb.
LEMMA StopSteps ==
    ASSUME Inv, HoldBack \/ \E c \in All : Stop(c)
    PROVE  Inv'
<1>1. /\ CrewTypes /\ order \in Seq(All)
      /\ \A m, n \in DOMAIN order : order[m] = order[n] => m = n
      /\ Crew \subseteq All /\ {} \in SUBSET All /\ stops \in 0..MaxStops
      /\ MaxStops \in Nat
  BY AuthorsAssumption DEF Inv, Types, CrewTypes, All
<1>2. CASE HoldBack
  <2> DEFINE S == IF artefact = <<>> THEN {} ELSE Crew
  <2>1. /\ phase = "pinned" /\ phase' = "winding" /\ Idle /\ Forget(S)
        /\ order' = IF artefact = <<>> THEN order ELSE <<"source", "planner">>
        /\ UNCHANGED <<storeVars, now, artefact, hearing, author, work, awaiting, prompts,
                       lastAnnounced>>
        /\ stops' = stops
    BY <1>2 DEF HoldBack, bounds
  <2>2. order = BootOrder /\ hearing = <<>>
    BY <2>1 DEF Inv, Staged, Early, Idle
  <2>3. Early /\ ~Early' => artefact = <<>> \/ "runner" \in S
    BY DEF Crew
  <2>4. Early' => Early
    BY <2>1 DEF Early
  <2>5. CASE artefact = <<>>
    <3>1. order' = order /\ order' = BootOrder
      BY <2>1, <2>2, <2>5
    <3>2. Staged'
      <4>1. hearing' = <<>>
        BY <2>1, <2>2
      <4> QED
        BY <2>1, <2>5, <3>1, <4>1 DEF Staged, Early
    <3>3. \A d \in All \ S : Up(d) => Up(d)'
      BY <3>1 DEF Up
    <3> HIDE DEF S
    <3> QED
      BY <1>1, <2>1, <2>3, <2>4, <2>5, <3>1, <3>2, <3>3, Drops DEF S
  <2>6. CASE artefact # <<>>
    <3>1. order' = <<"source", "planner">>
      BY <2>1, <2>6
    <3>2. /\ order' \in Seq(All) /\ DOMAIN order' = 1..2
          /\ order'[1] = "source" /\ order'[2] = "planner"
      BY <3>1 DEF All
    <3>3. \A m, n \in DOMAIN order' : order'[m] = order'[n] => m = n
      <4>1. \A n \in 1..2 : n = 1 \/ n = 2
        OBVIOUS
      <4> QED
        BY <3>2, <4>1
    <3>4. \A d \in All \ S : Up(d) => Up(d)'
      <4>1. \A d \in All \ Crew : d = "source" \/ d = "planner"
        BY DEF All
      <4>2. S = Crew
        BY <2>6
      <4> QED
        BY <3>2, <4>1, <4>2 DEF Up
    <3>5. Staged'
      <4>1. hearing' = <<>>
        BY <2>1, <2>2
      <4> QED
        BY <2>1, <2>6, <3>1, <4>1 DEF Staged, Early
    <3>6. S \in SUBSET All
      BY <1>1
    <3>7. stops' \in 0..MaxStops
      BY <1>1, <2>1
    <3> HIDE DEF S
    <3> QED
      BY <2>1, <2>3, <2>4, <3>2, <3>3, <3>4, <3>5, <3>6, <3>7, Drops
  <2> QED
    BY <2>5, <2>6
<1>3. ASSUME NEW c \in All, Stop(c) PROVE Inv'
  <2>1. /\ phase = "open" /\ phase' = "open" /\ Idle /\ Forget({c}) /\ Up(c)
        /\ order' = Without(c) /\ stops' = stops + 1 /\ stops < MaxStops
        /\ UNCHANGED <<storeVars, now, phase, artefact, hearing, author, work, awaiting,
                       prompts, lastAnnounced>>
    BY <1>3 DEF Stop
  <2>2. /\ order' \in Seq(All)
        /\ \A m, n \in DOMAIN order' : order'[m] = order'[n] => m = n
        /\ \A d : d # c /\ Up(d) => \E n \in DOMAIN order' : order'[n] = d
    BY <1>1, <2>1, Withouts
  <2>3. \A d \in All \ {c} : Up(d) => Up(d)'
    BY <2>2 DEF Up
  <2>4. Staged'
    <3>1. hearing' = <<>>
      BY <2>1 DEF Idle
    <3>2. now' >= PreRollTicks
      BY <2>1 DEF Inv, Staged
    <3> QED
      BY <2>1, <3>1, <3>2 DEF Staged, Early
  <2>5. stops' \in 0..MaxStops
    BY <1>1, <2>1
  <2>6. ~Early /\ ~Early'
    BY <2>1 DEF Early
  <2> QED
    BY <2>1, <2>2, <2>3, <2>4, <2>5, <2>6, Drops
<1> QED
  BY <1>2, <1>3

\* The crew put back, and the start verb: who is started remembers nothing.
LEMMA StartSteps ==
    ASSUME Inv, StartCrew \/ \E c \in All : Start(c)
    PROVE  Inv'
<1>1. /\ CrewTypes /\ order \in Seq(All)
      /\ \A m, n \in DOMAIN order : order[m] = order[n] => m = n
      /\ now \in Nat
  BY AuthorsAssumption DEF Inv, Types, CrewTypes, All, Ticks
<1>2. ASSUME Idle, UNCHANGED <<storeVars, now, artefact, hearing, author, work, awaiting,
                               generatorVars, analystVars, runnerVars, plannerVars, bounds,
                               lastAnnounced>>,
             replay' \in {replay, artefact}, replay' # <<>> => Up("source")',
             phase' = "open", phase \in {"restored", "open"},
             order' \in Seq(All),
             \A m, n \in DOMAIN order' : order'[m] = order'[n] => m = n,
             \A d \in All : Up(d) => Up(d)'
      PROVE  Inv'
  <2>1. /\ author = None /\ awaiting = None /\ hearing = <<>> /\ work = <<>>
        /\ hearing' = <<>> /\ now' = now
        /\ UNCHANGED <<field, date, pointer, book, now, artefact, author, work,
                       provisioned, lastNowcast, analystTick, faultPending,
                       runnerTick, occupying, plannerTick, placed, errorRun, lastPlanTick,
                       plan, prompts, stops, lastAnnounced>>
        /\ author # "generator"
    BY <1>2, AuthorsAssumption
       DEF Idle, Inv, Types, WorkTypes, storeVars, generatorVars, analystVars, runnerVars,
           plannerVars, bounds, All, Crew
  <2>2. ~Early /\ ~Early'
    BY <1>2 DEF Early
  <2>3. Proved!StoreInv' /\ WorkTypes' /\ Working' /\ Dates' /\ Instances'
    <3>1. Quiet
      <4>1. now <= now' /\ now' \in Ticks
        BY <1>1, <2>1 DEF CrewTypes
      <4> QED
        BY <1>2, <2>1, <2>2, <4>1 DEF Quiet
    <3> QED
      BY <3>1, QuietSteps
  <2>4. CrewTypes'
    BY <1>1, <1>2, <2>1 DEF CrewTypes
  <2>5. PlanTypes'
    BY <2>1 DEF Inv, Types, PlanTypes
  <2>6. Staged'
    <3>1. now' >= PreRollTicks
      BY <1>2, <2>1 DEF Inv, Staged
    <3> QED
      BY <1>2, <2>1, <3>1 DEF Staged, Early
  <2>7. Forgotten'
    <3>1. {"source", "generator", "runner", "planner"} \subseteq All
      BY DEF All, Crew
    <3>2. \A d \in All : ~Up(d)' => ~Up(d)
      BY <1>2
    <3>3. ~Up("source")' => replay' = <<>>
      BY <1>2
    <3>4. ~Up("generator")' => ~provisioned'
      BY <2>1, <3>1, <3>2 DEF Inv, Forgotten
    <3>5. ~Up("runner")' => occupying' = None
      BY <2>1, <3>1, <3>2 DEF Inv, Forgotten
    <3>6. ~Up("planner")' => errorRun' = None /\ plan' = None
      BY <2>1, <3>1, <3>2 DEF Inv, Forgotten
    <3> QED
      BY <3>3, <3>4, <3>5, <3>6 DEF Forgotten
  <2>8. ProvisionedAtBoot'
    BY <1>2 DEF ProvisionedAtBoot
  <2>9. Provisions'
    BY <1>2, <2>1 DEF Inv, Provisions, Held
  <2>10. Cadenced'
    BY <2>1 DEF Inv, Cadenced, Among
  <2>11. Planning'
    BY <2>1 DEF Inv, Planning, CanPlan
  <2> QED
    BY <2>3, <2>4, <2>5, <2>6, <2>7, <2>8, <2>9, <2>10, <2>11 DEF Inv, Types
<1>3. CASE StartCrew
  <2>1. /\ phase = "restored" /\ phase' = "open" /\ Idle
        /\ order' = IF artefact = <<>> THEN order
                    ELSE order \o <<"generator", "analyst", "runner">>
        /\ UNCHANGED <<storeVars, now, artefact, hearing, author, work, awaiting, replay,
                       generatorVars, analystVars, runnerVars, plannerVars, bounds,
                       lastAnnounced>>
    BY <1>3 DEF StartCrew
  <2>2. replay' # <<>> => Up("source")
    BY <2>1 DEF Inv, Forgotten
  <2>3. "source" \in All
    BY DEF All
  <2>4. CASE artefact = <<>>
    <3>1. order' = order
      BY <2>1, <2>4
    <3>2. \A d \in All : Up(d) => Up(d)'
      BY <3>1 DEF Up
    <3> QED
      BY <1>1, <1>2, <2>1, <2>2, <2>3, <3>1, <3>2
  <2>5. CASE artefact # <<>>
    <3>1. order = <<"source", "planner">>
      BY <2>1, <2>5 DEF Inv, Staged
    <3>2. order' = order \o <<"generator", "analyst", "runner">>
      BY <2>1, <2>5
    <3>3. /\ order' \in Seq(All) /\ DOMAIN order' = 1..5
          /\ order'[1] = "source" /\ order'[2] = "planner" /\ order'[3] = "generator"
          /\ order'[4] = "analyst" /\ order'[5] = "runner"
      <4> DEFINE crew == <<"generator", "analyst", "runner">>
      <4>1. /\ crew \in Seq(All) /\ Len(crew) = 3
            /\ crew[1] = "generator" /\ crew[2] = "analyst" /\ crew[3] = "runner"
        BY DEF All, Crew
      <4>2. Len(order) = 2 /\ order[1] = "source" /\ order[2] = "planner"
        BY <3>1
      <4> HIDE DEF crew
      <4>3. /\ order \o crew \in Seq(All) /\ Len(order \o crew) = Len(order) + Len(crew)
            /\ \A i \in 1..(Len(order) + Len(crew)) :
                  (order \o crew)[i] = IF i <= Len(order) THEN order[i]
                                       ELSE crew[i - Len(order)]
        <5>1. crew \in Seq(All)
          BY <4>1
        <5> QED
          BY <1>1, <5>1, ConcatProperties, Zenon
      <4> DEFINE longer == order \o crew
      <4>4. /\ longer \in Seq(All) /\ Len(longer) = 5
            /\ \A i \in 1..5 : longer[i] = IF i <= 2 THEN order[i] ELSE crew[i - 2]
        BY <4>1, <4>2, <4>3
      <4>5. order' = longer
        BY <3>2 DEF crew
      <4> HIDE DEF longer
      <4> QED
        BY <4>1, <4>2, <4>4, <4>5
    <3>4. \A m, n \in DOMAIN order' : order'[m] = order'[n] => m = n
      <4>1. \A n \in 1..5 : n = 1 \/ n = 2 \/ n = 3 \/ n = 4 \/ n = 5
        OBVIOUS
      <4> QED
        BY <3>3, <4>1
    <3>5. \A d \in All : Up(d)'
      <4>1. \A d \in All : d \in {"source", "planner", "generator", "analyst", "runner"}
        BY DEF All, Crew
      <4> QED
        BY <3>3, <4>1 DEF Up
    <3> QED
      BY <1>2, <2>1, <2>3, <3>3, <3>4, <3>5
  <2> QED
    BY <2>4, <2>5
<1>4. ASSUME NEW c \in All, Start(c) PROVE Inv'
  <2>1. /\ phase = "open" /\ phase' = "open" /\ Idle /\ ~Up(c)
        /\ order' = Append(order, c)
        /\ replay' = IF c = "source" THEN artefact ELSE replay
        /\ UNCHANGED <<storeVars, now, artefact, hearing, author, work, awaiting,
                       generatorVars, analystVars, runnerVars, plannerVars, bounds,
                       lastAnnounced>>
    BY <1>4 DEF Start
  <2>2. /\ Len(order) \in Nat /\ DOMAIN order = 1..Len(order)
        /\ order' \in Seq(All) /\ DOMAIN order' = 1..(Len(order) + 1)
        /\ \A n \in 1..Len(order) : order'[n] = order[n]
        /\ order'[Len(order) + 1] = c
    BY <1>1, <2>1
  <2>3. \A n \in 1..(Len(order) + 1) : n \in 1..Len(order) \/ n = Len(order) + 1
    BY <2>2
  <2>4. \A n \in 1..Len(order) : order[n] # c
    BY <2>1, <2>2 DEF Up
  <2>5. \A m, n \in DOMAIN order' : order'[m] = order'[n] => m = n
    BY <1>1, <2>2, <2>3, <2>4
  <2>6. \A d \in All : Up(d) => Up(d)'
    <3>1. \A n \in 1..Len(order) : n \in 1..(Len(order) + 1)
      BY <2>2
    <3> QED
      BY <2>2, <3>1 DEF Up
  <2>7. Up(c)'
    <3>1. Len(order) + 1 \in 1..(Len(order) + 1)
      BY <2>2
    <3> QED
      BY <2>2, <3>1 DEF Up
  <2>8. replay' # <<>> => Up("source")'
    <3>1. replay # <<>> => Up("source")
      BY DEF Inv, Forgotten
    <3>2. "source" \in All
      BY DEF All
    <3> QED
      BY <2>1, <2>6, <2>7, <3>1, <3>2
  <2> QED
    BY <1>2, <2>1, <2>2, <2>5, <2>6, <2>8
<1> QED
  BY <1>3, <1>4

-----------------------------------------------------------------------------
(* A sample heard.                                                         *)

\* A set of naturals up to a bound has a greatest.
LEMMA Greatest ==
    ASSUME NEW N \in Nat, NEW T \in SUBSET (0..N), NEW some \in T
    PROVE  Max(T) \in T /\ \A n \in T : n <= Max(T)
<1> DEFINE above == {t..N : t \in T}
<1>1. FiniteSubsetsOf(0..N) = SUBSET (0..N)
  <2>1. IsFiniteSet(0..N)
    BY FS_Interval
  <2> QED
    BY <2>1, FS_FiniteSubsetsOfFinite
<1>2. above \subseteq SUBSET (0..N) /\ above # {}
  <2>1. \A t \in T : t..N \in SUBSET (0..N)
    OBVIOUS
  <2> QED
    BY <2>1
<1>3. PICK x \in above : \A y \in above : ~(<<y, x>> \in StrictSubsetOrdering(0..N))
  <2>1. IsWellFoundedOn(StrictSubsetOrdering(0..N), SUBSET (0..N))
    BY <1>1, FS_StrictSubsetOrderingWellFounded
  <2> HIDE DEF above
  <2> QED
    BY <1>2, <2>1, WFMin
<1>4. PICK t \in T : x = t..N
  BY <1>3
<1>5. \A s \in T : t >= s
  <2> SUFFICES ASSUME NEW s \in T, ~(t >= s) PROVE FALSE
    OBVIOUS
  <2>1. s \in 0..N /\ t \in 0..N /\ t < s
    OBVIOUS
  <2>2. s..N \subseteq t..N /\ t \in t..N /\ t \notin s..N
    BY <2>1
  <2>3. s..N \in SUBSET (0..N) /\ t..N \in SUBSET (0..N) /\ s..N # t..N
    BY <2>1, <2>2
  <2>4. <<s..N, t..N>> \in StrictSubsetOrdering(0..N)
    BY <2>2, <2>3 DEF StrictSubsetOrdering
  <2>5. s..N \in above
    OBVIOUS
  <2> QED
    BY <1>3, <1>4, <2>4, <2>5
<1>6. Max(T) \in T /\ \A n \in T : Max(T) >= n
  BY <1>5 DEF Max
<1> QED
  BY <1>6

\* What is replayed now is all that is due from the front of the queue.
LEMMA RipeFacts ==
    ASSUME replay \in Seq(Holdings), now \in Nat
    PROVE  /\ Ripe \in 0..Len(replay)
           /\ \A m \in 1..Ripe : replay[m].tick <= now
           /\ Ripe < Len(replay) => replay[Ripe + 1].tick > now
<1> DEFINE T == {n \in 0..Len(replay) : \A m \in 1..n : replay[m].tick <= now}
<1>1. Len(replay) \in Nat /\ \A m \in 1..Len(replay) : replay[m].tick \in Nat
  <2>1. \A m \in 1..Len(replay) : replay[m] \in Holdings
    OBVIOUS
  <2> QED
    BY <2>1 DEF Holdings, Ticks
<1>2. 0 \in T
  BY <1>1
<1>3. T \in SUBSET (0..Len(replay))
  OBVIOUS
<1>4. Max(T) \in T /\ \A n \in T : n <= Max(T)
  <2> HIDE DEF T
  <2> QED
    BY <1>1, <1>2, <1>3, Greatest
<1>5. Ripe \in T /\ \A n \in T : n <= Ripe
  BY <1>4 DEF Ripe
<1>6. ASSUME Ripe < Len(replay), ~(replay[Ripe + 1].tick > now)
      PROVE  FALSE
  <2>1. Ripe + 1 \in 0..Len(replay)
    BY <1>1, <1>5, <1>6
  <2>2. \A m \in 1..(Ripe + 1) : m \in 1..Ripe \/ m = Ripe + 1
    BY <1>5
  <2>3. replay[Ripe + 1].tick <= now
    BY <1>1, <1>6, <2>1, <1>5
  <2>4. Ripe + 1 \in T
    BY <1>5, <2>1, <2>2, <2>3
  <2>5. Ripe + 1 <= Ripe
    BY <1>5, <2>4
  <2> QED
    BY <1>5, <2>5
<1> QED
  BY <1>5, <1>6

\* While someone hears a sample nothing is under way, and only they change.
LEMMA Hearings ==
    ASSUME Inv, Hear
    PROVE  /\ author = None /\ work = <<>> /\ awaiting = None /\ awaiting' = None
           /\ Head(hearing) \in All /\ Up(Head(hearing))
           /\ UNCHANGED <<field, date, pointer, book, now, phase, artefact, order, prompts,
                          stops, lastAnnounced>>
           /\ hearing' \in Seq(All)
           /\ \A c : Among(c, hearing) => c = Head(hearing) \/ Among(c, hearing')
           /\ Proved!StoreInv' /\ Dates' /\ Staged'
           /\ now \in Nat /\ now \in Ticks /\ artefact \in Artefacts
           /\ \A era \in {"archive", "departure"} :
                 /\ \A i \in Held(era) : i[2] = 0
                 /\ provisioned \/ phase # "boot" => field[<<era, 0>>] # None
           /\ provisioned =>
                 pointer["nowcast"] # None /\ date[pointer["nowcast"]] >= lastNowcast
           /\ Whole(artefact) /\ pointer["instance"] # None =>
                 /\ pointer["instance"][1] = "forecast"
                 /\ field[<<"spread", pointer["instance"][2]>>] # None
<1>1. /\ hearing # <<>> /\ author = None /\ hearing' = Tail(hearing)
      /\ UNCHANGED <<field, date, pointer, book, now, phase, artefact, order, awaiting,
                     prompts, stops, lastAnnounced>>
      /\ UNCHANGED storeVars
  BY DEF Hear, storeVars, bounds
<1>2. /\ work = <<>> /\ awaiting = None /\ hearing \in Seq(All)
      /\ now \in Nat /\ now \in Ticks /\ artefact \in Artefacts
      /\ \A n \in DOMAIN hearing : Up(hearing[n])
  BY <1>1 DEF Inv, Types, WorkTypes, CrewTypes, Working, Analysing, Ticks, Staged
<1>3. /\ Len(hearing) \in Nat /\ DOMAIN hearing = 1..Len(hearing) /\ Len(hearing) >= 1
      /\ Head(hearing) \in All /\ Head(hearing) = hearing[1]
      /\ hearing' \in Seq(All) /\ DOMAIN hearing' = 1..(Len(hearing) - 1)
      /\ \A n \in 1..(Len(hearing) - 1) : hearing'[n] = hearing[n + 1]
  BY <1>1, <1>2
<1>4. ASSUME NEW c, Among(c, hearing), c # Head(hearing)
      PROVE  Among(c, hearing')
  <2>1. PICK n \in 1..Len(hearing) : hearing[n] = c
    BY <1>3, <1>4 DEF Among
  <2>2. n - 1 \in 1..(Len(hearing) - 1) /\ (n - 1) + 1 = n
    BY <1>3, <1>4, <2>1
  <2>3. hearing'[n - 1] = c
    BY <1>3, <2>1, <2>2
  <2> QED
    BY <1>3, <2>2, <2>3 DEF Among
<1>5. Proved!StoreInv'
  BY <1>1, StoreStays DEF Inv
<1>6. author # "generator" /\ author # "runner" /\ author # "source"
  BY <1>1, AuthorsAssumption DEF All, Crew
<1>7. Dates'
  BY <1>1, <1>6 DEF Inv, Dates, Analysed, Own
<1>8. Staged'
  <2>1. \A n \in DOMAIN hearing' : Up(hearing'[n])
    <3>1. \A n \in 1..(Len(hearing) - 1) : n + 1 \in 1..Len(hearing)
      BY <1>3
    <3> QED
      BY <1>2, <1>3, <3>1
  <2> QED
    BY <1>1, <2>1 DEF Inv, Staged, Early, Up
<1>9. Up(Head(hearing))
  BY <1>2, <1>3
<1>10. \A era \in {"archive", "departure"} :
          /\ \A i \in Held(era) : i[2] = 0
          /\ provisioned \/ phase # "boot" => field[<<era, 0>>] # None
  BY <1>6 DEF Inv, Provisions
<1>11. provisioned =>
          pointer["nowcast"] # None /\ date[pointer["nowcast"]] >= lastNowcast
  BY <1>6 DEF Inv, Cadenced
<1>12. Whole(artefact) /\ pointer["instance"] # None =>
          /\ pointer["instance"][1] = "forecast"
          /\ field[<<"spread", pointer["instance"][2]>>] # None
  BY <1>6 DEF Inv, Instances
<1> QED
  BY <1>1, <1>2, <1>3, <1>4, <1>5, <1>7, <1>8, <1>9, <1>10, <1>11, <1>12

\* Whoever hears it, what no handler but the generator's touches stays as it was.
LEMMA HeardElsewhere ==
    ASSUME Inv, Hear, UNCHANGED generatorVars, Head(hearing) # "generator",
           author' # "generator"
    PROVE  Provisions' /\ ProvisionedAtBoot' /\ Cadenced'
<1> DEFINE head == Head(hearing)
<1>1. /\ author = None /\ head # "generator"
      /\ UNCHANGED <<field, date, pointer, book, now, phase, provisioned, lastNowcast>>
      /\ \A c : Among(c, hearing) => c = head \/ Among(c, hearing')
      /\ \A era \in {"archive", "departure"} :
            /\ \A i \in Held(era) : i[2] = 0
            /\ provisioned \/ phase # "boot" => field[<<era, 0>>] # None
      /\ provisioned =>
            pointer["nowcast"] # None /\ date[pointer["nowcast"]] >= lastNowcast
  BY Hearings DEF generatorVars
<1> HIDE DEF head
<1>2. Provisions'
  BY <1>1 DEF Provisions, Held
<1>3. ProvisionedAtBoot'
  BY <1>1 DEF Inv, ProvisionedAtBoot
<1>4. Cadenced'
  BY <1>1 DEF Inv, Cadenced
<1> QED
  BY <1>2, <1>3, <1>4

\* And what no handler but the planner's.
LEMMA HeardByOthers ==
    ASSUME Inv, Hear, UNCHANGED plannerVars
    PROVE  PlanTypes' /\ Planning'
<1>1. UNCHANGED <<field, pointer, now, lastAnnounced, plannerTick, placed, errorRun,
                  lastPlanTick, plan>>
  BY Hearings DEF plannerVars
<1>2. PlanTypes'
  BY <1>1 DEF Inv, Types, PlanTypes
<1>3. Planning'
  BY <1>1 DEF Inv, Planning, CanPlan
<1> QED
  BY <1>2, <1>3

\* What is replayed stays the end of the artefact, and begins with no forecast.
LEMMA ReplayLeft ==
    ASSUME Inv, author # "source"
    PROVE  \E k \in 0..Len(artefact) :
              /\ k + Len(replay) = Len(artefact)
              /\ \A n \in 1..Len(replay) : replay[n] = artefact[k + n]
              /\ replay # <<>> => replay[1].id[1] # "forecast"
<1>1. PICK k \in 0..Len(artefact) :
         /\ (k + 0) + Len(replay) = Len(artefact)
         /\ \A n \in 1..Len(replay) : replay[n] = artefact[(k + 0) + n]
         /\ replay # <<>> => replay[1].id[1] # "forecast"
  BY DEF Inv, Working, Replaying
<1>2. Len(artefact) \in Nat
  BY ArtefactFacts DEF Inv, Types, CrewTypes
<1>3. k + 0 = k
  BY <1>1, <1>2
<1> QED
  BY <1>1, <1>3

\* Another author's step leaves the replay as it was.
LEMMA ReplayKept ==
    ASSUME Inv, author # "source", author' # "source", UNCHANGED <<replay, artefact>>
    PROVE  Replaying'
<1>1. PICK k \in 0..Len(artefact) :
         /\ k + Len(replay) = Len(artefact)
         /\ \A n \in 1..Len(replay) : replay[n] = artefact[k + n]
         /\ replay # <<>> => replay[1].id[1] # "forecast"
  BY ReplayLeft
<1>2. Len(artefact) \in Nat
  BY ArtefactFacts DEF Inv, Types, CrewTypes
<1>3. k + 0 = k
  BY <1>1, <1>2
<1> QED
  BY <1>1, <1>3 DEF Replaying

\* The source's part in a sample: the due end of the queue's front, in order.
LEMMA SourceHears ==
    ASSUME Inv, Hear, Head(hearing) = "source"
    PROVE  Inv'
<1>1. /\ work' = SubSeq(replay, 1, Ripe) /\ replay' = SubSeq(replay, Ripe + 1, Len(replay))
      /\ author' = IF work' = <<>> THEN None ELSE "source"
      /\ UNCHANGED <<generatorVars, analystVars, runnerVars, plannerVars>>
  BY DEF Hear, HearSource, Undertake
<1>2. /\ author = None /\ work = <<>> /\ awaiting = None /\ awaiting' = None
      /\ UNCHANGED <<field, date, pointer, book, now, phase, artefact, order, prompts,
                     stops, lastAnnounced, provisioned, lastNowcast, analystTick,
                     faultPending, runnerTick, occupying>>
      /\ hearing' \in Seq(All) /\ Proved!StoreInv' /\ Dates' /\ Staged'
      /\ now \in Nat /\ artefact \in Artefacts
  BY <1>1, Hearings DEF generatorVars, analystVars, runnerVars
<1>3. /\ "source" \in All /\ None # "source" /\ author' \in {"source", None}
      /\ author # "source" /\ author' # "generator" /\ author' # "runner"
      /\ author' # "analyst" /\ author' # "planner"
  BY <1>1, <1>2, AuthorsAssumption DEF All, Crew
<1>4. /\ replay \in Seq(Holdings) /\ Len(replay) \in Nat /\ Ripe \in 0..Len(replay)
      /\ \A m \in 1..Ripe : replay[m].tick <= now
      /\ Ripe < Len(replay) => replay[Ripe + 1].tick > now
  <2>1. replay \in Seq(Holdings)
    BY DEF Inv, Types, WorkTypes
  <2> QED
    BY <1>2, <2>1, RipeFacts
<1> DEFINE R == Ripe
           L == Len(replay)
<1>5. /\ work' \in Seq(Holdings) /\ Len(work') = R
      /\ \A n \in 1..R : work'[n] = replay[n]
  <2>1. \A n \in 1..R : replay[n] \in Holdings
    BY <1>4
  <2>2. /\ SubSeq(replay, 1, Ripe) \in Seq(Holdings)
        /\ Len(SubSeq(replay, 1, Ripe)) = IF 1 <= Ripe THEN (Ripe - 1) + 1 ELSE 0
        /\ \A n \in 1..((Ripe - 1) + 1) : SubSeq(replay, 1, Ripe)[n] = replay[1 + (n - 1)]
    BY <1>4, <2>1, SubSeqProperties
  <2>3. 1..((Ripe - 1) + 1) = 1..Ripe /\ \A n \in 1..Ripe : 1 + (n - 1) = n
    BY <1>4
  <2> QED
    BY <1>1, <1>4, <2>2, <2>3
<1>6. /\ replay' \in Seq(Holdings) /\ Len(replay') = L - R
      /\ \A n \in 1..(L - R) : replay'[n] = replay[R + n]
  <2>1. \A n \in (Ripe + 1)..L : replay[n] \in Holdings
    BY <1>4
  <2> DEFINE rest == SubSeq(replay, Ripe + 1, L)
  <2>2. /\ rest \in Seq(Holdings)
        /\ Len(rest) = IF Ripe + 1 <= L THEN (L - (Ripe + 1)) + 1 ELSE 0
        /\ \A n \in 1..((L - (Ripe + 1)) + 1) : rest[n] = replay[(Ripe + 1) + (n - 1)]
    <3>1. Ripe + 1 \in Int /\ L \in Int
      BY <1>4
    <3> QED
      BY <2>1, <3>1, SubSeqProperties
  <2>3. /\ 1..((L - (Ripe + 1)) + 1) = 1..(L - R)
        /\ \A n \in 1..(L - R) : (Ripe + 1) + (n - 1) = R + n
        /\ (L - (Ripe + 1)) + 1 = L - R
    BY <1>4
  <2>4. replay' = rest
    BY <1>1
  <2>5. Len(rest) = L - R
    <3> HIDE DEF rest
    <3>1. Len(rest) = IF Ripe + 1 <= L THEN (L - (Ripe + 1)) + 1 ELSE 0
      BY <2>2
    <3>2. L \in Nat /\ Ripe \in Nat /\ Ripe <= L
      BY <1>4
    <3> HIDE DEF L
    <3> QED
      BY <3>1, <3>2
  <2> QED
    BY <2>2, <2>3, <2>4, <2>5
<1> HIDE DEF R, L
<1>7. R \in 0..L /\ L \in Nat /\ L = Len(replay)
  BY <1>4 DEF R, L
<1>8. work' # <<>> => author' = "source" /\ R >= 1 /\ work'[1] = replay[1] /\ replay # <<>>
  BY <1>1, <1>5, <1>7
<1>9. CrewTypes'
  BY <1>2 DEF Inv, Types, CrewTypes
<1>10. WorkTypes'
  BY <1>1, <1>2, <1>3, <1>5, <1>6 DEF Inv, Types, WorkTypes
<1>11. Replaying'
  <2>1. PICK k \in 0..Len(artefact) :
           /\ k + L = Len(artefact)
           /\ \A n \in 1..L : replay[n] = artefact[k + n]
           /\ replay # <<>> => replay[1].id[1] # "forecast"
    BY <1>3, <1>7, ReplayLeft
  <2>2. Len(artefact) \in Nat
    BY <1>2, ArtefactFacts
  <2>3. k \in Nat /\ (IF author' = "source" THEN Len(work') ELSE 0) = R
    <3>1. author' # "source" => work' = <<>> /\ R = 0
      BY <1>1, <1>5, <1>7
    <3> QED
      BY <1>5, <2>1, <2>2, <3>1
  <2>4. (k + R) + (L - R) = Len(artefact)
    BY <1>7, <2>1, <2>2, <2>3
  <2>5. \A n \in 1..R : work'[n] = artefact[k + n] /\ work'[n].tick <= now
    BY <1>4, <1>5, <1>7, <2>1 DEF R
  <2>6. \A n \in 1..(L - R) : replay'[n] = artefact[(k + R) + n]
    <3>1. \A n \in 1..(L - R) : R + n \in 1..L /\ k + (R + n) = (k + R) + n
      BY <1>7, <2>3
    <3> QED
      BY <1>6, <2>1, <3>1
  <2>7. ASSUME replay' # <<>>
        PROVE  replay'[1].tick > now /\ replay'[1].id[1] # "forecast"
    <3>1. 1 \in 1..(L - R) /\ R < L /\ R + 1 \in 1..L
      BY <1>6, <1>7, <2>7
    <3>2. replay'[1] = replay[R + 1] /\ replay[R + 1].tick > now
      BY <1>4, <1>6, <3>1, <1>7 DEF R, L
    <3>3. ASSUME replay'[1].id[1] = "forecast" PROVE FALSE
      <4>1. /\ (k + R) + 1 \in 1..Len(artefact)
            /\ replay'[1] = artefact[(k + R) + 1]
        BY <1>7, <2>1, <2>2, <2>3, <2>6, <3>1
      <4>2. /\ ((k + R) + 1) - 1 \in 1..Len(artefact)
            /\ artefact[((k + R) + 1) - 1].id
                  = <<"spread", artefact[(k + R) + 1].id[2]>>
        BY <1>2, <3>3, <4>1, ArtefactFacts
      <4>3. ((k + R) + 1) - 1 = k + R
        BY <1>7, <2>3
      <4>4. artefact[k + R].id[1] = "spread" /\ k + R \in 1..Len(artefact)
        BY <4>2, <4>3
      <4>5. artefact[(k + R) + 1].tick = artefact[k + R].tick
        BY <1>2, <4>4, ArtefactFacts
      <4>6. CASE R = 0
        <5>1. k + R = k /\ k + 1 = (k + R) + 1
          BY <2>3, <4>6
        <5>2. replay[1].id[1] # "forecast"
          BY <1>7, <2>1, <3>1
        <5> QED
          BY <3>2, <3>3, <4>6, <5>2
      <4>7. CASE R >= 1
        <5>1. R \in 1..R /\ R \in 1..L
          BY <1>7, <4>7
        <5>2. replay[R] = artefact[k + R] /\ replay[R].tick <= now
          BY <1>4, <2>1, <5>1 DEF R
        <5>3. artefact[k + R].tick \in Nat
          BY <1>2, <4>4, ArtefactFacts
        <5> QED
          BY <1>2, <3>2, <4>1, <4>5, <5>2, <5>3
      <4> QED
        BY <1>7, <4>6, <4>7
    <3> QED
      BY <3>2, <3>3
  <2>8. /\ (k + R) + Len(replay') = Len(artefact)
        /\ author' = "source" =>
              \A n \in 1..R : work'[n] = artefact[k + n] /\ work'[n].tick <= now
        /\ \A n \in 1..Len(replay') : replay'[n] = artefact[(k + R) + n]
        /\ author' = "source" /\ replay' # <<>> => replay'[1].tick > now
        /\ replay' # <<>> => replay'[1].id[1] # "forecast"
    BY <1>6, <2>4, <2>5, <2>6, <2>7
  <2> QED
    BY <1>2, <2>1, <2>3, <2>8 DEF Replaying
<1>12. Generating' /\ Analysing' /\ Releasing'
  BY <1>2, <1>3 DEF Generating, Analysing, Releasing, Inv, Working, Early, Own, Analysed
<1>13. Forgotten'
  <2>1. replay' # <<>> => replay # <<>>
    BY <1>6, <1>7
  <2>2. UNCHANGED <<errorRun, plan>>
    BY <1>1 DEF plannerVars
  <2> QED
    BY <1>2, <2>1, <2>2 DEF Inv, Forgotten, Up
<1>14. Instances'
  <2>1. Whole(artefact) /\ pointer["instance"] # None =>
          /\ pointer["instance"][1] = "forecast"
          /\ field[<<"spread", pointer["instance"][2]>>] # None
    BY Hearings
  <2>2. author' = "source" => work'[1].id[1] # "forecast"
    <3>1. author' = "source" => work' # <<>>
      BY <1>1, <1>3
    <3>2. replay # <<>> => replay[1].id[1] # "forecast"
      BY <1>3, ReplayLeft
    <3> QED
      BY <1>8, <3>1, <3>2
  <2> QED
    BY <1>2, <2>1, <2>2 DEF Instances
<1>15. Provisions' /\ ProvisionedAtBoot' /\ Cadenced'
  BY <1>1, <1>3, HeardElsewhere
<1>16. PlanTypes' /\ Planning'
  BY <1>1, HeardByOthers
<1> QED
  BY <1>2, <1>9, <1>10, <1>11, <1>12, <1>13, <1>14, <1>15, <1>16 DEF Inv, Types, Working

\* The analyst's part in a sample: it knows the time.
LEMMA AnalystHears ==
    ASSUME Inv, Hear, Head(hearing) = "analyst"
    PROVE  Inv'
<1>1. /\ work' = <<>> /\ author' = None /\ analystTick' = now
      /\ UNCHANGED <<replay, generatorVars, faultPending, runnerVars, plannerVars>>
  BY DEF Hear, HearAnalyst, Undertake
<1>2. /\ author = None /\ work = <<>> /\ awaiting = None /\ awaiting' = None
      /\ UNCHANGED <<field, date, pointer, book, now, phase, artefact, order, prompts,
                     stops, lastAnnounced, replay, provisioned, lastNowcast, faultPending,
                     runnerTick, occupying>>
      /\ hearing' \in Seq(All) /\ Proved!StoreInv' /\ Dates' /\ Staged'
      /\ now \in Nat
  BY <1>1, Hearings DEF generatorVars, runnerVars
<1>3. /\ author # "source" /\ author' # "source" /\ author' # "generator"
      /\ author' # "runner" /\ author' # "analyst" /\ author' # "planner"
  BY <1>1, <1>2, AuthorsAssumption DEF All, Crew
<1>4. CrewTypes'
  BY <1>1, <1>2 DEF Inv, Types, CrewTypes
<1>5. WorkTypes'
  BY <1>1, <1>2 DEF Inv, Types, WorkTypes
<1>6. Replaying'
  BY <1>2, <1>3, ReplayKept
<1>7. Generating' /\ Analysing' /\ Releasing'
  BY <1>2, <1>3 DEF Generating, Analysing, Releasing, Inv, Working, Early, Own, Analysed
<1>8. Forgotten'
  <2>1. UNCHANGED <<errorRun, plan>>
    BY <1>1 DEF plannerVars
  <2> QED
    BY <1>2, <2>1 DEF Inv, Forgotten, Up
<1>9. Instances'
  <2>1. Whole(artefact) /\ pointer["instance"] # None =>
          /\ pointer["instance"][1] = "forecast"
          /\ field[<<"spread", pointer["instance"][2]>>] # None
    BY Hearings
  <2> QED
    BY <1>2, <1>3, <2>1 DEF Instances
<1>10. Provisions' /\ ProvisionedAtBoot' /\ Cadenced'
  BY <1>1, <1>3, HeardElsewhere
<1>11. PlanTypes' /\ Planning'
  BY <1>1, HeardByOthers
<1> QED
  BY <1>2, <1>4, <1>5, <1>6, <1>7, <1>8, <1>9, <1>10, <1>11 DEF Inv, Types, Working

\* The runner's: a spent occupation is released, the spread and then the forecast.
LEMMA RunnerHears ==
    ASSUME Inv, Hear, Head(hearing) = "runner"
    PROVE  Inv'
<1> DEFINE spent == occupying # None /\ now >= occupying.at
<1>1. /\ runnerTick' = now /\ occupying' = IF spent THEN None ELSE occupying
      /\ work' = IF spent THEN Release(occupying.run, occupying.content) ELSE <<>>
      /\ author' = IF work' = <<>> THEN None ELSE "runner"
      /\ UNCHANGED <<replay, generatorVars, analystVars, plannerVars>>
  BY DEF Hear, HearRunner, Undertake
<1>2. /\ author = None /\ work = <<>> /\ awaiting = None /\ awaiting' = None
      /\ UNCHANGED <<field, date, pointer, book, now, phase, artefact, order, prompts,
                     stops, lastAnnounced, replay, provisioned, lastNowcast, faultPending,
                     analystTick>>
      /\ hearing' \in Seq(All) /\ Proved!StoreInv' /\ Dates' /\ Staged'
      /\ now \in Nat /\ now \in Ticks
  BY <1>1, Hearings DEF generatorVars, analystVars
<1>3. /\ author # "source" /\ author' # "source" /\ author' # "generator"
      /\ author' # "analyst" /\ author' # "planner" /\ "runner" \in All /\ "runner" # None
      /\ author' \in {"runner", None}
  BY <1>1, <1>2, AuthorsAssumption DEF All, Crew
<1>4. CrewTypes'
  BY <1>1, <1>2 DEF Inv, Types, CrewTypes
<1>5. \/ spent /\ occupying' = None
         /\ work' = Release(occupying.run, occupying.content) /\ work' # <<>>
         /\ author' = "runner"
      \/ occupying' = occupying /\ work' = <<>> /\ author' = None
  <2>1. Release(occupying.run, occupying.content) # <<>>
    BY DEF Release
  <2> QED
    BY <1>1, <2>1
<1>6. /\ occupying # None =>
            /\ occupying.run \in Ticks /\ occupying.content \in Fields
            /\ Analysed(occupying.run, occupying.content)
            /\ Early \/ Own(occupying.run)
      /\ spent => ~Early
  <2>1. spent => now # 0
    <3>1. occupying # None => occupying.at \in Nat /\ occupying.at >= Cost
      BY DEF Inv, Types, WorkTypes
    <3>2. Cost \in Nat /\ Cost # 0
      BY AuthorsAssumption
    <3> QED
      BY <1>2, <3>1, <3>2
  <2>2. Early => now = 0
    BY DEF Inv, Staged
  <2>3. occupying # None =>
            /\ occupying.run \in Ticks /\ occupying.content \in Fields
            /\ Analysed(occupying.run, occupying.content)
            /\ Early \/ Own(occupying.run)
    BY DEF Inv, Working, Releasing, Types, WorkTypes
  <2> HIDE DEF spent
  <2> QED
    BY <2>1, <2>2, <2>3
<1>7. WorkTypes'
  <2>1. CASE spent
    <3>1. Release(occupying.run, occupying.content) \in Seq(Holdings)
      <4>1. /\ <<"spread", occupying.run>> \in Ids /\ <<"forecast", occupying.run>> \in Ids
        BY <1>6, <2>1 DEF Ids, RunParts
      <4>2. /\ Staging(<<"spread", occupying.run>>, now, occupying.content) \in Holdings
            /\ Staging(<<"forecast", occupying.run>>, now, occupying.content) \in Holdings
        BY <1>2, <1>6, <2>1, <4>1 DEF Staging, Holdings
      <4> QED
        BY <4>2 DEF Release
    <3>2. work' = Release(occupying.run, occupying.content) /\ work' # <<>>
          /\ author' = "runner" /\ occupying' = None
      BY <1>1, <1>5, <2>1
    <3> QED
      BY <1>2, <1>3, <3>1, <3>2 DEF Inv, Types, WorkTypes
  <2>2. CASE ~spent
    BY <1>1, <1>2, <1>3, <1>5, <2>2 DEF Inv, Types, WorkTypes
  <2> QED
    BY <2>1, <2>2
<1>8. Replaying'
  BY <1>2, <1>3, ReplayKept
<1>9. Generating' /\ Analysing'
  BY <1>2, <1>3 DEF Generating, Analysing
<1>10. Releasing'
  <2>1. Early' <=> Early
    BY <1>2 DEF Early
  <2>2. \A run, content : /\ Analysed(run, content)' <=> Analysed(run, content)
                         /\ Own(run)' <=> Own(run)
    BY <1>2 DEF Analysed, Own
  <2>3. occupying' # None =>
           /\ Analysed(occupying.run, occupying.content)'
           /\ Early' \/ Own(occupying.run)'
    <3>1. occupying' # None => occupying' = occupying
      BY <1>5
    <3> QED
      BY <1>2, <1>6, <3>1 DEF Early, Analysed, Own
  <2>4. author' = "runner" =>
          \E run \in Ticks, content \in Fields :
              /\ Own(run) /\ ~Early /\ Analysed(run, content)
              /\ work' = Release(run, content)
    <3> SUFFICES ASSUME author' = "runner"
                 PROVE  \E run \in Ticks, content \in Fields :
                           /\ Own(run) /\ ~Early /\ Analysed(run, content)
                           /\ work' = Release(run, content)
      OBVIOUS
    <3>1. spent /\ work' = Release(occupying.run, occupying.content)
      BY <1>3, <1>5
    <3> QED
      BY <1>6, <3>1
  <2>5. author' = "runner" =>
          \E run \in Ticks, content \in Fields :
              /\ Own(run)' /\ ~Early' /\ Analysed(run, content)'
              /\ work' = Release(run, content)'
    <3>1. \A run, content : Release(run, content)' = Release(run, content)
      BY <1>2 DEF Release
    <3> QED
      BY <2>1, <2>2, <2>4, <3>1
  <2>6. author' = "runner" => occupying' = None
    BY <1>3, <1>5
  <2> QED
    BY <1>2, <2>3, <2>5, <2>6 DEF Releasing
<1>11. Forgotten'
  <2>1. UNCHANGED <<errorRun, plan>>
    BY <1>1 DEF plannerVars
  <2>2. occupying' = None \/ occupying' = occupying
    BY <1>5
  <2> QED
    BY <1>2, <2>1, <2>2 DEF Inv, Forgotten, Up
<1>12. Instances'
  <2>1. Whole(artefact) /\ pointer["instance"] # None =>
          /\ pointer["instance"][1] = "forecast"
          /\ field[<<"spread", pointer["instance"][2]>>] # None
    BY Hearings
  <2> QED
    BY <1>2, <1>3, <2>1 DEF Instances
<1>13. Provisions' /\ ProvisionedAtBoot' /\ Cadenced'
  BY <1>1, <1>3, HeardElsewhere
<1>14. PlanTypes' /\ Planning'
  BY <1>1, HeardByOthers
<1> QED
  BY <1>2, <1>4, <1>7, <1>8, <1>9, <1>10, <1>11, <1>12, <1>13, <1>14
     DEF Inv, Types, Working

\* The planner's: a plan where one is due, if there is what to plan from.
LEMMA PlannerHears ==
    ASSUME Inv, Hear, Head(hearing) = "planner"
    PROVE  Inv'
<1> DEFINE due == now > 0 /\ now - lastPlanTick >= ReplanInterval
<1>1. /\ work' = <<>> /\ author' = None /\ plannerTick' = now
      /\ lastPlanTick' = IF due THEN now ELSE lastPlanTick
      /\ plan' = IF due THEN Replan(now) ELSE plan
      /\ UNCHANGED <<placed, errorRun, replay, generatorVars, analystVars, runnerVars>>
  BY DEF Hear, HearPlanner, Undertake
<1>2. /\ author = None /\ work = <<>> /\ awaiting = None /\ awaiting' = None
      /\ UNCHANGED <<field, date, pointer, book, now, phase, artefact, order, prompts,
                     stops, lastAnnounced, replay, provisioned, lastNowcast, faultPending,
                     analystTick, runnerTick, occupying, placed, errorRun>>
      /\ hearing' \in Seq(All) /\ Proved!StoreInv' /\ Dates' /\ Staged'
      /\ now \in Nat /\ now \in Ticks /\ Up(Head(hearing))
  BY <1>1, Hearings DEF generatorVars, analystVars, runnerVars
<1>3. /\ author # "source" /\ author' # "source" /\ author' # "generator"
      /\ author' # "runner" /\ author' # "analyst" /\ author' # "planner"
  BY <1>1, <1>2, AuthorsAssumption DEF All, Crew
<1>4. CrewTypes'
  BY <1>2 DEF Inv, Types, CrewTypes
<1>5. WorkTypes'
  BY <1>1, <1>2 DEF Inv, Types, WorkTypes
<1>6. Replaying'
  BY <1>2, <1>3, ReplayKept
<1>7. Generating' /\ Analysing' /\ Releasing'
  BY <1>2, <1>3 DEF Generating, Analysing, Releasing, Inv, Working, Early, Own, Analysed
<1>8. Forgotten'
  BY <1>2 DEF Inv, Forgotten, Up
<1>9. Instances'
  <2>1. Whole(artefact) /\ pointer["instance"] # None =>
          /\ pointer["instance"][1] = "forecast"
          /\ field[<<"spread", pointer["instance"][2]>>] # None
    BY Hearings
  <2> QED
    BY <1>2, <1>3, <2>1 DEF Instances
<1>10. Provisions' /\ ProvisionedAtBoot' /\ Cadenced'
  BY <1>1, <1>3, HeardElsewhere
<1>11. /\ plannerTick \in 0..now /\ lastPlanTick \in -1..plannerTick
       /\ ReplanInterval \in Nat /\ ReplanInterval # 0
       /\ plan # None => plan.tick \in Nat /\ plan.run \in Ticks
       /\ plan \in Plans \cup {None} /\ errorRun \in Ticks \cup {None}
  BY AuthorsAssumption DEF Inv, Types, PlanTypes, Plans, Ticks
<1>12. CanPlan' <=> CanPlan
  BY <1>2 DEF CanPlan
<1>13. CASE due /\ CanPlan
  <2>1. /\ plan' = [run |-> errorRun, tick |-> now] /\ lastPlanTick' = now
        /\ errorRun # None
    BY <1>1, <1>13 DEF Replan, CanPlan
  <2>2. plan' \in Plans /\ plan'.run = errorRun /\ plan'.tick = now
    BY <1>2, <1>11, <2>1 DEF Plans
  <2>3. PlanTypes'
    <3>1. lastPlanTick' \in -1..plannerTick' /\ plannerTick' \in 0..now'
      BY <1>1, <1>2, <2>1
    <3> QED
      BY <1>2, <2>2, <3>1 DEF Inv, Types, PlanTypes
  <2>4. Planning'
    <3>1. /\ plannerTick' - lastPlanTick' < ReplanInterval
          /\ plannerTick' - plan'.tick < ReplanInterval /\ plan'.tick <= plannerTick'
          /\ lastPlanTick' # -1
      BY <1>1, <1>2, <1>11, <2>1, <2>2
    <3>2. CanPlan'
      BY <1>12, <1>13
    <3>3. plan'.run = errorRun' /\ plan'.tick = lastPlanTick'
      BY <1>2, <2>1, <2>2
    <3> QED
      BY <1>2, <3>1, <3>2, <3>3 DEF Inv, Planning
  <2> QED
    BY <1>2, <1>4, <1>5, <1>6, <1>7, <1>8, <1>9, <1>10, <2>3, <2>4 DEF Inv, Types, Working
<1>14. CASE due /\ ~CanPlan
  <2>1. plan = None /\ plan' = None /\ lastPlanTick' = now
    BY <1>1, <1>14 DEF Replan, Inv, Planning
  <2>2. PlanTypes'
    <3>1. lastPlanTick' \in -1..plannerTick' /\ plannerTick' \in 0..now'
      BY <1>1, <1>2, <2>1
    <3> QED
      BY <1>2, <2>1, <3>1 DEF Inv, Types, PlanTypes
  <2>3. Planning'
    <3>1. plannerTick' - lastPlanTick' < ReplanInterval
      BY <1>1, <1>2, <1>11, <2>1
    <3> QED
      BY <1>2, <2>1, <3>1 DEF Inv, Planning
  <2> QED
    BY <1>2, <1>4, <1>5, <1>6, <1>7, <1>8, <1>9, <1>10, <2>2, <2>3 DEF Inv, Types, Working
<1>15. CASE ~due
  <2>1. plan' = plan /\ lastPlanTick' = lastPlanTick
    BY <1>1, <1>15
  <2>2. now = 0 \/ now - lastPlanTick < ReplanInterval
    BY <1>2, <1>11, <1>15
  <2>3. PlanTypes'
    <3>1. lastPlanTick' \in -1..plannerTick' /\ plannerTick' \in 0..now'
      BY <1>1, <1>2, <1>11, <2>1
    <3> QED
      BY <1>2, <2>1, <3>1 DEF Inv, Types, PlanTypes
  <2>4. Planning'
    <3>1. lastPlanTick' = -1 \/ plannerTick' - lastPlanTick' < ReplanInterval
      BY <1>1, <1>2, <1>11, <2>1, <2>2
    <3>2. ASSUME plan # None
          PROVE  /\ CanPlan /\ plan.tick <= plannerTick'
                 /\ plannerTick' - plan.tick < ReplanInterval
                 /\ lastPlanTick = -1 =>
                       plannerTick' = 0 \/ plannerTick' + 1 < ReplanInterval
                 /\ lastPlanTick # -1 => plan.run = errorRun /\ plan.tick = lastPlanTick
      <4>1. /\ CanPlan /\ plan.tick <= plannerTick
            /\ lastPlanTick # -1 => plan.run = errorRun /\ plan.tick = lastPlanTick
        BY <3>2 DEF Inv, Planning
      <4>2. lastPlanTick = -1 => plannerTick' = 0 \/ plannerTick' + 1 < ReplanInterval
        BY <1>1, <1>2, <1>11, <2>2
      <4>3. plannerTick' - plan.tick < ReplanInterval
        BY <1>1, <1>2, <1>11, <2>2, <3>2, <4>1
      <4>4. plan.tick <= plannerTick'
        BY <1>1, <1>2, <1>11, <3>2, <4>1
      <4> QED
        BY <4>1, <4>2, <4>3, <4>4
    <3> QED
      BY <1>2, <1>12, <2>1, <3>1, <3>2 DEF Inv, Planning
  <2> QED
    BY <1>2, <1>4, <1>5, <1>6, <1>7, <1>8, <1>9, <1>10, <2>3, <2>4 DEF Inv, Types, Working
<1> QED
  BY <1>13, <1>14, <1>15

\* One of at most one.
LEMMA OnlyOne ==
    ASSUME NEW p \in BOOLEAN, NEW S, NEW x \in S
    PROVE  /\ Only(p, x) \in Seq(S) /\ Len(Only(p, x)) = IF p THEN 1 ELSE 0
           /\ p => Only(p, x)[1] = x
<1>1. CASE p
  BY <1>1 DEF Only
<1>2. CASE ~p
  BY <1>2 DEF Only
<1> QED
  BY <1>1, <1>2

\* A sequence of those wanted of three, in order.
Chosen(s, p, x, q, y, r, z) ==
    /\ Len(s) \in Nat
    /\ \A n \in 1..Len(s) : \/ p /\ n = 1 /\ s[n] = x
                            \/ q /\ n < Len(s) + (IF r THEN 0 ELSE 1) /\ s[n] = y
                                 /\ n = IF p THEN 2 ELSE 1
                            \/ r /\ n = Len(s) /\ s[n] = z
    /\ p => \E n \in 1..Len(s) : s[n] = x
    /\ q => \E n \in 1..Len(s) : s[n] = y
    /\ r => \E n \in 1..Len(s) : s[n] = z

\* Appending the wanted ones keeps each in its place (generator.ts:214-237).
LEMMA OnlyThree ==
    ASSUME NEW S, NEW p \in BOOLEAN, NEW q \in BOOLEAN, NEW r \in BOOLEAN,
           NEW x \in S, NEW y \in S, NEW z \in S
    PROVE  /\ Only(p, x) \o Only(q, y) \o Only(r, z) \in Seq(S)
           /\ Chosen(Only(p, x) \o Only(q, y) \o Only(r, z), p, x, q, y, r, z)
<1> DEFINE a == Only(p, x)
           b == Only(q, y)
           c == Only(r, z)
           ab == a \o b
           s == ab \o c
<1>1. /\ a \in Seq(S) /\ Len(a) = (IF p THEN 1 ELSE 0) /\ (p => a[1] = x)
      /\ b \in Seq(S) /\ Len(b) = (IF q THEN 1 ELSE 0) /\ (q => b[1] = y)
      /\ c \in Seq(S) /\ Len(c) = (IF r THEN 1 ELSE 0) /\ (r => c[1] = z)
  BY OnlyOne
<1> HIDE DEF a, b, c
<1>2. /\ ab \in Seq(S) /\ Len(ab) = Len(a) + Len(b)
      /\ \A i \in 1..(Len(a) + Len(b)) : ab[i] = IF i <= Len(a) THEN a[i] ELSE b[i - Len(a)]
  <2>1. a \in Seq(S) /\ b \in Seq(S)
    BY <1>1
  <2> QED
    BY <2>1, ConcatProperties, Zenon
<1> HIDE DEF ab
<1>3. /\ s \in Seq(S) /\ Len(s) = Len(ab) + Len(c)
      /\ \A i \in 1..(Len(ab) + Len(c)) :
            s[i] = IF i <= Len(ab) THEN ab[i] ELSE c[i - Len(ab)]
  <2>1. ab \in Seq(S) /\ c \in Seq(S)
    BY <1>1, <1>2
  <2> QED
    BY <2>1, ConcatProperties, Zenon
<1> HIDE DEF s
<1>4. Len(s) = (IF p THEN 1 ELSE 0) + (IF q THEN 1 ELSE 0) + (IF r THEN 1 ELSE 0)
  BY <1>1, <1>2, <1>3
<1>5. Len(ab) = (IF p THEN 1 ELSE 0) + (IF q THEN 1 ELSE 0)
  BY <1>1, <1>2
<1>6. ASSUME p PROVE 1 \in 1..Len(s) /\ s[1] = x
  BY <1>1, <1>2, <1>3, <1>4, <1>5, <1>6
<1>7. ASSUME q PROVE /\ (IF p THEN 2 ELSE 1) \in 1..Len(s)
                     /\ s[IF p THEN 2 ELSE 1] = y
  <2>1. CASE p
    BY <1>1, <1>2, <1>3, <1>4, <1>5, <1>7, <2>1
  <2>2. CASE ~p
    BY <1>1, <1>2, <1>3, <1>4, <1>5, <1>7, <2>2
  <2> QED
    BY <2>1, <2>2
<1>8. ASSUME r PROVE Len(s) \in 1..Len(s) /\ s[Len(s)] = z
  <2>1. Len(s) = Len(ab) + 1 /\ Len(ab) \in Nat /\ Len(c) = 1
    BY <1>1, <1>3, <1>5, <1>8
  <2>2. s[Len(ab) + 1] = c[(Len(ab) + 1) - Len(ab)]
    BY <1>3, <2>1
  <2>3. (Len(ab) + 1) - Len(ab) = 1
    BY <2>1
  <2> QED
    BY <1>1, <1>8, <2>1, <2>2, <2>3
<1>9. ASSUME NEW n \in 1..Len(s)
      PROVE  \/ p /\ n = 1
             \/ q /\ n = (IF p THEN 2 ELSE 1) /\ n < Len(s) + (IF r THEN 0 ELSE 1)
             \/ r /\ n = Len(s)
  BY <1>4
<1>10. Chosen(s, p, x, q, y, r, z)
  BY <1>3, <1>4, <1>6, <1>7, <1>8, <1>9 DEF Chosen
<1> QED
  BY <1>3, <1>10 DEF a, b, c, ab, s

\* What the generator authors is a holding, named by the instant and dated by it.
LEMMA Evaluations ==
    ASSUME now \in Ticks, NEW era \in Authored
    PROVE  /\ Evaluated(era) \in Holdings /\ Evaluated(era).id = <<era, now>>
           /\ Evaluated(era).id[1] = era /\ Evaluated(era).tick = now
           /\ Live(Evaluated(era)) /\ <<era, now>> \in Ids
<1>1. <<era, now>> \in Ids
  BY DEF Ids
<1> QED
  BY <1>1 DEF Evaluated, Staging, Holdings, Fields, Live

\* The now-cast held is the one pointed to, dated no later than now.
LEMMA Standing ==
    ASSUME Inv, Held("nowcast") # {}
    PROVE  /\ pointer["nowcast"] # None /\ StandingDate = date[pointer["nowcast"]]
           /\ StandingDate \in 0..now
<1>1. \A i \in Held("nowcast") : i \in Ids /\ field[i] # None /\ EraOf[i] = "nowcast"
  BY DEF Held
<1>2. \A i \in Held("nowcast") :
         pointer["nowcast"] = i /\ i # None /\ date[i] \in Nat /\ date[i] <= now
  <2>1. \A i \in Ids : i # None
    BY AuthorsAssumption
  <2>2. \A i \in Held("nowcast") : pointer["nowcast"] = i
    BY <1>1 DEF Inv, Proved!StoreInv, Proved!OneNowcast, Proved!Held
  <2>3. \A i \in Held("nowcast") : date[i] \in Nat
    BY <1>1 DEF Inv, Proved!StoreInv, Proved!TypeOK
  <2>4. \A i \in Held("nowcast") : date[i] <= now
    BY <1>1 DEF Inv, Dates
  <2> QED
    BY <1>1, <2>1, <2>2, <2>3, <2>4
<1>3. (CHOOSE i \in Held("nowcast") : TRUE) \in Held("nowcast")
  OBVIOUS
<1>4. now \in Nat
  BY AuthorsAssumption DEF Inv, Types, CrewTypes, Ticks
<1>5. /\ (CHOOSE i \in Held("nowcast") : TRUE) = pointer["nowcast"]
      /\ pointer["nowcast"] # None
  BY <1>2, <1>3
<1>6. date[pointer["nowcast"]] \in Nat /\ date[pointer["nowcast"]] <= now
  BY <1>2, <1>3, <1>5
<1>7. StandingDate = date[pointer["nowcast"]]
  BY <1>5, Zenon DEF StandingDate
<1> QED
  BY <1>4, <1>5, <1>6, <1>7

\* What the generator makes of a sample, the first or a later one.
Provides ==
    /\ work' \in Seq(Holdings)
    /\ \A n \in 1..Len(work') :
          /\ work'[n].id[1] \in Authored /\ work'[n] = Evaluated(work'[n].id[1])
          /\ work'[n].id[1] = "nowcast" => n = Len(work')
          /\ work'[n].id[1] # "nowcast" => now = 0 /\ field[work'[n].id] = None
    /\ \A m, n \in 1..Len(work') : work'[m].id = work'[n].id => m = n
    /\ \A era \in {"archive", "departure"} :
          field[<<era, 0>>] # None \/ \E n \in 1..Len(work') : work'[n].id = <<era, 0>>
    /\ lastNowcast' \in 0..now /\ now - lastNowcast' < NowcastInterval
    /\ \/ pointer["nowcast"] # None /\ date[pointer["nowcast"]] >= lastNowcast'
       \/ lastNowcast' = now /\ \E n \in 1..Len(work') : work'[n].id = <<"nowcast", now>>

\* A first sample provides what the store lacks (generator.ts:214-237).
LEMMA FirstSample ==
    ASSUME Inv, Hear, Head(hearing) = "generator", Provision, ~provisioned
    PROVE  Provides
<1> DEFINE due == Held("nowcast") = {} \/ Lapsed(StandingDate)
           p == Held("archive") = {}
           q == Held("departure") = {}
           x == Evaluated("archive")
           y == Evaluated("departure")
           z == Evaluated("nowcast")
<1>1. /\ work' = Only(p, x) \o Only(q, y) \o Only(due, z)
      /\ lastNowcast' = IF due THEN now ELSE StandingDate
  BY DEF Provision, Undertake
<1>2. /\ now \in Nat /\ now \in Ticks
      /\ \A era \in {"archive", "departure"} :
            /\ \A i \in Held(era) : i[2] = 0
            /\ phase # "boot" => field[<<era, 0>>] # None
  BY Hearings
<1>3. {"archive", "departure", "nowcast"} = Authored
  BY DEF Authored
<1>4. /\ x \in Holdings /\ x.id = <<"archive", now>> /\ x.id[1] = "archive"
      /\ y \in Holdings /\ y.id = <<"departure", now>> /\ y.id[1] = "departure"
      /\ z \in Holdings /\ z.id = <<"nowcast", now>> /\ z.id[1] = "nowcast"
      /\ <<"archive", now>> \in Ids /\ <<"departure", now>> \in Ids
  BY <1>2, <1>3, Evaluations
<1>5. ASSUME NEW era \in {"archive", "departure"}, Held(era) = {}
      PROVE  now = 0 /\ field[<<era, now>>] = None
  <2>1. <<era, 0>> \in Ids /\ EraOf[<<era, 0>>] = era
    <3>1. 0 \in Ticks
      BY AuthorsAssumption DEF Ticks
    <3>2. <<era, 0>> \in Ids /\ <<era, 0>>[1] = era
      BY <3>1, IdNames DEF Authored
    <3> QED
      BY <3>2, EraNames DEF Authored
  <2>2. field[<<era, 0>>] = None
    BY <1>5, <2>1 DEF Held
  <2>3. phase = "boot"
    BY <1>2, <2>2
  <2>4. now = 0
    BY <2>3 DEF Inv, Staged, Early
  <2> QED
    BY <2>2, <2>4
<1>6. ASSUME NEW era \in {"archive", "departure"}, Held(era) # {}
      PROVE  field[<<era, 0>>] # None
  <2>1. PICK i \in Ids : field[i] # None /\ EraOf[i] = era /\ i[2] = 0
    BY <1>2, <1>6 DEF Held
  <2>2. i[1] = era /\ i = <<i[1], i[2]>>
    BY <2>1, EraNames, IdNames DEF Authored
  <2> QED
    BY <2>1, <2>2
<1>7. p \in BOOLEAN /\ q \in BOOLEAN /\ due \in BOOLEAN
  BY DEF Lapsed
<1>8. /\ p => now = 0 /\ field[x.id] = None
      /\ q => now = 0 /\ field[y.id] = None
      /\ ~p => field[<<"archive", 0>>] # None
      /\ ~q => field[<<"departure", 0>>] # None
  BY <1>4, <1>5, <1>6
<1>9. ~due => /\ pointer["nowcast"] # None /\ StandingDate = date[pointer["nowcast"]]
              /\ StandingDate \in 0..now /\ now - StandingDate < NowcastInterval
  <2>1. ~due => Held("nowcast") # {} /\ ~(now - StandingDate >= NowcastInterval)
    BY DEF Lapsed
  <2>2. NowcastInterval \in Nat
    BY AuthorsAssumption
  <2>3. Held("nowcast") # {} =>
           /\ pointer["nowcast"] # None /\ StandingDate = date[pointer["nowcast"]]
           /\ StandingDate \in 0..now
    BY Standing
  <2> HIDE DEF due
  <2> QED
    BY <1>2, <2>1, <2>2, <2>3
<1>10. /\ work' \in Seq(Holdings) /\ Len(work') \in Nat
       /\ \A n \in 1..Len(work') :
             \/ p /\ n = 1 /\ work'[n] = x
             \/ q /\ n < Len(work') + (IF due THEN 0 ELSE 1) /\ work'[n] = y
                  /\ n = IF p THEN 2 ELSE 1
             \/ due /\ n = Len(work') /\ work'[n] = z
       /\ p => \E n \in 1..Len(work') : work'[n] = x
       /\ q => \E n \in 1..Len(work') : work'[n] = y
       /\ due => \E n \in 1..Len(work') : work'[n] = z
  <2> HIDE DEF p, q, due, x, y, z
  <2>1. x \in Holdings /\ y \in Holdings /\ z \in Holdings
    BY <1>4
  <2> QED
    <3>1. work' \in Seq(Holdings) /\ Chosen(work', p, x, q, y, due, z)
      BY <1>1, <1>7, <2>1, OnlyThree
    <3> QED
      BY <3>1 DEF Chosen
<1>11. now - now < NowcastInterval /\ now \in 0..now
  BY <1>2, AuthorsAssumption
<1>12. x = Evaluated(x.id[1]) /\ y = Evaluated(y.id[1]) /\ z = Evaluated(z.id[1])
  BY <1>4
<1> HIDE DEF p, q, due, x, y, z
<1>13. \A n \in 1..Len(work') :
          /\ work'[n].id[1] \in Authored /\ work'[n] = Evaluated(work'[n].id[1])
          /\ work'[n].id[1] = "nowcast" => n = Len(work')
          /\ work'[n].id[1] # "nowcast" => now = 0 /\ field[work'[n].id] = None
  <2> SUFFICES ASSUME NEW n \in 1..Len(work')
               PROVE  /\ work'[n].id[1] \in Authored /\ work'[n] = Evaluated(work'[n].id[1])
                      /\ work'[n].id[1] = "nowcast" => n = Len(work')
                      /\ work'[n].id[1] # "nowcast" =>
                            now = 0 /\ field[work'[n].id] = None
    OBVIOUS
  <2>1. CASE p /\ work'[n] = x
    BY <1>3, <1>4, <1>8, <1>12, <2>1
  <2>2. CASE q /\ work'[n] = y
    BY <1>3, <1>4, <1>8, <1>12, <2>2
  <2>3. CASE due /\ n = Len(work') /\ work'[n] = z
    BY <1>3, <1>4, <1>12, <2>3
  <2> QED
    BY <1>10, <2>1, <2>2, <2>3
<1>14. \A m, n \in 1..Len(work') : work'[m].id = work'[n].id => m = n
  <2>1. x.id # y.id /\ x.id # z.id /\ y.id # z.id
    BY <1>4
  <2>2. x # y /\ x # z /\ y # z
    BY <2>1
  <2>3. \A n \in 1..Len(work') :
           /\ work'[n].id = x.id => n = 1 /\ p
           /\ work'[n].id = y.id => n = IF p THEN 2 ELSE 1
           /\ work'[n].id = z.id => n = Len(work')
           /\ work'[n].id \in {x.id, y.id, z.id}
    <3> SUFFICES ASSUME NEW n \in 1..Len(work')
                 PROVE  /\ work'[n].id = x.id => n = 1 /\ p
                        /\ work'[n].id = y.id => n = IF p THEN 2 ELSE 1
                        /\ work'[n].id = z.id => n = Len(work')
                        /\ work'[n].id \in {x.id, y.id, z.id}
      OBVIOUS
    <3>1. \/ p /\ n = 1 /\ work'[n] = x
          \/ work'[n] = y /\ n = IF p THEN 2 ELSE 1
          \/ n = Len(work') /\ work'[n] = z
      BY <1>10
    <3> QED
      BY <2>1, <3>1
  <2> QED
    BY <2>3
<1>15. \A era \in {"archive", "departure"} :
          field[<<era, 0>>] # None \/ \E n \in 1..Len(work') : work'[n].id = <<era, 0>>
  <2>1. field[<<"archive", 0>>] # None
           \/ \E n \in 1..Len(work') : work'[n].id = <<"archive", 0>>
    BY <1>4, <1>8, <1>10
  <2>2. field[<<"departure", 0>>] # None
           \/ \E n \in 1..Len(work') : work'[n].id = <<"departure", 0>>
    BY <1>4, <1>8, <1>10
  <2> QED
    BY <2>1, <2>2
<1>16. /\ lastNowcast' \in 0..now /\ now - lastNowcast' < NowcastInterval
       /\ \/ pointer["nowcast"] # None /\ date[pointer["nowcast"]] >= lastNowcast'
          \/ lastNowcast' = now /\ \E n \in 1..Len(work') : work'[n].id = <<"nowcast", now>>
  <2>1. CASE due
    <3>1. lastNowcast' = now /\ \E n \in 1..Len(work') : work'[n].id = <<"nowcast", now>>
      BY <1>1, <1>4, <1>10, <2>1 DEF due
    <3> QED
      BY <1>11, <3>1
  <2>2. CASE ~due
    <3>1. lastNowcast' = StandingDate
      BY <1>1, <2>2 DEF due
    <3> QED
      BY <1>9, <2>2, <3>1
  <2> QED
    BY <2>1, <2>2
<1> QED
  BY <1>10, <1>13, <1>14, <1>15, <1>16 DEF Provides

\* A later one lacks nothing but a now-cast the cadence is due.
LEMMA LaterSample ==
    ASSUME Inv, Hear, Head(hearing) = "generator", Cadence, provisioned
    PROVE  Provides
<1>1. /\ work' = Only(Lapsed(lastNowcast), Evaluated("nowcast"))
      /\ lastNowcast' = IF Lapsed(lastNowcast) THEN now ELSE lastNowcast
  BY DEF Cadence, Undertake
<1>2. /\ now \in Nat /\ now \in Ticks
      /\ \A era \in {"archive", "departure"} : field[<<era, 0>>] # None
      /\ pointer["nowcast"] # None /\ date[pointer["nowcast"]] >= lastNowcast
  BY Hearings
<1>3. /\ Evaluated("nowcast") \in Holdings
      /\ Evaluated("nowcast").id = <<"nowcast", now>>
      /\ Evaluated("nowcast").id[1] = "nowcast" /\ "nowcast" \in Authored
  BY <1>2, Evaluations DEF Authored
<1>4. lastNowcast \in 0..now /\ NowcastInterval \in Nat \ {0}
  BY AuthorsAssumption DEF Inv, Types, CrewTypes
<1>5. CASE Lapsed(lastNowcast)
  <2>1. work' = <<Evaluated("nowcast")>> /\ lastNowcast' = now
    BY <1>1, <1>5 DEF Only
  <2>2. /\ work' \in Seq(Holdings) /\ Len(work') = 1 /\ work'[1] = Evaluated("nowcast")
    BY <1>3, <2>1
  <2>3. \A n \in 1..Len(work') : n = 1
    BY <2>2
  <2>4. 1 \in 1..Len(work') /\ work'[1].id = <<"nowcast", now>>
    BY <1>3, <2>2
  <2>5. lastNowcast' \in 0..now /\ now - lastNowcast' < NowcastInterval
    BY <1>2, <1>4, <2>1
  <2>6. \A n \in 1..Len(work') :
           /\ work'[n].id[1] \in Authored /\ work'[n] = Evaluated(work'[n].id[1])
           /\ work'[n].id[1] = "nowcast" => n = Len(work')
           /\ work'[n].id[1] # "nowcast" => now = 0 /\ field[work'[n].id] = None
    BY <1>3, <2>2, <2>3
  <2> QED
    BY <1>2, <2>1, <2>2, <2>3, <2>4, <2>5, <2>6 DEF Provides
<1>6. CASE ~Lapsed(lastNowcast)
  <2>1. work' = <<>> /\ lastNowcast' = lastNowcast
    BY <1>1, <1>6 DEF Only
  <2>2. Len(work') = 0 /\ work' \in Seq(Holdings) /\ \A n \in 1..Len(work') : FALSE
    BY <2>1
  <2>3. lastNowcast' \in 0..now /\ now - lastNowcast' < NowcastInterval
    BY <1>2, <1>4, <1>6, <2>1 DEF Lapsed
  <2> QED
    BY <1>2, <2>1, <2>2, <2>3 DEF Provides
<1> QED
  BY <1>5, <1>6

\* The generator's part: provisioning at the first sample, the cadence at the others.
LEMMA GeneratorHears ==
    ASSUME Inv, Hear, Head(hearing) = "generator"
    PROVE  Inv'
<1>1. /\ provisioned' = TRUE /\ UNCHANGED <<replay, analystVars, runnerVars, plannerVars>>
      /\ IF provisioned THEN Cadence ELSE Provision
  BY DEF Hear, HearGenerator
<1>2. author' = IF work' = <<>> THEN None ELSE "generator"
  BY <1>1 DEF Cadence, Provision, Undertake
<1>3. Provides
  <2>1. provisioned \in BOOLEAN
    BY DEF Inv, Types, CrewTypes
  <2> QED
    BY <1>1, <2>1, FirstSample, LaterSample
<1>4. /\ author = None /\ work = <<>> /\ awaiting = None /\ awaiting' = None
      /\ UNCHANGED <<field, date, pointer, book, now, phase, artefact, order, prompts,
                     stops, lastAnnounced, replay, faultPending, analystTick, runnerTick,
                     occupying>>
      /\ hearing' \in Seq(All) /\ Proved!StoreInv' /\ Dates' /\ Staged'
      /\ now \in Nat /\ now \in Ticks /\ Up("generator")
  BY <1>1, Hearings DEF analystVars, runnerVars
<1>5. /\ author # "source" /\ author' # "source" /\ author' # "runner"
      /\ author' # "analyst" /\ author' # "planner" /\ "generator" \in All
      /\ author' \in {"generator", None} /\ "generator" # None
  BY <1>2, <1>4, AuthorsAssumption DEF All, Crew
<1>6. work' \in Seq(Holdings) /\ DOMAIN work' = 1..Len(work') /\ Len(work') \in Nat
  BY <1>3 DEF Provides
<1>7. CrewTypes'
  <2>1. lastNowcast' \in 0..now'
    BY <1>3, <1>4 DEF Provides
  <2> QED
    BY <1>1, <1>4, <2>1 DEF Inv, Types, CrewTypes
<1>8. WorkTypes'
  BY <1>2, <1>4, <1>5, <1>6 DEF Inv, Types, WorkTypes
<1>9. Replaying'
  BY <1>4, <1>5, ReplayKept
<1>10. Generating'
  <2>1. \A era : Evaluated(era)' = Evaluated(era)
    BY <1>4 DEF Evaluated
  <2> QED
    BY <1>3, <1>4, <1>6, <2>1 DEF Generating, Provides
<1>11. Analysing' /\ Releasing'
  BY <1>4, <1>5 DEF Analysing, Releasing, Inv, Working, Early, Own, Analysed
<1>12. Forgotten'
  <2>1. UNCHANGED <<errorRun, plan>>
    BY <1>1 DEF plannerVars
  <2> QED
    BY <1>4, <2>1 DEF Inv, Forgotten, Up
<1>13. Instances'
  <2>1. Whole(artefact) /\ pointer["instance"] # None =>
          /\ pointer["instance"][1] = "forecast"
          /\ field[<<"spread", pointer["instance"][2]>>] # None
    BY Hearings
  <2> QED
    BY <1>4, <1>5, <2>1 DEF Instances
<1>14. PlanTypes' /\ Planning'
  BY <1>1, HeardByOthers
<1>15. ASSUME NEW n \in 1..Len(work') PROVE author' = "generator"
  <2>1. work' # <<>>
    BY <1>6, <1>15
  <2> QED
    BY <1>2, <2>1
<1>16. Provisions'
  <2>1. \A era \in {"archive", "departure"} :
          field[<<era, 0>>] # None \/ \E n \in 1..Len(work') : work'[n].id = <<era, 0>>
    BY <1>3 DEF Provides
  <2>2. \A era \in {"archive", "departure"} : \A i \in Held(era) : i[2] = 0
    BY Hearings
  <2>3. \A era : Held(era)' = Held(era)
    BY <1>4 DEF Held
  <2> QED
    BY <1>4, <1>6, <1>15, <2>1, <2>2, <2>3 DEF Provisions
<1>17. ProvisionedAtBoot'
  BY <1>1 DEF ProvisionedAtBoot
<1>18. Cadenced'
  BY <1>3, <1>4, <1>6, <1>15 DEF Cadenced, Provides
<1> QED
  BY <1>4, <1>7, <1>8, <1>9, <1>10, <1>11, <1>12, <1>13, <1>14, <1>16, <1>17, <1>18
     DEF Inv, Types, Working

\* Whoever hears the sample, the invariant is kept.
LEMMA HearSteps == Inv /\ Hear => Inv'
<1>1. Inv /\ Hear => Head(hearing) \in All
  BY Hearings
<1>2. \A c \in All : c \in {"source", "generator", "analyst", "runner", "planner"}
  BY DEF All, Crew
<1> QED
  BY <1>1, <1>2, SourceHears, GeneratorHears, AnalystHears, RunnerHears, PlannerHears

-----------------------------------------------------------------------------
(* What is asked of them between drains, and the announcement.             *)

\* Between drains nothing is under way.
LEMMA Idly ==
    ASSUME Inv, Idle
    PROVE  /\ author = None /\ awaiting = None /\ hearing = <<>> /\ work = <<>>
           /\ author \notin {"source", "generator", "analyst", "runner", "planner"}
           /\ now \in Nat /\ now \in Ticks /\ now <= now /\ artefact \in Artefacts
           /\ prompts \in 0..MaxPrompts /\ MaxPrompts \in Nat
           /\ \A era \in {"archive", "departure"} :
                 provisioned \/ phase # "boot" => field[<<era, 0>>] # None
           /\ phase = "boot" => provisioned
           /\ provisioned =>
                 pointer["nowcast"] # None /\ date[pointer["nowcast"]] >= lastNowcast
<1>1. /\ author = None /\ awaiting = None /\ hearing = <<>> /\ work = <<>>
      /\ now \in Nat /\ now \in Ticks /\ now <= now /\ artefact \in Artefacts
      /\ prompts \in 0..MaxPrompts /\ MaxPrompts \in Nat
  BY AuthorsAssumption DEF Idle, Inv, Types, WorkTypes, CrewTypes, Ticks
<1>2. author \notin {"source", "generator", "analyst", "runner", "planner"}
  BY <1>1, AuthorsAssumption DEF All, Crew
<1>3. phase = "boot" => provisioned
  BY <1>1 DEF Inv, ProvisionedAtBoot, Among
<1>4. /\ \A era \in {"archive", "departure"} :
            provisioned \/ phase # "boot" => field[<<era, 0>>] # None
      /\ provisioned =>
            pointer["nowcast"] # None /\ date[pointer["nowcast"]] >= lastNowcast
  BY <1>2 DEF Inv, Provisions, Cadenced
<1> QED
  BY <1>1, <1>2, <1>3, <1>4

\* A faulty sample, a sounding and a replan touch one author's memory.
LEMMA AskedOfOne ==
    ASSUME Inv, FaultySample \/ Sounding \/ ReplanOnRequest
    PROVE  Inv'
<1>1. Idle
  BY DEF FaultySample, Sounding, ReplanOnRequest, MayAsk
<1>2. /\ UNCHANGED <<storeVars, now, phase, artefact, order, hearing, author, work,
                     awaiting, replay, generatorVars, analystTick, runnerVars,
                     plannerTick, errorRun, stops, lastAnnounced>>
      /\ \/ prompts' = prompts
         \/ prompts < MaxPrompts /\ prompts' = prompts + 1
      /\ faultPending' \in {faultPending, TRUE} /\ placed' \in {placed, TRUE}
  BY DEF FaultySample, Sounding, ReplanOnRequest, MayAsk, bounds, analystVars, plannerVars
<1>3. /\ \/ UNCHANGED <<lastPlanTick, plan>>
         \/ lastPlanTick' = plannerTick /\ plan' = Replan(plannerTick)
      /\ \/ UNCHANGED placed
         \/ placed' = TRUE /\ UNCHANGED <<lastPlanTick, plan>>
  BY DEF FaultySample, Sounding, ReplanOnRequest, plannerVars
<1>4. Proved!StoreInv' /\ WorkTypes' /\ Working' /\ Dates' /\ Instances'
  <2>1. now <= now' /\ now' \in Ticks
    BY <1>1, <1>2, Idly
  <2>2. UNCHANGED <<replay, occupying, phase>>
    BY <1>2 DEF runnerVars
  <2>3. Quiet
    BY <1>1, <1>2, <2>1, <2>2 DEF Quiet, Early
  <2> QED
    BY <2>3, QuietSteps
<1>5. UNCHANGED <<field, date, pointer, book, provisioned, lastNowcast, runnerTick,
                  occupying>>
  BY <1>2 DEF storeVars, generatorVars, runnerVars
<1>6. CrewTypes'
  <2>1. prompts' \in 0..MaxPrompts
    BY <1>1, <1>2, Idly
  <2>2. faultPending' \in BOOLEAN
    BY <1>2 DEF Inv, Types, CrewTypes
  <2> QED
    BY <1>2, <1>5, <2>1, <2>2 DEF Inv, Types, CrewTypes
<1>7. Staged'
  BY <1>2 DEF Inv, Staged, Early, Up
<1>8. Provisions' /\ ProvisionedAtBoot' /\ Cadenced'
  BY <1>2, <1>5 DEF Inv, Provisions, ProvisionedAtBoot, Cadenced, Held
<1>9. CASE UNCHANGED <<lastPlanTick, plan>>
  <2>1. placed' \in BOOLEAN
    BY <1>2 DEF Inv, Types, PlanTypes
  <2>2. PlanTypes'
    BY <1>2, <1>9, <2>1 DEF Inv, Types, PlanTypes
  <2>3. Planning'
    <3>1. CanPlan => CanPlan'
      BY <1>2, <1>5 DEF CanPlan
    <3> QED
      BY <1>2, <1>5, <1>9, <3>1 DEF Inv, Planning
  <2>4. Forgotten'
    BY <1>2, <1>5, <1>9 DEF Inv, Forgotten, Up
  <2> QED
    BY <1>4, <1>6, <1>7, <1>8, <2>2, <2>3, <2>4 DEF Inv, Types
<1>10. CASE lastPlanTick' = plannerTick /\ plan' = Replan(plannerTick) /\ UNCHANGED placed
  <2>1. /\ plannerTick \in 0..now /\ plannerTick \in Nat /\ now \in Nat
        /\ ReplanInterval \in Nat \ {0} /\ plannerTick # -1
        /\ errorRun \in Ticks \cup {None} /\ plannerTick \in Ticks
    <3>1. plannerTick \in 0..now /\ now \in 0..MaxTick /\ MaxTick \in Nat
      BY AuthorsAssumption DEF Inv, Types, PlanTypes, CrewTypes, Ticks
    <3> QED
      BY <3>1, AuthorsAssumption DEF Inv, Types, PlanTypes, Ticks
  <2>2. CanPlan' <=> CanPlan
    BY <1>2, <1>5, <1>10 DEF CanPlan
  <2>3. \/ CanPlan /\ plan' = [run |-> errorRun, tick |-> plannerTick] /\ errorRun # None
        \/ plan' = None /\ plan = None
    <3>1. plan # None => CanPlan
      BY DEF Inv, Planning
    <3> QED
      BY <1>10, <3>1 DEF Replan, CanPlan
  <2>4. \/ plan' = None
        \/ plan' \in Plans /\ plan'.run = errorRun /\ plan'.tick = plannerTick
    BY <2>1, <2>3 DEF Plans
  <2>5. PlanTypes'
    <3>1. lastPlanTick' \in -1..plannerTick
      BY <1>10, <2>1
    <3> QED
      BY <1>2, <1>10, <2>4, <3>1 DEF Inv, Types, PlanTypes
  <2>6. Planning'
    <3>1. plannerTick - plannerTick < ReplanInterval /\ plannerTick <= plannerTick
      BY <2>1
    <3>2. plan' # None => CanPlan
      BY <2>3
    <3> QED
      BY <1>2, <1>5, <1>10, <2>1, <2>2, <2>4, <3>1, <3>2 DEF Inv, Planning
  <2>7. Forgotten'
    <3>1. ~Up("planner") => errorRun = None /\ plan = None
      BY DEF Inv, Forgotten
    <3>2. ~Up("planner") => plan' = None
      BY <2>3, <3>1
    <3> QED
      BY <1>2, <1>5, <3>1, <3>2 DEF Inv, Forgotten, Up
  <2> QED
    BY <1>4, <1>6, <1>7, <1>8, <2>5, <2>6, <2>7 DEF Inv, Types
<1> QED
  BY <1>3, <1>9, <1>10

\* A prompted now-cast is authored as one that is due.
LEMMA PromptedNowcast ==
    ASSUME Inv, NowcastOnRequest
    PROVE  Inv'
<1>1. /\ Idle /\ provisioned /\ phase = "open"
      /\ prompts < MaxPrompts /\ prompts' = prompts + 1
      /\ work' = <<Evaluated("nowcast")>> /\ lastNowcast' = now
      /\ UNCHANGED <<storeVars, now, phase, artefact, order, hearing, awaiting,
                     replay, provisioned, analystVars, runnerVars, plannerVars,
                     stops, lastAnnounced>>
  BY DEF NowcastOnRequest, MayAsk, Undertake
<1>2. author' = "generator"
  BY DEF NowcastOnRequest, Undertake
<1>3. /\ author = None /\ awaiting = None /\ hearing = <<>> /\ work = <<>>
      /\ author \notin {"source", "generator", "analyst", "runner", "planner"}
      /\ now \in Nat /\ now \in Ticks /\ prompts' \in 0..MaxPrompts
      /\ \A era \in {"archive", "departure"} : field[<<era, 0>>] # None
      /\ pointer["nowcast"] # None
  BY <1>1, Idly
<1>4. UNCHANGED <<field, date, pointer, book, analystTick, faultPending, runnerTick,
                  occupying, plannerTick, placed, errorRun, lastPlanTick, plan>>
  BY <1>1 DEF storeVars, analystVars, runnerVars, plannerVars
<1>5. /\ Evaluated("nowcast") \in Holdings /\ Evaluated("nowcast").id = <<"nowcast", now>>
      /\ Evaluated("nowcast").id[1] = "nowcast" /\ "nowcast" \in Authored
  BY <1>3, Evaluations DEF Authored
<1>6. /\ work' \in Seq(Holdings) /\ Len(work') = 1 /\ work'[1] = Evaluated("nowcast")
      /\ DOMAIN work' = 1..1 /\ work' # <<>>
      /\ \A n \in DOMAIN work' : n = 1
  BY <1>1, <1>5
<1>7. Proved!StoreInv'
  BY <1>1, StoreStays DEF Inv
<1>8. CrewTypes'
  <2>1. lastNowcast' \in 0..now'
    BY <1>1, <1>3
  <2> QED
    BY <1>1, <1>3, <1>4, <2>1 DEF Inv, Types, CrewTypes
<1>9. WorkTypes'
  <2>1. "generator" \in All /\ "generator" # None
    BY AuthorsAssumption DEF All, Crew
  <2> QED
    BY <1>1, <1>2, <1>4, <1>6, <2>1 DEF Inv, Types, WorkTypes
<1>10. PlanTypes' /\ Planning'
  BY <1>1, <1>4 DEF Inv, Types, PlanTypes, Planning, CanPlan
<1>11. Staged'
  BY <1>1 DEF Inv, Staged, Early, Up
<1>12. Forgotten'
  BY <1>1, <1>4 DEF Inv, Forgotten, Up
<1>13. Replaying'
  BY <1>1, <1>2, <1>3, ReplayKept
<1>14. Generating'
  <2>1. \A era : Evaluated(era)' = Evaluated(era)
    BY <1>1 DEF Evaluated
  <2>2. \A n \in DOMAIN work' :
          /\ work'[n].id[1] \in Authored /\ work'[n] = Evaluated(work'[n].id[1])
          /\ n = Len(work') /\ work'[n].id[1] = "nowcast"
    BY <1>5, <1>6
  <2> QED
    BY <1>6, <2>1, <2>2 DEF Generating
<1>15. Analysing' /\ Releasing'
  BY <1>1, <1>2, <1>3, <1>4 DEF Analysing, Releasing, Inv, Working, Early, Own, Analysed
<1>16. Dates'
  BY <1>1, <1>3, <1>4 DEF Inv, Dates, Analysed, Own
<1>17. Provisions' /\ ProvisionedAtBoot'
  BY <1>1, <1>3, <1>4 DEF Inv, Provisions, ProvisionedAtBoot, Held
<1>18. Cadenced'
  <2>1. now - now < NowcastInterval
    BY <1>3, AuthorsAssumption
  <2> QED
    BY <1>1, <1>2, <1>5, <1>6, <2>1 DEF Cadenced
<1>19. Instances'
  BY <1>1, <1>2, <1>3, <1>4 DEF Inv, Instances
<1> QED
  BY <1>7, <1>8, <1>9, <1>10, <1>11, <1>12, <1>13, <1>14, <1>15, <1>16, <1>17, <1>18, <1>19
     DEF Inv, Types, Working

\* What is asked for under the present tick, once whoever an artefact speaks for has
\* been held back, is no run of the artefact's.
LEMMA NewRun ==
    ASSUME Inv, Up("analyst")
    PROVE  Early \/ Own(now)
<1> SUFFICES ASSUME ~Early, artefact # <<>> PROVE now >= PreRollTicks
  BY DEF Own
<1>1. phase \in {"winding", "restored", "open"}
  BY DEF Inv, Types, CrewTypes, Early
<1>2. phase # "winding"
  <2> SUFFICES ASSUME phase = "winding" PROVE FALSE
    OBVIOUS
  <2>1. order = <<"source", "planner">>
    BY DEF Inv, Staged
  <2>2. PICK n \in DOMAIN order : order[n] = "analyst"
    BY DEF Up
  <2>3. n = 1 \/ n = 2
    BY <2>1, <2>2
  <2> QED
    BY <2>1, <2>2, <2>3
<1> QED
  BY <1>1, <1>2 DEF Inv, Staged

\* A run requested: the analysis is under way.
LEMMA RequestSteps ==
    ASSUME Inv, Request
    PROVE  Inv'
<1>1. /\ Idle /\ Up("analyst") /\ prompts < MaxPrompts /\ prompts' = prompts + 1
      /\ faultPending' = FALSE
      /\ UNCHANGED <<storeVars, now, phase, artefact, order, hearing, replay,
                     generatorVars, analystTick, runnerVars, plannerVars, stops,
                     lastAnnounced>>
  BY DEF Request, MayAsk
<1>2. /\ author = None /\ awaiting = None /\ hearing = <<>> /\ work = <<>>
      /\ author \notin {"source", "generator", "analyst", "runner", "planner"}
      /\ now \in Nat /\ now \in Ticks /\ prompts' \in 0..MaxPrompts
      /\ \A era \in {"archive", "departure"} :
            provisioned \/ phase # "boot" => field[<<era, 0>>] # None
      /\ provisioned =>
            pointer["nowcast"] # None /\ date[pointer["nowcast"]] >= lastNowcast
  BY <1>1, Idly
<1>3. PICK run \in Ticks, dated \in BOOLEAN, content \in Fields :
         /\ dated => run = now
         /\ Undertake("analyst", <<Staging(<<"analysis", run>>, analystTick, content)>>)
         /\ awaiting' = [run |-> run, dated |-> dated, content |-> content]
  <2>1. PICK dated \in BOOLEAN :
           LET run == IF dated THEN now ELSE 0 IN
           /\ dated \/ phase = "open"
           /\ \E content \in IF faultPending \/ field[Background] = Spoilt
                             THEN {Spoilt} ELSE {Clean, Other} :
              /\ Undertake("analyst",
                     <<Staging(<<"analysis", run>>, analystTick, content)>>)
              /\ awaiting' = [run |-> run, dated |-> dated, content |-> content]
    BY DEF Request
  <2> DEFINE run == IF dated THEN now ELSE 0
  <2>2. PICK content \in Fields :
           /\ Undertake("analyst", <<Staging(<<"analysis", run>>, analystTick, content)>>)
           /\ awaiting' = [run |-> run, dated |-> dated, content |-> content]
    BY <2>1 DEF Fields
  <2>3. run \in Ticks
    BY <1>2, AuthorsAssumption DEF Ticks
  <2>4. dated => run = now
    OBVIOUS
  <2> HIDE DEF run
  <2> QED
    BY <2>2, <2>3, <2>4
<1> DEFINE s == Staging(<<"analysis", run>>, analystTick, content)
<1>4. /\ analystTick \in 0..now /\ analystTick \in Ticks
  <2>1. analystTick \in 0..now /\ now \in 0..MaxTick /\ MaxTick \in Nat
    BY AuthorsAssumption DEF Inv, Types, CrewTypes, Ticks
  <2> QED
    BY <2>1 DEF Ticks
<1>5. /\ s \in Holdings /\ s.id = <<"analysis", run>> /\ s.id[1] = "analysis"
      /\ s.tick <= now /\ Live(s) /\ s.recorded = content
  <2>1. <<"analysis", run>> \in Ids
    BY IdNames DEF RunParts
  <2>2. /\ s \in Holdings /\ s.id = <<"analysis", run>> /\ s.tick = analystTick
        /\ Live(s) /\ s.recorded = content
    BY <1>4, <2>1 DEF Staging, Holdings, Live
  <2> QED
    BY <1>2, <1>4, <2>2
<1>6. work' = <<s>> /\ author' = "analyst"
  BY <1>3 DEF Undertake
<1> HIDE DEF s
<1>7. /\ work' \in Seq(Holdings) /\ Len(work') = 1 /\ work'[1] = s /\ work' # <<>>
  BY <1>5, <1>6
<1>8. /\ awaiting'.run = run /\ awaiting'.dated = dated /\ awaiting' \in Runs
      /\ awaiting'.content = content
  BY <1>3 DEF Runs
<1>9. UNCHANGED <<field, date, pointer, book, provisioned, lastNowcast, runnerTick,
                  occupying, plannerTick, placed, errorRun, lastPlanTick, plan>>
  BY <1>1 DEF storeVars, generatorVars, runnerVars, plannerVars
<1>10. Proved!StoreInv'
  BY <1>1, StoreStays DEF Inv
<1>11. CrewTypes'
  BY <1>1, <1>2, <1>9 DEF Inv, Types, CrewTypes
<1>12. WorkTypes'
  <2>1. "analyst" \in All /\ "analyst" # None
    BY AuthorsAssumption DEF All, Crew
  <2> QED
    BY <1>1, <1>6, <1>7, <1>8, <1>9, <2>1 DEF Inv, Types, WorkTypes
<1>13. PlanTypes' /\ Planning'
  BY <1>1, <1>9 DEF Inv, Types, PlanTypes, Planning, CanPlan
<1>14. Staged'
  BY <1>1 DEF Inv, Staged, Early, Up
<1>15. Forgotten'
  BY <1>1, <1>9 DEF Inv, Forgotten, Up
<1>16. Replaying'
  BY <1>1, <1>2, <1>6, ReplayKept
<1>17. Generating'
  BY <1>6 DEF Generating
<1>18. Analysing'
  BY <1>1, <1>2, <1>5, <1>6, <1>7, <1>8 DEF Analysing
<1>19. Releasing'
  <2>1. dated => Early \/ Own(now)
    BY <1>1, NewRun
  <2>2. awaiting'.dated => Early \/ Own(awaiting'.run)
    BY <1>3, <1>8, <2>1
  <2>3. /\ Early' <=> Early
        /\ \A r : Own(r)' <=> Own(r)
        /\ \A r, c : Analysed(r, c)' <=> Analysed(r, c)
    BY <1>1, <1>9 DEF Analysed, Own, Early
  <2>4. awaiting'.dated => Early' \/ Own(awaiting.run)'
    BY <1>1, <1>9, <2>2 DEF Own, Early
  <2>5. occupying' # None =>
           /\ Analysed(occupying.run, occupying.content)'
           /\ Early' \/ Own(occupying.run)'
    BY <1>1, <1>9 DEF Inv, Working, Releasing, Analysed, Own, Early
  <2> QED
    BY <1>6, <2>4, <2>5 DEF Releasing
<1>20. Dates'
  BY <1>1, <1>2, <1>9 DEF Inv, Dates, Analysed, Own
<1>21. Provisions' /\ ProvisionedAtBoot' /\ Cadenced'
  BY <1>1, <1>2, <1>6, <1>9 DEF Inv, Provisions, ProvisionedAtBoot, Cadenced, Held
<1>22. Instances'
  BY <1>1, <1>2, <1>6, <1>9 DEF Inv, Instances
<1> QED
  BY <1>10, <1>11, <1>12, <1>13, <1>14, <1>15, <1>16, <1>17, <1>18, <1>19, <1>20, <1>21,
     <1>22 DEF Inv, Types, Working

\* An analysis announced: a free runner is occupied by it, and the planner notices.
LEMMA AnnounceSteps ==
    ASSUME Inv, Announce
    PROVE  Inv'
<1>1. /\ awaiting # None /\ author = None /\ awaiting' = None
      /\ \/ occupying' = occupying
         \/ /\ Up("runner") /\ awaiting.dated
            /\ occupying' = [run |-> awaiting.run, at |-> runnerTick + Cost,
                             content |-> awaiting.content]
      /\ \/ Up("planner") /\ errorRun' = awaiting.run /\ lastPlanTick' = -1
         \/ ~Up("planner") /\ UNCHANGED <<errorRun, lastPlanTick>>
      /\ lastAnnounced' = [run |-> awaiting.run, tick |-> now]
      /\ UNCHANGED <<storeVars, now, phase, artefact, order, hearing, author,
                     work, replay, generatorVars, analystVars, runnerTick,
                     plannerTick, placed, plan, bounds>>
  BY DEF Announce, Notice
<1>2. /\ work = <<>> /\ hearing = <<>> /\ now \in Nat /\ now \in Ticks
      /\ awaiting \in Runs /\ field[<<"analysis", awaiting.run>>] # None
      /\ Analysed(awaiting.run, awaiting.content)
      /\ author \notin {"source", "generator", "analyst", "runner", "planner"}
      /\ plannerTick \in 0..now /\ runnerTick \in 0..now
      /\ Cost \in Nat
  <2>1. author \notin {"source", "generator", "analyst", "runner", "planner"}
    BY <1>1, AuthorsAssumption DEF All, Crew
  <2>2. /\ awaiting \in Runs /\ Analysed(awaiting.run, awaiting.content)
    BY <1>1 DEF Inv, Types, WorkTypes, Working, Analysing, Analysed
  <2>3. awaiting.content # None
    BY <2>2, AuthorsAssumption DEF Runs
  <2>4. field[<<"analysis", awaiting.run>>] # None
    BY <2>2, <2>3 DEF Analysed
  <2>5. now \in Nat /\ now \in Ticks /\ Cost \in Nat
    BY AuthorsAssumption DEF Inv, Types, CrewTypes, Ticks
  <2>6. work = <<>> /\ plannerTick \in 0..now /\ runnerTick \in 0..now
    BY <1>1 DEF Inv, Types, WorkTypes, CrewTypes, PlanTypes
  <2>7. hearing = <<>>
    BY <1>1 DEF Inv, Working, Analysing
  <2> QED
    BY <2>1, <2>2, <2>4, <2>5, <2>6, <2>7
<1>3. /\ awaiting.run \in Ticks /\ awaiting.content \in Fields /\ awaiting.run # None
  BY <1>2, AuthorsAssumption DEF Runs, Ticks
<1>4. UNCHANGED <<field, date, pointer, book, provisioned, lastNowcast, analystTick,
                  faultPending, prompts, stops>>
  BY <1>1 DEF storeVars, generatorVars, analystVars, bounds
<1>5. Proved!StoreInv'
  BY <1>1, StoreStays DEF Inv
<1>6. CrewTypes'
  BY <1>1, <1>4 DEF Inv, Types, CrewTypes
<1>7. \/ occupying' = None
      \/ /\ occupying'.run \in Ticks /\ occupying'.content \in Fields
         /\ occupying'.at \in Nat /\ occupying'.at >= Cost
  <2>1. CASE occupying' = occupying
    BY <2>1 DEF Inv, Types, WorkTypes
  <2>2. CASE occupying' = [run |-> awaiting.run, at |-> runnerTick + Cost,
                           content |-> awaiting.content]
    <3>1. occupying'.at = runnerTick + Cost /\ occupying'.run = awaiting.run
          /\ occupying'.content = awaiting.content
      BY <2>2
    <3>2. runnerTick + Cost \in Nat /\ runnerTick + Cost >= Cost
      BY <1>2
    <3> QED
      BY <1>3, <3>1, <3>2
  <2> QED
    BY <1>1, <2>1, <2>2
<1>8. WorkTypes'
  BY <1>1, <1>7 DEF Inv, Types, WorkTypes
<1>9. /\ lastAnnounced' \in Plans /\ lastAnnounced'.run = awaiting.run
      /\ lastAnnounced'.tick = now
  BY <1>1, <1>2, <1>3 DEF Plans
<1>10. PlanTypes'
  <2>1. lastPlanTick' \in -1..plannerTick' /\ plannerTick' \in 0..now'
    BY <1>1, <1>2 DEF Inv, Types, PlanTypes
  <2>2. errorRun' \in Ticks \cup {None}
    BY <1>1, <1>3 DEF Inv, Types, PlanTypes
  <2> QED
    BY <1>1, <1>9, <2>1, <2>2 DEF Inv, Types, PlanTypes
<1>11. Planning'
  <2>1. CASE Up("planner")
    <3>1. errorRun' = awaiting.run /\ lastPlanTick' = -1
      BY <1>1, <2>1
    <3>2. plan' = plan /\ plannerTick' = plannerTick /\ now >= plannerTick /\ now <= now
      BY <1>1, <1>2
    <3>3. plan # None => /\ CanPlan /\ plan.tick <= plannerTick
                         /\ plannerTick - plan.tick < ReplanInterval
      BY DEF Inv, Planning
    <3>4. plan # None => CanPlan'
      BY <1>1, <1>2, <1>3, <1>4, <3>1, <3>3 DEF CanPlan
    <3> QED
      BY <1>1, <1>2, <1>4, <1>9, <3>1, <3>2, <3>3, <3>4 DEF Planning
  <2>2. CASE ~Up("planner")
    <3>1. errorRun = None /\ plan = None
      BY <2>2 DEF Inv, Forgotten
    <3>2. errorRun' = None /\ plan' = None /\ lastPlanTick' = lastPlanTick
      BY <1>1, <2>2, <3>1
    <3>3. now <= now
      BY <1>2
    <3> QED
      BY <1>1, <1>9, <3>2, <3>3 DEF Inv, Planning
  <2> QED
    BY <2>1, <2>2
<1>12. Staged'
  BY <1>1 DEF Inv, Staged, Early, Up
<1>13. Forgotten'
  <2>1. ~Up("runner") => occupying' = None
    BY <1>1 DEF Inv, Forgotten
  <2>2. ~Up("planner") => errorRun' = None /\ plan' = None
    BY <1>1 DEF Inv, Forgotten
  <2> QED
    BY <1>1, <1>4, <2>1, <2>2 DEF Inv, Forgotten, Up
<1>14. Replaying'
  BY <1>1, <1>2, ReplayKept
<1>15. Generating' /\ Analysing'
  BY <1>1, <1>2 DEF Generating, Analysing
<1>16. Releasing'
  <2>1. occupying' # None =>
           /\ Analysed(occupying'.run, occupying'.content)
           /\ Early \/ Own(occupying'.run)
    <3>1. CASE occupying' = occupying
      BY <3>1 DEF Inv, Working, Releasing
    <3>2. CASE /\ awaiting.dated
               /\ occupying' = [run |-> awaiting.run, at |-> runnerTick + Cost,
                                content |-> awaiting.content]
      <4>1. occupying'.run = awaiting.run /\ occupying'.content = awaiting.content
        BY <3>2
      <4>2. Early \/ Own(awaiting.run)
        BY <1>1, <3>2 DEF Inv, Working, Releasing
      <4> QED
        BY <1>2, <4>1, <4>2
    <3> QED
      BY <1>1, <3>1, <3>2
  <2>2. occupying' # None =>
           /\ Analysed(occupying.run, occupying.content)'
           /\ Early' \/ Own(occupying.run)'
    BY <1>1, <1>4, <2>1 DEF Analysed, Own, Early
  <2> QED
    BY <1>1, <1>2, <2>2 DEF Releasing
<1>17. Dates'
  BY <1>1, <1>2, <1>4 DEF Inv, Dates, Analysed, Own
<1>18. Provisions' /\ ProvisionedAtBoot' /\ Cadenced'
  BY <1>1, <1>2, <1>4 DEF Inv, Provisions, ProvisionedAtBoot, Cadenced, Held
<1>19. Instances'
  BY <1>1, <1>2, <1>4 DEF Inv, Instances
<1> QED
  BY <1>5, <1>6, <1>8, <1>10, <1>11, <1>12, <1>13, <1>14, <1>15, <1>16, <1>17, <1>18,
     <1>19 DEF Inv, Types, Working

-----------------------------------------------------------------------------
(* A publication.                                                          *)

\* What a publication leaves to be done, by whether it is taken.
Goes(s) ==
    \/ /\ verdict' = "written" /\ Wrote(s) /\ ~Damaged(s) /\ ~Taken(s) /\ ~Late(s)
       /\ work' = Tail(work) /\ awaiting' = awaiting
    \/ /\ verdict' # "written" /\ UNCHANGED <<field, date, pointer, book>>
       /\ Damaged(s) \/ Taken(s) \/ Late(s)
       /\ IF author = "source" THEN work' = Tail(work) /\ awaiting' = awaiting
                               ELSE work' = <<>> /\ awaiting' = None

\* Who publishes, what, and what stays as it was.
LEMMA Publishes ==
    ASSUME Inv, Publish
    PROVE  /\ work[1] \in Holdings /\ Len(work) \in Nat /\ Len(work) >= 1
           /\ work \in Seq(Holdings) /\ DOMAIN work = 1..Len(work)
           /\ Store!Publish(work[1]) /\ Goes(work[1])
           /\ work[1].id \in Ids /\ work[1].recorded \in Fields /\ work[1].recorded # None
           /\ work[1].tick \in Nat /\ work[1].id # None
           /\ author' = IF work' = <<>> THEN None ELSE author
           /\ author \in {"source", "generator", "analyst", "runner"}
           /\ Tail(work) \in Seq(Holdings) /\ Len(Tail(work)) = Len(work) - 1
           /\ \A n \in 1..(Len(work) - 1) : n + 1 \in 1..Len(work) /\ Tail(work)[n] = work[n + 1]
           /\ now \in Nat /\ now \in Ticks /\ artefact \in Artefacts
           /\ UNCHANGED <<now, phase, artefact, order, hearing, replay, provisioned,
                          lastNowcast, analystTick, faultPending, runnerTick, occupying,
                          plannerTick, placed, errorRun, lastPlanTick, plan, prompts, stops,
                          lastAnnounced>>
<1>1. /\ work # <<>> /\ Store!Publish(Head(work))
      /\ LET thrown == author # "source" /\ verdict' # "written" IN
            /\ work' = IF thrown THEN <<>> ELSE Tail(work)
            /\ awaiting' = IF thrown THEN None ELSE awaiting
      /\ author' = IF work' = <<>> THEN None ELSE author
      /\ UNCHANGED <<now, phase, artefact, order, hearing, replay, generatorVars,
                     analystVars, runnerVars, plannerVars, bounds, lastAnnounced>>
  BY DEF Publish
<1>2. /\ work \in Seq(Holdings) /\ artefact \in Artefacts /\ author \in All \cup {None}
      /\ author # "planner" /\ now \in Ticks
      /\ (author = None <=> work = <<>>) /\ Proved!StoreInv
  BY DEF Inv, Types, WorkTypes, CrewTypes, Working, Analysing
<1>3. /\ Len(work) \in Nat /\ Len(work) >= 1 /\ DOMAIN work = 1..Len(work)
      /\ Head(work) = work[1] /\ work[1] \in Holdings
      /\ Tail(work) \in Seq(Holdings) /\ Len(Tail(work)) = Len(work) - 1
      /\ \A n \in 1..(Len(work) - 1) : n + 1 \in 1..Len(work) /\ Tail(work)[n] = work[n + 1]
  BY <1>1, <1>2
<1>4. /\ work[1].id \in Ids /\ work[1].recorded \in Fields /\ work[1].tick \in Nat
  BY <1>3 DEF Holdings, Ticks
<1>5. work[1].recorded # None /\ work[1].id # None
  BY <1>4, AuthorsAssumption
<1>6. author \in {"source", "generator", "analyst", "runner"}
  BY <1>1, <1>2 DEF All, Crew
<1>7. Store!Publish(work[1])
  BY <1>1, <1>3
<1>8. \/ /\ verdict' = "written" /\ Wrote(work[1])
         /\ ~Damaged(work[1]) /\ ~Taken(work[1]) /\ ~Late(work[1])
      \/ /\ verdict' # "written" /\ UNCHANGED <<field, date, pointer, book>>
         /\ Damaged(work[1]) \/ Taken(work[1]) \/ Late(work[1])
  BY <1>2, <1>3, <1>7, Publications
<1>9. Goes(work[1])
  <2>1. CASE verdict' = "written"
    BY <1>1, <1>8, <2>1 DEF Goes
  <2>2. CASE verdict' # "written"
    BY <1>1, <1>8, <2>2 DEF Goes
  <2> QED
    BY <2>1, <2>2
<1>10. now \in Nat
  BY <1>2, AuthorsAssumption DEF Ticks
<1>11. UNCHANGED <<now, phase, artefact, order, hearing, replay, provisioned,
                   lastNowcast, analystTick, faultPending, runnerTick, occupying,
                   plannerTick, placed, errorRun, lastPlanTick, plan, prompts, stops,
                   lastAnnounced>>
  BY <1>1 DEF generatorVars, analystVars, runnerVars, plannerVars, bounds
<1> QED
  BY <1>1, <1>2, <1>3, <1>4, <1>5, <1>6, <1>7, <1>9, <1>10, <1>11

\* Only the now-cast pointed to ever leaves the store, and only for another; nothing
\* but what is published enters it, or changes.
LEMMA Leaves ==
    ASSUME Inv, Publish
    PROVE  /\ \A i \in Ids : field[i] # None /\ i[1] # "nowcast" => field'[i] # None
           /\ \A i \in Ids : field[i] # None /\ i[1] # "nowcast" => field'[i] = field[i]
           /\ \A i \in Ids : field'[i] # None /\ i # work[1].id =>
                 field'[i] = field[i] /\ date'[i] = date[i]
           /\ \A i \in Ids : i # work[1].id /\ i[1] # "nowcast" =>
                 field'[i] = field[i] /\ date'[i] = date[i]
           /\ \A i \in Ids : book[i] # None => book'[i] = book[i]
           /\ \A i \in Ids : i # work[1].id => book'[i] = book[i]
           /\ \A e \in Proved!PointedEras :
                 /\ pointer[e] # None => pointer'[e] # None
                 /\ pointer'[e] # pointer[e] => pointer'[e] = work[1].id /\ EraOf[work[1].id] = e
<1> DEFINE s == work[1]
<1>1. /\ Goes(s) /\ s.id \in Ids /\ s.recorded \in Fields /\ s.recorded # None
      /\ s.id # None
  BY Publishes
<1>2. pointer["nowcast"] # None => EraOf[pointer["nowcast"]] = "nowcast"
  BY DEF Inv, Proved!StoreInv, Proved!PointerNamesNewest, Proved!PointedEras
<1>3. \A i \in Ids : i # None /\ (i[1] # "nowcast" => EraOf[i] # "nowcast")
  <2>1. \A i \in Ids : i # None
    BY AuthorsAssumption
  <2>2. \A i \in Ids : EraOf[i] = "nowcast" => i[1] = "nowcast"
    BY EraNames DEF Authored
  <2> QED
    BY <2>1, <2>2
<1> HIDE DEF s
<1>4. CASE Wrote(s) /\ ~Taken(s)
  <2>1. /\ \A i \in Ids : field[i] # None /\ i[1] # "nowcast" => field'[i] # None
        /\ \A i \in Ids : field'[i] # None /\ i # s.id =>
              field'[i] = field[i] /\ date'[i] = date[i]
        /\ \A i \in Ids : i # s.id /\ i[1] # "nowcast" =>
              field'[i] = field[i] /\ date'[i] = date[i]
    BY <1>1, <1>2, <1>3, <1>4 DEF Wrote
  <2>2. /\ \A i \in Ids : book[i] # None => book'[i] = book[i]
        /\ \A i \in Ids : i # s.id => book'[i] = book[i]
        /\ \A e \in Proved!PointedEras :
              /\ pointer[e] # None => pointer'[e] # None
              /\ pointer'[e] # pointer[e] => pointer'[e] = s.id /\ EraOf[s.id] = e
    BY <1>1, <1>4 DEF Wrote
  <2>3. \A i \in Ids : field[i] # None /\ i[1] # "nowcast" => field'[i] = field[i]
    BY <1>1, <1>4, <2>1 DEF Wrote, Taken
  <2> QED
    BY <2>1, <2>2, <2>3 DEF s
<1>5. CASE UNCHANGED <<field, date, pointer, book>>
  BY <1>5 DEF s
<1> QED
  BY <1>1, <1>4, <1>5 DEF Goes

\* What was analysed of a run stays what was analysed of it.
LEMMA StaysAnalysed ==
    ASSUME Inv, Publish, NEW run \in Ticks, NEW content, content # None,
           Analysed(run, content)
    PROVE  Analysed(run, content)'
<1>1. <<"analysis", run>> \in Ids /\ <<"analysis", run>>[1] = "analysis"
  BY IdNames DEF RunParts
<1>2. field'[<<"analysis", run>>] = field[<<"analysis", run>>]
  BY <1>1, Leaves DEF Analysed
<1> QED
  BY <1>2 DEF Analysed

\* What an author may publish: dated no later than now, by the tick it names if it
\* was authored, and, of a run, no earlier than it is held; as the artefact has it if
\* the artefact has it, and otherwise as it was analysed.
Sound(s) ==
    /\ s.tick <= now
    /\ s.id[1] \in Authored => s.tick = s.id[2]
    /\ s.id[1] \in {"archive", "departure"} => s.id[2] = 0
    /\ s.id[1] \in {"spread", "forecast"} =>
          /\ field[s.id] # None => date[s.id] <= s.tick
          /\ \A n \in DOMAIN artefact : artefact[n].id = s.id =>
                artefact[n].recorded = s.recorded /\ artefact[n].tick = s.tick
          /\ Own(s.id[2]) => Analysed(s.id[2], s.recorded)

\* Then the producers' rules hold, and the store's invariant goes on holding.
LEMMA SoundStore ==
    ASSUME Inv, Publish, Sound(work[1])
    PROVE  /\ Store!WellDated(work[1]) /\ Store!OneNowcastPerTick(work[1])
           /\ Proved!StoreInv'
<1> DEFINE s == work[1]
<1>1. s \in Holdings /\ s.id \in Ids /\ Store!Publish(s) /\ Proved!StoreInv
  BY Publishes DEF Inv
<1>2. \A i \in Ids : i[1] \in Proved!DatedByName /\ book[i] # None => book[i].tick = i[2]
  BY DEF Inv, Dates
<1>3. Store!WellDated(s)
  <2>1. ASSUME EraOf[s.id] \in Store!DatedByName, book[s.id] # None
        PROVE  s.tick = book[s.id].tick
    <3>1. s.id[1] \in Proved!DatedByName /\ s.id[1] \in Authored
      BY <1>1, <2>1, EraNames DEF Store!DatedByName, Proved!DatedByName, Authored
    <3> QED
      BY <1>1, <1>2, <2>1, <3>1 DEF Sound
  <2>2. ASSUME EraOf[s.id] = "instance", field[s.id] # None
        PROVE  s.tick >= date[s.id]
    <3>1. s.id[1] \in {"spread", "forecast"}
      BY <1>1, <2>2, EraNames
    <3>2. date[s.id] \in Nat /\ s.tick \in Nat
      BY <1>1, <2>2, Publishes DEF Proved!StoreInv, Proved!TypeOK
    <3>3. date[s.id] <= s.tick
      BY <2>2, <3>1 DEF Sound
    <3> HIDE DEF s
    <3> QED
      BY <3>2, <3>3
  <2> QED
    BY <2>1, <2>2 DEF Store!WellDated, Store!Era, Store!Held
<1>4. Store!OneNowcastPerTick(s)
  <2> SUFFICES ASSUME NEW i \in Ids, i # s.id, EraOf[i] = "nowcast",
                      EraOf[s.id] = "nowcast", book[i] # None
               PROVE  book[i].tick # s.tick
    BY DEF Store!OneNowcastPerTick, Store!Era
  <2>1. i[1] = "nowcast" /\ s.id[1] = "nowcast"
    BY <1>1, EraNames DEF Authored
  <2>2. i = <<"nowcast", i[2]>> /\ s.id = <<"nowcast", s.id[2]>>
    BY <1>1, <2>1, IdNames
  <2>3. i[2] # s.id[2]
    BY <2>2
  <2>4. book[i].tick = i[2] /\ s.tick = s.id[2]
    BY <1>2, <2>1 DEF Sound, Authored, Proved!DatedByName
  <2> QED
    BY <2>3, <2>4
<1>5. Proved!StoreInv'
  <2> HIDE DEF s
  <2> QED
    BY <1>1, <1>3, <1>4, StoreKept
<1> QED
  BY <1>3, <1>4, <1>5

\* And what it leaves is dated as it should be.
LEMMA SoundDates ==
    ASSUME Inv, Publish, Sound(work[1])
    PROVE  Dates'
<1> DEFINE s == work[1]
<1>1. /\ s \in Holdings /\ s.id \in Ids /\ Goes(s) /\ artefact \in Artefacts
      /\ now' = now /\ artefact' = artefact /\ s.recorded # None
  BY Publishes
<1>2. /\ s.tick <= now
      /\ s.id[1] \in Authored => s.tick = s.id[2]
      /\ s.id[1] \in {"spread", "forecast"} =>
            /\ \A n \in DOMAIN artefact : artefact[n].id = s.id =>
                  artefact[n].recorded = s.recorded /\ artefact[n].tick = s.tick
            /\ Own(s.id[2]) => Analysed(s.id[2], s.recorded)
  BY DEF Sound
<1>3. /\ \A i \in Ids : field'[i] # None /\ i # s.id =>
            field'[i] = field[i] /\ date'[i] = date[i]
      /\ \A i \in Ids : book[i] # None => book'[i] = book[i]
      /\ \A i \in Ids : i # s.id => book'[i] = book[i]
  BY Leaves
<1>4. /\ \A i \in Ids : field[i] # None => date[i] <= now
      /\ \A i \in Ids : i[1] \in Proved!DatedByName /\ book[i] # None =>
            book[i].tick = i[2]
      /\ \A n \in DOMAIN artefact :
            artefact[n].id[1] \in {"spread", "forecast"} /\ field[artefact[n].id] # None =>
                /\ field[artefact[n].id] = artefact[n].recorded
                /\ date[artefact[n].id] = artefact[n].tick
      /\ \A run \in Ticks : \A part \in {"spread", "forecast"} :
            Own(run) /\ field[<<part, run>>] # None =>
                Analysed(run, field[<<part, run>>])
  BY DEF Inv, Dates
<1>5. /\ \/ field'[s.id] = field[s.id] /\ date'[s.id] = date[s.id]
         \/ field'[s.id] = s.recorded /\ date'[s.id] = s.tick
      /\ book[s.id] = None => book'[s.id] = None \/ book'[s.id] = Proved!FirstWrite(s)
  BY <1>1 DEF Goes, Wrote
<1>6. s.id[1] \in Proved!DatedByName => Proved!FirstWrite(s).tick = s.id[2]
  <2>1. s.id[1] \in Proved!DatedByName => s.id[1] \in Authored
    BY DEF Proved!DatedByName, Authored
  <2> QED
    BY <1>1, <1>2, <2>1, EraNames DEF Proved!FirstWrite, Proved!Era
<1> HIDE DEF s
<1>7. \A i \in Ids : field'[i] # None => date'[i] <= now
  BY <1>2, <1>3, <1>4, <1>5
<1>8. \A i \in Ids : i[1] \in Proved!DatedByName /\ book'[i] # None => book'[i].tick = i[2]
  BY <1>3, <1>4, <1>5, <1>6
<1>9. \A n \in DOMAIN artefact : artefact[n].id \in Ids
  BY <1>1, ArtefactFacts
<1>10. ASSUME NEW n \in DOMAIN artefact,
              artefact[n].id[1] \in {"spread", "forecast"}, field'[artefact[n].id] # None
       PROVE  /\ field'[artefact[n].id] = artefact[n].recorded
              /\ date'[artefact[n].id] = artefact[n].tick
  <2>1. CASE artefact[n].id = s.id
    BY <1>2, <1>4, <1>5, <1>10, <2>1
  <2>2. CASE artefact[n].id # s.id
    BY <1>3, <1>4, <1>9, <1>10, <2>2
  <2> QED
    BY <2>1, <2>2
<1>11. ASSUME NEW run \in Ticks, NEW part \in {"spread", "forecast"},
              Own(run), field'[<<part, run>>] # None
       PROVE  Analysed(run, field[<<part, run>>])'
  <2>1. <<part, run>> \in Ids /\ <<part, run>>[1] = part /\ <<part, run>>[2] = run
    BY IdNames DEF RunParts
  <2>2. Analysed(run, field'[<<part, run>>])
    <3>1. CASE field'[<<part, run>>] = field[<<part, run>>]
      BY <1>4, <1>11, <3>1
    <3>2. CASE s.id = <<part, run>> /\ field'[<<part, run>>] = s.recorded
      BY <1>2, <1>11, <2>1, <3>2
    <3> QED
      BY <1>3, <1>5, <1>11, <2>1, <3>1, <3>2
  <2>3. PICK content : content = field'[<<part, run>>]
    OBVIOUS
  <2>4. Analysed(run, content)'
    BY <1>11, <2>2, <2>3, StaysAnalysed
  <2> QED
    BY <2>3, <2>4 DEF Analysed
<1>12. \A run : Own(run)' <=> Own(run)
  BY <1>1 DEF Own
<1> QED
  BY <1>1, <1>7, <1>8, <1>10, <1>11, <1>12 DEF Dates

\* What holds of a publication whoever makes it.
LEMMA PublishedBeside ==
    ASSUME Inv, Publish
    PROVE  /\ CrewTypes' /\ WorkTypes' /\ PlanTypes' /\ Staged' /\ Forgotten'
           /\ ProvisionedAtBoot' /\ Planning' /\ Analysing'
<1> DEFINE s == work[1]
<1>1. /\ Len(work) \in Nat /\ work \in Seq(Holdings)
      /\ Goes(s) /\ s.id \in Ids /\ s.recorded # None /\ s.id # None
      /\ author' = IF work' = <<>> THEN None ELSE author
      /\ author \in {"source", "generator", "analyst", "runner"}
      /\ Tail(work) \in Seq(Holdings) /\ Len(Tail(work)) = Len(work) - 1
      /\ UNCHANGED <<now, phase, artefact, order, hearing, replay, provisioned,
                     lastNowcast, analystTick, faultPending, runnerTick, occupying,
                     plannerTick, placed, errorRun, lastPlanTick, plan, prompts, stops,
                     lastAnnounced>>
  BY Publishes
<1>2. /\ work' \in {Tail(work), <<>>} /\ awaiting' \in {awaiting, None}
      /\ author # "source" /\ awaiting' # None =>
            verdict' = "written" /\ field'[s.id] = s.recorded
  BY <1>1 DEF Goes, Wrote
<1>3. /\ author # None /\ author \in All /\ author' \in {author, None}
  BY <1>1, AuthorsAssumption DEF All, Crew
<1>4. CrewTypes' /\ PlanTypes' /\ Staged' /\ Forgotten' /\ ProvisionedAtBoot'
  BY <1>1
     DEF Inv, Types, CrewTypes, PlanTypes, Staged, Early, Forgotten, ProvisionedAtBoot, Up
<1>5. WorkTypes'
  <2>1. work' \in Seq(Holdings)
    <3>1. <<>> \in Seq(Holdings) /\ Tail(work) \in Seq(Holdings)
      BY <1>1
    <3>2. work' = Tail(work) \/ work' = <<>>
      BY <1>2
    <3> HIDE DEF s
    <3> QED
      BY <3>1, <3>2, Zenon
  <2>2. author' \in All \cup {None} /\ (author' = None <=> work' = <<>>)
    BY <1>1, <1>3
  <2>3. awaiting' \in Runs \cup {None}
    BY <1>2 DEF Inv, Types, WorkTypes
  <2> QED
    BY <1>1, <2>1, <2>2, <2>3 DEF Inv, Types, WorkTypes
<1>6. Planning'
  <2>1. \A run \in Ticks : field[<<"analysis", run>>] # None =>
                              field'[<<"analysis", run>>] # None
    <3> SUFFICES ASSUME NEW run \in Ticks, field[<<"analysis", run>>] # None
                 PROVE  field'[<<"analysis", run>>] # None
      OBVIOUS
    <3>1. <<"analysis", run>> \in Ids /\ <<"analysis", run>>[1] = "analysis"
      BY IdNames DEF RunParts
    <3> QED
      BY <3>1, Leaves
  <2>2. pointer["nowcast"] # None => pointer'["nowcast"] # None
    BY Leaves DEF Proved!PointedEras
  <2>3. errorRun # None => errorRun \in Ticks
    BY DEF Inv, Types, PlanTypes
  <2>4. CanPlan => CanPlan'
    BY <1>1, <2>1, <2>2, <2>3 DEF CanPlan
  <2> QED
    BY <1>1, <2>1, <2>3, <2>4 DEF Inv, Planning
<1>7. Analysing'
  <2>1. ASSUME awaiting' # None
        PROVE  /\ hearing' = <<>> /\ author' \in {"analyst", None}
               /\ field'[<<"analysis", awaiting'.run>>] = awaiting'.content
    <3>1. awaiting' = awaiting /\ awaiting # None
      BY <1>2, <2>1
    <3>2. hearing = <<>> /\ author = "analyst"
      BY <1>3, <3>1 DEF Inv, Working, Analysing
    <3>3. s.id = <<"analysis", awaiting.run>> /\ s.recorded = awaiting.content
      BY <3>1, <3>2 DEF Inv, Working, Analysing
    <3>4. field'[s.id] = s.recorded
      BY <1>2, <2>1, <3>2
    <3> QED
      BY <1>1, <1>3, <3>1, <3>2, <3>3, <3>4
  <2>2. author' # "analyst"
    <3> SUFFICES ASSUME author = "analyst" PROVE work' = <<>>
      BY <1>1, AuthorsAssumption DEF All, Crew
    <3>1. Len(work) = 1
      BY DEF Inv, Working, Analysing
    <3>2. Len(Tail(work)) = 0
      BY <1>1, <3>1
    <3>3. Tail(work) = <<>>
      BY <1>1, <3>2, EmptySeq
    <3> QED
      BY <1>2, <3>3
  <2>3. author' # "planner"
    BY <1>1, AuthorsAssumption DEF All, Crew
  <2> QED
    BY <2>1, <2>2, <2>3 DEF Analysing
<1> QED
  BY <1>4, <1>5, <1>6, <1>7

\* The generator is refused nothing but the now-cast of an instant it authored before.
Answered ==
    author = "generator" /\ verdict' # "written" =>
        work[1].id = <<"nowcast", now>> /\ field[<<"nowcast", now>>] # None

\* Then the cadence goes on being counted from no later than the now-cast.
LEMMA CadenceKept ==
    ASSUME Inv, Publish, Sound(work[1]), Answered
    PROVE  Cadenced'
<1> DEFINE s == work[1]
           at == pointer["nowcast"]
<1>1. /\ Goes(s) /\ s.id \in Ids /\ s.id # None /\ Len(work) \in Nat /\ Len(work) >= 1
      /\ s.tick \in Nat /\ now \in Nat /\ now \in Ticks /\ DOMAIN work = 1..Len(work)
      /\ author' = IF work' = <<>> THEN None ELSE author
      /\ \A n \in 1..(Len(work) - 1) : Tail(work)[n] = work[n + 1]
      /\ Tail(work) \in Seq(Holdings) /\ Len(Tail(work)) = Len(work) - 1
      /\ UNCHANGED <<now, hearing, provisioned, lastNowcast>>
  BY Publishes
<1>2. "nowcast" \in Proved!PointedEras /\ "nowcast" \in Authored
  BY DEF Proved!PointedEras, Authored
<1>3. lastNowcast \in Nat /\ lastNowcast <= now
  BY <1>1 DEF Inv, Types, CrewTypes
<1>4. at # None => /\ at \in Ids /\ date[at] \in Nat /\ at[1] = "nowcast"
                   /\ field[at] # None /\ EraOf[at] = "nowcast"
                   /\ book[at] # None /\ book[at].tick = date[at] /\ date[at] = at[2]
  <2> SUFFICES ASSUME at # None
               PROVE  /\ at \in Ids /\ date[at] \in Nat /\ at[1] = "nowcast"
                      /\ field[at] # None /\ EraOf[at] = "nowcast"
                      /\ book[at] # None /\ book[at].tick = date[at] /\ date[at] = at[2]
    OBVIOUS
  <2>1. at \in Ids /\ field[at] # None /\ EraOf[at] = "nowcast"
    BY <1>2 DEF Inv, Proved!StoreInv, Proved!TypeOK, Proved!PointerNamesNewest, Proved!Held
  <2>2. date[at] \in Nat
    BY <2>1 DEF Inv, Proved!StoreInv, Proved!TypeOK
  <2>3. book[at] # None /\ book[at].tick = date[at]
    BY <1>2, <2>1
       DEF Inv, Proved!StoreInv, Proved!OneFieldPerName, Proved!Held, Proved!DatedByName
  <2>4. at[1] = "nowcast"
    BY <2>1, EraNames DEF Authored
  <2>5. book[at].tick = at[2]
    BY <1>2, <2>1, <2>3, <2>4 DEF Inv, Dates, Proved!DatedByName
  <2> QED
    BY <2>1, <2>2, <2>3, <2>4, <2>5
<1>5. ASSUME at # None, date[at] >= lastNowcast
      PROVE  pointer'["nowcast"] # None /\ date'[pointer'["nowcast"]] >= lastNowcast
  <2>1. CASE Wrote(s) /\ ~Late(s) /\ EraOf[s.id] = "nowcast"
    <3>1. pointer'["nowcast"] = s.id /\ date'[s.id] = s.tick
      BY <1>2, <2>1 DEF Wrote
    <3>2. s.tick >= date[at]
      <4>1. CASE at = s.id
        BY <1>2, <1>4, <1>5, <4>1 DEF Sound
      <4>2. CASE at # s.id
        BY <1>1, <1>2, <1>4, <1>5, <2>1, <4>2 DEF Late
      <4> QED
        BY <4>1, <4>2
    <3> QED
      BY <1>1, <1>3, <1>4, <1>5, <3>1, <3>2
  <2>2. CASE Wrote(s) /\ EraOf[s.id] # "nowcast"
    <3>1. pointer'["nowcast"] = at /\ at # s.id /\ date'[at] = date[at]
      BY <1>2, <1>4, <1>5, <2>2 DEF Wrote
    <3> QED
      BY <1>5, <3>1
  <2>3. CASE UNCHANGED <<field, date, pointer, book>>
    BY <1>5, <2>3
  <2> QED
    BY <1>1, <2>1, <2>2, <2>3 DEF Goes
<1>6. ASSUME author = "generator", lastNowcast = now, s.id = <<"nowcast", now>>
      PROVE  pointer'["nowcast"] # None /\ date'[pointer'["nowcast"]] >= lastNowcast
  <2>1. s.id[1] = "nowcast" /\ s.id[2] = now /\ EraOf[s.id] = "nowcast"
    <3>1. s.id[1] = "nowcast" /\ s.id[2] = now
      BY <1>6
    <3> QED
      BY <1>1, <1>2, <3>1, EraNames
  <2>2. s.tick = now
    BY <1>2, <2>1 DEF Sound
  <2>3. CASE Wrote(s)
    <3>1. pointer'["nowcast"] = s.id /\ date'[s.id] = s.tick
      BY <1>2, <2>1, <2>3 DEF Wrote
    <3> QED
      BY <1>1, <1>6, <2>2, <3>1
  <2>4. CASE verdict' # "written" /\ UNCHANGED <<field, date, pointer, book>>
    <3>1. field[s.id] # None
      BY <1>6, <2>4 DEF Answered
    <3>2. at = s.id
      BY <1>1, <2>1, <3>1 DEF Inv, Proved!StoreInv, Proved!OneNowcast, Proved!Held
    <3>3. date[at] = now
      BY <1>1, <1>4, <2>1, <3>2
    <3> QED
      BY <1>1, <1>6, <2>4, <3>2, <3>3
  <2> QED
    BY <1>1, <2>3, <2>4 DEF Goes
<1>7. ASSUME NEW n \in 2..Len(work), author = "generator", lastNowcast = now,
             work[n].id = <<"nowcast", now>>, work[1].id # <<"nowcast", now>>
      PROVE  author' = "generator" /\ \E m \in DOMAIN work' : work'[m].id = <<"nowcast", now>>
  <2>1. verdict' = "written" /\ work' = Tail(work)
    BY <1>1, <1>7 DEF Answered, Goes
  <2>2. n - 1 \in 1..(Len(work) - 1) /\ (n - 1) + 1 = n
    BY <1>1, <1>7
  <2>3. work'[n - 1] = work[n] /\ DOMAIN work' = 1..(Len(work) - 1)
    BY <1>1, <2>1, <2>2
  <2>4. work' # <<>>
    <3>1. Len(work') = Len(work) - 1
      BY <1>1, <2>1
    <3>2. Len(work') # 0
      BY <1>1, <2>2, <3>1
    <3> QED
      BY <3>2
  <2> QED
    BY <1>1, <1>7, <2>2, <2>3, <2>4
<1>8. provisioned =>
          \/ at # None /\ date[at] >= lastNowcast
          \/ /\ author = "generator" /\ lastNowcast = now
             /\ \E n \in DOMAIN work : work[n].id = <<"nowcast", now>>
  BY DEF Inv, Cadenced
<1> HIDE DEF s, at
<1>9. provisioned' =>
          \/ pointer'["nowcast"] # None /\ date'[pointer'["nowcast"]] >= lastNowcast
          \/ author' = "generator" /\ lastNowcast = now
             /\ \E n \in DOMAIN work' : work'[n].id = <<"nowcast", now>>
  <2>1. CASE at # None /\ date[at] >= lastNowcast
    BY <1>5, <2>1
  <2>2. CASE /\ author = "generator" /\ lastNowcast = now
             /\ \E n \in DOMAIN work : work[n].id = <<"nowcast", now>>
    <3>1. PICK n \in 1..Len(work) : work[n].id = <<"nowcast", now>>
      BY <1>1, <2>2
    <3>2. CASE work[1].id = <<"nowcast", now>>
      BY <1>6, <2>2, <3>2 DEF s
    <3>3. CASE work[1].id # <<"nowcast", now>>
      <4>1. n \in 2..Len(work)
        BY <1>1, <3>1, <3>3
      <4> QED
        BY <1>7, <2>2, <3>1, <3>3, <4>1
    <3> QED
      BY <3>2, <3>3
  <2> QED
    BY <1>1, <1>8, <2>1, <2>2
<1>10. provisioned' /\ ~Among("generator", hearing') => now - lastNowcast < NowcastInterval
  BY <1>1 DEF Inv, Cadenced
<1> QED
  BY <1>1, <1>9, <1>10 DEF Cadenced

\* And the archive and the brief are those of the first sample.
LEMMA ProvisionsKept ==
    ASSUME Inv, Publish, Sound(work[1]), Answered
    PROVE  Provisions'
<1> DEFINE s == work[1]
<1>1. /\ Goes(s) /\ s.id \in Ids /\ s.recorded # None /\ s.id # None
      /\ Len(work) \in Nat /\ Len(work) >= 1
      /\ now \in Nat /\ now \in Ticks /\ DOMAIN work = 1..Len(work)
      /\ author' = IF work' = <<>> THEN None ELSE author
      /\ \A n \in 1..(Len(work) - 1) : Tail(work)[n] = work[n + 1]
      /\ Tail(work) \in Seq(Holdings) /\ Len(Tail(work)) = Len(work) - 1
      /\ UNCHANGED <<now, phase, provisioned>>
  BY Publishes
<1>2. /\ \A i \in Ids : field[i] # None /\ i[1] # "nowcast" => field'[i] # None
      /\ \A i \in Ids : field'[i] # None /\ i # s.id => field'[i] = field[i]
  BY Leaves
<1>3. s.id[1] \in {"archive", "departure"} => s.id[2] = 0
  BY DEF Sound
<1> HIDE DEF s
<1>4. ASSUME NEW era \in {"archive", "departure"}
      PROVE  /\ \A i \in Held(era)' : i[2] = 0
             /\ provisioned' \/ ~(phase' = "boot") =>
                   \/ field'[<<era, 0>>] # None
                   \/ author' = "generator"
                         /\ \E n \in DOMAIN work' : work'[n].id = <<era, 0>>
  <2>1. /\ \A i \in Held(era) : i[2] = 0
        /\ provisioned \/ ~(phase = "boot") =>
              \/ field[<<era, 0>>] # None
              \/ author = "generator" /\ \E n \in DOMAIN work : work[n].id = <<era, 0>>
    BY DEF Inv, Provisions
  <2>2. <<era, 0>> \in Ids /\ <<era, 0>>[1] = era /\ era \in Authored
    <3>1. 0 \in Ticks /\ era \in Authored
      BY AuthorsAssumption DEF Ticks, Authored
    <3> QED
      BY <3>1, IdNames
  <2>3. \A i \in Held(era)' : i[2] = 0
    <3> SUFFICES ASSUME NEW i \in Ids, field'[i] # None, EraOf[i] = era
                 PROVE  i[2] = 0
      BY DEF Held
    <3>1. i[1] = era
      BY <2>2, EraNames
    <3>2. CASE i = s.id
      BY <1>3, <3>1, <3>2
    <3>3. CASE i # s.id
      <4>1. i \in Held(era)
        BY <1>2, <3>3 DEF Held
      <4> QED
        BY <2>1, <4>1
    <3> QED
      BY <3>2, <3>3
  <2>4. field[<<era, 0>>] # None => field'[<<era, 0>>] # None
    BY <1>2, <2>2
  <2>5. ASSUME NEW n \in 1..Len(work), author = "generator", work[n].id = <<era, 0>>
        PROVE  \/ field'[<<era, 0>>] # None
               \/ author' = "generator" /\ \E m \in DOMAIN work' : work'[m].id = <<era, 0>>
    <3>1. CASE n = 1
      <4>1. s.id = <<era, 0>>
        BY <2>5, <3>1 DEF s
      <4>2. s.id # <<"nowcast", now>>
        BY <2>2, <4>1
      <4>3. verdict' = "written"
        BY <2>5, <4>2 DEF Answered, s
      <4> QED
        BY <1>1, <4>1, <4>3 DEF Goes, Wrote
    <3>2. CASE n # 1
      <4>1. n - 1 \in 1..(Len(work) - 1) /\ (n - 1) + 1 = n /\ Len(work) # 1
        BY <1>1, <2>5, <3>2
      <4>2. work[1].id[1] # "nowcast"
        <5>1. 1 \in DOMAIN work
          BY <1>1
        <5> QED
          BY <2>5, <4>1, <5>1 DEF Inv, Working, Generating
      <4>3. verdict' = "written" /\ work' = Tail(work)
        BY <1>1, <2>5, <4>2 DEF Answered, Goes
      <4>4. work'[n - 1] = work[n] /\ n - 1 \in DOMAIN work' /\ work' # <<>>
        <5>1. Tail(work)[n - 1] = work[n]
          BY <1>1, <4>1
        <5>2. Len(Tail(work)) # 0 /\ DOMAIN Tail(work) = 1..(Len(work) - 1)
          BY <1>1, <4>1
        <5>3. Tail(work) # <<>>
          <6>1. Len(<<>>) = 0
            OBVIOUS
          <6> QED
            BY <5>2, <6>1, Zenon
        <5> QED
          BY <4>1, <4>3, <5>1, <5>2, <5>3
      <4> QED
        BY <1>1, <2>5, <4>4
    <3> QED
      BY <3>1, <3>2
  <2> QED
    BY <1>1, <2>1, <2>3, <2>4, <2>5
<1> QED
  BY <1>4 DEF Provisions

\* A sound publication, and what its author alone has to see to.
LEMMA PublishedWhole ==
    ASSUME Inv, Publish, Sound(work[1]), Answered,
           Replaying', Generating', Releasing', Instances'
    PROVE  Inv'
<1>1. Proved!StoreInv'
  BY SoundStore
<1>2. Dates'
  BY SoundDates
<1>3. Cadenced' /\ Provisions'
  BY CadenceKept, ProvisionsKept
<1>4. /\ CrewTypes' /\ WorkTypes' /\ PlanTypes' /\ Staged' /\ Forgotten'
      /\ ProvisionedAtBoot' /\ Planning' /\ Analysing'
  BY PublishedBeside
<1> QED
  BY <1>1, <1>2, <1>3, <1>4 DEF Inv, Types, Working

\* What the runner is occupied with goes on being what was analysed.
LEMMA OccupiedStays ==
    ASSUME Inv, Publish, occupying # None
    PROVE  /\ Analysed(occupying.run, occupying.content)'
           /\ Early' \/ Own(occupying.run)'
<1>1. /\ occupying.run \in Ticks /\ occupying.content \in Fields
      /\ Analysed(occupying.run, occupying.content)
      /\ Early \/ Own(occupying.run)
  BY DEF Inv, Types, WorkTypes, Working, Releasing
<1>2. UNCHANGED <<now, phase, artefact, occupying>>
  BY Publishes
<1>3. PICK run \in Ticks, content \in Fields :
         run = occupying.run /\ content = occupying.content
  BY <1>1
<1>4. content # None
  BY <1>3, AuthorsAssumption
<1>5. Analysed(run, content)'
  BY <1>1, <1>3, <1>4, StaysAnalysed
<1> QED
  BY <1>1, <1>2, <1>3, <1>5 DEF Analysed, Early, Own

\* Whose holding is neither a spread nor a forecast leaves the releases alone.
LEMMA PublishedElsewhere ==
    ASSUME Inv, Publish, author \in {"generator", "analyst"},
           work[1].id[1] \notin {"spread", "forecast"}
    PROVE  Replaying' /\ Releasing' /\ Instances'
<1> DEFINE s == work[1]
           at == pointer["instance"]
<1>1. /\ Goes(s) /\ s.id \in Ids
      /\ author' = IF work' = <<>> THEN None ELSE author
      /\ UNCHANGED <<now, phase, artefact, replay, occupying>>
  BY Publishes
<1>2. /\ author \notin {"source", "runner"} /\ author' \notin {"source", "runner"}
      /\ awaiting' \in {awaiting, None}
  BY <1>1, AuthorsAssumption DEF All, Crew, Goes
<1>3. /\ \A i \in Ids : field[i] # None /\ i[1] # "nowcast" => field'[i] # None
      /\ pointer'["instance"] # at => EraOf[s.id] = "instance"
  BY Leaves DEF Proved!PointedEras
<1>4. \A run \in Ticks : <<"spread", run>> \in Ids /\ <<"spread", run>>[1] = "spread"
  BY IdNames DEF RunParts
<1>5. pointer'["instance"] = at
  BY <1>1, <1>3, EraNames
<1> HIDE DEF s
<1>6. Replaying'
  BY <1>1, <1>2, ReplayKept
<1>7. Releasing'
  <2>1. occupying' # None =>
           /\ Analysed(occupying.run, occupying.content)'
           /\ Early' \/ Own(occupying.run)'
    BY <1>1, OccupiedStays
  <2>2. awaiting # None /\ awaiting.dated => Early \/ Own(awaiting.run)
    BY DEF Inv, Working, Releasing
  <2>3. awaiting' # None /\ awaiting'.dated => Early' \/ Own(awaiting.run)'
    BY <1>1, <1>2, <2>2 DEF Early, Own
  <2> QED
    BY <1>1, <1>2, <2>1, <2>3 DEF Releasing
<1>8. Instances'
  <2> SUFFICES ASSUME Whole(artefact), at # None
               PROVE  at[1] = "forecast" /\ field'[<<"spread", at[2]>>] # None
    BY <1>1, <1>2, <1>5 DEF Instances
  <2>1. at[1] = "forecast" /\ field[<<"spread", at[2]>>] # None
    BY <1>2 DEF Inv, Instances
  <2>2. at \in Ids
    BY DEF Inv, Proved!StoreInv, Proved!TypeOK, Proved!PointedEras
  <2>3. <<"spread", at[2]>> \in Ids /\ <<"spread", at[2]>>[1] = "spread"
    BY <1>4, <2>2, IdNames
  <2> QED
    BY <1>3, <2>1, <2>3
<1> QED
  BY <1>6, <1>7, <1>8

\* An analysis names the run, not the tick, and is dated no later than now.
LEMMA AnalystSound ==
    ASSUME Inv, author = "analyst"
    PROVE  Sound(work[1]) /\ work[1].id[1] \notin {"spread", "forecast"}
<1>1. /\ work[1].id[1] = "analysis" /\ work[1].tick <= now
      /\ work[1].id[1] \notin {"spread", "forecast"} \cup Authored
  BY DEF Inv, Working, Analysing, Authored
<1> QED
  BY <1>1 DEF Sound, Authored

\* The analyst's: one analysis, whether the store takes it or not.
LEMMA AnalystPublishes ==
    ASSUME Inv, Publish, author = "analyst"
    PROVE  Inv'
<1>1. work[1].id[1] \notin {"spread", "forecast"}
  BY AnalystSound
<1>2. Sound(work[1])
  BY AnalystSound
<1>3. Answered
  BY DEF Answered
<1>4. Generating'
  <2>1. author' \in {"analyst", None}
    BY Publishes
  <2> QED
    BY <2>1, AuthorsAssumption DEF All, Crew, Generating
<1>5. Replaying' /\ Releasing' /\ Instances'
  BY <1>1, PublishedElsewhere
<1> QED
  BY <1>2, <1>3, <1>4, <1>5, PublishedWhole

\* Nothing held is dated after now, so nothing published now comes late.
LEMMA NeverLate ==
    ASSUME Inv, NEW s, s.tick = now
    PROVE  ~Late(s)
<1> SUFFICES ASSUME Late(s) PROVE FALSE
  OBVIOUS
<1> DEFINE at == pointer[EraOf[s.id]]
<1>1. EraOf[s.id] \in Proved!PointedEras /\ at # None /\ s.tick < date[at]
  BY DEF Late
<1>2. at \in Ids /\ field[at] # None
  BY <1>1 DEF Inv, Proved!StoreInv, Proved!TypeOK, Proved!PointerNamesNewest, Proved!Held
<1>3. date[at] <= now /\ date[at] \in Nat
  BY <1>2 DEF Inv, Dates, Proved!StoreInv, Proved!TypeOK, Proved!OneFieldPerName,
              Proved!Held
<1>4. now \in Nat
  BY AuthorsAssumption DEF Inv, Types, CrewTypes, Ticks
<1> QED
  BY <1>1, <1>3, <1>4

\* What the generator has to publish next.
LEMMA GeneratorSound ==
    ASSUME Inv, Publish, author = "generator"
    PROVE  /\ Sound(work[1]) /\ work[1].id[1] \notin {"spread", "forecast"}
           /\ \A n \in 1..Len(work) :
                 /\ work[n].id[1] \in Authored /\ work[n] = Evaluated(work[n].id[1])
                 /\ work[n].id[1] = "nowcast" => n = Len(work)
                 /\ work[n].id[1] # "nowcast" => now = 0 /\ field[work[n].id] = None
           /\ \A m, n \in 1..Len(work) : work[m].id = work[n].id => m = n
           /\ 1 \in 1..Len(work)
           /\ work[1].id[1] # "nowcast" => field[work[1].id] = None
           /\ work[1].id = <<work[1].id[1], now>> /\ work[1].tick = now /\ Live(work[1])
<1> DEFINE s == work[1]
<1>1. /\ Goes(s) /\ s.id \in Ids /\ s.id # None /\ Len(work) \in Nat /\ Len(work) >= 1
      /\ now \in Nat /\ now \in Ticks /\ DOMAIN work = 1..Len(work)
      /\ author' = IF work' = <<>> THEN None ELSE author
      /\ \A n \in 1..(Len(work) - 1) : n + 1 \in 1..Len(work) /\ Tail(work)[n] = work[n + 1]
      /\ Tail(work) \in Seq(Holdings) /\ Len(Tail(work)) = Len(work) - 1
      /\ now' = now
  BY Publishes
<1>2. /\ \A n \in 1..Len(work) :
            /\ work[n].id[1] \in Authored /\ work[n] = Evaluated(work[n].id[1])
            /\ work[n].id[1] = "nowcast" => n = Len(work)
            /\ work[n].id[1] # "nowcast" => now = 0 /\ field[work[n].id] = None
      /\ \A m, n \in 1..Len(work) : work[m].id = work[n].id => m = n
  BY <1>1 DEF Inv, Working, Generating
<1>3. 1 \in 1..Len(work)
  BY <1>1
<1>4. /\ s.id[1] \in Authored /\ s = Evaluated(s.id[1])
      /\ s.id[1] # "nowcast" => now = 0 /\ field[s.id] = None
  BY <1>2, <1>3
<1>5. /\ s.id = <<s.id[1], now>> /\ s.tick = now /\ Live(s) /\ s.id[2] = now
  <2>1. /\ Evaluated(s.id[1]).id = <<s.id[1], now>> /\ Evaluated(s.id[1]).tick = now
        /\ Live(Evaluated(s.id[1]))
    BY <1>1, <1>4, Evaluations
  <2>2. s.id = <<s.id[1], now>> /\ s.tick = now /\ Live(s)
    BY <1>4, <2>1
  <2> HIDE DEF s
  <2> QED
    BY <2>2
<1>6. s.id[1] \notin {"spread", "forecast"}
  BY <1>4 DEF Authored
<1> HIDE DEF s
<1>7. Sound(s)
  BY <1>1, <1>4, <1>5, <1>6 DEF Sound, Authored
<1> QED
  BY <1>2, <1>3, <1>4, <1>5, <1>6, <1>7 DEF s

\* The generator's: what it lacked is taken; a now-cast it authored at this very
\* instant is the one thing it may be refused.
LEMMA GeneratorPublishes ==
    ASSUME Inv, Publish, author = "generator"
    PROVE  Inv'
<1> DEFINE s == work[1]
<1>1. /\ Goes(s) /\ s.id \in Ids /\ s.id # None /\ Len(work) \in Nat /\ Len(work) >= 1
      /\ now \in Nat /\ now \in Ticks /\ DOMAIN work = 1..Len(work)
      /\ author' = IF work' = <<>> THEN None ELSE author
      /\ \A n \in 1..(Len(work) - 1) : n + 1 \in 1..Len(work) /\ Tail(work)[n] = work[n + 1]
      /\ Tail(work) \in Seq(Holdings) /\ Len(Tail(work)) = Len(work) - 1
      /\ now' = now
  BY Publishes
<1>2. /\ \A n \in 1..Len(work) :
            /\ work[n].id[1] \in Authored /\ work[n] = Evaluated(work[n].id[1])
            /\ work[n].id[1] = "nowcast" => n = Len(work)
            /\ work[n].id[1] # "nowcast" => now = 0 /\ field[work[n].id] = None
      /\ \A m, n \in 1..Len(work) : work[m].id = work[n].id => m = n
  BY GeneratorSound
<1>3. 1 \in 1..Len(work)
  BY GeneratorSound
<1>4. s.id[1] # "nowcast" => field[s.id] = None
  BY GeneratorSound
<1>5. /\ s.id = <<s.id[1], now>> /\ s.tick = now /\ Live(s)
  BY GeneratorSound
<1>6. s.id[1] \notin {"spread", "forecast"}
  BY GeneratorSound
<1>7. Sound(s)
  BY GeneratorSound
<1> HIDE DEF s
<1>8. ~Damaged(s) /\ ~Late(s)
  BY <1>5, NeverLate DEF Damaged
<1>9. Answered
  <2> SUFFICES ASSUME verdict' # "written"
               PROVE  s.id = <<"nowcast", now>> /\ field[<<"nowcast", now>>] # None
    BY DEF Answered, s
  <2>1. Taken(s)
    BY <1>1, <1>8 DEF Goes
  <2>2. field[s.id] # None
    BY <2>1 DEF Taken
  <2>3. s.id[1] = "nowcast"
    BY <1>4, <2>2
  <2>4. s.id = <<"nowcast", now>>
    BY <1>5, <2>3
  <2> QED
    BY <2>2, <2>4
<1>10. Generating'
  <2> SUFFICES ASSUME author' = "generator"
               PROVE  /\ \A n \in DOMAIN work' :
                            /\ work'[n].id[1] \in Authored
                            /\ work'[n] = Evaluated(work'[n].id[1])
                            /\ work'[n].id[1] = "nowcast" => n = Len(work')
                            /\ work'[n].id[1] # "nowcast" =>
                                  now = 0 /\ field'[work'[n].id] = None
                      /\ \A m, n \in DOMAIN work' : work'[m].id = work'[n].id => m = n
    BY <1>1 DEF Generating, Evaluated
  <2>1. work' # <<>>
    BY <1>1, AuthorsAssumption DEF All, Crew
  <2>2. work' = Tail(work)
    BY <1>1, <2>1 DEF Goes
  <2>3. DOMAIN work' = 1..(Len(work) - 1) /\ Len(work') = Len(work) - 1
    BY <1>1, <2>2
  <2>4. \A n \in 1..(Len(work) - 1) :
            n + 1 \in 1..Len(work) /\ work'[n] = work[n + 1] /\ n \in Nat /\ n >= 1
    BY <1>1, <2>2
  <2>5. ASSUME NEW n \in 1..(Len(work) - 1)
        PROVE  /\ work'[n].id[1] \in Authored /\ work'[n] = Evaluated(work'[n].id[1])
               /\ work'[n].id[1] = "nowcast" => n = Len(work')
               /\ work'[n].id[1] # "nowcast" => now = 0 /\ field'[work'[n].id] = None
    <3>1. work'[n] = work[n + 1] /\ n + 1 \in 1..Len(work)
      BY <2>4
    <3>2. /\ work[n + 1].id[1] \in Authored /\ work[n + 1] = Evaluated(work[n + 1].id[1])
          /\ work[n + 1].id[1] = "nowcast" => n + 1 = Len(work)
          /\ work[n + 1].id[1] # "nowcast" => now = 0 /\ field[work[n + 1].id] = None
      BY <1>2, <3>1
    <3>3. n + 1 = Len(work) => n = Len(work')
      <4>1. Len(work) \in Nat /\ n \in Nat
        BY <1>1, <2>4
      <4>2. n + 1 = Len(work) => n = Len(work) - 1
        BY <4>1
      <4> QED
        BY <2>3, <4>2, Zenon
    <3>4. work[n + 1].id # s.id
      <4>1. n + 1 # 1
        BY <2>4
      <4> QED
        BY <1>2, <1>3, <3>1, <4>1 DEF s
    <3>5. work[n + 1].id \in Ids
      <4>1. work[n + 1].id[1] \in Authored /\ work[n + 1] = Evaluated(work[n + 1].id[1])
        BY <3>2
      <4>2. /\ Evaluated(work[n + 1].id[1]).id = <<work[n + 1].id[1], now>>
            /\ <<work[n + 1].id[1], now>> \in Ids
        BY <1>1, <4>1, Evaluations
      <4> QED
        BY <4>1, <4>2, Zenon
    <3>6. work[n + 1].id[1] # "nowcast" => field'[work[n + 1].id] = field[work[n + 1].id]
      BY <3>4, <3>5, Leaves DEF s
    <3> QED
      BY <3>1, <3>2, <3>3, <3>6
  <2>6. ASSUME NEW m \in 1..(Len(work) - 1), NEW n \in 1..(Len(work) - 1),
               work'[m].id = work'[n].id
        PROVE  m = n
    <3>1. work[m + 1].id = work[n + 1].id /\ m + 1 \in 1..Len(work) /\ n + 1 \in 1..Len(work)
      BY <2>4, <2>6
    <3>2. m + 1 = n + 1
      BY <1>2, <3>1
    <3> QED
      BY <2>4, <3>2
  <2> QED
    BY <2>3, <2>5, <2>6
<1>11. Replaying' /\ Releasing' /\ Instances'
  BY <1>6, PublishedElsewhere DEF s
<1>12. Sound(work[1])
  BY <1>7 DEF s
<1> QED
  BY <1>9, <1>10, <1>11, <1>12, PublishedWhole

\* No artefact holds a part of a run of the runner's own.
LEMMA OwnRuns ==
    ASSUME artefact \in Artefacts, NEW run \in Ticks, Own(run)
    PROVE  \A n \in DOMAIN artefact :
              artefact[n].id # <<"spread", run>> /\ artefact[n].id # <<"forecast", run>>
<1> SUFFICES ASSUME NEW n \in DOMAIN artefact,
                    artefact[n].id \in {<<"spread", run>>, <<"forecast", run>>}
             PROVE  FALSE
  OBVIOUS
<1>1. /\ n \in 1..Len(artefact) /\ Len(artefact) \in Nat
      /\ artefact[n].tick \in Nat /\ artefact[n].tick <= PreRollTicks
      /\ artefact[n].id[1] \in {"spread", "forecast"} =>
            artefact[n].id[2] < artefact[n].tick
  BY ArtefactFacts
<1>2. artefact[n].id[1] \in {"spread", "forecast"} /\ artefact[n].id[2] = run
  OBVIOUS
<1>3. run >= PreRollTicks
  BY <1>1 DEF Own
<1>4. run \in Nat /\ PreRollTicks \in Nat
  BY AuthorsAssumption DEF Ticks
<1> QED
  BY <1>1, <1>2, <1>3, <1>4

\* A part of a run, as it was analysed, is taken, and the era points to it.
LEMMA RunnerWrites ==
    ASSUME Inv, Publish, author = "runner", NEW run \in Ticks, NEW content \in Fields,
           NEW part \in {"spread", "forecast"}, Own(run),
           work[1] = Staging(<<part, run>>, now, content), Analysed(run, content)
    PROVE  /\ Sound(work[1]) /\ Answered /\ Replaying' /\ Generating'
           /\ work' = Tail(work) /\ awaiting = None /\ awaiting' = None /\ occupying' = None
           /\ <<part, run>> \in Ids /\ work[1].id = <<part, run>>
           /\ Wrote(work[1]) /\ pointer'["instance"] = <<part, run>>
           /\ field'[<<part, run>>] # None /\ date'[<<part, run>>] = now
           /\ Analysed(run, content)'
<1> DEFINE s == work[1]
<1>1. /\ Goes(s) /\ s.recorded # None
      /\ author' = IF work' = <<>> THEN None ELSE author
      /\ now \in Nat /\ artefact \in Artefacts
      /\ UNCHANGED <<artefact, replay, occupying>>
  BY Publishes
<1>2. /\ s.id = <<part, run>> /\ s.tick = now /\ s.recorded = content /\ Live(s)
  BY DEF Staging, Live
<1>3. /\ <<part, run>> \in Ids /\ s.id[1] = part /\ s.id[2] = run
      /\ s.id[1] \notin Authored
  <2>1. <<part, run>> \in Ids
    BY IdNames DEF RunParts
  <2> QED
    BY <1>2, <2>1 DEF Authored
<1> HIDE DEF s
<1>4. \A n \in DOMAIN artefact : artefact[n].id # s.id
  BY <1>1, <1>2, OwnRuns
<1>5. Sound(s)
  <2>1. now <= now
    BY <1>1
  <2>2. field[s.id] # None => date[s.id] <= now
    BY <1>2, <1>3 DEF Inv, Dates
  <2> QED
    BY <1>2, <1>3, <1>4, <2>1, <2>2 DEF Sound, Authored
<1>6. ~Damaged(s) /\ ~Late(s)
  BY <1>2, NeverLate DEF Damaged
<1>7. ~Taken(s)
  BY <1>2 DEF Taken, Inv, Dates, Analysed
<1>8. Wrote(s) /\ work' = Tail(work) /\ awaiting' = awaiting
  BY <1>1, <1>6, <1>7 DEF Goes
<1>9. pointer'["instance"] = <<part, run>>
  <2>1. EraOf[s.id] = "instance"
    BY <1>2, <1>3, EraNames
  <2> QED
    BY <1>2, <1>8, <2>1 DEF Wrote, Proved!PointedEras
<1>10. field'[<<part, run>>] # None /\ date'[<<part, run>>] = now
  BY <1>1, <1>2, <1>8 DEF Wrote
<1>11. Analysed(run, content)'
  BY <1>1, <1>2, StaysAnalysed
<1>12. /\ author' # "source" /\ author' # "generator"
       /\ awaiting = None /\ occupying = None
  <2>1. author' \in {"runner", None}
    BY <1>1
  <2>2. awaiting = None /\ occupying = None
    BY AuthorsAssumption DEF Inv, Working, Analysing, Releasing, All, Crew
  <2> QED
    BY <2>1, <2>2, AuthorsAssumption DEF All, Crew
<1>13. Answered
  BY DEF Answered
<1>14. Replaying' /\ Generating'
  <2>1. Replaying'
    BY <1>1, <1>12, ReplayKept
  <2>2. Generating'
    BY <1>12 DEF Generating
  <2> QED
    BY <2>1, <2>2
<1> QED
  BY <1>1, <1>2, <1>3, <1>5, <1>8, <1>9, <1>10, <1>11, <1>12, <1>13, <1>14 DEF s

\* The runner's first: the spread, and the instance pointer waits for the forecast.
LEMMA SpreadPublishes ==
    ASSUME Inv, Publish, author = "runner", NEW run \in Ticks, NEW content \in Fields,
           Own(run), ~Early, work = Release(run, content), Analysed(run, content)
    PROVE  Inv'
<1> DEFINE spread == <<"spread", run>>
           forecast == <<"forecast", run>>
           next == Staging(forecast, now, content)
<1>1. /\ work[1] = Staging(spread, now, content) /\ Tail(work) = <<next>>
  BY DEF Release
<1>2. /\ Sound(work[1]) /\ Answered /\ Replaying' /\ Generating'
      /\ work' = Tail(work) /\ awaiting = None /\ awaiting' = None /\ occupying' = None
      /\ spread \in Ids /\ work[1].id = spread /\ Wrote(work[1])
      /\ pointer'["instance"] = spread /\ field'[spread] # None /\ date'[spread] = now
      /\ Analysed(run, content)'
  BY <1>1, RunnerWrites
<1>3. /\ UNCHANGED <<now, phase, artefact>>
      /\ author' = IF work' = <<>> THEN None ELSE author
  BY Publishes
<1>4. /\ work' = <<next>> /\ work'[1] = next /\ author' = "runner"
      /\ next.id = forecast /\ next.tick = now
  <2>1. work' = <<next>>
    BY <1>1, <1>2
  <2>2. work' # <<>>
    BY <2>1
  <2> QED
    BY <1>3, <2>1, <2>2 DEF Staging
<1> HIDE DEF next
<1>5. Releasing'
  <2>1. Own(run)' /\ ~Early'
    BY <1>3 DEF Own, Early
  <2>2. work' = <<Staging(<<"forecast", run>>, now', content)>>
    BY <1>3, <1>4 DEF next
  <2> QED
    BY <1>2, <2>1, <2>2 DEF Releasing
<1>6. Instances'
  <2>1. spread[1] = "spread" /\ spread[2] = run
    OBVIOUS
  <2>2. author' # "source"
    BY <1>4
  <2>3. pointer'["instance"][1] = "spread" /\ pointer'["instance"][2] = run
        /\ date'[pointer'["instance"]] = now
    BY <1>2, <2>1
  <2> QED
    BY <1>4, <2>2, <2>3 DEF Instances
<1> QED
  BY <1>2, <1>5, <1>6, PublishedWhole

\* Its second: the forecast, which the pointer names from then on.
LEMMA ForecastPublishes ==
    ASSUME Inv, Publish, author = "runner", NEW run \in Ticks, NEW content \in Fields,
           Own(run), work = <<Staging(<<"forecast", run>>, now, content)>>,
           Analysed(run, content), field[<<"spread", run>>] # None
    PROVE  Inv'
<1> DEFINE spread == <<"spread", run>>
           forecast == <<"forecast", run>>
<1>1. work[1] = Staging(forecast, now, content) /\ Tail(work) = <<>>
  OBVIOUS
<1>2. /\ Sound(work[1]) /\ Answered /\ Replaying' /\ Generating'
      /\ work' = Tail(work) /\ awaiting = None /\ awaiting' = None /\ occupying' = None
      /\ forecast \in Ids /\ work[1].id = forecast /\ Wrote(work[1])
      /\ pointer'["instance"] = forecast /\ field'[forecast] # None
  BY <1>1, RunnerWrites
<1>3. /\ UNCHANGED <<now, phase, artefact>>
      /\ author' = IF work' = <<>> THEN None ELSE author
  BY Publishes
<1>4. author' \notin {"source", "runner"}
  BY <1>1, <1>2, <1>3, AuthorsAssumption DEF All, Crew
<1>5. Releasing'
  BY <1>2, <1>4 DEF Releasing
<1>6. Instances'
  <2>1. spread \in Ids /\ spread[1] = "spread"
    <3>1. "spread" \in RunParts
      BY DEF RunParts
    <3> QED
      BY <3>1, IdNames
  <2>2. field'[spread] # None
    BY <2>1, Leaves
  <2>3. pointer'["instance"][1] = "forecast" /\ pointer'["instance"][2] = run
    BY <1>2
  <2> QED
    BY <1>4, <2>2, <2>3 DEF Instances
<1> QED
  BY <1>2, <1>5, <1>6, PublishedWhole

\* What the runner releases is dated now, and is what was analysed.
LEMMA RunnerSound ==
    ASSUME Inv, Publish, author = "runner"
    PROVE  Sound(work[1])
<1>1. PICK run \in Ticks, content \in Fields :
         /\ Own(run) /\ ~Early /\ Analysed(run, content)
         /\ \/ work = Release(run, content)
            \/ /\ work = <<Staging(<<"forecast", run>>, now, content)>>
               /\ field[<<"spread", run>>] # None
  BY DEF Inv, Working, Releasing
<1>2. \E part \in {"spread", "forecast"} :
         work[1] = Staging(<<part, run>>, now, content)
  BY <1>1 DEF Release
<1> QED
  BY <1>1, <1>2, RunnerWrites

\* The runner's: a spread, whose forecast is next, or that forecast.
LEMMA RunnerPublishes ==
    ASSUME Inv, Publish, author = "runner"
    PROVE  Inv'
<1>1. PICK run \in Ticks, content \in Fields :
         /\ Own(run) /\ ~Early /\ Analysed(run, content)
         /\ \/ work = Release(run, content)
            \/ /\ work = <<Staging(<<"forecast", run>>, now, content)>>
               /\ field[<<"spread", run>>] # None
  BY DEF Inv, Working, Releasing
<1>2. CASE work = Release(run, content)
  BY <1>1, <1>2, SpreadPublishes
<1>3. CASE /\ work = <<Staging(<<"forecast", run>>, now, content)>>
           /\ field[<<"spread", run>>] # None
  BY <1>1, <1>3, ForecastPublishes
<1> QED
  BY <1>1, <1>2, <1>3

\* What the source publishes after s: a spread's forecast, if s is a spread, and a
\* forecast only then.
Following(s) ==
    /\ work' # <<>> /\ work'[1].id[1] = "forecast" => s.id = <<"spread", work'[1].id[2]>>
    /\ s.id[1] = "spread" =>
          /\ work' # <<>> /\ work'[1].id = <<"forecast", s.id[2]>>
          /\ work'[1].tick = s.tick

\* The source goes on through the artefact, whatever the store answers.
LEMMA SourceGoesOn ==
    ASSUME Inv, Publish, author = "source"
    PROVE  /\ Sound(work[1]) /\ Answered /\ Replaying' /\ Generating' /\ Following(work[1])
           /\ awaiting' = None /\ author' \in {"source", None}
           /\ work[1].tick <= now
           /\ \E n \in 1..Len(artefact) : work[1] = artefact[n]
<1> DEFINE s == work[1]
           w == Len(work)
           L == Len(artefact)
           R == Len(replay)
<1>1. /\ Goes(s) /\ w \in Nat /\ w >= 1 /\ artefact \in Artefacts
      /\ author' = IF work' = <<>> THEN None ELSE author
      /\ \A n \in 1..(w - 1) : n + 1 \in 1..w /\ Tail(work)[n] = work[n + 1]
      /\ Tail(work) \in Seq(Holdings) /\ Len(Tail(work)) = w - 1
      /\ UNCHANGED <<now, artefact, replay>>
  BY Publishes
<1>2. PICK k \in 0..L :
         /\ k + w + R = L
         /\ \A n \in 1..w : work[n] = artefact[k + n] /\ work[n].tick <= now
         /\ \A n \in 1..R : replay[n] = artefact[k + w + n]
         /\ replay # <<>> => replay[1].tick > now
         /\ replay # <<>> => replay[1].id[1] # "forecast"
  BY DEF Inv, Working, Replaying
<1>3. /\ L \in Nat /\ R \in Nat /\ replay \in Seq(Holdings)
  <2>1. artefact \in Seq(Holdings) /\ replay \in Seq(Holdings)
    BY <1>1, ArtefactFacts DEF Inv, Types, WorkTypes
  <2> QED
    BY <2>1
<1>4. k \in Nat /\ k + 1 \in 1..L /\ k + w \in 0..L
  <2> HIDE DEF w, L, R
  <2> QED
    BY <1>1, <1>2, <1>3
<1>5. s = artefact[k + 1] /\ s.tick <= now
  <2>1. 1 \in 1..w
    BY <1>1
  <2> QED
    BY <1>2, <2>1
<1>6. /\ work' = Tail(work) /\ awaiting' = awaiting
  BY <1>1 DEF Goes
<1>7. awaiting = None
  BY AuthorsAssumption DEF Inv, Working, Analysing, All, Crew
<1>8. author' \in {"source", None} /\ author' # "generator"
  BY <1>1, AuthorsAssumption DEF All, Crew
<1>9. Sound(s)
  <2>1. /\ NamesItsDate(s)
        /\ \A n \in 1..L : artefact[n].id = s.id => n = k + 1
        /\ DOMAIN artefact = 1..L
    <3>1. NamesItsDate(s)
      BY <1>1, <1>4, <1>5, ArtefactFacts
    <3>2. ASSUME NEW n \in 1..L, artefact[n].id = s.id PROVE n = k + 1
      <4>1. \A i, j \in 1..L : i < j => artefact[i].id # artefact[j].id
        BY <1>1, ArtefactFacts
      <4>2. ~(n < k + 1) /\ ~(k + 1 < n)
        BY <1>4, <1>5, <3>2, <4>1
      <4> QED
        BY <1>3, <1>4, <4>2
    <3> QED
      BY <1>1, <3>1, <3>2, ArtefactFacts
  <2>2. ASSUME s.id[1] \in {"spread", "forecast"}, field[s.id] # None
        PROVE  date[s.id] <= s.tick
    <3>1. k + 1 \in DOMAIN artefact /\ artefact[k + 1] = s
      BY <1>4, <1>5, <2>1
    <3> HIDE DEF s
    <3>2. date[s.id] = s.tick /\ s.tick \in Nat
      BY <2>2, <3>1, <1>1, ArtefactFacts DEF Inv, Dates
    <3> QED
      BY <3>2
  <2>3. \A n \in DOMAIN artefact : artefact[n].id = s.id =>
            artefact[n].recorded = s.recorded /\ artefact[n].tick = s.tick
    BY <1>5, <2>1
  <2>4. ASSUME s.id[1] \in {"spread", "forecast"} PROVE ~Own(s.id[2])
    <3>1. s.id[2] < s.tick /\ s.tick <= PreRollTicks /\ s.tick \in Nat /\ s.id \in Ids
      BY <1>1, <1>4, <1>5, <2>4, ArtefactFacts
    <3>2. s.id[2] \in Nat /\ PreRollTicks \in Nat
      BY <3>1, IdNames, AuthorsAssumption DEF Ticks
    <3> HIDE DEF s
    <3>3. ~(s.id[2] >= PreRollTicks)
      BY <3>1, <3>2
    <3>4. artefact # <<>>
      <4>1. CASE artefact = <<>>
        <5>1. L = 0
          BY <4>1
        <5> HIDE DEF L
        <5> QED
          BY <1>4, <5>1
      <4> QED
        BY <4>1
    <3> QED
      BY <3>3, <3>4 DEF Own
  <2>5. s.tick <= now
    BY <1>5
  <2> HIDE DEF s
  <2> QED
    BY <2>1, <2>2, <2>3, <2>4, <2>5 DEF Sound, NamesItsDate, Authored
<1>10. Answered
  BY DEF Answered
<1>11. Generating'
  BY <1>8 DEF Generating
<1>12. /\ w # 1 => /\ work' # <<>> /\ author' = "source"
                   /\ Len(work') = w - 1
                   /\ \A n \in 1..(w - 1) : work'[n] = artefact[(k + 1) + n]
                                            /\ work'[n].tick <= now
       /\ w = 1 => work' = <<>> /\ author' = None
  <2>1. CASE w # 1
    <3>1. Len(work') = w - 1 /\ Len(work') # 0
      BY <1>1, <1>6, <2>1
    <3>2. work' # <<>>
      <4>1. Len(<<>>) = 0
        OBVIOUS
      <4> QED
        BY <3>1, <4>1, Zenon
    <3>3. ASSUME NEW n \in 1..(w - 1)
          PROVE  work'[n] = artefact[(k + 1) + n] /\ work'[n].tick <= now
      <4>1. n + 1 \in 1..w /\ work'[n] = work[n + 1]
        BY <1>1, <1>6
      <4>2. work[n + 1] = artefact[k + (n + 1)] /\ work[n + 1].tick <= now
        BY <1>2, <4>1
      <4>3. k + (n + 1) = (k + 1) + n
        BY <1>1, <1>4
      <4> QED
        BY <4>1, <4>2, <4>3
    <3> QED
      BY <1>1, <2>1, <3>1, <3>2, <3>3
  <2>2. CASE w = 1
    <3>1. Len(Tail(work)) = 0
      BY <1>1, <2>2
    <3>2. Tail(work) = <<>>
      BY <1>1, <3>1, EmptySeq
    <3> QED
      BY <1>1, <1>6, <2>2, <3>2
  <2> QED
    BY <2>1, <2>2
<1>13. Replaying'
  <2>1. CASE w # 1
    <3> DEFINE k1 == k + 1
    <3>1. k1 + Len(work') + R = L /\ k1 \in 0..L /\ Len(work') = w - 1
      <4>1. Len(work') = w - 1
        BY <1>12, <2>1
      <4> HIDE DEF w, L, R
      <4> QED
        BY <1>1, <1>2, <1>3, <1>4, <4>1
    <3>2. \A n \in 1..R : replay[n] = artefact[k1 + Len(work') + n]
      <4>1. \A n \in 1..R : k1 + Len(work') + n = k + w + n
        <5> HIDE DEF w, L, R
        <5> QED
          BY <1>1, <1>3, <1>4, <3>1
      <4> QED
        BY <1>2, <4>1
    <3>3. /\ author' = "source"
          /\ \A n \in 1..Len(work') :
                work'[n] = artefact[k1 + n] /\ work'[n].tick <= now
      BY <1>12, <2>1, <3>1
    <3>4. artefact' = artefact /\ replay' = replay /\ now' = now
      BY <1>1
    <3>5. replay # <<>> => replay[1].tick > now /\ replay[1].id[1] # "forecast"
      BY <1>2
    <3> HIDE DEF w, k1
    <3> QED
      BY <3>1, <3>2, <3>3, <3>4, <3>5 DEF Replaying
  <2>2. CASE w = 1
    <3> DEFINE k1 == k + 1
    <3>1. k1 + R = L /\ k1 \in 0..L /\ k1 + 0 = k1
      <4> HIDE DEF w, L, R
      <4> QED
        BY <1>1, <1>2, <1>3, <1>4, <2>2
    <3>2. \A n \in 1..R : replay[n] = artefact[k1 + n]
      <4>1. \A n \in 1..R : k1 + n = k + w + n
        <5> HIDE DEF w, L, R
        <5> QED
          BY <1>1, <1>3, <1>4, <2>2
      <4> QED
        BY <1>2, <4>1
    <3>3. author' # "source"
      BY <1>12, <2>2, AuthorsAssumption DEF All, Crew
    <3>4. replay # <<>> => replay[1].id[1] # "forecast"
      BY <1>2
    <3>5. artefact' = artefact /\ replay' = replay
      BY <1>1
    <3> HIDE DEF w, k1
    <3> QED
      BY <3>1, <3>2, <3>3, <3>4, <3>5 DEF Replaying
  <2> QED
    BY <2>1, <2>2
<1>14. Following(s)
  <2>1. /\ s.id[1] = "spread" =>
              /\ k + 2 \in 1..L /\ artefact[k + 2].id = <<"forecast", s.id[2]>>
              /\ artefact[k + 2].tick = s.tick
        /\ k + 2 \in 1..L /\ artefact[k + 2].id[1] = "forecast" =>
              s.id = <<"spread", artefact[k + 2].id[2]>>
    <3>1. (k + 1) + 1 = k + 2 /\ (k + 2) - 1 = k + 1
      BY <1>4
    <3>2. s.id[1] = "spread" =>
              /\ k + 2 \in 1..L /\ artefact[k + 2].id = <<"forecast", s.id[2]>>
              /\ artefact[k + 2].tick = s.tick
      <4>1. artefact[k + 1].id[1] = "spread" =>
                /\ (k + 1) + 1 \in 1..L
                /\ artefact[(k + 1) + 1].id = <<"forecast", artefact[k + 1].id[2]>>
                /\ artefact[(k + 1) + 1].tick = artefact[k + 1].tick
        BY <1>1, <1>4, ArtefactFacts
      <4> QED
        BY <1>5, <3>1, <4>1
    <3>3. k + 2 \in 1..L /\ artefact[k + 2].id[1] = "forecast" =>
              s.id = <<"spread", artefact[k + 2].id[2]>>
      <4>1. k + 2 \in 1..L /\ artefact[k + 2].id[1] = "forecast" =>
                artefact[(k + 2) - 1].id = <<"spread", artefact[k + 2].id[2]>>
        BY <1>1, ArtefactFacts
      <4> QED
        BY <1>5, <3>1, <4>1
    <3> QED
      BY <3>2, <3>3
  <2>2. CASE w # 1
    <3>1. work' # <<>> /\ work'[1] = artefact[k + 2] /\ k + 2 \in 1..L
      <4>1. 1 \in 1..(w - 1) /\ (k + 1) + 1 = k + 2 /\ k + 2 \in 1..L
        <5> HIDE DEF w, L, R
        <5> QED
          BY <1>1, <1>2, <1>3, <1>4, <2>2
      <4> QED
        BY <1>12, <2>2, <4>1
    <3> QED
      BY <2>1, <3>1 DEF Following
  <2>3. CASE w = 1
    <3>1. ASSUME s.id[1] = "spread" PROVE FALSE
      <4>1. k + 2 \in 1..L /\ artefact[k + 2].id = <<"forecast", s.id[2]>>
        BY <2>1, <3>1
      <4>2. 1 \in 1..R /\ k + w + 1 = k + 2
        <5> HIDE DEF w, L, R
        <5> QED
          BY <1>1, <1>2, <1>3, <1>4, <2>3, <4>1
      <4>3. replay[1] = artefact[k + 2] /\ replay # <<>>
        BY <1>2, <1>3, <4>2
      <4> QED
        BY <1>2, <4>1, <4>3
    <3> QED
      BY <1>12, <2>3, <3>1 DEF Following
  <2> QED
    BY <2>2, <2>3
<1> QED
  BY <1>4, <1>5, <1>6, <1>7, <1>8, <1>9, <1>10, <1>11, <1>13, <1>14

\* A release of the artefact's: the pointer rests on its spread only while its
\* forecast is next, and on that forecast only if its spread is held.
LEMMA SourceInstances ==
    ASSUME Inv, Publish, author = "source"
    PROVE  Instances'
<1> DEFINE s == work[1]
           at == pointer["instance"]
           f == work'[1]
<1>1. /\ Goes(s) /\ s.id \in Ids /\ s.recorded # None /\ s.id # None
      /\ author' = IF work' = <<>> THEN None ELSE author
      /\ artefact \in Artefacts /\ artefact' = artefact
  BY Publishes
<1>2. /\ Following(s) /\ author' \in {"source", None}
      /\ \E n \in 1..Len(artefact) : s = artefact[n]
  BY SourceGoesOn
<1>3. author' = "source" <=> work' # <<>>
  BY <1>1, AuthorsAssumption DEF All, Crew
<1>4. at # None => at \in Ids
  BY DEF Inv, Proved!StoreInv, Proved!TypeOK, Proved!PointedEras
<1>5. \A i \in Ids : /\ <<"spread", i[2]>> \in Ids
                     /\ <<"spread", i[2]>>[1] = "spread" /\ <<"spread", i[2]>>[2] = i[2]
  BY IdNames DEF RunParts
<1>6. /\ \A i \in Ids : field[i] # None /\ i[1] # "nowcast" => field'[i] # None
      /\ pointer'["instance"] # at => EraOf[s.id] = "instance"
  BY Leaves DEF Proved!PointedEras
<1>7. \A i \in Ids : field[<<"spread", i[2]>>] # None => field'[<<"spread", i[2]>>] # None
  BY <1>5, <1>6
<1>8. /\ s.id[1] \in {"spread", "forecast"} <=> EraOf[s.id] = "instance"
      /\ "instance" \in Proved!PointedEras
  BY <1>1, EraNames DEF Proved!PointedEras
<1> HIDE DEF s, at
<1> SUFFICES ASSUME Whole(artefact)
             PROVE  /\ pointer'["instance"] # None =>
                          \/ /\ pointer'["instance"][1] = "forecast"
                             /\ field'[<<"spread", pointer'["instance"][2]>>] # None
                          \/ /\ pointer'["instance"][1] = "spread" /\ author' = "source"
                             /\ f.id = <<"forecast", pointer'["instance"][2]>>
                             /\ f.tick = date'[pointer'["instance"]]
                    /\ author' = "source" /\ f.id[1] = "forecast" =>
                          \/ field'[<<"spread", f.id[2]>>] # None
                          \/ /\ pointer'["instance"] # None /\ pointer'["instance"] # f.id
                             /\ date'[pointer'["instance"]] > f.tick
  BY <1>1 DEF Instances
<1>9. /\ at # None =>
            \/ at[1] = "forecast" /\ field[<<"spread", at[2]>>] # None
            \/ at[1] = "spread" /\ s.id = <<"forecast", at[2]>> /\ s.tick = date[at]
      /\ s.id[1] = "forecast" =>
            \/ field[<<"spread", s.id[2]>>] # None
            \/ at # None /\ at # s.id /\ date[at] > s.tick
  BY DEF Inv, Instances, s, at
<1>10. ~Damaged(s)
  <2>1. DOMAIN artefact = 1..Len(artefact)
    BY <1>1, ArtefactFacts
  <2> QED
    BY <1>2, <2>1 DEF Damaged, Live, Whole
<1>11. s.id[1] # "spread" /\ author' = "source" => f.id[1] # "forecast"
  <2> SUFFICES ASSUME author' = "source", f.id[1] = "forecast" PROVE s.id[1] = "spread"
    OBVIOUS
  <2>1. s.id = <<"spread", f.id[2]>>
    BY <1>2, <1>3 DEF Following
  <2> QED
    BY <2>1
<1>12. CASE s.id[1] = "spread"
  <2>1. /\ author' = "source" /\ f.id = <<"forecast", s.id[2]>> /\ f.tick = s.tick
        /\ f.id[1] = "forecast" /\ f.id[2] = s.id[2]
    <3>1. author' = "source" /\ f.id = <<"forecast", s.id[2]>> /\ f.tick = s.tick
      BY <1>2, <1>3, <1>12 DEF Following
    <3> HIDE DEF f
    <3> QED
      BY <3>1
  <2>2. s.id = <<"spread", s.id[2]>>
    BY <1>1, <1>12, IdNames
  <2>3. at # None => at[1] = "forecast" /\ field[<<"spread", at[2]>>] # None
    <3>1. \A x : <<"forecast", x>>[1] = "forecast"
      OBVIOUS
    <3> QED
      BY <1>9, <1>12, <3>1
  <2> HIDE DEF f
  <2>4. CASE Wrote(s)
    <3>1. /\ pointer'["instance"] = s.id /\ date'[s.id] = s.tick /\ field'[s.id] # None
      BY <1>1, <1>8, <1>12, <2>4 DEF Wrote
    <3> QED
      BY <1>12, <2>1, <2>2, <3>1
  <2>5. CASE Taken(s) /\ UNCHANGED <<field, date, pointer, book>>
    <3>1. field'[<<"spread", f.id[2]>>] # None
      BY <2>1, <2>2, <2>5 DEF Taken
    <3>2. pointer'["instance"] = at /\ field' = field
      BY <2>5 DEF at
    <3> QED
      BY <2>3, <3>1, <3>2
  <2>6. CASE Late(s) /\ UNCHANGED <<field, date, pointer, book>>
    <3>1. pointer'["instance"] = at /\ field' = field /\ date' = date
      BY <2>6 DEF at
    <3>2. at # None /\ at # s.id /\ s.tick < date[at]
      BY <1>8, <1>12, <2>6 DEF Late, at
    <3>3. at[1] = "forecast" /\ field[<<"spread", at[2]>>] # None
      BY <2>3, <3>2
    <3>4. at = f.id => field[<<"spread", f.id[2]>>] # None
      BY <3>3
    <3>5. date[at] > f.tick
      BY <2>1, <3>2
    <3> QED
      BY <3>1, <3>2, <3>3, <3>4, <3>5
  <2> QED
    BY <1>1, <1>10, <2>4, <2>5, <2>6 DEF Goes
<1>13. CASE s.id[1] = "forecast"
  <2>1. author' = "source" => f.id[1] # "forecast"
    BY <1>11, <1>13
  <2> HIDE DEF f
  <2>2. CASE Wrote(s) /\ ~Late(s)
    <3>1. pointer'["instance"] = s.id
      BY <1>8, <1>13, <2>2 DEF Wrote
    <3>2. field[<<"spread", s.id[2]>>] # None
      <4>1. ~(at # None /\ at # s.id /\ s.tick < date[at])
        BY <1>8, <1>13, <2>2 DEF Late, at
      <4>2. ~(at # None /\ at # s.id /\ date[at] > s.tick)
        BY <4>1
      <4> QED
        BY <1>9, <1>13, <4>2
    <3>3. field'[<<"spread", s.id[2]>>] # None
      BY <1>1, <1>7, <3>2
    <3> QED
      BY <1>13, <2>1, <3>1, <3>3
  <2>3. CASE (Taken(s) \/ Late(s)) /\ UNCHANGED <<field, date, pointer, book>>
    <3>1. pointer'["instance"] = at /\ field' = field
      BY <2>3 DEF at
    <3>2. ASSUME at # None, at[1] = "spread", s.id = <<"forecast", at[2]>>, s.tick = date[at]
          PROVE  FALSE
      <4>1. ~Late(s)
        <5>1. date[at] \in Nat
          BY <3>2, Publishes DEF s
        <5>2. ~(s.tick < date[at])
          BY <3>2, <5>1
        <5> QED
          BY <1>8, <1>13, <5>2 DEF Late, at
      <4>2. Taken(s)
        BY <2>3, <4>1
      <4>3. field[s.id] # None /\ field[s.id] # s.recorded
        BY <4>2 DEF Taken
      <4>4. field[s.id] = s.recorded
        <5>1. DOMAIN artefact = 1..Len(artefact)
          BY <1>1, ArtefactFacts
        <5> QED
          BY <1>2, <1>13, <4>3, <5>1 DEF Inv, Dates
      <4> QED
        BY <4>3, <4>4
    <3>3. at # None => at[1] = "forecast" /\ field[<<"spread", at[2]>>] # None
      BY <1>9, <3>2
    <3> QED
      BY <2>1, <3>1, <3>3
  <2> QED
    BY <1>1, <1>10, <2>2, <2>3 DEF Goes
<1>14. CASE s.id[1] \notin {"spread", "forecast"}
  <2>1. author' = "source" => f.id[1] # "forecast"
    BY <1>11, <1>14
  <2>2. pointer'["instance"] = at
    BY <1>6, <1>8, <1>14
  <2>3. at # None => at[1] = "forecast" /\ field[<<"spread", at[2]>>] # None
    <3>1. \A x : <<"forecast", x>>[1] = "forecast"
      OBVIOUS
    <3> QED
      BY <1>9, <1>14, <3>1
  <2>4. at # None => field'[<<"spread", at[2]>>] # None
    BY <1>4, <1>7, <2>3
  <2> HIDE DEF f
  <2> QED
    BY <2>1, <2>2, <2>3, <2>4
<1> QED
  BY <1>12, <1>13, <1>14

\* The source's: what was committed, damaged or not, and whatever is already held.
LEMMA SourcePublishes ==
    ASSUME Inv, Publish, author = "source"
    PROVE  Inv'
<1> DEFINE s == work[1]
<1>1. /\ UNCHANGED <<now, phase, artefact, occupying>> /\ artefact \in Artefacts
      /\ s.id \in Ids /\ now \in Nat /\ s.tick \in Nat
  BY Publishes
<1>2. /\ Sound(s) /\ Answered /\ Replaying' /\ Generating'
      /\ awaiting' = None /\ author' \in {"source", None} /\ s.tick <= now
      /\ \E n \in 1..Len(artefact) : s = artefact[n]
  BY SourceGoesOn
<1>3. Releasing'
  <2>1. author' # "runner"
    BY <1>2, AuthorsAssumption DEF All, Crew
  <2> QED
    BY <1>1, <1>2, <2>1, OccupiedStays DEF Releasing
<1>4. Instances'
  BY SourceInstances
<1>5. Sound(work[1])
  BY <1>2 DEF s
<1> QED
  BY <1>2, <1>3, <1>4, <1>5, PublishedWhole

\* Whatever anyone publishes is dated as the producers' rules ask.
LEMMA PublishedSound ==
    ASSUME Inv, Publish
    PROVE  Sound(work[1])
<1>1. author \in {"source", "generator", "analyst", "runner"}
  BY Publishes
<1>2. CASE author = "source"
  BY <1>2, SourceGoesOn
<1>3. CASE author = "generator"
  BY <1>3, GeneratorSound
<1>4. CASE author = "analyst"
  BY <1>4, AnalystSound
<1>5. CASE author = "runner"
  BY <1>5, RunnerSound
<1> QED
  BY <1>1, <1>2, <1>3, <1>4, <1>5

\* Whoever publishes, and whatever the store answers.
LEMMA PublishSteps ==
    ASSUME Inv, Publish
    PROVE  Inv'
<1>1. author \in {"source", "generator", "analyst", "runner"}
  BY Publishes
<1> QED
  BY <1>1, SourcePublishes, GeneratorPublishes, AnalystPublishes, RunnerPublishes

-----------------------------------------------------------------------------
(* The system.                                                             *)

\* The page as it boots.
LEMMA InitInv == Init => Inv
<1> SUFFICES ASSUME Init PROVE Inv
  OBVIOUS
<1>1. /\ now = 0 /\ phase = "boot" /\ artefact \in Artefacts
      /\ order = BootOrder /\ hearing = BootOrder
      /\ author = None /\ work = <<>> /\ awaiting = None
      /\ replay = artefact /\ provisioned = FALSE /\ lastNowcast = 0
      /\ analystTick = 0 /\ faultPending = FALSE
      /\ runnerTick = 0 /\ occupying = None
      /\ plannerTick = 0 /\ placed = FALSE /\ errorRun = None
      /\ lastPlanTick = -1 /\ plan = None
      /\ prompts = 0 /\ stops = 0 /\ lastAnnounced = None
  BY DEF Init
<1>2. /\ \A i \in Ids : field[i] = None /\ book[i] = None
      /\ \A e \in Proved!PointedEras : pointer[e] = None
      /\ Proved!StoreInv
  <2>1. Proved!Init
    BY SameStore DEF Init
  <2>2. Proved!StoreInv
    BY <2>1, StoreAssumed, Proved!StoreInit
  <2> QED
    BY <2>1, <2>2 DEF Proved!Init
<1>3. /\ author \notin {"source", "generator", "analyst", "runner", "planner"}
      /\ 0 \in Ticks /\ 0 \in 0..0
      /\ MaxPrompts \in Nat /\ MaxStops \in Nat
  BY <1>1, AuthorsAssumption DEF All, Crew, Ticks
<1>4. /\ BootOrder \in Seq(All) /\ DOMAIN BootOrder = 1..5
      /\ \A m, n \in DOMAIN BootOrder : BootOrder[m] = BootOrder[n] => m = n
      /\ BootOrder[1] = "source" /\ BootOrder[2] = "generator" /\ BootOrder[3] = "analyst"
      /\ BootOrder[4] = "runner" /\ BootOrder[5] = "planner"
  BY DEF BootOrder, All, Crew
<1>5. artefact \in Seq(Holdings) /\ <<>> \in Seq(Holdings)
  BY <1>1, ArtefactFacts
<1>6. CrewTypes
  <2>1. /\ now \in Ticks /\ lastNowcast \in 0..now /\ analystTick \in 0..now
        /\ runnerTick \in 0..now /\ prompts \in 0..MaxPrompts /\ stops \in 0..MaxStops
    BY <1>1, <1>3
  <2>2. order \in Seq(All) /\ hearing \in Seq(All)
        /\ \A m, n \in DOMAIN order : order[m] = order[n] => m = n
    BY <1>1, <1>4
  <2> QED
    BY <1>1, <2>1, <2>2 DEF CrewTypes
<1>7. WorkTypes /\ PlanTypes
  <2>1. WorkTypes
    BY <1>1, <1>5 DEF WorkTypes
  <2>2. plannerTick \in 0..now /\ lastPlanTick \in -1..plannerTick
    BY <1>1
  <2>3. PlanTypes
    BY <1>1, <2>2 DEF PlanTypes
  <2> QED
    BY <2>1, <2>3
<1>8. Staged
  BY <1>1 DEF Staged, Early, Up
<1>9. Forgotten
  <2>1. Up("source") /\ Up("generator") /\ Up("runner") /\ Up("planner")
    <3>1. 1 \in 1..5 /\ 2 \in 1..5 /\ 4 \in 1..5 /\ 5 \in 1..5
      OBVIOUS
    <3> QED
      BY <1>1, <1>4, <3>1, Zenon DEF Up
  <2> QED
    BY <2>1 DEF Forgotten
<1>10. Working
  <2>1. replay # <<>> => replay[1].id[1] # "forecast"
    <3> SUFFICES ASSUME artefact # <<>>, artefact[1].id[1] = "forecast" PROVE FALSE
      BY <1>1
    <3>1. 1 \in 1..Len(artefact)
      BY <1>5
    <3>2. 1 - 1 \in 1..Len(artefact)
      BY <1>1, <3>1, ArtefactFacts
    <3> QED
      BY <3>2
  <2>2. 0 \in 0..Len(artefact) /\ 0 + 0 + Len(artefact) = Len(artefact)
    BY <1>5
  <2>3. \A n \in 1..Len(artefact) : artefact[n] = artefact[0 + 0 + n]
    BY <1>5
  <2>4. Replaying
    BY <1>1, <1>3, <2>1, <2>2, <2>3 DEF Replaying
  <2>5. Generating /\ Analysing /\ Releasing
    BY <1>1, <1>3 DEF Generating, Analysing, Releasing
  <2> QED
    BY <2>4, <2>5 DEF Working
<1>11. Dates
  <2>1. \A run \in Ticks : \A part \in {"spread", "forecast"} : <<part, run>> \in Ids
    BY IdNames DEF RunParts
  <2>2. \A n \in DOMAIN artefact : artefact[n].id \in Ids
    BY <1>1, ArtefactFacts
  <2>3. \A i \in Ids : field[i] = None /\ book[i] = None
    BY <1>2
  <2>4. /\ \A run \in Ticks : \A part \in {"spread", "forecast"} : field[<<part, run>>] = None
        /\ \A n \in DOMAIN artefact : field[artefact[n].id] = None
    BY <2>1, <2>2, <2>3
  <2> QED
    BY <2>3, <2>4 DEF Dates
<1>12. Provisions
  BY <1>1, <1>2 DEF Provisions, Held
<1>13. ProvisionedAtBoot
  <2>1. 2 \in 1..5
    OBVIOUS
  <2> QED
    BY <1>1, <1>4, <2>1, Zenon DEF ProvisionedAtBoot, Among
<1>14. Cadenced
  BY <1>1 DEF Cadenced
<1>15. Instances
  BY <1>2, <1>3 DEF Instances, Proved!PointedEras
<1>16. Planning
  BY <1>1 DEF Planning
<1> QED
  BY <1>2, <1>6, <1>7, <1>8, <1>9, <1>10, <1>11, <1>12, <1>13, <1>14, <1>15, <1>16
     DEF Inv, Types

\* Every step of the system, and none of it.
LEMMA InvStep == Inv /\ [Next]_vars => Inv'
<1> SUFFICES ASSUME Inv, [Next]_vars PROVE Inv'
  OBVIOUS
<1>1. CASE Hear
  BY <1>1, HearSteps
<1>2. CASE Publish
  BY <1>2, PublishSteps
<1>3. CASE Announce
  BY <1>3, AnnounceSteps
<1>4. CASE Request
  BY <1>4, RequestSteps
<1>5. CASE FaultySample \/ Sounding \/ ReplanOnRequest
  BY <1>5, AskedOfOne
<1>6. CASE NowcastOnRequest
  BY <1>6, PromptedNowcast
<1>7. CASE Tick \/ Repeat \/ PinClock \/ RestoreRate
  BY <1>7, SampleSteps
<1>8. CASE HoldBack \/ \E c \in All : Stop(c)
  BY <1>8, StopSteps
<1>9. CASE StartCrew \/ \E c \in All : Start(c)
  BY <1>9, StartSteps
<1>10. CASE UNCHANGED vars
  <2>1. /\ UNCHANGED <<field, date, pointer, announced, verdict, book>>
        /\ UNCHANGED <<now, phase, artefact, order, hearing, author, work, awaiting,
                       replay, provisioned, lastNowcast, analystTick, faultPending,
                       runnerTick, occupying, plannerTick, placed, errorRun,
                       lastPlanTick, plan, prompts, stops, lastAnnounced>>
    BY <1>10 DEF vars, storeVars, generatorVars, analystVars, runnerVars, plannerVars,
                 bounds
  <2>2. Proved!StoreInv'
    BY <2>1, StoreStays DEF Inv, storeVars
  <2>3. Types' /\ Staged' /\ Forgotten' /\ ProvisionedAtBoot' /\ Planning'
    BY <2>1 DEF Inv, Types, CrewTypes, WorkTypes, PlanTypes, Staged, Early, Up,
                Forgotten, ProvisionedAtBoot, Among, Planning, CanPlan
  <2>4. Replaying' /\ Analysing' /\ Releasing' /\ Instances'
    <3>1. Replaying' /\ Analysing'
      BY <2>1 DEF Inv, Working, Replaying, Analysing
    <3>2. Releasing'
      BY <2>1 DEF Inv, Working, Releasing, Analysed, Own, Early, Release
    <3>3. Instances'
      BY <2>1 DEF Inv, Instances, Whole
    <3> QED
      BY <3>1, <3>2, <3>3
  <2>5. Generating' /\ Dates' /\ Provisions' /\ Cadenced'
    <3>1. Generating' /\ Provisions' /\ Cadenced'
      BY <2>1 DEF Inv, Working, Generating, Evaluated, Provisions, Held, Cadenced, Among
    <3>2. Dates'
      BY <2>1 DEF Inv, Dates, Own, Analysed
    <3> QED
      BY <3>1, <3>2
  <2> QED
    BY <2>2, <2>3, <2>4, <2>5 DEF Inv, Working
<1> QED
  BY <1>1, <1>2, <1>3, <1>4, <1>5, <1>6, <1>7, <1>8, <1>9, <1>10 DEF Next

\* What the authors keep, whatever is replayed, prompted, refused, stopped and
\* started, for every artefact, interval, cost and pre-roll.
THEOREM AuthorsInvariance == Spec => []Inv
  BY InitInv, InvStep, PTL DEF Spec

\* Its types are right (source.ts:50-64, generator.ts:66-80, analyst.ts:77-83,
\* runner.ts:73-101, planner.ts).
THEOREM AuthorsTypeCorrect == Spec => []AuthorsTypeOK
<1>1. Inv => AuthorsTypeOK
  <2> SUFFICES ASSUME Inv PROVE AuthorsTypeOK
    OBVIOUS
  <2>1. Store!TypeOK
    BY DEF Inv, Proved!StoreInv, Proved!TypeOK, Store!TypeOK, Proved!PointedEras,
           Store!PointedEras, Proved!Verdicts, Store!Verdicts, Proved!Entries,
           Store!Entries
  <2>2. CrewTypes /\ WorkTypes /\ PlanTypes
    BY DEF Inv, Types
  <2>3. lastNowcast \in Ticks
    <3>1. lastNowcast \in 0..now /\ now \in 0..MaxTick /\ MaxTick \in Nat
      BY <2>2, AuthorsAssumption DEF CrewTypes, Ticks
    <3> QED
      BY <3>1 DEF Ticks
  <2> QED
    BY <2>1, <2>2, <2>3 DEF AuthorsTypeOK, CrewTypes, WorkTypes, PlanTypes
<1> QED
  BY <1>1, AuthorsInvariance, PTL

\* What the authors do to the store is what its own module allows of a producer:
\* a now-cast and a brief are dated as they were first dated, a run forecast again
\* is dated no earlier than it is held, although the artefact speaks of runs too,
\* and no tick has two now-casts (generator.ts:196-237, source.ts:85-119,
\* runner.ts:158-195).
THEOREM AuthorsUseTheStore == Spec => StoreSpec
<1> DEFINE Used == LET s == Head(work) IN
                      /\ work # <<>> /\ s.tick \in 0..MaxTick
                      /\ Store!WellDated(s) /\ Store!OneNowcastPerTick(s)
                      /\ Store!Publish(s)
<1>1. Init => Store!Init
  BY DEF Init
<1>2. Inv /\ [Next]_vars => [Used]_storeVars
  <2> SUFFICES ASSUME Inv, [Next]_vars PROVE [Used]_storeVars
    OBVIOUS
  <2>1. CASE Publish
    <3>1. work # <<>> /\ Head(work) = work[1]
      BY <2>1 DEF Publish
    <3>2. /\ Store!Publish(work[1]) /\ work[1] \in Holdings
          /\ author \in {"source", "generator", "analyst", "runner"}
      BY <2>1, Publishes
    <3>3. work[1].tick \in 0..MaxTick
      BY <3>2 DEF Holdings, Ticks
    <3>4. Sound(work[1])
      BY <2>1, <3>2, PublishedSound
    <3>5. Store!WellDated(work[1]) /\ Store!OneNowcastPerTick(work[1])
      BY <2>1, <3>4, SoundStore
    <3> QED
      BY <3>1, <3>2, <3>3, <3>5, Zenon
  <2>2. CASE ~Publish
    <3>1. UNCHANGED storeVars
      BY <2>2
         DEF Next, vars, Hear, Announce, Request, FaultySample, NowcastOnRequest,
             ReplanOnRequest, Sounding, Tick, Repeat, PinClock, Sample, HoldBack,
             RestoreRate, StartCrew, Stop, Start
    <3> QED
      BY <3>1
  <2> QED
    BY <2>1, <2>2
<1> QED
  BY <1>1, <1>2, AuthorsInvariance, PTL DEF Spec, StoreSpec

\* One archive and one brief, however often the generator is provisioned and whether
\* or not an artefact brought them (generator.ts:196-225).
THEOREM EachProvisionedOnce == Spec => []ProvisionedOnce
<1>1. Inv => ProvisionedOnce
  <2> SUFFICES ASSUME Inv, NEW era \in {"archive", "departure"}
               PROVE  Cardinality(Held(era)) <= 1
    BY DEF ProvisionedOnce
  <2>1. Held(era) \subseteq {<<era, 0>>}
    <3> SUFFICES ASSUME NEW i \in Ids, i \in Held(era) PROVE i = <<era, 0>>
      BY DEF Held
    <3>1. i[2] = 0
      BY DEF Inv, Provisions
    <3>2. i[1] = era
      BY EraNames DEF Held, Authored
    <3> QED
      BY <3>1, <3>2, IdNames
  <2>2. IsFiniteSet({<<era, 0>>}) /\ Cardinality({<<era, 0>>}) = 1
    BY FS_Singleton
  <2>3. Cardinality(Held(era)) <= Cardinality({<<era, 0>>})
    BY <2>1, <2>2, FS_Subset
  <2> QED
    BY <2>2, <2>3
<1> QED
  BY <1>1, AuthorsInvariance, PTL

\* The now-cast the store points to is younger than the interval between drains,
\* whoever authored it (generator.ts:196-237).
THEOREM NowcastStaysFresh == Spec => []NowcastIsFresh
<1>1. Inv => NowcastIsFresh
  <2> SUFFICES ASSUME Inv, Idle, provisioned
               PROVE  /\ pointer["nowcast"] # None
                      /\ now - date[pointer["nowcast"]] < NowcastInterval
    BY DEF NowcastIsFresh
  <2>1. /\ pointer["nowcast"] # None /\ date[pointer["nowcast"]] >= lastNowcast
        /\ now \in Nat /\ hearing = <<>>
    BY Idly
  <2>2. now - lastNowcast < NowcastInterval
    BY <2>1 DEF Inv, Cadenced, Among
  <2>3. date[pointer["nowcast"]] \in Nat
    <3>1. pointer["nowcast"] \in Ids /\ field[pointer["nowcast"]] # None
      BY <2>1 DEF Inv, Proved!StoreInv, Proved!TypeOK, Proved!PointerNamesNewest,
                  Proved!Held, Proved!PointedEras
    <3> QED
      BY <3>1 DEF Inv, Proved!StoreInv, Proved!TypeOK, Proved!OneFieldPerName,
                  Proved!Held
  <2>4. lastNowcast \in Nat /\ NowcastInterval \in Nat
    BY <2>1, AuthorsAssumption DEF Inv, Types, CrewTypes
  <2> QED
    BY <2>1, <2>2, <2>3, <2>4
<1> QED
  BY <1>1, AuthorsInvariance, PTL

\* The instance pointer names a forecast whose spread is held, between drains
\* (runner.ts:158-195, source.ts:85-119, standing-run.ts).
THEOREM InstanceStaysForecast == Spec => []InstanceIsForecast
<1>1. Inv => InstanceIsForecast
  <2> SUFFICES ASSUME Inv, Idle, pointer["instance"] # None, Whole(artefact)
               PROVE  /\ pointer["instance"][1] = "forecast"
                      /\ field[<<"spread", pointer["instance"][2]>>] # None
    BY DEF InstanceIsForecast
  <2>1. author \notin {"source", "runner"}
    BY Idly
  <2> QED
    BY <2>1 DEF Inv, Instances
<1> QED
  BY <1>1, AuthorsInvariance, PTL

\* A plan is of the newest analysis announced, and never an interval old
\* (planner.ts:119-146, 319-337).
THEOREM PlanStaysCurrent == Spec => []PlanIsCurrent
<1>1. Inv => PlanIsCurrent
  <2> SUFFICES ASSUME Inv, plan # None, plannerTick = now
               PROVE  /\ now - plan.tick < ReplanInterval
                      /\ \/ plan.run = lastAnnounced.run
                         \/ lastAnnounced.tick = now
                         \/ now + 1 < ReplanInterval
    BY DEF PlanIsCurrent
  <2>1. /\ errorRun # None /\ lastAnnounced \in Plans /\ lastAnnounced.run = errorRun
        /\ lastAnnounced.tick <= now /\ now - plan.tick < ReplanInterval
        /\ lastPlanTick = -1 =>
              lastAnnounced.tick >= now \/ now = 0 \/ now + 1 < ReplanInterval
        /\ lastPlanTick # -1 => plan.run = errorRun
    BY DEF Inv, Planning, CanPlan
  <2>2. now \in Nat /\ lastAnnounced.tick \in Nat
    BY <2>1, AuthorsAssumption DEF Inv, Types, CrewTypes, Plans, Ticks
  <2> QED
    BY <2>1, <2>2
<1> QED
  BY <1>1, AuthorsInvariance, PTL

-----------------------------------------------------------------------------
(* What the console opens on.  While an artefact speaks for the crew, each *)
(* of its holdings that has been replayed is held, and nothing newer is.   *)

\* How much of the artefact the source has published.
Sent == Len(artefact) - Len(replay) - (IF author = "source" THEN Len(work) ELSE 0)

PreRoll == phase # "open" /\ artefact # <<>> /\ Whole(artefact)

\* The source is the first to hear a sample.
SourceFirst ==
    IF Among("source", hearing) THEN hearing = order /\ author = None
    ELSE replay # <<>> => replay[1].tick > now

\* The crew publishes nothing once it has been held back.
HeldBack == phase \in {"winding", "restored"} => author \in {"source", None}

\* The generator is about to author a now-cast.
Preparing == author = "generator" /\ \E m \in DOMAIN work : work[m].id[1] = "nowcast"

Out(n) ==
    LET h == artefact[n] IN
    /\ field[h.id] # None
    /\ h.id[1] = "nowcast" => pointer["nowcast"] = h.id /\ ~Preparing

ToCome(n) ==
    LET h == artefact[n] IN
    h.id[1] = "nowcast" =>
        /\ field[h.id] = None
        /\ pointer["nowcast"] # None => date[pointer["nowcast"]] < h.tick
        /\ Preparing => now < h.tick

Replayed ==
    /\ \A n \in DOMAIN artefact : IF n <= Sent THEN Out(n) ELSE ToCome(n)
    /\ pointer["instance"] # None =>
          \E n \in DOMAIN artefact : n <= Sent /\ pointer["instance"] = artefact[n].id

Opening == PreRoll => SourceFirst /\ HeldBack /\ Replayed

\* What has been sent, is being sent and is still to be sent are the artefact.
LEMMA SentFacts ==
    ASSUME Inv
    PROVE  /\ Sent \in Nat /\ Len(artefact) \in Nat /\ DOMAIN artefact = 1..Len(artefact)
           /\ replay \in Seq(Holdings) /\ Len(replay) \in Nat
           /\ author = "source" =>
                 /\ Sent + Len(work) + Len(replay) = Len(artefact)
                 /\ Len(work) \in Nat /\ Len(work) >= 1
                 /\ work[1] = artefact[Sent + 1] /\ Sent + 1 \in 1..Len(artefact)
           /\ author # "source" =>
                 /\ Sent + Len(replay) = Len(artefact)
                 /\ \A n \in 1..Len(replay) : replay[n] = artefact[Sent + n]
<1>1. /\ artefact \in Artefacts /\ work \in Seq(Holdings) /\ replay \in Seq(Holdings)
      /\ (author = None <=> work = <<>>) /\ "source" # None
  BY AuthorsAssumption DEF Inv, Types, CrewTypes, WorkTypes, All
<1>2. Len(artefact) \in Nat /\ DOMAIN artefact = 1..Len(artefact)
  BY <1>1, ArtefactFacts
<1>3. Len(replay) \in Nat /\ Len(work) \in Nat
  BY <1>1
<1>4. CASE author = "source"
  <2>1. PICK k \in 0..Len(artefact) :
           /\ k + Len(work) + Len(replay) = Len(artefact)
           /\ \A n \in 1..Len(work) : work[n] = artefact[k + n]
    BY <1>4 DEF Inv, Working, Replaying
  <2>2. Sent = k
    BY <1>2, <1>3, <1>4, <2>1 DEF Sent
  <2>3. Len(work) >= 1
    BY <1>1, <1>3, <1>4, EmptySeq
  <2>4. 1 \in 1..Len(work) /\ k + 1 \in 1..Len(artefact)
    BY <1>2, <1>3, <2>1, <2>3
  <2> QED
    BY <1>1, <1>2, <1>3, <1>4, <2>1, <2>2, <2>3, <2>4
<1>5. CASE author # "source"
  <2> DEFINE Rest(k) == \A n \in 1..Len(replay) : replay[n] = artefact[k + n]
  <2>1. PICK k \in 0..Len(artefact) : k + Len(replay) = Len(artefact) /\ Rest(k)
    BY <1>5, ReplayLeft
  <2> HIDE DEF Rest
  <2>2. Sent = Len(artefact) - Len(replay) - 0
    BY <1>5 DEF Sent
  <2>3. Len(artefact) \in Nat /\ Len(replay) \in Nat
    BY <1>2, <1>3
  <2>4. Sent = k /\ k \in Nat
    <3> DEFINE L == Len(artefact)
               R == Len(replay)
    <3>1. L \in Nat /\ R \in Nat /\ k \in 0..L /\ k + R = L /\ Sent = L - R - 0
      BY <2>1, <2>2, <2>3
    <3> HIDE DEF L, R
    <3> QED
      BY <3>1
  <2>5. \A n \in 1..Len(replay) : replay[n] = artefact[Sent + n]
    BY <2>1, <2>4 DEF Rest
  <2>6. Sent \in Nat /\ Sent + Len(replay) = Len(artefact)
    BY <2>1, <2>4, Zenon
  <2> QED
    BY <1>1, <1>2, <1>3, <1>5, <2>5, <2>6, Zenon
<1> QED
  BY <1>4, <1>5

\* What is sent stays sent while nothing is published and no now-cast is prepared.
LEMMA StillReplayed ==
    ASSUME Replayed, UNCHANGED <<field, date, pointer, artefact>>, Sent' = Sent,
           ~Preparing'
    PROVE  Replayed'
<1>1. \A n \in DOMAIN artefact : Out(n) => Out(n)'
  BY DEF Out
<1>2. \A n \in DOMAIN artefact : ToCome(n) => ToCome(n)'
  BY DEF ToCome
<1>3. \A n \in DOMAIN artefact : IF n <= Sent THEN Out(n)' ELSE ToCome(n)'
  BY <1>1, <1>2 DEF Replayed
<1>4. pointer'["instance"] # None =>
         \E n \in DOMAIN artefact' : n <= Sent' /\ pointer'["instance"] = artefact'[n].id
  BY DEF Replayed
<1> QED
  BY <1>3, <1>4 DEF Replayed

\* The boot's steps between drains, and what is asked of the analyst.
LEMMA OpeningBetween ==
    ASSUME Inv, Opening, PreRoll', Tick \/ PinClock \/ RestoreRate \/ HoldBack \/ Request
    PROVE  SourceFirst' /\ HeldBack' /\ Replayed'
<1>1. /\ author = None /\ hearing = <<>> /\ work = <<>>
      /\ UNCHANGED <<field, date, pointer, artefact>> /\ phase # "open"
      /\ "source" # None /\ "analyst" # None /\ ~Among("source", hearing)
  BY AuthorsAssumption
     DEF Tick, PinClock, RestoreRate, Sample, HoldBack, Request, MayAsk, Idle, storeVars,
         Inv, Types, WorkTypes, Among, All, Crew, PreRoll
<1>2. PreRoll
  BY <1>1 DEF PreRoll, Whole
<1>3. SourceFirst /\ HeldBack /\ Replayed
  BY <1>2 DEF Opening
<1>4. ASSUME replay' = replay, author' # "source", author' # "generator"
      PROVE  Replayed'
  <2>1. Sent' = Sent
    BY <1>1, <1>4 DEF Sent
  <2>2. ~Preparing'
    BY <1>4 DEF Preparing
  <2> QED
    BY <1>1, <1>3, <2>1, <2>2, StillReplayed
<1>5. CASE Tick \/ PinClock \/ RestoreRate
  <2>1. /\ hearing' = order /\ order' = order /\ author' = None /\ replay' = replay
    BY <1>1, <1>5 DEF Tick, PinClock, RestoreRate, Sample
  <2>2. ~Among("source", order) => replay = <<>>
    BY DEF Inv, Forgotten, Up, Among
  <2>3. SourceFirst'
    BY <2>1, <2>2 DEF SourceFirst, Among
  <2>4. None # "generator"
    BY AuthorsAssumption DEF All, Crew
  <2> QED
    BY <1>1, <1>4, <2>1, <2>3, <2>4 DEF HeldBack
<1>6. CASE HoldBack
  <2>1. /\ hearing' = hearing /\ author' = None /\ replay' = replay /\ now' = now
    BY <1>1, <1>6 DEF HoldBack, Forget, Crew
  <2>2. None # "generator"
    BY AuthorsAssumption DEF All, Crew
  <2> QED
    BY <1>1, <1>3, <1>4, <2>1, <2>2 DEF HeldBack, SourceFirst, Among
<1>7. CASE Request
  <2>1. /\ hearing' = hearing /\ replay' = replay /\ now' = now /\ order' = order
        /\ phase' = phase /\ Up("analyst") /\ author' = "analyst"
    BY <1>7 DEF Request, Undertake
  <2>2. phase \notin {"winding", "restored"}
    <3>1. SUFFICES ASSUME phase \in {"winding", "restored"} PROVE FALSE
      OBVIOUS
    <3>2. order = <<"source", "planner">>
      BY <1>2, <3>1 DEF Inv, Staged, PreRoll
    <3> QED
      BY <2>1, <3>2 DEF Up
  <2> QED
    BY <1>1, <1>3, <1>4, <2>1, <2>2 DEF HeldBack, SourceFirst, Among
<1> QED
  BY <1>5, <1>6, <1>7

\* Before the console opens the source is first, and while the crew is held back only
\* the planner is with it.
LEMMA SourceLeads ==
    ASSUME Inv, PreRoll
    PROVE  /\ \/ Early /\ now = 0 /\ order = BootOrder
              \/ phase \in {"winding", "restored"} /\ order = <<"source", "planner">>
           /\ Head(order) = "source" /\ ~Among("source", Tail(order))
<1>1. \/ Early /\ now = 0 /\ order = BootOrder
      \/ phase \in {"winding", "restored"} /\ order = <<"source", "planner">>
  BY DEF Inv, Types, CrewTypes, Staged, PreRoll, Early
<1>2. Head(order) = "source"
  BY <1>1 DEF BootOrder
<1>3. ~Among("source", Tail(order))
  <2>1. Tail(<<"source", "planner">>) = <<"planner">>
    OBVIOUS
  <2>2. Tail(BootOrder) = <<"generator", "analyst", "runner", "planner">>
    BY DEF BootOrder
  <2>3. \A n \in DOMAIN <<"planner">> : <<"planner">>[n] # "source"
    OBVIOUS
  <2>4. \A n \in DOMAIN <<"generator", "analyst", "runner", "planner">> :
           <<"generator", "analyst", "runner", "planner">>[n] # "source"
    OBVIOUS
  <2> QED
    BY <1>1, <2>1, <2>2, <2>3, <2>4 DEF Among
<1> QED
  BY <1>1, <1>2, <1>3, Zenon

\* While the artefact's now-cast stands, or is due at this instant, the generator does
\* not author another.
LEMMA GeneratorWaits ==
    ASSUME Inv, PreRoll, SourceFirst, Replayed, Hear, Head(hearing) = "generator",
           Preparing', NEW n \in DOMAIN artefact, artefact[n].id[1] = "nowcast"
    PROVE  n > Sent /\ now < artefact[n].tick
<1>1. /\ author = None /\ now \in Nat /\ now \in Ticks /\ artefact \in Artefacts
      /\ Up("generator") /\ None # "source" /\ None # "generator"
      /\ hearing # <<>> /\ hearing \in Seq(All)
  BY Hearings, AuthorsAssumption DEF Hear, Inv, Types, CrewTypes, All, Crew
<1>2. now = 0
  <2>1. ~ \E m \in DOMAIN <<"source", "planner">> :
             <<"source", "planner">>[m] = "generator"
    OBVIOUS
  <2> QED
    BY <1>1, <2>1, SourceLeads DEF Up
<1>3. ~Among("source", hearing)
  <2> SUFFICES ASSUME Among("source", hearing) PROVE FALSE
    OBVIOUS
  <2>1. hearing = order
    BY DEF SourceFirst
  <2> QED
    BY <2>1, SourceLeads
<1>4. NowcastInterval \in Nat /\ NowcastInterval >= 1 /\ lastNowcast = 0
  BY <1>2, AuthorsAssumption DEF Inv, Types, CrewTypes
<1>5. Held("nowcast") = {}
  <2>1. IF provisioned THEN Cadence ELSE Provision
    BY DEF Hear, HearGenerator
  <2>2. \E m \in DOMAIN work' : work'[m].id[1] = "nowcast"
    BY DEF Preparing
  <2>3. ~Cadence
    <3> SUFFICES ASSUME Cadence PROVE FALSE
      OBVIOUS
    <3>1. ~Lapsed(lastNowcast)
      BY <1>2, <1>4 DEF Lapsed
    <3>2. work' = <<>>
      BY <3>1 DEF Cadence, Undertake, Only
    <3> QED
      BY <2>2, <3>2
  <2>4. Provision
    BY <2>1, <2>3
  <2> SUFFICES ASSUME Held("nowcast") # {} PROVE FALSE
    OBVIOUS
  <2>5. StandingDate = 0
    <3>1. StandingDate \in 0..now
      BY Standing
    <3> QED
      BY <1>2, <3>1
  <2>6. ~Lapsed(StandingDate)
    BY <1>2, <1>4, <2>5 DEF Lapsed
  <2> DEFINE p == Held("archive") = {}
             q == Held("departure") = {}
             x == Evaluated("archive")
             y == Evaluated("departure")
             z == Evaluated("nowcast")
  <2>7. /\ x \in Holdings /\ y \in Holdings /\ z \in Holdings
        /\ x.id[1] = "archive" /\ y.id[1] = "departure"
    BY <1>1, Evaluations DEF Authored
  <2>8. /\ work' = Only(p, x) \o Only(q, y) \o Only(FALSE, z)
        /\ p \in BOOLEAN /\ q \in BOOLEAN
    BY <2>4, <2>6 DEF Provision, Undertake
  <2> HIDE DEF p, q, x, y, z
  <2>9. work' \in Seq(Holdings) /\ Chosen(work', p, x, q, y, FALSE, z)
    BY <2>7, <2>8, OnlyThree
  <2>10. \A m \in 1..Len(work') : work'[m] = x \/ work'[m] = y
    BY <2>9 DEF Chosen
  <2>11. DOMAIN work' = 1..Len(work')
    BY <2>9
  <2> QED
    BY <2>2, <2>7, <2>10, <2>11
<1>6. ~(n <= Sent)
  <2> SUFFICES ASSUME n <= Sent PROVE FALSE
    OBVIOUS
  <2>1. field[artefact[n].id] # None
    BY DEF Replayed, Out
  <2>2. artefact[n].id \in Ids /\ EraOf[artefact[n].id] = "nowcast"
    <3>1. artefact[n].id \in Ids
      BY <1>1, ArtefactFacts
    <3> QED
      BY <3>1, EraNames DEF Authored
  <2> QED
    BY <1>5, <2>1, <2>2 DEF Held
<1>7. now < artefact[n].tick
  <2>1. /\ Sent \in Nat /\ n \in Nat /\ n >= 1 /\ n <= Len(artefact)
        /\ Len(artefact) \in Nat /\ Len(replay) \in Nat
        /\ Sent + Len(replay) = Len(artefact) /\ replay \in Seq(Holdings)
        /\ \A m \in 1..Len(replay) : replay[m] = artefact[Sent + m]
    BY <1>1, SentFacts
  <2>2. /\ 1 \in 1..Len(replay) /\ Sent + 1 \in 1..Len(artefact)
        /\ n \in 1..Len(artefact) /\ Sent + 1 <= n
    <3> DEFINE L == Len(artefact)
               R == Len(replay)
    <3>1. /\ Sent \in Nat /\ n \in Nat /\ n >= 1 /\ n <= L /\ L \in Nat /\ R \in Nat
          /\ Sent + R = L /\ ~(n <= Sent)
      BY <1>6, <2>1
    <3> HIDE DEF L, R
    <3>2. 1 \in 1..R /\ Sent + 1 \in 1..L /\ n \in 1..L /\ Sent + 1 <= n
      BY <3>1
    <3> QED
      BY <3>2 DEF L, R
  <2>3. replay[1].tick > now
    <3>1. replay # <<>>
      BY <2>1, <2>2
    <3> QED
      BY <1>3, <3>1 DEF SourceFirst
  <2>4. replay[1] = artefact[Sent + 1]
    BY <2>1, <2>2
  <2>5. /\ artefact[Sent + 1].tick \in Nat /\ artefact[n].tick \in Nat
        /\ Sent + 1 < n => artefact[Sent + 1].tick <= artefact[n].tick
    BY <1>1, <2>2, ArtefactFacts
  <2>6. Sent + 1 = n \/ Sent + 1 < n
    BY <2>1, <2>2
  <2> QED
    BY <1>1, <2>3, <2>4, <2>5, <2>6
<1> QED
  <2>1. Sent \in Nat /\ n \in Nat
    BY SentFacts
  <2> QED
    BY <1>6, <1>7, <2>1

\* A sample heard: what is due leaves the replay, and the source is not heard again.
LEMMA OpeningHeard ==
    ASSUME Inv, Opening, PreRoll', Hear
    PROVE  SourceFirst' /\ HeldBack' /\ Replayed'
<1> DEFINE head == Head(hearing)
<1>1. /\ author = None /\ work = <<>> /\ hearing # <<>> /\ hearing' = Tail(hearing)
      /\ UNCHANGED <<field, date, pointer, artefact, now, phase, order>>
      /\ head \in All /\ Up(head) /\ now \in Nat /\ artefact \in Artefacts
      /\ None # "source" /\ None # "generator" /\ None # "analyst" /\ None # "runner"
      /\ hearing \in Seq(All)
  BY Hearings, AuthorsAssumption DEF Hear, Inv, Types, CrewTypes, All, Crew
<1>2. PreRoll
  BY <1>1 DEF PreRoll, Whole
<1>3. SourceFirst /\ HeldBack /\ Replayed
  BY <1>2 DEF Opening
<1>4. /\ Among("source", hearing) => head = "source"
      /\ ~Among("source", hearing')
      /\ ~Among("source", hearing) => head # "source"
  <2>1. CASE Among("source", hearing)
    <3>1. hearing = order
      BY <1>3, <2>1 DEF SourceFirst
    <3> QED
      BY <1>1, <1>2, <2>1, <3>1, SourceLeads
  <2>2. CASE ~Among("source", hearing)
    <3>1. /\ Len(hearing) \in Nat /\ Len(hearing) >= 1 /\ head = hearing[1]
          /\ DOMAIN hearing = 1..Len(hearing) /\ DOMAIN hearing' = 1..(Len(hearing) - 1)
          /\ \A n \in 1..(Len(hearing) - 1) :
                n + 1 \in 1..Len(hearing) /\ hearing'[n] = hearing[n + 1]
      BY <1>1
    <3>2. 1 \in 1..Len(hearing)
      BY <3>1
    <3> QED
      BY <2>2, <3>1, <3>2 DEF Among
  <2> QED
    BY <2>1, <2>2
<1>5. CASE head = "source"
  <2>1. /\ work' = SubSeq(replay, 1, Ripe) /\ replay' = SubSeq(replay, Ripe + 1, Len(replay))
        /\ author' = IF work' = <<>> THEN None ELSE "source"
    BY <1>5 DEF Hear, HearSource, Undertake
  <2>2. /\ Ripe \in 0..Len(replay) /\ replay \in Seq(Holdings) /\ Len(replay) \in Nat
        /\ Ripe < Len(replay) => replay[Ripe + 1].tick > now
    <3>1. replay \in Seq(Holdings)
      BY SentFacts
    <3> QED
      BY <1>1, <3>1, RipeFacts
  <2>3. Ripe \in Nat /\ Ripe <= Len(replay)
    BY <2>2
  <2>4. /\ Len(work') = Ripe /\ Len(replay') = Len(replay) - Ripe
        /\ replay' # <<>> => Ripe < Len(replay) /\ replay'[1] = replay[Ripe + 1]
        /\ work' = <<>> => Ripe = 0
    <3> HIDE DEF Ripe
    <3>1. Len(work') = Ripe
      BY <2>1, <2>2, <2>3, SubSeqProperties
    <3>2. Len(replay') = Len(replay) - Ripe /\ replay' \in Seq(Holdings)
      <4>1. CASE Ripe = Len(replay)
        BY <2>1, <2>2, <2>3, <4>1, SubSeqProperties
      <4>2. CASE Ripe < Len(replay)
        BY <2>1, <2>2, <2>3, <4>2, SubSeqProperties
      <4> QED
        BY <2>2, <2>3, <4>1, <4>2
    <3>3. ASSUME replay' # <<>>
          PROVE  Ripe < Len(replay) /\ replay'[1] = replay[Ripe + 1]
      <4>1. Len(replay') # 0
        BY <3>2, <3>3, EmptySeq
      <4>2. Ripe < Len(replay)
        BY <2>2, <2>3, <3>2, <4>1
      <4>3. replay'[1] = replay[(Ripe + 1) + 1 - 1]
        BY <2>1, <2>2, <2>3, <4>2, SubSeqProperties
      <4> QED
        BY <2>3, <4>2, <4>3
    <3>4. work' = <<>> => Ripe = 0
      BY <3>1
    <3> QED
      BY <3>1, <3>2, <3>3, <3>4
  <2>5. SourceFirst'
    BY <1>1, <1>4, <2>2, <2>4 DEF SourceFirst
  <2>6. HeldBack'
    BY <2>1 DEF HeldBack
  <2>7. Sent' = Sent
    <3> DEFINE L == Len(artefact)
               R == Len(replay)
               r == Ripe
    <3>1. L \in Nat /\ R \in Nat /\ r \in Nat /\ r <= R
      BY <2>2, <2>3, SentFacts
    <3>2. Sent = L - R - 0
      BY <1>1 DEF Sent
    <3>3. Sent' = L - (R - r) - r
      <4>1. CASE work' = <<>>
        <5>1. author' = None /\ r = 0 /\ Len(replay') = R - r /\ artefact' = artefact
          BY <1>1, <2>1, <2>4, <4>1
        <5>2. Sent' = Len(artefact') - Len(replay') - 0
          BY <1>1, <5>1 DEF Sent
        <5> QED
          BY <5>1, <5>2
      <4>2. CASE work' # <<>>
        <5>1. author' = "source" /\ Len(work') = r /\ Len(replay') = R - r
              /\ artefact' = artefact
          BY <1>1, <2>1, <2>4, <4>2
        <5> QED
          BY <5>1 DEF Sent
      <4> QED
        BY <4>1, <4>2
    <3> HIDE DEF L, R, r
    <3> QED
      BY <3>1, <3>2, <3>3
  <2>8. ~Preparing'
    BY <1>1, <2>1 DEF Preparing
  <2> QED
    BY <1>1, <1>3, <2>5, <2>6, <2>7, <2>8, StillReplayed
<1>6. CASE head # "source"
  <2>1. /\ replay' = replay /\ author' \in {None, head}
        /\ head = "planner" => author' = None
        /\ head = "generator" => HearGenerator
    BY <1>1, <1>6
       DEF Hear, HearGenerator, HearAnalyst, HearRunner, HearPlanner, Provision, Cadence,
           Undertake, All, Crew
  <2>2. Sent' = Sent
    BY <1>1, <1>6, <2>1 DEF Sent
  <2>3. SourceFirst'
    BY <1>1, <1>3, <1>4, <1>6, <2>1 DEF SourceFirst
  <2>4. HeldBack'
    <3> SUFFICES ASSUME phase \in {"winding", "restored"} PROVE author' = None
      BY <1>1 DEF HeldBack
    <3>1. order = <<"source", "planner">>
      BY <1>2, SourceLeads DEF Early
    <3>2. \A m \in DOMAIN <<"source", "planner">> :
             <<"source", "planner">>[m] \in {"source", "planner"}
      OBVIOUS
    <3>3. head \in {"source", "planner"}
      BY <1>1, <3>1, <3>2 DEF Up
    <3> QED
      BY <1>6, <2>1, <3>3
  <2>5. CASE ~Preparing'
    BY <1>1, <1>3, <2>2, <2>3, <2>4, <2>5, StillReplayed
  <2>6. CASE Preparing'
    <3>1. head = "generator"
      BY <1>1, <2>1, <2>6 DEF Preparing
    <3>2. ASSUME NEW n \in DOMAIN artefact, artefact[n].id[1] = "nowcast"
          PROVE  n > Sent /\ now < artefact[n].tick
      BY <1>2, <1>3, <2>6, <3>1, <3>2, GeneratorWaits
    <3>3. \A n \in DOMAIN artefact : n \in Nat /\ Sent \in Nat
      BY SentFacts
    <3>4. ASSUME NEW n \in DOMAIN artefact
          PROVE  IF n <= Sent THEN Out(n)' ELSE ToCome(n)'
      <4>1. IF n <= Sent THEN Out(n) ELSE ToCome(n)
        BY <1>3 DEF Replayed
      <4>2. n <= Sent => Out(n)'
        BY <1>1, <3>2, <3>3, <4>1 DEF Out
      <4>3. ~(n <= Sent) => ToCome(n)'
        BY <1>1, <3>2, <4>1 DEF ToCome
      <4> QED
        BY <4>2, <4>3
    <3>5. Replayed'
      BY <1>1, <1>3, <2>2, <3>4 DEF Replayed
    <3> QED
      BY <2>3, <2>4, <3>5
  <2> QED
    BY <2>5, <2>6
<1> QED
  BY <1>5, <1>6

\* What the source publishes is then held, and the now-cast it publishes stands.
LEMMA SourceSends ==
    ASSUME Inv, PreRoll, Replayed, Publish, author = "source"
    PROVE  /\ work[1] = artefact[Sent + 1] /\ Sent + 1 \in DOMAIN artefact
           /\ field'[work[1].id] # None
           /\ work[1].id[1] = "nowcast" => pointer'["nowcast"] = work[1].id
<1> DEFINE s == work[1]
           k == Sent + 1
<1>1. /\ Goes(s) /\ s.id \in Ids /\ s.recorded # None /\ s.tick \in Nat
      /\ artefact \in Artefacts /\ s = artefact[k] /\ k \in DOMAIN artefact
      /\ k \in Nat /\ Sent \in Nat /\ ~(k <= Sent) /\ DOMAIN artefact = 1..Len(artefact)
      /\ \A n \in DOMAIN artefact : n \in Nat
  <2>1. Goes(s) /\ s.id \in Ids /\ s.recorded # None /\ s.tick \in Nat
        /\ artefact \in Artefacts
    BY Publishes
  <2>2. /\ s = artefact[k] /\ k \in DOMAIN artefact /\ Sent \in Nat
        /\ DOMAIN artefact = 1..Len(artefact)
    BY SentFacts
  <2> HIDE DEF s
  <2> QED
    BY <2>1, <2>2
<1> HIDE DEF s, k
<1>2. ~Damaged(s)
  BY <1>1 DEF PreRoll, Whole, Damaged, Live
<1>3. s.id[1] = "nowcast" =>
         /\ field[s.id] = None
         /\ pointer["nowcast"] # None => date[pointer["nowcast"]] < s.tick
  BY <1>1 DEF Replayed, ToCome
<1>4. /\ \A e \in Proved!PointedEras : pointer[e] # None =>
            /\ pointer[e] \in Ids /\ field[pointer[e]] # None /\ EraOf[pointer[e]] = e
            /\ date[pointer[e]] \in Nat
      /\ Proved!PointedEras = {"departure", "nowcast", "instance"}
  BY DEF Inv, Proved!StoreInv, Proved!TypeOK, Proved!PointerNamesNewest,
         Proved!Held, Proved!PointedEras
<1>5. ~Late(s)
  <2> SUFFICES ASSUME Late(s) PROVE FALSE
    OBVIOUS
  <2> DEFINE at == pointer[EraOf[s.id]]
  <2>1. /\ EraOf[s.id] \in Proved!PointedEras /\ at # None /\ at # s.id
        /\ s.tick < date[at]
    BY DEF Late
  <2>2. /\ at \in Ids /\ field[at] # None /\ EraOf[at] = EraOf[s.id]
        /\ date[at] \in Nat
    BY <1>4, <2>1
  <2>3. CASE EraOf[s.id] = "nowcast"
    <3>1. s.id[1] = "nowcast"
      BY <1>1, <2>3, EraNames DEF Authored
    <3> QED
      BY <1>1, <1>3, <2>1, <2>2, <2>3, <3>1
  <2>4. CASE EraOf[s.id] = "instance"
    <3>1. PICK m \in DOMAIN artefact : m <= Sent /\ at = artefact[m].id
      BY <2>1, <2>4 DEF Replayed
    <3>2. at[1] \in {"spread", "forecast"}
      BY <2>2, <2>4, EraNames
    <3>4. date[at] = artefact[m].tick
      BY <2>2, <3>1, <3>2 DEF Inv, Dates
    <3>5. m \in 1..Len(artefact) /\ k \in 1..Len(artefact) /\ m < k
      BY <1>1, <3>1 DEF k
    <3>6. artefact[m].tick <= s.tick
      BY <1>1, <3>5, ArtefactFacts
    <3>7. ~(s.tick < date[at])
      BY <1>1, <2>2, <3>4, <3>6
    <3> QED
      BY <2>1, <3>7
  <2>5. CASE EraOf[s.id] = "departure"
    <3>1. s.id[1] = "departure" /\ at[1] = "departure"
      BY <1>1, <2>2, <2>5, EraNames DEF Authored
    <3>2. at[2] = 0
      BY <2>2, <2>5 DEF Inv, Provisions, Held
    <3>3. NamesItsDate(s)
      BY <1>1, ArtefactFacts
    <3>4. s.id[2] = 0
      BY <3>1, <3>3 DEF NamesItsDate, Authored
    <3>5. at = <<at[1], at[2]>> /\ s.id = <<s.id[1], s.id[2]>>
      BY <1>1, <2>2, IdNames
    <3> HIDE DEF at
    <3>6. at = <<"departure", 0>> /\ s.id = <<"departure", 0>>
      BY <3>1, <3>2, <3>4, <3>5
    <3> QED
      BY <2>1, <3>6
  <2> QED
    BY <1>4, <2>1, <2>3, <2>4, <2>5
<1>6. /\ field'[s.id] # None
      /\ s.id[1] = "nowcast" => pointer'["nowcast"] = s.id
  <2>1. CASE Wrote(s)
    <3>1. field'[s.id] # None
      BY <1>1, <2>1 DEF Wrote
    <3>2. s.id[1] = "nowcast" => EraOf[s.id] = "nowcast"
      BY <1>1, EraNames DEF Authored
    <3> QED
      BY <1>4, <2>1, <3>1, <3>2 DEF Wrote
  <2>2. CASE Taken(s) /\ UNCHANGED <<field, date, pointer, book>>
    BY <1>3, <2>2 DEF Taken
  <2> QED
    BY <1>1, <1>2, <1>5, <2>1, <2>2 DEF Goes
<1> QED
  BY <1>1, <1>6 DEF s, k

\* What an era's pointer does when a holding of another era is published: nothing, nor
\* does the date it is read by change.
LEMMA PointerRests ==
    ASSUME Inv, Publish, NEW e \in Proved!PointedEras, EraOf[work[1].id] # e
    PROVE  /\ pointer'[e] = pointer[e]
           /\ pointer[e] # None =>
                 field'[pointer[e]] # None /\ date'[pointer[e]] = date[pointer[e]]
<1>1. pointer'[e] = pointer[e]
  BY Leaves
<1>2. ASSUME pointer[e] # None
      PROVE  field'[pointer[e]] # None /\ date'[pointer[e]] = date[pointer[e]]
  <2>1. pointer[e] \in Ids /\ EraOf[pointer[e]] = e
    BY <1>2 DEF Inv, Proved!StoreInv, Proved!TypeOK, Proved!PointerNamesNewest
  <2>2. field'[pointer[e]] # None
    <3>1. Inv'
      BY PublishSteps
    <3> QED
      BY <1>1, <1>2, <3>1
         DEF Inv, Proved!StoreInv, Proved!PointerNamesNewest, Proved!Held
  <2>3. pointer[e] # work[1].id
    BY <2>1
  <2> QED
    BY <2>1, <2>2, <2>3, Leaves
<1> QED
  BY <1>1, <1>2

\* Neither an analysis, an archive nor a brief changes what is replayed.
LEMMA ReplayedBeside ==
    ASSUME Inv, Replayed, Publish, Sent' = Sent, Preparing' => Preparing,
           work[1].id[1] \in {"analysis", "archive", "departure"}
    PROVE  Replayed'
<1>1. /\ work[1].id \in Ids /\ artefact' = artefact /\ artefact \in Artefacts /\ now' = now
  BY Publishes
<1>2. EraOf[work[1].id] \notin {"nowcast", "instance"}
  BY <1>1, EraNames DEF Authored
<1>3. /\ \A e \in {"nowcast", "instance"} :
            /\ pointer'[e] = pointer[e]
            /\ pointer[e] # None =>
                  field'[pointer[e]] # None /\ date'[pointer[e]] = date[pointer[e]]
  BY <1>2, PointerRests DEF Proved!PointedEras
<1>4. /\ \A i \in Ids : field[i] # None /\ i[1] # "nowcast" => field'[i] # None
      /\ \A i \in Ids : field'[i] # None /\ i # work[1].id => field'[i] = field[i]
  BY Leaves
<1>5. ASSUME NEW n \in DOMAIN artefact
      PROVE  IF n <= Sent THEN Out(n)' ELSE ToCome(n)'
  <2>1. artefact[n].id \in Ids
    BY <1>1, ArtefactFacts
  <2>2. artefact[n].id[1] = "nowcast" => artefact[n].id # work[1].id
    OBVIOUS
  <2>3. CASE n <= Sent
    <3>1. Out(n)
      BY <2>3 DEF Replayed
    <3>2. CASE artefact[n].id[1] = "nowcast"
      <4>1. pointer["nowcast"] = artefact[n].id
        BY <3>1, <3>2 DEF Out
      <4>2. artefact[n].id # None
        BY <2>1, AuthorsAssumption
      <4>3. field'[artefact[n].id] # None
        BY <1>3, <4>1, <4>2
      <4> QED
        BY <1>1, <1>3, <2>3, <3>1, <4>3 DEF Out
    <3>3. CASE artefact[n].id[1] # "nowcast"
      <4>1. field'[artefact[n].id] # None
        BY <1>4, <2>1, <3>1, <3>3 DEF Out
      <4> QED
        BY <1>1, <2>3, <3>3, <4>1 DEF Out
    <3> QED
      BY <3>2, <3>3
  <2>4. CASE ~(n <= Sent)
    <3>1. ToCome(n)
      BY <2>4 DEF Replayed
    <3>2. artefact[n].id[1] = "nowcast" => field'[artefact[n].id] = None
      BY <1>4, <2>1, <2>2, <3>1 DEF ToCome
    <3> QED
      BY <1>1, <1>3, <2>4, <3>1, <3>2 DEF ToCome
  <2> QED
    BY <2>3, <2>4
<1> QED
  BY <1>1, <1>3, <1>5 DEF Replayed

\* Nor does the now-cast the generator authors while the artefact's is to come.
LEMMA ReplayedAhead ==
    ASSUME Inv, Replayed, Publish, author = "generator", work[1].id[1] = "nowcast"
    PROVE  Replayed'
<1>1. /\ work[1].id \in Ids /\ artefact' = artefact /\ artefact \in Artefacts
      /\ now' = now /\ now \in Nat /\ replay' = replay /\ Len(work) \in Nat
      /\ Len(work) >= 1 /\ DOMAIN work = 1..Len(work) /\ Len(Tail(work)) = Len(work) - 1
      /\ Tail(work) \in Seq(Holdings) /\ Goes(work[1])
      /\ author' = IF work' = <<>> THEN None ELSE author
  BY Publishes
<1>2. /\ work[1].id = <<"nowcast", now>> /\ 1 \in 1..Len(work)
      /\ \A n \in 1..Len(work) : work[n].id[1] = "nowcast" => n = Len(work)
  BY GeneratorSound
<1>3. work' = <<>> /\ author' = None
  <2>1. Len(Tail(work)) = 0
    <3>1. Len(work) = 1
      BY <1>2
    <3> QED
      BY <1>1, <3>1
  <2>2. Tail(work) = <<>>
    BY <1>1, <2>1, EmptySeq, Zenon
  <2>3. work' \in {Tail(work), <<>>}
    BY <1>1 DEF Goes
  <2> QED
    BY <1>1, <2>2, <2>3
<1>4. Preparing
  BY <1>1, <1>2, Zenon DEF Preparing
<1>5. None # "generator" /\ None # "source"
  BY AuthorsAssumption DEF All, Crew
<1>6. ~Preparing' /\ Sent' = Sent
  BY <1>1, <1>3, <1>5 DEF Preparing, Sent
<1>7. /\ \A i \in Ids : field[i] # None /\ i[1] # "nowcast" => field'[i] # None
      /\ \A i \in Ids : field'[i] # None /\ i # work[1].id => field'[i] = field[i]
  BY Leaves
<1>8. EraOf[work[1].id] = "nowcast"
  BY <1>1, EraNames DEF Authored
<1>9. pointer'["instance"] = pointer["instance"]
  BY <1>8, PointerRests DEF Proved!PointedEras
<1>10. pointer'["nowcast"] # None => date'[pointer'["nowcast"]] <= now
                                     /\ date'[pointer'["nowcast"]] \in Nat
  <2>1. Proved!StoreInv' /\ Dates'
    BY PublishSteps DEF Inv
  <2>2. pointer'["nowcast"] # None =>
           pointer'["nowcast"] \in Ids /\ field'[pointer'["nowcast"]] # None
    BY <2>1 DEF Proved!StoreInv, Proved!TypeOK, Proved!PointerNamesNewest, Proved!Held,
                Proved!PointedEras
  <2>3. \A i \in Ids : field'[i] # None => date'[i] <= now /\ date'[i] \in Nat
    BY <1>1, <2>1
       DEF Dates, Proved!StoreInv, Proved!TypeOK, Proved!OneFieldPerName, Proved!Held
  <2> QED
    BY <2>2, <2>3
<1>11. ASSUME NEW n \in DOMAIN artefact
       PROVE  IF n <= Sent THEN Out(n)' ELSE ToCome(n)'
  <2>1. /\ artefact[n].id \in Ids /\ artefact[n].tick \in Nat
        /\ artefact[n].id[1] = "nowcast" => artefact[n].id[2] = artefact[n].tick
    BY <1>1, ArtefactFacts DEF NamesItsDate, Authored
  <2>2. CASE n <= Sent
    <3>1. Out(n)
      BY <2>2 DEF Replayed
    <3>2. artefact[n].id[1] # "nowcast"
      BY <1>4, <3>1 DEF Out
    <3> QED
      BY <1>1, <1>7, <2>1, <2>2, <3>1, <3>2 DEF Out
  <2>3. CASE ~(n <= Sent)
    <3> SUFFICES ASSUME artefact[n].id[1] = "nowcast"
                 PROVE  /\ field'[artefact[n].id] = None
                        /\ pointer'["nowcast"] # None =>
                              date'[pointer'["nowcast"]] < artefact[n].tick
      BY <1>1, <1>6, <2>3 DEF ToCome
    <3>1. field[artefact[n].id] = None /\ now < artefact[n].tick
      BY <1>4, <2>3 DEF Replayed, ToCome
    <3>2. artefact[n].id # work[1].id
      <4>1. artefact[n].id[2] # now
        BY <1>1, <2>1, <3>1
      <4> QED
        BY <1>2, <4>1
    <3>3. field'[artefact[n].id] = None
      BY <1>7, <2>1, <3>1, <3>2
    <3> QED
      BY <1>1, <1>10, <2>1, <3>1, <3>3
  <2> QED
    BY <2>2, <2>3
<1> QED
  BY <1>1, <1>6, <1>9, <1>11 DEF Replayed

\* An artefact has one now-cast.
LEMMA OneOfArtefact ==
    ASSUME artefact \in Artefacts, NEW m \in DOMAIN artefact, NEW n \in DOMAIN artefact,
           artefact[m].id[1] = "nowcast", artefact[n].id[1] = "nowcast"
    PROVE  m = n
<1>1. artefact # <<>>
  OBVIOUS
<1>2. PICK k \in DOMAIN artefact :
         \A j \in DOMAIN artefact : artefact[j].id[1] = "nowcast" <=> j = k
  BY <1>1, ArtefactAssumption
<1> QED
  BY <1>2

\* The source goes one further, and what it sent before stays as it was.
LEMMA ReplayedOnward ==
    ASSUME Inv, PreRoll, Replayed, Publish, author = "source"
    PROVE  Replayed'
<1> DEFINE k == Sent + 1
<1>1. /\ work[1].id \in Ids /\ artefact' = artefact /\ artefact \in Artefacts
      /\ replay' = replay /\ Len(work) \in Nat /\ Len(work) >= 1
      /\ Len(Tail(work)) = Len(work) - 1 /\ Tail(work) \in Seq(Holdings) /\ Goes(work[1])
      /\ author' = IF work' = <<>> THEN None ELSE author
  BY Publishes
<1>2. /\ work[1] = artefact[k] /\ k \in DOMAIN artefact
      /\ field'[work[1].id] # None
      /\ work[1].id[1] = "nowcast" => pointer'["nowcast"] = work[1].id
  BY SourceSends
<1>3. /\ Sent \in Nat /\ k \in Nat /\ DOMAIN artefact = 1..Len(artefact)
      /\ Sent + Len(work) + Len(replay) = Len(artefact)
      /\ Len(artefact) \in Nat /\ Len(replay) \in Nat
  BY SentFacts
<1>4. work' = Tail(work)
  BY <1>1 DEF Goes
<1>5. /\ None # "source" /\ None # "generator"
  BY AuthorsAssumption DEF All, Crew
<1>6. Sent' = k
  <2> DEFINE L == Len(artefact)
             R == Len(replay)
             w == Len(work)
  <2>1. /\ L \in Nat /\ R \in Nat /\ w \in Nat /\ Sent \in Nat /\ Sent + w + R = L
    BY <1>1, <1>3, Zenon
  <2>2. Sent' = L - R - (w - 1)
    <3>1. CASE work' = <<>>
      <4>1. author' = None /\ Len(work') = 0
        BY <1>1, <3>1
      <4>2. w - 1 = 0
        BY <1>1, <1>4, <4>1
      <4>3. Sent' = L - R - 0
        BY <1>1, <1>5, <4>1 DEF Sent
      <4> QED
        BY <4>2, <4>3
    <3>2. CASE work' # <<>>
      <4>1. author' = "source"
        BY <1>1, <3>2
      <4> QED
        BY <1>1, <1>4, <4>1 DEF Sent
    <3> QED
      BY <3>1, <3>2
  <2> HIDE DEF L, R, w
  <2> QED
    BY <2>1, <2>2
<1>7. ~Preparing'
  BY <1>1, <1>5 DEF Preparing
<1>8. /\ \A i \in Ids : field[i] # None /\ i[1] # "nowcast" => field'[i] # None
      /\ \A i \in Ids : field'[i] # None /\ i # work[1].id => field'[i] = field[i]
      /\ pointer'["instance"] # pointer["instance"] => pointer'["instance"] = work[1].id
  BY Leaves DEF Proved!PointedEras
<1>9. ASSUME NEW n \in DOMAIN artefact, n # k, artefact[n].id[1] = "nowcast"
      PROVE  /\ pointer'["nowcast"] = pointer["nowcast"]
             /\ pointer["nowcast"] # None =>
                   /\ field'[pointer["nowcast"]] # None
                   /\ date'[pointer["nowcast"]] = date[pointer["nowcast"]]
             /\ artefact[n].id # work[1].id
  <2>1. work[1].id[1] # "nowcast"
    BY <1>1, <1>2, <1>9, OneOfArtefact
  <2>2. EraOf[work[1].id] # "nowcast"
    BY <1>1, <2>1, EraNames DEF Authored
  <2>3. "nowcast" \in Proved!PointedEras
    BY DEF Proved!PointedEras
  <2> QED
    BY <1>9, <2>1, <2>2, <2>3, PointerRests
<1> HIDE DEF k
<1>10. ASSUME NEW n \in DOMAIN artefact
       PROVE  IF n <= k THEN Out(n)' ELSE ToCome(n)'
  <2>1. artefact[n].id \in Ids /\ artefact[n].id # None /\ n \in Nat
    BY <1>1, ArtefactFacts, AuthorsAssumption
  <2>2. CASE n = k
    BY <1>1, <1>2, <1>3, <1>7, <2>2 DEF Out
  <2>3. CASE n # k /\ n <= k
    <3>1. n <= Sent
      BY <1>3, <2>1, <2>3 DEF k
    <3>2. Out(n)
      BY <3>1 DEF Replayed
    <3>3. CASE artefact[n].id[1] = "nowcast"
      <4>1. pointer["nowcast"] = artefact[n].id
        BY <3>2, <3>3 DEF Out
      <4>2. pointer'["nowcast"] = artefact[n].id /\ field'[artefact[n].id] # None
        BY <1>9, <2>1, <2>3, <3>3, <4>1
      <4> QED
        BY <1>1, <1>7, <2>3, <4>2 DEF Out
    <3>4. CASE artefact[n].id[1] # "nowcast"
      <4>1. field'[artefact[n].id] # None
        BY <1>8, <2>1, <3>2, <3>4 DEF Out
      <4> QED
        BY <1>1, <2>3, <3>4, <4>1 DEF Out
    <3> QED
      BY <3>3, <3>4
  <2>4. CASE n # k /\ ~(n <= k)
    <3>1. ~(n <= Sent)
      BY <1>3, <2>1, <2>4 DEF k
    <3>2. ToCome(n)
      BY <3>1 DEF Replayed
    <3> SUFFICES ASSUME artefact[n].id[1] = "nowcast"
                 PROVE  /\ field'[artefact[n].id] = None
                        /\ pointer'["nowcast"] # None =>
                              date'[pointer'["nowcast"]] < artefact[n].tick
      BY <1>1, <1>7, <2>4 DEF ToCome
    <3>3. field[artefact[n].id] = None
      BY <3>2 DEF ToCome
    <3>4. field'[artefact[n].id] = None
      BY <1>8, <1>9, <2>1, <2>4, <3>3
    <3> QED
      BY <1>9, <2>4, <3>2, <3>4 DEF ToCome
  <2> QED
    BY <2>2, <2>3, <2>4
<1>11. ASSUME pointer'["instance"] # None
       PROVE  \E n \in DOMAIN artefact : n <= k /\ pointer'["instance"] = artefact[n].id
  <2>1. CASE pointer'["instance"] = work[1].id
    <3>1. k <= k
      BY <1>3
    <3> QED
      BY <1>2, <2>1, <3>1
  <2>2. CASE pointer'["instance"] # work[1].id
    <3>1. PICK n \in DOMAIN artefact : n <= Sent /\ pointer["instance"] = artefact[n].id
      BY <1>8, <1>11, <2>2 DEF Replayed
    <3>2. n <= k
      BY <1>3, <3>1 DEF k
    <3> QED
      BY <1>8, <2>2, <3>1, <3>2
  <2> QED
    BY <2>1, <2>2
<1> QED
  BY <1>1, <1>6, <1>10, <1>11 DEF Replayed

\* A publication, whoever makes it: nobody of the crew does once it is held back.
LEMMA OpeningPublished ==
    ASSUME Inv, Opening, PreRoll', Publish
    PROVE  SourceFirst' /\ HeldBack' /\ Replayed'
<1>1. /\ UNCHANGED <<artefact, phase, now, order, hearing, replay>>
      /\ author \in {"source", "generator", "analyst", "runner"}
      /\ author' = IF work' = <<>> THEN None ELSE author
      /\ Len(work) \in Nat /\ Len(work) >= 1 /\ DOMAIN work = 1..Len(work)
      /\ \A n \in 1..(Len(work) - 1) : n + 1 \in 1..Len(work) /\ Tail(work)[n] = work[n + 1]
      /\ Tail(work) \in Seq(Holdings) /\ Len(Tail(work)) = Len(work) - 1
      /\ Goes(work[1])
  BY Publishes
<1>2. PreRoll
  BY <1>1 DEF PreRoll, Whole
<1>3. SourceFirst /\ HeldBack /\ Replayed
  BY <1>2 DEF Opening
<1>4. None \notin {"source", "generator", "analyst", "runner"}
  BY AuthorsAssumption DEF All, Crew
<1>5. SourceFirst'
  <2>1. ~Among("source", hearing)
    BY <1>1, <1>3, <1>4 DEF SourceFirst
  <2> QED
    BY <1>1, <1>3, <2>1 DEF SourceFirst, Among
<1>6. HeldBack'
  BY <1>1, <1>3 DEF HeldBack
<1>7. author # "source" => Sent' = Sent
  BY <1>1, <1>4 DEF Sent
<1>8. Replayed'
  <2>1. CASE author = "source"
    BY <1>2, <1>3, <2>1, ReplayedOnward
  <2>2. CASE author = "generator" /\ work[1].id[1] = "nowcast"
    BY <1>3, <2>2, ReplayedAhead
  <2>3. CASE author = "generator" /\ work[1].id[1] # "nowcast"
    <3>1. work[1].id[1] \in {"archive", "departure"}
      <4>1. \A n \in 1..Len(work) : work[n].id[1] \in Authored
        BY <2>3, GeneratorSound
      <4>2. 1 \in 1..Len(work)
        BY <1>1
      <4> QED
        BY <2>3, <4>1, <4>2 DEF Authored
    <3>2. Preparing' => Preparing
      <4> SUFFICES ASSUME Preparing' PROVE Preparing
        OBVIOUS
      <4>1. PICK m \in DOMAIN work' : work'[m].id[1] = "nowcast"
        BY DEF Preparing
      <4>2. work' = Tail(work)
        <5>1. DOMAIN <<>> = {}
          OBVIOUS
        <5> QED
          BY <1>1, <4>1, <5>1 DEF Goes
      <4>3. m \in 1..(Len(work) - 1)
        BY <1>1, <4>1, <4>2
      <4>4. m + 1 \in DOMAIN work /\ work[m + 1].id[1] = "nowcast"
        BY <1>1, <4>1, <4>2, <4>3
      <4> QED
        BY <2>3, <4>4, Zenon DEF Preparing
    <3> QED
      BY <1>3, <1>7, <2>3, <3>1, <3>2, ReplayedBeside
  <2>4. CASE author = "analyst"
    <3>1. work[1].id[1] = "analysis"
      BY <2>4 DEF Inv, Working, Analysing
    <3>2. ~Preparing'
      BY <1>1, <1>4, <2>4 DEF Preparing
    <3> QED
      BY <1>3, <1>7, <2>4, <3>1, <3>2, ReplayedBeside
  <2>5. author # "runner"
    <3> SUFFICES ASSUME author = "runner" PROVE FALSE
      OBVIOUS
    <3>1. ~Early
      BY DEF Inv, Working, Releasing
    <3>2. phase \in {"winding", "restored"}
      BY <1>2, <3>1 DEF PreRoll, Early, Inv, Types, CrewTypes
    <3> QED
      BY <1>3, <1>4, <3>2 DEF HeldBack
  <2> QED
    BY <1>1, <2>1, <2>2, <2>3, <2>4, <2>5
<1> QED
  BY <1>5, <1>6, <1>8

\* The announcement, a sounding, and a step that changes nothing leave it alone.
LEMMA OpeningAside ==
    ASSUME Inv, Opening, PreRoll', Announce \/ Sounding \/ UNCHANGED vars
    PROVE  SourceFirst' /\ HeldBack' /\ Replayed'
<1>1. /\ UNCHANGED <<field, date, pointer, now, phase, artefact, order, hearing, author,
                     work, replay>>
  BY DEF Announce, Sounding, vars, storeVars
<1>2. SourceFirst /\ HeldBack /\ Replayed
  BY <1>1 DEF Opening, PreRoll, Whole
<1>3. SourceFirst' /\ HeldBack'
  BY <1>1, <1>2 DEF SourceFirst, HeldBack, Among
<1>4. Sent' = Sent /\ (Preparing' <=> Preparing)
  BY <1>1 DEF Sent, Preparing
<1>5. ASSUME NEW n \in DOMAIN artefact
      PROVE  IF n <= Sent THEN Out(n)' ELSE ToCome(n)'
  BY <1>1, <1>2, <1>4 DEF Replayed, Out, ToCome
<1>6. Replayed'
  BY <1>1, <1>2, <1>4, <1>5 DEF Replayed
<1> QED
  BY <1>3, <1>6

\* As the page boots, nothing has been replayed and nothing is held.
LEMMA OpeningInit == Init => Opening
<1> SUFFICES ASSUME Init PROVE SourceFirst /\ HeldBack /\ Replayed
  BY DEF Opening
<1>1. /\ now = 0 /\ phase = "boot" /\ artefact \in Artefacts
      /\ order = BootOrder /\ hearing = BootOrder
      /\ author = None /\ replay = artefact
      /\ None # "source" /\ None # "generator"
  BY AuthorsAssumption DEF Init, All, Crew
<1>2. /\ \A i \in Ids : field[i] = None
      /\ pointer["nowcast"] = None /\ pointer["instance"] = None
  <2>1. Proved!Init
    BY SameStore DEF Init
  <2> QED
    BY <2>1 DEF Proved!Init, Proved!PointedEras
<1>3. Among("source", hearing)
  <2>1. BootOrder[1] = "source" /\ 1 \in DOMAIN BootOrder
    BY DEF BootOrder
  <2> QED
    BY <1>1, <2>1, Zenon DEF Among
<1>4. Sent = 0
  <2>1. Sent = Len(artefact) - Len(artefact) - 0
    BY <1>1 DEF Sent
  <2>2. Len(artefact) \in Nat
    BY <1>1, ArtefactFacts
  <2> QED
    BY <2>1, <2>2
<1>5. \A n \in DOMAIN artefact : artefact[n].id \in Ids /\ ~(n <= 0)
  BY <1>1, ArtefactFacts
<1>6. \A n \in DOMAIN artefact : ToCome(n)
  BY <1>1, <1>2, <1>5 DEF ToCome, Preparing
<1> QED
  BY <1>1, <1>2, <1>3, <1>4, <1>5, <1>6 DEF SourceFirst, HeldBack, Replayed

\* Every step before the console opens.
LEMMA OpeningStep == Inv /\ Opening /\ [Next]_vars => Opening'
<1> SUFFICES ASSUME Inv, Opening, [Next]_vars, PreRoll'
             PROVE  SourceFirst' /\ HeldBack' /\ Replayed'
  BY DEF Opening
<1>1. /\ ~FaultySample /\ ~NowcastOnRequest /\ ~ReplanOnRequest /\ ~Repeat /\ ~StartCrew
      /\ \A c \in All : ~Stop(c) /\ ~Start(c)
  BY DEF FaultySample, NowcastOnRequest, ReplanOnRequest, Repeat, StartCrew, Stop, Start,
         Sample, PreRoll
<1>2. CASE Hear
  BY <1>2, OpeningHeard
<1>3. CASE Publish
  BY <1>3, OpeningPublished
<1>4. CASE Announce \/ Sounding \/ UNCHANGED vars
  BY <1>4, OpeningAside
<1>5. CASE Request \/ Tick \/ PinClock \/ HoldBack \/ RestoreRate
  BY <1>5, OpeningBetween
<1> QED
  BY <1>1, <1>2, <1>3, <1>4, <1>5 DEF Next

\* While an artefact speaks for the crew, what it holds is what the store comes to
\* hold, its now-cast and its forecasts the newest (preroll.ts, source.ts:85-119).
THEOREM OpeningInvariance == Spec => []Opening
  BY AuthorsInvariance, OpeningInit, OpeningStep, PTL DEF Spec

\* When the crew is started again all of it has been replayed.
LEMMA AllReplayed ==
    ASSUME Inv, Opening, StartCrew, artefact # <<>>, Whole(artefact)
    PROVE  /\ replay = <<>>
           /\ \A n \in DOMAIN artefact : Out(n)
           /\ pointer["instance"] # None =>
                 \E n \in DOMAIN artefact : pointer["instance"] = artefact[n].id
<1>1. /\ phase = "restored" /\ author = None /\ hearing = <<>> /\ artefact \in Artefacts
      /\ author # "source" /\ now \in Nat /\ now >= PreRollTicks /\ PreRollTicks \in Nat
  BY AuthorsAssumption
     DEF StartCrew, Idle, Inv, Types, CrewTypes, Staged, All, Crew, Ticks
<1>2. SourceFirst /\ Replayed
  BY <1>1 DEF Opening, PreRoll
<1>3. ~Among("source", hearing)
  BY <1>1 DEF Among
<1>4. /\ Sent \in Nat /\ Len(artefact) \in Nat /\ DOMAIN artefact = 1..Len(artefact)
      /\ replay \in Seq(Holdings) /\ Len(replay) \in Nat
      /\ Sent + Len(replay) = Len(artefact)
      /\ \A n \in 1..Len(replay) : replay[n] = artefact[Sent + n]
  BY <1>1, SentFacts
<1>5. replay = <<>>
  <2> SUFFICES ASSUME replay # <<>> PROVE FALSE
    OBVIOUS
  <2>1. replay[1].tick > now
    BY <1>2, <1>3 DEF SourceFirst
  <2>2. 1 \in 1..Len(replay) /\ Sent + 1 \in 1..Len(artefact)
    <3> DEFINE L == Len(artefact)
               R == Len(replay)
    <3>1. L \in Nat /\ R \in Nat /\ Sent \in Nat /\ Sent + R = L
      BY <1>4, Zenon
    <3>2. R # 0
      BY <1>4, EmptySeq
    <3> HIDE DEF L, R
    <3>3. 1 \in 1..R /\ Sent + 1 \in 1..L
      BY <3>1, <3>2
    <3> QED
      BY <3>3 DEF L, R
  <2>3. replay[1] = artefact[Sent + 1]
    BY <1>4, <2>2
  <2>4. artefact[Sent + 1].tick \in Nat /\ artefact[Sent + 1].tick <= PreRollTicks
    BY <1>1, <2>2, ArtefactFacts
  <2> QED
    BY <1>1, <2>1, <2>3, <2>4
<1>6. Sent = Len(artefact)
  <2> DEFINE L == Len(artefact)
             R == Len(replay)
  <2>1. L \in Nat /\ Sent \in Nat /\ Sent + R = L
    BY <1>4, Zenon
  <2>2. R = 0
    BY <1>5
  <2> HIDE DEF L, R
  <2>3. Sent = L
    BY <2>1, <2>2
  <2> QED
    BY <2>3 DEF L
<1>7. \A n \in DOMAIN artefact : Out(n)
  BY <1>2, <1>4, <1>6 DEF Replayed
<1> QED
  BY <1>2, <1>5, <1>7 DEF Replayed

\* The console opens on what the artefact holds, all of it and nothing newer of an era
\* with a pointer (preroll.ts, source.ts:85-119).
THEOREM ConsoleOpensOnArtefact == Spec => OpensOnArtefact
<1> DEFINE Opened ==
             /\ replay = <<>>
             /\ \A n \in DOMAIN artefact : field[artefact[n].id] # None
             /\ artefact # <<>> => \A e \in {"nowcast", "instance"} :
                  \E n \in DOMAIN artefact : pointer[e] = artefact[n].id
<1>1. Inv /\ Opening /\ [Next]_vars
         => [(phase' = "open" /\ phase # "open" /\ Whole(artefact)) => Opened]_vars
  <2> SUFFICES ASSUME Inv, Opening, Next, phase' = "open", phase # "open",
                      Whole(artefact)
               PROVE  Opened
    OBVIOUS
  <2>1. StartCrew
    BY DEF Next, Hear, Publish, Announce, Request, FaultySample, NowcastOnRequest,
           ReplanOnRequest, Sounding, Tick, Repeat, PinClock, HoldBack, RestoreRate,
           Sample, Stop, Start
  <2>2. artefact \in Artefacts
    BY DEF Inv, Types, CrewTypes
  <2>3. CASE artefact = <<>>
    <3>1. replay = <<>>
      <4>1. author # "source"
        BY <2>1, AuthorsAssumption DEF StartCrew, Idle, All, Crew
      <4>2. /\ Sent + Len(replay) = Len(artefact) /\ Sent \in Nat
            /\ replay \in Seq(Holdings) /\ Len(replay) \in Nat
        BY <4>1, SentFacts
      <4>3. Len(artefact) = 0
        BY <2>3
      <4>4. Len(replay) = 0
        BY <4>2, <4>3
      <4> QED
        BY <4>2, <4>4, EmptySeq
    <3>2. DOMAIN <<>> = {}
      OBVIOUS
    <3> QED
      BY <2>3, <3>1, <3>2
  <2>4. CASE artefact # <<>>
    <3>1. /\ replay = <<>>
          /\ \A n \in DOMAIN artefact : Out(n)
          /\ pointer["instance"] # None =>
                \E n \in DOMAIN artefact : pointer["instance"] = artefact[n].id
      BY <2>1, <2>4, AllReplayed
    <3>2. PICK n \in DOMAIN artefact : artefact[n].id[1] = "nowcast"
      BY <2>2, <2>4, ArtefactAssumption
    <3>3. pointer["nowcast"] = artefact[n].id
      BY <3>1, <3>2 DEF Out
    <3>4. PICK m \in DOMAIN artefact : artefact[m].id[1] = "forecast"
      BY <2>2, <2>4, ArtefactAssumption
    <3>5. field[artefact[m].id] # None /\ artefact[m].id \in Ids
      BY <2>2, <3>1, ArtefactFacts DEF Out
    <3>6. EraOf[artefact[m].id] = "instance"
      BY <3>4, <3>5, EraNames
    <3>7. pointer["instance"] # None
      BY <3>5, <3>6
         DEF Inv, Proved!StoreInv, Proved!PointerNamesNewest, Proved!Held,
             Proved!PointedEras
    <3>8. \A k \in DOMAIN artefact : field[artefact[k].id] # None
      BY <3>1 DEF Out
    <3> QED
      BY <3>1, <3>2, <3>3, <3>7, <3>8
  <2> QED
    BY <2>3, <2>4
<1>2. Spec => [][(phase' = "open" /\ phase # "open" /\ Whole(artefact)) => Opened]_vars
  BY <1>1, AuthorsInvariance, OpeningInvariance, PTL DEF Spec
<1> QED
  BY <1>2 DEF OpensOnArtefact
=============================================================================
