------------------------- MODULE ForecastLoopProofs -------------------------
(***************************************************************************)
(* Theorems about the forecast loop, for every interval, cost, margin and  *)
(* lifetime, every number of stops and starts, and queues of any length.   *)
(***************************************************************************)
EXTENDS ForecastLoop, SequenceTheorems, TLAPS

-----------------------------------------------------------------------------
(* The scheduler of the loop is the one whose proofs are at hand.          *)

Proved == INSTANCE SchedulerProofs WITH Costs <- {Cost}, Dial <- {}

\* A step of the one is a step of the other: they are the same definitions.
LEMMA SameStep == [Sched!Next]_(Sched!vars) => [Proved!Next]_(Proved!vars)
<1>2. ASSUME NEW t, Sched!ClockSample(t) PROVE Proved!ClockSample(t)
  <2>1. Proved!Observe(t)
    BY <1>2 DEF Sched!ClockSample, Sched!Observe, Proved!Observe
  <2>2. Sched!StillOutstanding(t) => Proved!StillOutstanding(t)
    BY DEF Sched!StillOutstanding, Proved!StillOutstanding, Sched!Free, Proved!Free,
           Sched!Stalled, Proved!Stalled, Sched!Threshold, Proved!Threshold,
           Sched!NoRequest, Proved!NoRequest
  <2>3. Sched!ReleaseHeldPrompt(t) => Proved!ReleaseHeldPrompt(t)
    BY DEF Sched!ReleaseHeldPrompt, Proved!ReleaseHeldPrompt, Sched!Free, Proved!Free,
           Sched!Stalled, Proved!Stalled, Sched!Threshold, Proved!Threshold,
           Sched!PromptDue, Proved!PromptDue, Sched!HeldForCost, Proved!HeldForCost,
           Sched!InsideMinimum, Proved!InsideMinimum, Sched!Request, Proved!Request,
           Sched!Abandonment, Proved!Abandonment
  <2>4. Sched!FloorRequests(t) => Proved!FloorRequests(t)
    BY DEF Sched!FloorRequests, Proved!FloorRequests, Sched!Free, Proved!Free,
           Sched!Stalled, Proved!Stalled, Sched!Threshold, Proved!Threshold,
           Sched!PromptDue, Proved!PromptDue, Sched!HeldForCost, Proved!HeldForCost,
           Sched!InsideMinimum, Proved!InsideMinimum, Sched!Request, Proved!Request,
           Sched!Abandonment, Proved!Abandonment, Sched!FloorDue, Proved!FloorDue,
           Sched!PromptDeclined, Proved!PromptDeclined
  <2>5. Sched!FloorHolds(t) => Proved!FloorHolds(t)
    BY DEF Sched!FloorHolds, Proved!FloorHolds, Sched!Free, Proved!Free,
           Sched!Stalled, Proved!Stalled, Sched!Threshold, Proved!Threshold,
           Sched!HeldForCost, Proved!HeldForCost, Sched!FloorDue, Proved!FloorDue,
           Sched!NoRequest, Proved!NoRequest, Sched!Abandonment, Proved!Abandonment
  <2>6. Sched!FloorQuiet(t) => Proved!FloorQuiet(t)
    BY DEF Sched!FloorQuiet, Proved!FloorQuiet, Sched!Free, Proved!Free,
           Sched!Stalled, Proved!Stalled, Sched!Threshold, Proved!Threshold,
           Sched!PromptDue, Proved!PromptDue, Sched!HeldForCost, Proved!HeldForCost,
           Sched!InsideMinimum, Proved!InsideMinimum, Sched!FloorDue, Proved!FloorDue,
           Sched!NoRequest, Proved!NoRequest, Sched!Abandonment, Proved!Abandonment,
           Sched!PromptDeclined, Proved!PromptDeclined
  <2> QED
    BY <1>2, <2>1, <2>2, <2>3, <2>4, <2>5, <2>6
       DEF Sched!ClockSample, Proved!ClockSample
<1>3. Sched!Tick => Proved!Tick
  BY <1>2 DEF Sched!Tick, Proved!Tick, Sched!Silent, Proved!Silent,
              Sched!instance, Proved!instance
<1>4. Sched!Repeat => Proved!Repeat
  BY <1>2 DEF Sched!Repeat, Proved!Repeat
<1>5. ASSUME NEW r
      PROVE  /\ Sched!HearRunCost(r) => Proved!HearRunCost(r)
             /\ Sched!HearRunFailed(r) => Proved!HearRunFailed(r)
             /\ Sched!HearRunPublished(r) => Proved!HearRunPublished(r)
  BY DEF Sched!HearRunCost, Proved!HearRunCost, Sched!HearRunFailed,
         Proved!HearRunFailed, Sched!HearRunPublished, Proved!HearRunPublished,
         Sched!Later, Proved!Later, Sched!Silent, Proved!Silent
<1>6. /\ Sched!ConsiderDivergence => Proved!ConsiderDivergence
      /\ Sched!ConsiderPrompt => Proved!ConsiderPrompt
  BY DEF Sched!ConsiderDivergence, Proved!ConsiderDivergence, Sched!ConsiderPrompt,
         Proved!ConsiderPrompt, Sched!DeclineByPolicy, Proved!DeclineByPolicy,
         Sched!Decline, Proved!Decline, Sched!NoRequest, Proved!NoRequest,
         Sched!InsideMinimum, Proved!InsideMinimum, Sched!Open, Proved!Open,
         Sched!Accept, Proved!Accept, Sched!Request, Proved!Request,
         Sched!Hold, Proved!Hold, Sched!HeldForCost, Proved!HeldForCost,
         Sched!Threshold, Proved!Threshold
<1>7. Sched!Stop => Proved!Stop
  BY DEF Sched!Stop, Proved!Stop, Sched!Blank, Proved!Blank, Sched!Silent,
         Proved!Silent
<1>8. Sched!Start => Proved!Start
  BY DEF Sched!Start, Proved!Start, Sched!Blank, Proved!Blank, Sched!Silent,
         Proved!Silent
<1>9. ASSUME Sched!Next PROVE Proved!Next
  <2>1. CASE Sched!Tick \/ Sched!Repeat \/ Sched!Stop \/ Sched!Start
    BY <1>3, <1>4, <1>7, <1>8, <2>1 DEF Proved!Next
  <2>2. CASE Sched!ConsiderDivergence \/ Sched!ConsiderPrompt
    BY <1>6, <2>2 DEF Proved!Next
  <2>3. CASE \/ \E c \in {Cost} : Sched!HearRunCost(c)
             \/ \E r \in 0..now : Sched!HearRunFailed(r)
             \/ \E r \in 0..now : Sched!HearRunPublished(r)
    BY <1>5, <2>3 DEF Proved!Next
  <2> QED
    BY <1>9, <2>1, <2>2, <2>3 DEF Sched!Next
<1>10. UNCHANGED Sched!vars => UNCHANGED Proved!vars
  BY DEF Sched!vars, Proved!vars, Sched!instance, Proved!instance
<1> QED
  BY <1>9, <1>10
-----------------------------------------------------------------------------
(* The inductive invariant.                                                *)

SchedulerInv == Proved!IInv

Entries == DOMAIN queue
Timed(m) == m.kind \in {"request", "analysis"} /\ m.timed
Token(m) == m.kind \in {"request", "analysis", "failed"}
Carrier(m) == m.kind \in {"request", "analysis", "failed", "published"}

InDate(t, m) ==
    /\ m.run \in 0..t \cup {None}
    /\ m.run = None <=> m.kind = "cost"
    /\ Timed(m) => m.run = t

\* Every run in flight, on the bus or in the store is one the clock has
\* reached; a request or an analysis that names its instant names this tick,
\* because the clock waits for the drain.
Dated ==
    /\ tick = IF heard THEN now ELSE 0
    /\ heard => running
    /\ ~running => asked = {} /\ inFlight = None
    /\ \A i \in Entries : InDate(now, queue[i])
    /\ occupying # None => runnerUp /\ occupying.run <= now
    /\ standing # None => standing <= now
    /\ forecast \subseteq 0..now
    /\ inFlight # None => inFlight <= now
    /\ ~analystUp => spreadRun = None
    /\ minimum = MinInterval /\ maximum = MaxInterval

\* A run already forecast is run again only while it stands, and only in the
\* tick that names it.
Once ==
    /\ occupying # None =>
          occupying.run \notin forecast \/ occupying.run = standing
    /\ now \in forecast =>
          /\ standing = now
          /\ occupying # None => occupying.run = now

\* The runner releases a run no later than its cost after the tick that names
\* it, however late the runner's own clock is.
Spending ==
    /\ runnerTick <= now
    /\ occupying # None =>
       /\ occupying.publishAt <= occupying.run + Cost
       /\ now < occupying.run + Cost
       /\ ~resumed => occupying.run = now

LoopInv == LoopTypeOK /\ SchedulerInv /\ Dated /\ Once /\ Spending

-----------------------------------------------------------------------------
(* The queue.                                                              *)

\* What is left after a delivery: the rest of the queue, one place nearer.
Shifted ==
    /\ Len(queue) \in Nat \ {0} /\ Entries = 1..Len(queue)
    /\ Head(queue) = queue[1] /\ 1 \in Entries
    /\ \A i \in 1..(Len(queue) - 1) : i + 1 \in Entries /\ queue'[i] = queue[i + 1]

\* A message is taken from the front.
LEMMA Pop ==
    ASSUME queue \in Seq(Messages), queue # <<>>, queue' = Tail(queue)
    PROVE  /\ queue' \in Seq(Messages)
           /\ Entries' = 1..(Len(queue) - 1)
           /\ Shifted
<1>1. Len(queue) \in Nat \ {0} /\ Entries = 1..Len(queue) /\ Head(queue) = queue[1]
  BY EmptySeq, LenProperties, HeadTailProperties DEF Entries
<1>2. /\ queue' \in Seq(Messages) /\ Len(queue') = Len(queue) - 1
      /\ \A i \in 1..(Len(queue) - 1) : queue'[i] = queue[i + 1]
  BY <1>1, HeadTailProperties
<1>3. Entries' = 1..Len(queue')
  BY <1>2, LenProperties DEF Entries
<1> QED
  BY <1>1, <1>2, <1>3 DEF Shifted

\* A message is taken from the front and its answer joins the end.
LEMMA PopPush ==
    ASSUME queue \in Seq(Messages), queue # <<>>, NEW m \in Messages,
           queue' = Append(Tail(queue), m)
    PROVE  /\ queue' \in Seq(Messages)
           /\ Entries' = 1..Len(queue) /\ queue'[Len(queue)] = m
           /\ Shifted
<1>1. Len(queue) \in Nat \ {0} /\ Entries = 1..Len(queue) /\ Head(queue) = queue[1]
  BY EmptySeq, LenProperties, HeadTailProperties DEF Entries
<1> DEFINE rest == Tail(queue)
<1>2. /\ rest \in Seq(Messages) /\ Len(rest) = Len(queue) - 1
      /\ \A i \in 1..(Len(queue) - 1) : rest[i] = queue[i + 1]
  BY <1>1, HeadTailProperties
<1> HIDE DEF rest
<1>3. queue' = Append(rest, m)
  BY DEF rest
<1>4. /\ queue' \in Seq(Messages) /\ Len(queue') = Len(rest) + 1
      /\ queue'[Len(rest) + 1] = m
      /\ \A i \in 1..Len(rest) : queue'[i] = rest[i]
  BY <1>2, <1>3, AppendProperties
<1>5. Entries' = 1..Len(queue')
  BY <1>4, LenProperties DEF Entries
<1> QED
  BY <1>1, <1>2, <1>4, <1>5 DEF Shifted

\* A queue that grows at its end keeps its places.
LEMMA Push ==
    ASSUME queue \in Seq(Messages), NEW m \in Messages, queue' = queue \o <<m>>
    PROVE  /\ queue' \in Seq(Messages)
           /\ Len(queue) \in Nat /\ Entries = 1..Len(queue)
           /\ Entries' = 1..(Len(queue) + 1) /\ queue'[Len(queue) + 1] = m
           /\ \A i \in Entries : queue'[i] = queue[i]
<1>1. <<m>> \in Seq(Messages) /\ Len(<<m>>) = 1 /\ <<m>>[1] = m
  OBVIOUS
<1>2. Len(queue) \in Nat /\ Entries = 1..Len(queue)
  BY LenProperties DEF Entries
<1>3. /\ queue' \in Seq(Messages) /\ Len(queue') = Len(queue) + 1
      /\ \A i \in 1..(Len(queue) + 1) :
            queue'[i] = IF i <= Len(queue) THEN queue[i] ELSE <<m>>[i - Len(queue)]
  BY <1>1, ConcatProperties
<1>4. Entries' = 1..(Len(queue) + 1)
  BY <1>3, LenProperties DEF Entries
<1> QED
  BY <1>1, <1>2, <1>3, <1>4

-----------------------------------------------------------------------------
(* What the scheduler does in a step, as the rest of the loop sees it.     *)

AsksNothing ==
    asked' = {} /\ lastRequest' = lastRequest /\ requested' = requested

AsksFor(t) ==
    /\ \E cause : asked' = {[run |-> t, cause |-> cause, timed |-> heard']}
    /\ lastRequest' = t /\ inFlight' = t
    /\ t \notin requested /\ requested' = requested \cup {t}

\* A run is given up only once it is older than the threshold.
Spared(t) == inFlight # None => t - inFlight > Sched!Threshold

\* A sample that finds nothing outstanding and asks for nothing is before the
\* cadence floor, or inside the life of the standing forecast by the threshold.
Waits(t) == ~Sched!FloorDue(t) \/ Sched!HeldForCost(t, TRUE)

\* What the scheduler publishes, as messages.
LEMMA AskedMessages ==
    /\ AsksNothing => Asked = <<>>
    /\ \A t : AsksFor(t) => Asked = <<RequestFor(t, heard')>>
<1>1. AsksNothing => Asked = <<>>
  BY DEF AsksNothing, Asked
<1>2. ASSUME NEW t, AsksFor(t) PROVE Asked = <<RequestFor(t, heard')>>
  <2>1. PICK cause : asked' = {[run |-> t, cause |-> cause, timed |-> heard']}
    BY <1>2 DEF AsksFor
  <2> DEFINE m == [run |-> t, cause |-> cause, timed |-> heard']
  <2>2. asked' = {m} /\ m.run = t /\ m.timed = heard'
    BY <2>1
  <2> HIDE DEF m
  <2>3. (CHOOSE x \in asked' : TRUE) = m /\ asked' # {}
    BY <2>2
  <2> QED
    BY <2>2, <2>3 DEF Asked
<1> QED
  BY <1>1, <1>2

\* A sample at a tick no earlier than any it has known asks for nothing, or
\* for the run of that very tick, which it never asked for before; and it
\* leaves an outstanding run alone until the threshold is past.
LEMMA SampleOutcome ==
    ASSUME SchedulerInv, NEW t \in Nat, Sched!ClockSample(t)
    PROVE  /\ heard' = TRUE /\ tick' = t /\ validityEnd' = validityEnd
           /\ minimum' = minimum /\ maximum' = maximum
           /\ \/ AsksNothing /\ inFlight' = inFlight
              \/ AsksNothing /\ inFlight' = None /\ Spared(t)
              \/ AsksFor(t) /\ Spared(t)
           /\ inFlight = None /\ AsksNothing => Waits(t)
<1> USE DEF Sched!Free, Sched!Stalled, Spared
<1> DEFINE Outcome == \/ AsksNothing /\ inFlight' = inFlight
                      \/ AsksNothing /\ inFlight' = None /\ Spared(t)
                      \/ AsksFor(t) /\ Spared(t)
<1>1. /\ heard' = TRUE /\ tick' = t /\ validityEnd' = validityEnd
      /\ minimum' = minimum /\ maximum' = maximum
  BY DEF Sched!ClockSample, Sched!Observe
<1>2. ASSUME NEW cause, Sched!Request(t, cause), lastRequest # None => t > lastRequest
      PROVE  AsksFor(t)
  <2>1. t \notin requested
    BY <1>2 DEF SchedulerInv, Proved!IInv, Proved!TypeOK
  <2> QED
    BY <1>2, <2>1 DEF Sched!Request, AsksFor
<1>3. ASSUME Sched!StillOutstanding(t) PROVE Outcome
  BY <1>1, <1>3 DEF Sched!StillOutstanding, Sched!NoRequest, AsksNothing
<1>4. ASSUME Sched!ReleaseHeldPrompt(t) PROVE Outcome
  <2>1. lastRequest # None => t > lastRequest
    BY <1>4 DEF Sched!ReleaseHeldPrompt, Sched!InsideMinimum, SchedulerInv,
                Proved!IInv, Proved!TypeOK
  <2>2. Sched!Request(t, "operator")
    BY <1>4 DEF Sched!ReleaseHeldPrompt
  <2>3. Spared(t)
    BY <1>4 DEF Sched!ReleaseHeldPrompt
  <2> QED
    BY <1>1, <1>2, <2>1, <2>2, <2>3
<1>5. ASSUME Sched!FloorRequests(t) PROVE Outcome
  <2>1. lastRequest # None => t > lastRequest
    BY <1>5 DEF Sched!FloorRequests, Sched!FloorDue, SchedulerInv,
                Proved!IInv, Proved!TypeOK
  <2>2. Sched!Request(t, "scheduled")
    BY <1>5 DEF Sched!FloorRequests
  <2>3. Spared(t)
    BY <1>5 DEF Sched!FloorRequests
  <2> QED
    BY <1>1, <1>2, <2>1, <2>2, <2>3
<1>6. ASSUME Sched!FloorHolds(t) \/ Sched!FloorQuiet(t) PROVE Outcome
  BY <1>1, <1>6 DEF Sched!FloorHolds, Sched!FloorQuiet, Sched!NoRequest, AsksNothing
<1>7. ASSUME inFlight = None, AsksNothing PROVE Waits(t)
  <2>1. ~Sched!StillOutstanding(t)
    BY <1>7 DEF Sched!StillOutstanding
  <2>2. ~Sched!ReleaseHeldPrompt(t) /\ ~Sched!FloorRequests(t)
    BY <1>7 DEF Sched!ReleaseHeldPrompt, Sched!FloorRequests, Sched!Request, AsksNothing
  <2>3. Sched!FloorHolds(t) \/ Sched!FloorQuiet(t)
    BY <2>1, <2>2 DEF Sched!ClockSample
  <2> QED
    BY <2>3 DEF Sched!FloorHolds, Sched!FloorQuiet, Sched!HeldForCost, Waits
<1> QED
  BY <1>1, <1>3, <1>4, <1>5, <1>6, <1>7 DEF Sched!ClockSample

\* A prompt or a divergence asks for nothing, or finds nothing outstanding and
\* asks for the run of the tick the scheduler knows.
LEMMA ConsiderOutcome ==
    ASSUME SchedulerInv, Sched!ConsiderPrompt \/ Sched!ConsiderDivergence
    PROVE  /\ running
           /\ UNCHANGED <<now, running, heard, tick, validityEnd, minimum, maximum>>
           /\ \/ AsksNothing /\ inFlight' = inFlight
              \/ AsksFor(tick) /\ inFlight = None
<1>1. /\ running
      /\ UNCHANGED <<now, running, heard, tick, validityEnd, minimum, maximum>>
  BY DEF Sched!ConsiderPrompt, Sched!ConsiderDivergence
<1>2. CASE Sched!DeclineByPolicy \/ Sched!Hold
  BY <1>1, <1>2 DEF Sched!DeclineByPolicy, Sched!Decline, Sched!Hold,
                    Sched!NoRequest, AsksNothing
<1>3. ASSUME NEW cause, Sched!Open, Sched!Accept(cause)
      PROVE  AsksFor(tick) /\ inFlight = None
  <2>1. tick \notin requested
    BY <1>3 DEF Sched!Open, Sched!InsideMinimum, SchedulerInv, Proved!IInv,
                Proved!TypeOK
  <2> QED
    BY <1>3, <2>1 DEF Sched!Open, Sched!Accept, Sched!Request, AsksFor
<1> QED
  BY <1>1, <1>2, <1>3 DEF Sched!ConsiderPrompt, Sched!ConsiderDivergence

-----------------------------------------------------------------------------
(* Deliveries.                                                             *)

\* The scheduler's fields, from its own invariant.
LEMMA SchedulerTypes ==
    ASSUME SchedulerInv
    PROVE  /\ now \in Nat /\ running \in BOOLEAN /\ heard \in BOOLEAN
           /\ tick \in Nat /\ lastRequest \in Nat \cup {None}
           /\ inFlight \in Nat \cup {None} /\ validityEnd \in Nat \cup {None}
           /\ runCost \in Nat \cup {None} /\ requested \subseteq Nat
           /\ \A r \in requested : lastRequest # None /\ r <= lastRequest
  BY DEF SchedulerInv, Proved!IInv, Proved!TypeOK

\* The run a message names is one the clock has reached; only the statement of
\* the cost names none.
LEMMA RunOf ==
    ASSUME SchedulerInv, NEW m \in Messages, InDate(now, m), m.kind # "cost"
    PROVE  m.run \in Nat /\ m.run <= now
  BY SchedulerTypes DEF InDate

\* What is delivered next is a message in date.
LEMMA NextMessage ==
    ASSUME LoopInv, queue # <<>>
    PROVE  /\ queue \in Seq(Messages) /\ Head(queue) \in Messages
           /\ 1 \in Entries /\ Head(queue) = queue[1]
           /\ InDate(now, Head(queue))
           /\ Head(queue).kind # "cost" =>
                 Head(queue).run \in Nat /\ Head(queue).run <= now
<1>1. queue \in Seq(Messages)
  BY DEF LoopInv, LoopTypeOK
<1>2. Len(queue) \in Nat \ {0} /\ Entries = 1..Len(queue) /\ Head(queue) = queue[1]
  BY <1>1, EmptySeq, LenProperties, HeadTailProperties DEF Entries
<1>3. Head(queue) \in Messages /\ 1 \in Entries /\ InDate(now, Head(queue))
  BY <1>1, <1>2, HeadTailProperties DEF LoopInv, Dated
<1> QED
  BY <1>1, <1>2, <1>3, RunOf DEF LoopInv

\* A request delivered to the analyst.
LEMMA DeliverRequestKeeps ==
    ASSUME LoopInv, DeliverRequest
    PROVE  LoopTypeOK' /\ Dated' /\ Once' /\ Spending'
<1> DEFINE m == Head(queue)
<1>1. queue # <<>> /\ m.kind = "request"
  BY DEF DeliverRequest, NextIs
<1>2. queue \in Seq(Messages) /\ m \in Messages /\ InDate(now, m) /\ m.run \in Nat
      /\ m.run <= now
  BY <1>1, NextMessage
<1>3. AnalysisOf(m.run, m.timed) \in Messages /\ InDate(now, AnalysisOf(m.run, m.timed))
  BY <1>1, <1>2, LoopAssumption DEF AnalysisOf, Messages, InDate, Timed
<1>4. UNCHANGED <<schedVars, analystUp, spreadRun, runnerVars, storeVars, plane, newest>>
  BY DEF DeliverRequest
<1>5. unheard' \subseteq Nat
  BY <1>2 DEF DeliverRequest, Drop, LoopInv, LoopTypeOK
<1>6. /\ queue' \in Seq(Messages) /\ analysed' \subseteq Nat
      /\ \A i \in Entries' : InDate(now, queue'[i])
  <2>1. CASE queue' = Tail(queue)
    <3>1. analysed' \subseteq Nat
      BY <1>2 DEF LoopInv, LoopTypeOK, DeliverRequest
    <3> QED
      BY <1>1, <1>2, <2>1, <3>1, Pop DEF Shifted, LoopInv, Dated
  <2>2. CASE queue' = Append(Tail(queue), AnalysisOf(m.run, m.timed))
    <3>1. analysed' \subseteq Nat
      BY <1>2 DEF LoopInv, LoopTypeOK, DeliverRequest
    <3> QED
      BY <1>1, <1>2, <1>3, <2>2, <3>1, PopPush DEF Shifted, LoopInv, Dated
  <2> QED
    BY <2>1, <2>2 DEF DeliverRequest
<1> HIDE DEF m
<1> QED
  BY <1>4, <1>5, <1>6
  DEF LoopInv, LoopTypeOK, Dated, InDate, Timed, Once, Spending, schedVars, runnerVars,
      storeVars, plane

\* An analysis delivered to the runner, which takes it, refuses it aloud or, if
\* the analysis names no instant, drops it.
LEMMA DeliverAnalysisKeeps ==
    ASSUME LoopInv, DeliverAnalysis
    PROVE  LoopTypeOK' /\ Dated' /\ Once' /\ Spending'
<1> DEFINE m == Head(queue)
<1>1. queue # <<>> /\ m.kind = "analysis"
  BY DEF DeliverAnalysis, NextIs
<1>2. queue \in Seq(Messages) /\ m \in Messages /\ InDate(now, m) /\ m.run \in Nat
      /\ m.run <= now
  BY <1>1, NextMessage
<1>3. RunFailed(m.run) \in Messages /\ InDate(now, RunFailed(m.run))
  BY <1>2, LoopAssumption DEF RunFailed, Messages, InDate, Timed
<1>4. UNCHANGED <<schedVars, analystVars, runnerUp, runnerTick, costStated, resumed,
                  storeVars, plane, newest>>
  BY DEF DeliverAnalysis
<1>5. queue' \in Seq(Messages) /\ \A i \in Entries' : InDate(now, queue'[i])
  <2>1. CASE queue' = Tail(queue)
    BY <1>1, <1>2, <2>1, Pop DEF Shifted, LoopInv, Dated
  <2>2. CASE queue' = Append(Tail(queue), RunFailed(m.run))
    BY <1>1, <1>2, <1>3, <2>2, PopPush DEF Shifted, LoopInv, Dated
  <2> QED
    BY <2>1, <2>2 DEF DeliverAnalysis, RunnerHandles
<1>6. \/ occupying' = occupying
      \/ occupying' = None
      \/ runnerUp /\ occupying' = Occupy(m.run) /\ m.timed
  BY DEF DeliverAnalysis, RunnerHandles
<1>7. m.timed => m.run = now
  BY <1>1, <1>2 DEF InDate, Timed
<1>8. /\ Occupy(m.run) \in Occupations /\ Occupy(m.run).run = m.run
      /\ Occupy(m.run).publishAt <= now + Cost
  BY <1>2, SchedulerTypes, LoopAssumption
  DEF Occupy, Occupations, LoopInv, LoopTypeOK, Spending
<1>13. unheard' \subseteq Nat
  BY <1>2 DEF DeliverAnalysis, RunnerHandles, Drop, LoopInv, LoopTypeOK
<1> HIDE DEF m
<1>9. LoopTypeOK'
  BY <1>4, <1>5, <1>6, <1>8, <1>13
  DEF LoopInv, LoopTypeOK, analystVars, storeVars, plane
<1>10. CASE occupying' = occupying
  BY <1>4, <1>5, <1>9, <1>10
  DEF LoopInv, Dated, InDate, Timed, Once, Spending, schedVars, analystVars, storeVars
<1>11. CASE occupying' = None
  BY <1>4, <1>5, <1>9, <1>11
  DEF LoopInv, Dated, InDate, Timed, Once, Spending, schedVars, analystVars, storeVars
<1>12. CASE runnerUp /\ occupying' = Occupy(m.run) /\ m.timed
  <2>1. occupying'.run = now /\ occupying'.publishAt <= now + Cost
    BY <1>7, <1>8, <1>12
  <2>2. now \in Nat /\ now < now + Cost
    BY SchedulerTypes, LoopAssumption DEF LoopInv
  <2>3. Dated'
    BY <1>4, <1>5, <1>12, <2>1, <2>2
    DEF LoopInv, Dated, InDate, Timed, schedVars, analystVars, storeVars
  <2>4. Once' /\ Spending'
    BY <1>4, <2>1, <2>2
    DEF LoopInv, Once, Spending, schedVars, storeVars
  <2> QED
    BY <1>9, <2>3, <2>4
<1> QED
  BY <1>6, <1>10, <1>11, <1>12

\* What the scheduler does with a delivered message: it may only give up the
\* outstanding run the message names.
LEMMA HearOutcome ==
    ASSUME SchedulerInv, NEW r \in Nat,
           \/ Sched!HearRunPublished(r) \/ Sched!HearRunFailed(r)
           \/ Sched!HearRunCost(Cost) \/ UNCHANGED schedVars
    PROVE  /\ UNCHANGED <<now, running, heard, tick, minimum, maximum, requested>>
           /\ asked' = {} \/ asked' = asked
           /\ inFlight' = inFlight \/ inFlight' = None
  BY DEF Sched!HearRunPublished, Sched!HearRunFailed, Sched!HearRunCost, Sched!Silent,
         schedVars

\* A publication, a refusal or a statement of cost.
LEMMA DeliverNewsKeeps ==
    ASSUME LoopInv, DeliverPublished \/ DeliverFailed \/ DeliverCost
    PROVE  LoopTypeOK' /\ Dated' /\ Once' /\ Spending'
<1> DEFINE m == Head(queue)
<1>1. queue # <<>> /\ queue' = Tail(queue)
  BY DEF DeliverPublished, DeliverFailed, DeliverCost, NextIs
<1>2. queue \in Seq(Messages) /\ (m.kind # "cost" => m.run \in Nat)
  BY <1>1, NextMessage
<1>3. UNCHANGED <<analystUp, analysed, runnerVars, storeVars, plane, newest, unheard>>
  BY DEF DeliverPublished, DeliverFailed, DeliverCost, analystVars, history
<1>4. queue' \in Seq(Messages) /\ \A i \in Entries' : InDate(now, queue'[i])
  BY <1>1, <1>2, Pop DEF Shifted, LoopInv, Dated
<1>5. /\ UNCHANGED <<now, running, heard, tick, minimum, maximum, requested>>
      /\ asked' = {} \/ asked' = asked
      /\ inFlight' = inFlight \/ inFlight' = None
  <2>1. CASE DeliverPublished
    <3>1. m.run \in Nat /\ (Sched!HearRunPublished(m.run) \/ UNCHANGED schedVars)
      BY <1>2, <2>1 DEF DeliverPublished, NextIs
    <3> QED
      BY <3>1, HearOutcome DEF LoopInv
  <2>2. CASE DeliverFailed
    <3>1. m.run \in Nat /\ (Sched!HearRunFailed(m.run) \/ UNCHANGED schedVars)
      BY <1>2, <2>2 DEF DeliverFailed, NextIs
    <3> QED
      BY <3>1, HearOutcome DEF LoopInv
  <2>3. CASE DeliverCost
    <3>1. 0 \in Nat /\ (Sched!HearRunCost(Cost) \/ UNCHANGED schedVars)
      BY <2>3 DEF DeliverCost
    <3> QED
      BY <3>1, HearOutcome DEF LoopInv
  <2> QED
    BY <2>1, <2>2, <2>3
<1>6. spreadRun' \in Nat \cup {None} /\ (~analystUp => spreadRun' = None)
  BY <1>2 DEF DeliverPublished, DeliverFailed, DeliverCost, NextIs, analystVars,
              LoopInv, LoopTypeOK, Dated
<1> HIDE DEF m
<1> QED
  BY <1>3, <1>4, <1>5, <1>6
  DEF LoopInv, LoopTypeOK, Dated, InDate, Timed, Once, Spending, runnerVars,
      storeVars, plane

-----------------------------------------------------------------------------
(* A sample.                                                               *)

\* What is published one after the other.
LEMMA ConcatEntries ==
    ASSUME NEW a \in Seq(Messages), NEW b \in Seq(Messages)
    PROVE  /\ a \o b \in Seq(Messages) /\ Len(a) \in Nat /\ Len(b) \in Nat
           /\ DOMAIN a = 1..Len(a) /\ DOMAIN b = 1..Len(b)
           /\ Len(a \o b) = Len(a) + Len(b)
           /\ DOMAIN (a \o b) = 1..(Len(a) + Len(b))
           /\ \A i \in DOMAIN a : (a \o b)[i] = a[i]
           /\ \A i \in DOMAIN b : (a \o b)[Len(a) + i] = b[i]
           /\ \A i \in DOMAIN (a \o b) :
                 \/ i \in DOMAIN a
                 \/ i - Len(a) \in DOMAIN b /\ (a \o b)[i] = b[i - Len(a)]
<1>1. /\ Len(a) \in Nat /\ Len(b) \in Nat
      /\ DOMAIN a = 1..Len(a) /\ DOMAIN b = 1..Len(b)
  BY LenProperties
<1>2. /\ a \o b \in Seq(Messages) /\ Len(a \o b) = Len(a) + Len(b)
      /\ \A i \in 1..(Len(a) + Len(b)) :
            (a \o b)[i] = IF i <= Len(a) THEN a[i] ELSE b[i - Len(a)]
  BY ConcatProperties
<1>3. DOMAIN (a \o b) = 1..(Len(a) + Len(b))
  BY <1>2, LenProperties
<1> QED
  BY <1>1, <1>2, <1>3

\* A queue of one message.
LEMMA OneMessage ==
    ASSUME NEW m \in Messages
    PROVE  /\ <<m>> \in Seq(Messages) /\ Len(<<m>>) = 1
           /\ DOMAIN <<m>> = {1} /\ <<m>>[1] = m
  OBVIOUS

\* A message that is published or not.
LEMMA AtMostOne ==
    ASSUME NEW P \in BOOLEAN, NEW m \in Messages
    PROVE  /\ (IF P THEN <<m>> ELSE <<>>) \in Seq(Messages)
           /\ Len(IF P THEN <<m>> ELSE <<>>) = IF P THEN 1 ELSE 0
           /\ DOMAIN (IF P THEN <<m>> ELSE <<>>) = IF P THEN {1} ELSE {}
           /\ P => (IF P THEN <<m>> ELSE <<>>)[1] = m
  OBVIOUS

\* What each message says.
LEMMA MessageTypes ==
    /\ CostStated \in Messages /\ CostStated.kind = "cost" /\ CostStated.run = None
    /\ \A r \in Nat : /\ Published(r) \in Messages /\ Published(r).kind = "published"
                      /\ RunFailed(r) \in Messages /\ RunFailed(r).kind = "failed"
                      /\ Published(r).run = r /\ RunFailed(r).run = r
    /\ \A r \in Nat, b \in BOOLEAN :
          /\ RequestFor(r, b) \in Messages /\ RequestFor(r, b).kind = "request"
          /\ AnalysisOf(r, b) \in Messages /\ AnalysisOf(r, b).kind = "analysis"
          /\ RequestFor(r, b).run = r /\ AnalysisOf(r, b).run = r
          /\ RequestFor(r, b).timed = b /\ AnalysisOf(r, b).timed = b
  BY DEF CostStated, Published, RunFailed, RequestFor, AnalysisOf, Messages

\* What the runner publishes on a sample: the standing run restated first and
\* the staged publication last, with nothing between them but the cost.
LEMMA RunnerSaysWhat ==
    ASSUME LoopInv, NEW t \in Nat
    PROVE  /\ RunnerSays(t) \in Seq(Messages)
           /\ \A i \in DOMAIN RunnerSays(t) :
                 \/ RunnerSays(t)[i] = CostStated
                 \/ Resumes /\ RunnerSays(t)[i] = Published(standing)
                 \/ Spent(t) /\ RunnerSays(t)[i] = Published(occupying.run)
           /\ Spent(t) => /\ Len(RunnerSays(t)) \in DOMAIN RunnerSays(t)
                          /\ RunnerSays(t)[Len(RunnerSays(t))] = Published(occupying.run)
           /\ ~Resumes => \A i \in DOMAIN RunnerSays(t) :
                 RunnerSays(t)[i] # CostStated => i = Len(RunnerSays(t))
<1> DEFINE restated == IF Resumes THEN <<Published(standing)>> ELSE <<>>
           cost == IF CostDue(t) THEN <<CostStated>> ELSE <<>>
           staged == IF Spent(t) THEN <<Published(occupying.run)>> ELSE <<>>
<1>1. /\ Resumes \in BOOLEAN /\ CostDue(t) \in BOOLEAN /\ Spent(t) \in BOOLEAN
      /\ Resumes => Published(standing) \in Messages
      /\ Spent(t) => Published(occupying.run) \in Messages
  BY MessageTypes DEF LoopInv, LoopTypeOK, Resumes, CostDue, Spent, Occupations
<1>2. /\ restated \in Seq(Messages) /\ Len(restated) = IF Resumes THEN 1 ELSE 0
      /\ DOMAIN restated = IF Resumes THEN {1} ELSE {}
      /\ Resumes => restated[1] = Published(standing)
  BY <1>1
<1>3. /\ cost \in Seq(Messages) /\ Len(cost) = IF CostDue(t) THEN 1 ELSE 0
      /\ DOMAIN cost = IF CostDue(t) THEN {1} ELSE {}
      /\ CostDue(t) => cost[1] = CostStated
  BY <1>1, MessageTypes
<1>4. /\ staged \in Seq(Messages) /\ Len(staged) = IF Spent(t) THEN 1 ELSE 0
      /\ DOMAIN staged = IF Spent(t) THEN {1} ELSE {}
      /\ Spent(t) => staged[1] = Published(occupying.run)
  BY <1>1
<1>5. RunnerSays(t) = (restated \o cost) \o staged
  BY DEF RunnerSays
<1> HIDE DEF restated, cost, staged
<1> DEFINE before == restated \o cost
<1>6. /\ before \in Seq(Messages) /\ Len(before) \in Nat /\ DOMAIN before = 1..Len(before)
      /\ \A i \in DOMAIN before :
            before[i] = CostStated \/ (Resumes /\ i = 1 /\ before[i] = Published(standing))
  BY <1>2, <1>3, ConcatEntries
<1> HIDE DEF before
<1>7. RunnerSays(t) = before \o staged
  BY <1>5 DEF before
<1>8. CASE Spent(t)
  <2> DEFINE said == before \o staged
  <2>1. /\ said \in Seq(Messages) /\ Len(said) = Len(before) + 1
        /\ DOMAIN said = 1..Len(said) /\ said[Len(said)] = Published(occupying.run)
        /\ \A i \in DOMAIN said :
              i # Len(said) => i \in DOMAIN before /\ said[i] = before[i]
    <3>1. Len(staged) = 1 /\ DOMAIN staged = {1} /\ staged[1] = Published(occupying.run)
      BY <1>4, <1>8
    <3>2. /\ said \in Seq(Messages) /\ Len(said) = Len(before) + 1
          /\ DOMAIN said = 1..(Len(before) + 1) /\ said[Len(before) + 1] = staged[1]
          /\ \A i \in DOMAIN before : said[i] = before[i]
      BY <1>4, <1>6, <3>1, ConcatEntries
    <3> HIDE DEF said
    <3> QED
      BY <1>6, <3>1, <3>2
  <2> HIDE DEF said
  <2>2. RunnerSays(t) = said
    BY <1>7 DEF said
  <2> QED
    BY <1>6, <1>8, <2>1, <2>2
<1>9. CASE ~Spent(t)
  <2>1. RunnerSays(t) = before
    BY <1>1, <1>6, <1>7, <1>9, ConcatEmptySeq DEF staged
  <2> QED
    BY <1>6, <1>9, <2>1
<1> QED
  BY <1>8, <1>9

\* A sample at this tick or the next, published and delivered.
Sampled(t) ==
    /\ Sample(t) /\ t \in {now, now + 1}
    /\ now' = t /\ running' = running /\ heard' = running
    /\ tick' = IF running THEN t ELSE tick
    /\ UNCHANGED <<validityEnd, minimum, maximum>>
    /\ \/ AsksNothing /\ inFlight' = inFlight
       \/ AsksNothing /\ inFlight' = None /\ Spared(t)
       \/ AsksFor(t) /\ running /\ Spared(t)
    /\ running /\ inFlight = None /\ AsksNothing => Waits(t)

\* A tick, and the clock repeating one, publish a sample everyone may hear.
LEMMA SampleIs ==
    ASSUME LoopInv, Tick \/ Repeat
    PROVE  \E t \in {now, now + 1} : Sampled(t)
<1>1. now \in Nat /\ running \in BOOLEAN /\ heard \in BOOLEAN
  BY SchedulerTypes DEF LoopInv
<1>2. ASSUME NEW t \in {now, now + 1}, Sample(t), now' = t, running' = running,
             running, Sched!ClockSample(t)
      PROVE  Sampled(t)
  <2>1. t \in Nat /\ running = TRUE
    BY <1>1, <1>2
  <2>2. /\ heard' = TRUE /\ tick' = t /\ UNCHANGED <<validityEnd, minimum, maximum>>
        /\ \/ AsksNothing /\ inFlight' = inFlight
           \/ AsksNothing /\ inFlight' = None /\ Spared(t)
           \/ AsksFor(t) /\ Spared(t)
        /\ inFlight = None /\ AsksNothing => Waits(t)
    BY <1>2, <2>1, SampleOutcome DEF LoopInv
  <2>3. heard' = running
    BY <2>1, <2>2
  <2> QED
    BY <1>2, <2>1, <2>2, <2>3 DEF Sampled
<1>3. ASSUME NEW t \in {now, now + 1}, Sample(t), now' = t, running' = running,
             ~running, asked' = {}, UNCHANGED Sched!instance
      PROVE  Sampled(t)
  <2>1. heard = FALSE
    BY <1>1, <1>3 DEF LoopInv, Dated
  <2> QED
    BY <1>1, <1>3, <2>1 DEF Sampled, AsksNothing, Sched!instance
<1>4. CASE Tick
  BY <1>2, <1>3, <1>4 DEF Tick, Sched!Tick, Sched!Silent
<1>5. CASE Repeat
  <2>1. CASE running
    BY <1>2, <1>5, <2>1 DEF Repeat, Sched!Repeat
  <2>2. CASE ~running
    <3>1. UNCHANGED schedVars /\ Sample(now)
      BY <1>5, <2>2 DEF Repeat
    <3>2. now' = now /\ running' = running /\ asked' = {} /\ UNCHANGED Sched!instance
      BY <2>2, <3>1 DEF schedVars, Sched!instance, LoopInv, Dated
    <3> QED
      BY <1>3, <2>2, <3>1, <3>2
  <2> QED
    BY <2>1, <2>2
<1> QED
  BY <1>4, <1>5

FromRunner(t) == IF runnerUp THEN RunnerSays(t) ELSE <<>>

\* What the scheduler publishes on a sample: at most the request of this tick.
LEMMA AskedWhat ==
    ASSUME LoopInv, NEW t, Sampled(t)
    PROVE  /\ Asked \in Seq(Messages)
           /\ \A i \in DOMAIN Asked : /\ i = 1 /\ AsksFor(t)
                                      /\ Asked[i] = RequestFor(t, TRUE)
           /\ AsksNothing => Asked = <<>>
           /\ AsksFor(t) => 1 \in DOMAIN Asked /\ Asked[1] = RequestFor(t, TRUE)
<1> DEFINE m == RequestFor(t, TRUE)
<1>1. m \in Messages
  <2>1. t \in Nat
    BY SchedulerTypes DEF LoopInv, Sampled
  <2> QED
    BY <2>1 DEF RequestFor, Messages
<1>2. CASE AsksNothing
  BY <1>2, AskedMessages DEF AsksFor, AsksNothing
<1>3. CASE AsksFor(t) /\ running
  <2>1. Asked = <<m>>
    BY <1>3, AskedMessages DEF Sampled
  <2> HIDE DEF m
  <2>2. Asked \in Seq(Messages) /\ DOMAIN Asked = {1} /\ Asked[1] = m
    BY <1>1, <2>1, OneMessage
  <2>3. ~AsksNothing
    BY <1>3 DEF AsksFor, AsksNothing
  <2> QED
    BY <1>3, <2>2, <2>3 DEF m
<1> QED
  BY <1>2, <1>3 DEF Sampled

\* What a sample leaves in the queue.
SampleQueue(t) ==
    /\ queue = <<>> /\ queue' \in Seq(Messages)
    /\ \A i \in Entries' :
          \/ AsksFor(t) /\ queue'[i] = RequestFor(t, TRUE)
          \/ queue'[i] = CostStated
          \/ runnerUp /\ Resumes /\ queue'[i] = Published(standing)
          \/ runnerUp /\ Spent(t) /\ queue'[i] = Published(occupying.run)
    /\ \A i, j \in Entries' :
          queue'[i] = RequestFor(t, TRUE) /\ queue'[j] = RequestFor(t, TRUE) => i = j
    /\ ~Resumes => \A i, j \in Entries' :
          queue'[i].kind = "published" /\ queue'[j].kind = "published" => i = j
    /\ AsksFor(t) => \E i \in Entries' : queue'[i] = RequestFor(t, TRUE)
    /\ runnerUp /\ Spent(t) =>
          \E i \in Entries' : queue'[i] = Published(occupying.run)
    /\ runnerUp /\ Spent(t) /\ (schedulerFirst => AsksNothing) =>
          \E k \in Entries' :
             /\ queue'[k] = Published(occupying.run)
             /\ \A j \in Entries' : j < k => queue'[j].kind # "request"
             /\ \A j \in Entries' : j > k => queue'[j].kind # "published"

\* The sample finds a drained queue; what is said in it is all there is.
LEMMA SampleSays ==
    ASSUME LoopInv, NEW t, Sampled(t)
    PROVE  t \in Nat /\ SampleQueue(t)
<1> DEFINE said == FromRunner(t)
           req == RequestFor(t, TRUE)
<1>1. t \in Nat
  BY SchedulerTypes DEF LoopInv, Sampled
<1>2. /\ said \in Seq(Messages)
      /\ \A i \in DOMAIN said :
            /\ runnerUp
            /\ \/ said[i] = CostStated
               \/ Resumes /\ said[i] = Published(standing)
               \/ Spent(t) /\ said[i] = Published(occupying.run)
      /\ \A i \in DOMAIN said : said[i] # req /\ said[i].kind # "request"
      /\ ~Resumes => \A i \in DOMAIN said : said[i].kind = "published" => i = Len(said)
      /\ Len(said) \in Nat /\ DOMAIN said = 1..Len(said)
      /\ runnerUp /\ Spent(t) =>
            /\ Len(said) \in DOMAIN said
            /\ said[Len(said)] = Published(occupying.run)
  <2>1. CASE runnerUp
    <3>1. said = RunnerSays(t)
      BY <2>1 DEF FromRunner
    <3>2. /\ CostStated # req /\ CostStated.kind = "cost"
          /\ \A r : Published(r) # req /\ Published(r).kind # "request"
      BY DEF CostStated, Published, RequestFor
    <3> HIDE DEF said, req
    <3> QED
      BY <1>1, <2>1, <3>1, <3>2, RunnerSaysWhat, LenProperties
  <2>2. CASE ~runnerUp
    BY <2>2 DEF FromRunner
  <2> QED
    BY <2>1, <2>2
<1>3. /\ queue = <<>>
      /\ queue' = IF schedulerFirst THEN Asked \o said ELSE said \o Asked
  BY DEF Sampled, Sample, Drained, FromRunner
<1>4. /\ Asked \in Seq(Messages)
      /\ \A i \in DOMAIN Asked : /\ i = 1 /\ AsksFor(t)
                                 /\ Asked[i] = req
      /\ AsksFor(t) => 1 \in DOMAIN Asked /\ Asked[1] = req
      /\ AsksNothing => Asked = <<>>
      /\ req.kind = "request"
  BY AskedWhat DEF RequestFor
<1> HIDE DEF said, req
<1>5. CASE schedulerFirst
  <2>1. queue' = Asked \o said
    BY <1>3, <1>5
  <2>2. /\ queue' \in Seq(Messages) /\ Len(Asked) \in Nat
        /\ \A i \in Entries' :
              \/ i \in DOMAIN Asked /\ queue'[i] = Asked[i]
              \/ i - Len(Asked) \in DOMAIN said /\ queue'[i] = said[i - Len(Asked)]
        /\ \A i \in DOMAIN Asked : i \in Entries' /\ queue'[i] = Asked[i]
        /\ \A i \in DOMAIN said : /\ Len(Asked) + i \in Entries'
                                  /\ queue'[Len(Asked) + i] = said[i]
    BY <1>2, <1>4, <2>1, ConcatEntries DEF Entries
  <2>3. \A i \in Entries' : queue'[i] = req => i = 1
    BY <1>2, <1>4, <2>2
  <2>4. AsksFor(t) => \E i \in Entries' : queue'[i] = req
    BY <1>4, <2>2
  <2>5. runnerUp /\ Spent(t) =>
            \E i \in Entries' : queue'[i] = Published(occupying.run)
    BY <1>2, <2>2
  <2>6. \A i, j \in Entries' :
            queue'[i] = req /\ queue'[j] = req => i = j
    BY <2>3
  <2>7. \A i \in Entries' :
            \/ AsksFor(t) /\ queue'[i] = req
            \/ queue'[i] = CostStated
            \/ runnerUp /\ Resumes /\ queue'[i] = Published(standing)
            \/ runnerUp /\ Spent(t) /\ queue'[i] = Published(occupying.run)
    BY <1>2, <1>4, <2>2
  <2>8. ASSUME runnerUp, Spent(t), AsksNothing
        PROVE  \E k \in Entries' :
                    /\ queue'[k] = Published(occupying.run)
                    /\ \A j \in Entries' : j < k => queue'[j].kind # "request"
                    /\ \A j \in Entries' : j > k => queue'[j].kind # "published"
    <3>1. queue' = said
      BY <1>2, <1>4, <2>1, <2>8, ConcatEmptySeq
    <3>2. Entries' = 1..Len(said) /\ Len(said) \in Entries'
      BY <1>2, <2>8, <3>1 DEF Entries
    <3> QED
      BY <1>2, <2>8, <3>1, <3>2
  <2>9. ASSUME ~Resumes, NEW i \in Entries', queue'[i].kind = "published"
        PROVE  i = Len(Asked) + Len(said)
    <3>1. i \in Nat
      BY <2>2, LenProperties DEF Entries
    <3>2. i - Len(Asked) \in DOMAIN said /\ queue'[i] = said[i - Len(Asked)]
      BY <1>4, <2>2, <2>9
    <3>3. i - Len(Asked) = Len(said)
      BY <1>2, <2>9, <3>2
    <3> QED
      BY <1>2, <2>2, <3>1, <3>3
  <2>10. ~Resumes => \A i, j \in Entries' :
            queue'[i].kind = "published" /\ queue'[j].kind = "published" => i = j
    BY <2>9
  <2> QED
    BY <1>1, <1>3, <1>5, <2>2, <2>4, <2>5, <2>6, <2>7, <2>8, <2>10 DEF SampleQueue, req
<1>6. CASE ~schedulerFirst
  <2>1. queue' = said \o Asked
    BY <1>3, <1>6
  <2>2. /\ queue' \in Seq(Messages) /\ Len(said) \in Nat
        /\ \A i \in Entries' :
              \/ i \in DOMAIN said /\ queue'[i] = said[i]
              \/ i - Len(said) \in DOMAIN Asked /\ queue'[i] = Asked[i - Len(said)]
        /\ \A i \in DOMAIN said : i \in Entries' /\ queue'[i] = said[i]
        /\ \A i \in DOMAIN Asked : /\ Len(said) + i \in Entries'
                                   /\ queue'[Len(said) + i] = Asked[i]
        /\ Entries' \subseteq Int
    BY <1>2, <1>4, <2>1, ConcatEntries DEF Entries
  <2>9. ASSUME NEW i \in Entries'
        PROVE  \/ i \in DOMAIN said /\ queue'[i] = said[i]
               \/ i = Len(said) + 1 /\ queue'[i] = req
    <3>1. CASE i - Len(said) \in DOMAIN Asked /\ queue'[i] = Asked[i - Len(said)]
      <4>1. i - Len(said) = 1 /\ Asked[i - Len(said)] = req
        BY <1>4, <3>1
      <4> QED
        BY <2>2, <3>1, <4>1
    <3> QED
      BY <2>2, <3>1
  <2>3. \A i \in Entries' : queue'[i] = req => i = Len(said) + 1
    BY <1>2, <2>9
  <2>4. AsksFor(t) => \E i \in Entries' : queue'[i] = req
    BY <1>4, <2>2
  <2>5. runnerUp /\ Spent(t) =>
            \E i \in Entries' : queue'[i] = Published(occupying.run)
    BY <1>2, <2>2
  <2>6. \A i, j \in Entries' :
            queue'[i] = req /\ queue'[j] = req => i = j
    BY <2>3
  <2>7. \A i \in Entries' :
            \/ AsksFor(t) /\ queue'[i] = req
            \/ queue'[i] = CostStated
            \/ runnerUp /\ Resumes /\ queue'[i] = Published(standing)
            \/ runnerUp /\ Spent(t) /\ queue'[i] = Published(occupying.run)
    BY <1>2, <1>4, <2>2
  <2>8. ASSUME runnerUp, Spent(t)
        PROVE  \E k \in Entries' :
                    /\ queue'[k] = Published(occupying.run)
                    /\ \A j \in Entries' : j < k => queue'[j].kind # "request"
                    /\ \A j \in Entries' : j > k => queue'[j].kind # "published"
    <3>1. Len(said) \in Entries' /\ queue'[Len(said)] = Published(occupying.run)
      BY <1>2, <2>2, <2>8
    <3>2. ASSUME NEW j \in Entries', j < Len(said)
          PROVE  queue'[j].kind # "request"
      BY <1>2, <2>9, <3>2
    <3>3. ASSUME NEW j \in Entries', j > Len(said)
          PROVE  queue'[j].kind # "published"
      <4>1. queue'[j] = req
        BY <1>2, <2>9, <3>3
      <4> QED
        BY <1>4, <4>1
    <3> QED
      BY <3>1, <3>2, <3>3
  <2>10. ~Resumes => \A i, j \in Entries' :
            queue'[i].kind = "published" /\ queue'[j].kind = "published" => i = j
    BY <1>2, <1>4, <2>9
  <2> QED
    BY <1>1, <1>3, <2>2, <2>4, <2>5, <2>6, <2>7, <2>8, <2>10 DEF SampleQueue, req
<1> QED
  BY <1>5, <1>6

\* What a sample leaves of the runner and the store.
RunnerStep(t) ==
    /\ UNCHANGED <<runnerUp, analystUp, spreadRun, analysed, schedulerFirst, stops>>
    /\ runnerUp => resumed' = TRUE /\ runnerTick' = t
    /\ ~runnerUp => runnerTick' = runnerTick /\ occupying = None /\ ~Spent(t)
    /\ costStated' \in {costStated, t} /\ resumed' \in {resumed, TRUE}
    /\ Spent(t) => /\ occupying # None /\ occupying' = None
                   /\ standing' = occupying.run
                   /\ forecast' = forecast \cup {occupying.run}
    /\ ~Spent(t) => UNCHANGED <<occupying, standing, forecast>>

\* The runner hears the sample only while it is up.
LEMMA SampleRuns ==
    ASSUME LoopInv, NEW t, Sampled(t)
    PROVE  RunnerStep(t)
<1>1. UNCHANGED <<analystUp, spreadRun, analysed, schedulerFirst, stops>>
  BY DEF Sampled, Sample, analystVars, plane
<1>2. CASE runnerUp
  <2>1. RunnerSample(t)
    BY <1>2 DEF Sampled, Sample
  <2>2. Spent(t) => occupying # None
    BY DEF Spent
  <2> QED
    BY <1>1, <1>2, <2>1, <2>2 DEF RunnerSample, RunnerStep
<1>3. CASE ~runnerUp
  <2>1. UNCHANGED <<runnerVars, storeVars>>
    BY <1>3 DEF Sampled, Sample
  <2>2. occupying = None
    BY <1>3 DEF LoopInv, Dated
  <2> QED
    BY <1>1, <1>3, <2>1, <2>2 DEF runnerVars, storeVars, Spent, RunnerStep
<1> QED
  BY <1>2, <1>3

\* The latest run asked for stays a tick, and what is asked for again is no
\* longer among the runs that were dropped.
LEMMA Remembered ==
    ASSUME LoopInv, Remember, NEW t \in Nat, AsksNothing \/ AsksFor(t)
    PROVE  /\ newest' \in Nat /\ unheard' \subseteq unheard
           /\ AsksNothing => unheard' = unheard
<1>1. newest \in Nat /\ unheard' \subseteq unheard
  BY DEF LoopInv, LoopTypeOK, Remember
<1>2. CASE AsksNothing
  BY <1>1, <1>2 DEF Remember, AsksNothing
<1>3. CASE AsksFor(t)
  <2>1. PICK cause : asked' = {[run |-> t, cause |-> cause, timed |-> heard']}
    BY <1>3 DEF AsksFor
  <2> DEFINE req == [run |-> t, cause |-> cause, timed |-> heard']
  <2>2. asked' = {req} /\ req.run = t
    BY <2>1
  <2> HIDE DEF req
  <2> DEFINE chosen == CHOOSE m \in asked' : TRUE
  <2>3. newest' = IF asked' = {} THEN newest
                  ELSE IF chosen.run > newest THEN chosen.run ELSE newest
    BY DEF Remember
  <2>4. chosen = req /\ asked' # {}
    BY <2>2
  <2> HIDE DEF chosen
  <2> QED
    BY <1>1, <2>2, <2>3, <2>4 DEF AsksNothing
<1> QED
  BY <1>2, <1>3

\* A sample keeps every run in date and none forecast twice.
LEMMA SampleKeeps ==
    ASSUME LoopInv, NEW t, Sampled(t)
    PROVE  LoopTypeOK' /\ Dated' /\ Once' /\ Spending'
<1>1. /\ t \in Nat /\ now \in Nat /\ (t = now \/ t = now + 1) /\ now' = t
      /\ queue' \in Seq(Messages) /\ newest' \in Nat /\ unheard' \subseteq Nat
      /\ RunnerStep(t)
  <2>1. t \in Nat /\ now \in Nat /\ queue' \in Seq(Messages) /\ RunnerStep(t)
    BY SampleSays, SampleRuns, SchedulerTypes DEF SampleQueue, LoopInv
  <2>2. newest' \in Nat /\ unheard' \subseteq Nat
    BY <2>1, Remembered DEF Sampled, Sample, LoopInv, LoopTypeOK
  <2> QED
    BY <2>1, <2>2 DEF Sampled
<1>2. Spent(t) => occupying.run \in Nat /\ occupying.run <= now
  BY DEF Spent, LoopInv, LoopTypeOK, Occupations, Dated
<1>3. LoopTypeOK'
  <2>2. /\ schedulerFirst' \in BOOLEAN /\ stops' \in Nat
        /\ analystUp' \in BOOLEAN /\ spreadRun' \in Nat \cup {None}
        /\ analysed' \subseteq Nat /\ runnerUp' \in BOOLEAN
    BY <1>1 DEF RunnerStep, LoopInv, LoopTypeOK
  <2>3. runnerTick' \in Nat /\ costStated' \in Nat \cup {None} /\ resumed' \in BOOLEAN
    BY <1>1 DEF RunnerStep, LoopInv, LoopTypeOK
  <2>4. /\ occupying' \in Occupations \cup {None} /\ standing' \in Nat \cup {None}
        /\ forecast' \subseteq Nat
    BY <1>1, <1>2 DEF RunnerStep, LoopInv, LoopTypeOK
  <2> QED
    BY <1>1, <2>2, <2>3, <2>4 DEF LoopTypeOK
<1>4. Dated'
  <2>1. /\ tick' = IF heard' THEN now' ELSE 0
        /\ heard' => running'
    BY <1>1 DEF LoopInv, Dated, Sampled
  <2>2. ~running' => asked' = {} /\ inFlight' = None
    BY DEF Sampled, AsksNothing, LoopInv, Dated
  <2>3. \A i \in Entries' : InDate(t, queue'[i])
    <3> SUFFICES ASSUME NEW i \in Entries' PROVE InDate(t, queue'[i])
      OBVIOUS
    <3>1. CASE queue'[i] = RequestFor(t, TRUE)
      BY <1>1, <3>1, LoopAssumption DEF RequestFor, InDate, Timed
    <3>2. CASE queue'[i] = CostStated
      BY <1>1, <3>2, MessageTypes DEF InDate, Timed
    <3>3. CASE Resumes /\ queue'[i] = Published(standing)
      <4>1. standing \in Nat /\ standing <= t
        BY <1>1, <3>3 DEF Resumes, LoopInv, LoopTypeOK, Dated
      <4> QED
        BY <1>1, <3>3, <4>1, MessageTypes, LoopAssumption DEF InDate, Timed
    <3>4. CASE Spent(t) /\ queue'[i] = Published(occupying.run)
      BY <1>1, <1>2, <3>4, MessageTypes, LoopAssumption DEF InDate, Timed
    <3> QED
      BY <3>1, <3>2, <3>3, <3>4, SampleSays DEF SampleQueue
  <2>4. occupying' # None => runnerUp' /\ occupying'.run <= now'
    BY <1>1 DEF RunnerStep, LoopInv, LoopTypeOK, Occupations, Dated
  <2>7. standing' # None => standing' <= now'
    BY <1>1, <1>2 DEF RunnerStep, LoopInv, LoopTypeOK, Dated
  <2>8. forecast' \subseteq 0..now'
    <3>1. forecast \subseteq 0..now'
      BY <1>1 DEF LoopInv, Dated
    <3>2. forecast' = forecast \/ (forecast' = forecast \cup {occupying.run} /\ Spent(t))
      BY <1>1 DEF RunnerStep
    <3>3. Spent(t) => occupying.run \in 0..now'
      BY <1>1, <1>2
    <3> QED
      BY <3>1, <3>2, <3>3
  <2>5. inFlight' # None => inFlight' <= now'
    BY <1>1, SchedulerTypes DEF LoopInv, Dated, Sampled, AsksFor
  <2>6. /\ ~analystUp' => spreadRun' = None
        /\ minimum' = MinInterval /\ maximum' = MaxInterval
    BY <1>1 DEF RunnerStep, LoopInv, Dated, Sampled
  <2> QED
    BY <1>1, <2>1, <2>2, <2>3, <2>4, <2>5, <2>6, <2>7, <2>8 DEF Dated
<1>5. Once'
  BY <1>1, <1>2 DEF RunnerStep, LoopInv, Dated, Once, Spent
<1>6. Spending'
  <2>1. runnerTick' <= now'
    BY <1>1 DEF RunnerStep, LoopInv, LoopTypeOK, Spending
  <2>2. ASSUME occupying' # None
        PROVE  /\ occupying'.publishAt <= occupying'.run + Cost
               /\ now' < occupying'.run + Cost
               /\ ~resumed' => occupying'.run = now'
    <3>1. ~Spent(t) /\ occupying' = occupying /\ runnerUp /\ resumed' = TRUE
      BY <1>1, <2>2 DEF RunnerStep, LoopInv, Dated
    <3>2. /\ occupying.publishAt <= occupying.run + Cost /\ ~(t >= occupying.publishAt)
          /\ occupying.run \in Nat /\ occupying.publishAt \in Nat
      BY <2>2, <3>1 DEF LoopInv, LoopTypeOK, Occupations, Spending, Spent
    <3> QED
      BY <1>1, <3>1, <3>2, LoopAssumption
  <2> QED
    BY <2>1, <2>2 DEF Spending
<1> QED
  BY <1>3, <1>4, <1>5, <1>6

-----------------------------------------------------------------------------
(* Prompts, divergences and the operator plane's verbs.                    *)

\* A prompt or a divergence changes nothing but what the scheduler remembers,
\* unless it asks for a run: then the request is the last message.
AskStep ==
    /\ UNCHANGED <<analystVars, runnerVars, storeVars, plane>> /\ Remember
    /\ UNCHANGED <<now, running, heard, tick, validityEnd, minimum, maximum>>
    /\ running /\ tick \in Nat
    /\ \/ AsksNothing /\ inFlight' = inFlight /\ queue' = queue
       \/ /\ AsksFor(tick) /\ inFlight = None
          /\ queue' = queue \o <<RequestFor(tick, heard)>>
          /\ RequestFor(tick, heard) \in Messages

\* A prompt and a divergence change nothing but the request they lead to.
LEMMA AskIs ==
    ASSUME LoopInv, Prompt \/ Divergence
    PROVE  AskStep
<1>1. /\ UNCHANGED <<analystVars, runnerVars, storeVars, plane>> /\ Remember
      /\ Sched!ConsiderPrompt \/ Sched!ConsiderDivergence
      /\ Prompt => queue = <<>> /\ queue' = Asked
      /\ Divergence => queue' = queue \o Asked
  BY DEF Prompt, Divergence, Drained
<1>2. /\ running
      /\ UNCHANGED <<now, running, heard, tick, validityEnd, minimum, maximum>>
      /\ \/ AsksNothing /\ inFlight' = inFlight
         \/ AsksFor(tick) /\ inFlight = None
  BY <1>1, ConsiderOutcome DEF LoopInv
<1>3. tick \in Nat /\ heard \in BOOLEAN /\ queue \in Seq(Messages)
  BY SchedulerTypes DEF LoopInv, LoopTypeOK
<1>4. CASE AsksNothing /\ inFlight' = inFlight
  <2>1. Asked = <<>>
    BY <1>4, AskedMessages
  <2>2. queue' = queue
    BY <1>1, <1>3, <2>1, ConcatEmptySeq
  <2> QED
    BY <1>1, <1>2, <1>3, <1>4, <2>2 DEF AskStep
<1>5. CASE AsksFor(tick) /\ inFlight = None
  <2>1. Asked = <<RequestFor(tick, heard)>>
    BY <1>2, <1>5, AskedMessages
  <2> DEFINE m == RequestFor(tick, heard)
  <2>2. m \in Messages
    BY <1>3, MessageTypes
  <2>3. Asked = <<m>>
    BY <2>1
  <2> HIDE DEF m
  <2>4. <<m>> \in Seq(Messages)
    BY <2>2, OneMessage
  <2>5. <<>> \o <<m>> = <<m>>
    BY <2>4, ConcatEmptySeq
  <2>6. queue' = queue \o <<m>>
    BY <1>1, <2>3, <2>5
  <2> QED
    BY <1>1, <1>2, <1>3, <1>5, <2>2, <2>6 DEF m, AskStep
<1> QED
  BY <1>2, <1>4, <1>5

\* A prompt or a divergence names the tick the scheduler knows.
LEMMA AskKeeps ==
    ASSUME LoopInv, Prompt \/ Divergence
    PROVE  LoopTypeOK' /\ Dated' /\ Once' /\ Spending'
<1>1. AskStep /\ newest' \in Nat /\ unheard' \subseteq Nat
  BY AskIs, Remembered DEF AskStep, LoopInv, LoopTypeOK
<1>2. now \in Nat /\ tick \in 0..now /\ inFlight \in Nat \cup {None} /\ heard \in BOOLEAN
  BY SchedulerTypes DEF LoopInv, Dated
<1>3. queue' \in Seq(Messages) /\ \A i \in Entries' : InDate(now, queue'[i])
  <2>1. CASE queue' = queue
    BY <2>1 DEF LoopInv, LoopTypeOK, Dated, Entries
  <2>2. CASE /\ queue' = queue \o <<RequestFor(tick, heard)>>
             /\ RequestFor(tick, heard) \in Messages
    <3> DEFINE m == RequestFor(tick, heard)
    <3>1. m \in Messages /\ InDate(now, m)
      BY <1>2, <2>2, MessageTypes, LoopAssumption DEF InDate, Timed, LoopInv, Dated
    <3>2. queue' = queue \o <<m>> /\ queue \in Seq(Messages)
      BY <2>2 DEF LoopInv, LoopTypeOK
    <3> HIDE DEF m
    <3>3. /\ queue' \in Seq(Messages)
          /\ Len(queue) \in Nat /\ Entries = 1..Len(queue)
          /\ Entries' = 1..(Len(queue) + 1) /\ queue'[Len(queue) + 1] = m
          /\ \A i \in Entries : queue'[i] = queue[i]
      BY <3>1, <3>2, Push
    <3> QED
      BY <3>1, <3>3 DEF LoopInv, Dated
  <2> QED
    BY <1>1, <2>1, <2>2 DEF AskStep
<1>4. LoopTypeOK'
  BY <1>1, <1>3
  DEF AskStep, LoopInv, LoopTypeOK, analystVars, runnerVars, storeVars, plane
<1>5. inFlight' # None => inFlight' <= now
  BY <1>1, <1>2 DEF AskStep, LoopInv, Dated, AsksFor
<1>6. Dated'
  BY <1>1, <1>3, <1>5
  DEF AskStep, LoopInv, Dated, InDate, Timed, analystVars, runnerVars, storeVars
<1>7. Once' /\ Spending'
  BY <1>1 DEF AskStep, LoopInv, Once, Spending, runnerVars, storeVars
<1> QED
  BY <1>4, <1>6, <1>7

\* The lifecycle verbs act on a drained queue.
LEMMA ControlKeeps ==
    ASSUME LoopInv, Control
    PROVE  LoopTypeOK' /\ Dated' /\ Once' /\ Spending'
<1>1. /\ queue = <<>> /\ now' = now /\ stops \in Nat /\ now \in Nat
      /\ UNCHANGED <<analysed, storeVars, newest, unheard>>
  BY SchedulerTypes
  DEF Control, StopScheduler, StartScheduler, StopAnalyst, StartAnalyst, StopRunner,
      StartRunner, MayStop, Drained, Sched!Stop, Sched!Start, LoopInv, LoopTypeOK,
      schedVars, analystVars, history
<1>2. stops' \in Nat /\ schedulerFirst' \in BOOLEAN
  <2>1. \/ stops' = stops \/ stops' = stops + 1
    BY DEF Control, StopScheduler, StartScheduler, StopAnalyst, StartAnalyst, StopRunner,
           StartRunner, MayStop, plane
  <2>2. schedulerFirst' \in {schedulerFirst, TRUE, FALSE}
    BY DEF Control, StopScheduler, StartScheduler, StopAnalyst, StartAnalyst, StopRunner,
           StartRunner, MayStop, plane
  <2>3. stops' \in Nat
    BY <1>1, <2>1
  <2>4. schedulerFirst' \in BOOLEAN
    BY <2>2 DEF LoopInv, LoopTypeOK
  <2> QED
    BY <2>3, <2>4
<1>3. CASE StopScheduler \/ StartScheduler
  <2>1. /\ UNCHANGED <<analystVars, runnerVars, queue>>
        /\ tick' = 0 /\ heard' = FALSE /\ inFlight' = None /\ asked' = {}
        /\ minimum' = MinInterval /\ maximum' = MaxInterval
    BY <1>3 DEF StopScheduler, StartScheduler, Sched!Stop, Sched!Start, Sched!Blank,
                Sched!Silent
  <2> QED
    BY <1>1, <1>2, <2>1
    DEF LoopInv, LoopTypeOK, Dated, InDate, Timed, Entries, Once, Spending, analystVars,
        runnerVars, storeVars
<1>4. CASE StopAnalyst \/ StartAnalyst
  <2>1. /\ UNCHANGED <<schedVars, runnerVars, queue>>
        /\ analystUp' \in BOOLEAN /\ spreadRun' = None
    BY <1>4 DEF StopAnalyst, StartAnalyst, LoopInv, Dated
  <2> QED
    BY <1>1, <1>2, <2>1
    DEF LoopInv, LoopTypeOK, Dated, InDate, Timed, Entries, Once, Spending, schedVars,
        runnerVars, storeVars
<1>5. CASE StopRunner
  <2>1. /\ UNCHANGED <<schedVars, analystVars>>
        /\ runnerUp' = FALSE /\ runnerTick' = 0 /\ occupying' = None
        /\ costStated' = None /\ resumed' = FALSE
        /\ queue' = IF occupying = None THEN <<>> ELSE <<RunFailed(occupying.run)>>
    BY <1>5 DEF StopRunner
  <2>2. queue' \in Seq(Messages) /\ \A i \in Entries' : InDate(now, queue'[i])
    <3>1. CASE occupying = None
      BY <2>1, <3>1 DEF Entries
    <3>2. CASE occupying # None
      <4> DEFINE m == RunFailed(occupying.run)
      <4>1. m \in Messages /\ InDate(now, m)
        BY <1>1, <3>2, MessageTypes, LoopAssumption
        DEF LoopInv, LoopTypeOK, Occupations, Dated, InDate, Timed
      <4>2. queue' = <<m>>
        BY <2>1, <3>2
      <4> HIDE DEF m
      <4> QED
        BY <4>1, <4>2, OneMessage DEF Entries
    <3> QED
      BY <3>1, <3>2
  <2>3. LoopTypeOK'
    BY <1>1, <1>2, <2>1, <2>2 DEF LoopInv, LoopTypeOK, analystVars, storeVars
  <2>4. Dated'
    BY <1>1, <2>1, <2>2 DEF LoopInv, Dated, schedVars, analystVars, storeVars
  <2>5. Once' /\ Spending'
    BY <1>1, <2>1 DEF LoopInv, Once, Spending, storeVars
  <2> QED
    BY <2>3, <2>4, <2>5
<1>6. CASE StartRunner
  <2>1. /\ UNCHANGED <<schedVars, analystVars, runnerTick, occupying, costStated, resumed,
                       queue>>
        /\ runnerUp' = TRUE
    BY <1>6 DEF StartRunner
  <2> QED
    BY <1>1, <1>2, <2>1
    DEF LoopInv, LoopTypeOK, Dated, InDate, Timed, Entries, Once, Spending, schedVars,
        analystVars, storeVars
<1> QED
  BY <1>3, <1>4, <1>5, <1>6 DEF Control

-----------------------------------------------------------------------------
(* The loop drives the scheduler as the scheduler's module allows.         *)

\* Every step of the loop is one of the scheduler's, or none of its business:
\* what it hears of is a run no later than this tick.
LEMMA StepOfScheduler ==
    ASSUME LoopInv, [Next]_vars
    PROVE  [Sched!Next]_(Sched!vars)
<1>1. UNCHANGED schedVars => UNCHANGED Sched!vars
  BY DEF schedVars, Sched!vars, Sched!instance
<1>2. CASE DeliverRequest \/ DeliverAnalysis
  BY <1>1, <1>2 DEF DeliverRequest, DeliverAnalysis
<1>3. CASE DeliverPublished \/ DeliverFailed
  <2>1. Head(queue).run \in 0..now
    BY <1>3, NextMessage DEF DeliverPublished, DeliverFailed, NextIs
  <2>2. \/ Sched!HearRunPublished(Head(queue).run)
        \/ Sched!HearRunFailed(Head(queue).run)
        \/ UNCHANGED schedVars
    BY <1>3 DEF DeliverPublished, DeliverFailed
  <2> QED
    BY <1>1, <2>1, <2>2 DEF Sched!Next
<1>4. CASE DeliverCost
  BY <1>1, <1>4 DEF DeliverCost, Sched!Next
<1>5. CASE Tick \/ Repeat
  BY <1>1, <1>5 DEF Tick, Repeat, Sched!Next
<1>6. CASE Prompt \/ Divergence
  BY <1>6 DEF Prompt, Divergence, Sched!Next
<1>7. CASE Control
  BY <1>1, <1>7
  DEF Control, StopScheduler, StartScheduler, StopAnalyst, StartAnalyst, StopRunner,
      StartRunner, Sched!Next
<1>8. CASE UNCHANGED vars
  BY <1>1, <1>8 DEF vars
<1> QED
  BY <1>2, <1>3, <1>4, <1>5, <1>6, <1>7, <1>8 DEF Next, Deliver

\* The loop's assumption on the constants contains the scheduler's.
LEMMA SchedulerConstants == Proved!SchedulerAssumption
  BY LoopAssumption DEF Proved!SchedulerAssumption

\* Every step of the loop keeps the invariant.
LEMMA StepKeeps ==
    ASSUME LoopInv, [Next]_vars
    PROVE  LoopInv'
<1>1. SchedulerInv'
  <2>1. [Proved!Next]_(Proved!vars)
    BY StepOfScheduler, SameStep
  <2>2. Proved!IInv
    BY DEF LoopInv, SchedulerInv
  <2> QED
    BY <2>1, <2>2, SchedulerConstants, Proved!StepKeeps DEF SchedulerInv
<1>2. LoopTypeOK' /\ Dated' /\ Once' /\ Spending'
  <2>1. CASE DeliverRequest
    BY <2>1, DeliverRequestKeeps
  <2>2. CASE DeliverAnalysis
    BY <2>2, DeliverAnalysisKeeps
  <2>3. CASE DeliverPublished \/ DeliverFailed \/ DeliverCost
    BY <2>3, DeliverNewsKeeps
  <2>4. CASE Tick \/ Repeat
    BY <2>4, SampleIs, SampleKeeps
  <2>5. CASE Prompt \/ Divergence
    BY <2>5, AskKeeps
  <2>6. CASE Control
    BY <2>6, ControlKeeps
  <2>7. CASE UNCHANGED vars
    BY <2>7
    DEF vars, schedVars, analystVars, runnerVars, storeVars, plane, history, LoopInv,
        LoopTypeOK, Dated, InDate, Timed, Entries, Once, Spending
  <2> QED
    BY <2>1, <2>2, <2>3, <2>4, <2>5, <2>6, <2>7 DEF Next, Deliver
<1> QED
  BY <1>1, <1>2 DEF LoopInv

\* At the first tick only the cost is on the bus.
LEMMA InitHolds == Init => LoopInv
<1> SUFFICES ASSUME Init PROVE LoopInv
  OBVIOUS
<1> USE LoopAssumption
<1>1. SchedulerInv
  <2>1. Sched!Init => Proved!Init
    BY DEF Sched!Init, Proved!Init
  <2> QED
    BY <2>1, SchedulerConstants, Proved!InitHolds DEF Init, SchedulerInv
<1>2. /\ queue = <<CostStated>> /\ CostStated \in Messages
      /\ Entries = {1} /\ queue[1] = CostStated /\ queue \in Seq(Messages)
  BY MessageTypes DEF Init, Entries
<1>3. now = 0 /\ inFlight = None /\ asked = {} /\ tick = 0 /\ heard = TRUE /\ running = TRUE
      /\ minimum = MinInterval /\ maximum = MaxInterval
  BY DEF Init, Sched!Init
<1>4. InDate(now, CostStated)
  BY MessageTypes DEF InDate, Timed
<1>5. LoopTypeOK
  BY <1>2 DEF Init, LoopTypeOK
<1>6. Dated
  BY <1>2, <1>3, <1>4 DEF Init, Dated
<1>7. Once /\ Spending
  BY <1>3 DEF Init, Once, Spending
<1> QED
  BY <1>1, <1>5, <1>6, <1>7 DEF LoopInv

\* The inductive invariant holds of every behaviour.
THEOREM LoopInvariance == Spec => []LoopInv
<1>1. LoopInv /\ [Next]_vars => LoopInv'
  BY StepKeeps
<1> QED
  BY <1>1, InitHolds, PTL DEF Spec

\* The analyst's, the runner's, the store's and the broker's fields keep their
\* types (analyst.ts, runner.ts, coverage-store/store.ts, broker.ts).
THEOREM LoopTypeCorrect == Spec => []LoopTypeOK
<1>1. LoopInv => LoopTypeOK
  BY DEF LoopInv
<1> QED
  BY <1>1, LoopInvariance, PTL

\* The loop implements the scheduler's specification: whatever the analyst, the
\* runner, the broker and the operator plane do, the scheduler hears only what
\* its own module allows.
THEOREM LoopImplementsScheduler == Spec => SchedulerSpec
<1>1. LoopInv /\ [Next]_vars => [Sched!Next]_(Sched!vars)
  BY StepOfScheduler
<1>2. Init => Sched!Init
  BY DEF Init
<1> QED
  BY <1>1, <1>2, LoopInvariance, PTL DEF Spec, SchedulerSpec, Sched!Spec

\* The margin the scheduler adds to a run's cost is enough by itself (as
\* configured: 30 ticks of margin, 9 of cost).
MarginCoversCost == Cost <= ReleaseMargin

\* Nothing the scheduler gives up is what the runner is occupied with.
LEMMA LiveRunSpared ==
    ASSUME LoopInv, MarginCoversCost, NEW t, Sampled(t), inFlight # None, Spared(t)
    PROVE  occupying = None \/ occupying.run # inFlight
<1> SUFFICES ASSUME occupying # None, occupying.run = inFlight PROVE FALSE
  OBVIOUS
<1>1. /\ now \in Nat /\ t \in {now, now + 1} /\ now < inFlight + Cost
      /\ inFlight \in Nat
  BY SchedulerTypes DEF LoopInv, Spending, Sampled
<1>2. Sched!Threshold \in Nat /\ Sched!Threshold >= ReleaseMargin
  BY SchedulerTypes, LoopAssumption DEF Sched!Threshold, LoopInv
<1>3. t - inFlight > Sched!Threshold
  BY DEF Spared
<1> QED
  BY <1>1, <1>2, <1>3, LoopAssumption DEF MarginCoversCost

\* When the margin covers the cost, the watchdog never gives up a run the runner
\* is still working on, whatever is stopped and started (scheduler.ts:322-340).
THEOREM LiveRunsSpared ==
    ASSUME MarginCoversCost
    PROVE  Spec => WatchdogSparesLiveRuns
<1> DEFINE Safe == inFlight # None /\ inFlight' # inFlight /\ "abandoned" \in decided' =>
                      occupying = None \/ occupying.run # inFlight
<1>1. LoopInv /\ [Next]_vars => [Safe]_vars
  <2> SUFFICES ASSUME LoopInv, Next, inFlight # None, inFlight' # inFlight,
                      "abandoned" \in decided'
               PROVE  occupying = None \/ occupying.run # inFlight
    BY DEF vars
  <2>1. CASE Tick \/ Repeat
    <3>1. PICK t \in {now, now + 1} : Sampled(t)
      BY <2>1, SampleIs
    <3>2. Spared(t)
      BY <3>1 DEF Sampled
    <3> QED
      BY <3>1, <3>2, LiveRunSpared
  <2>2. CASE Prompt \/ Divergence
    <3>1. AskStep
      BY <2>2, AskIs
    <3> QED
      BY <3>1 DEF AskStep
  <2>3. CASE Deliver \/ Control
    BY <2>3
    DEF Deliver, DeliverRequest, DeliverAnalysis, DeliverPublished, DeliverFailed,
        DeliverCost, Control, StopScheduler, StartScheduler, StopAnalyst, StartAnalyst,
        StopRunner, StartRunner, schedVars, Sched!HearRunPublished,
        Sched!HearRunFailed, Sched!HearRunCost, Sched!Stop, Sched!Start, Sched!Silent
  <2> QED
    BY <2>1, <2>2, <2>3 DEF Next
<1> QED
  BY <1>1, LoopInvariance, PTL DEF Spec, WatchdogSparesLiveRuns

-----------------------------------------------------------------------------
(* The way round the loop.                                                 *)

OneEach ==
    \A i, j \in Entries : Token(queue[i]) /\ Token(queue[j]) /\ i # j
        => queue[i].run # queue[j].run

\* While the scheduler is the first to hear a sample, no two messages on their
\* way to a forecast are of one run, nor of the run the runner is occupied
\* with, and the scheduler asked for each of them.
Distinct ==
    schedulerFirst /\ running =>
      /\ OneEach
      /\ \A i \in Entries : Token(queue[i]) =>
             /\ queue[i].run \in requested
             /\ occupying # None => queue[i].run # occupying.run
      /\ occupying # None => occupying.run \in requested

\* What the first stop verb puts an end to: everyone is there and knows the
\* time, no request is for a run that was analysed, and none was dropped.
Undisturbed ==
    stops = 0 =>
      /\ running /\ heard /\ analystUp /\ runnerUp /\ resumed /\ schedulerFirst
      /\ runnerTick = now
      /\ unheard = {} /\ analysed \subseteq requested
      /\ \A i \in Entries : queue[i].timed
      /\ \A i \in Entries : queue[i].kind = "request" => queue[i].run \notin analysed

\* The outstanding run is the one the runner is occupied with, or on the bus, or
\* it was dropped since it was asked for.
Carried ==
    inFlight # None =>
      \/ occupying # None /\ occupying.run = inFlight
      \/ inFlight \in unheard
      \/ \E i \in Entries : Carrier(queue[i]) /\ queue[i].run = inFlight

RoundInv == LoopInv /\ Distinct /\ Undisturbed /\ Carried

\* What is in the queue after a delivery that may have put m at its end.
PassedOn(m) ==
    /\ OneEach => OneEach'
    /\ \A i \in Entries' : Token(queue'[i]) =>
          \E j \in Entries : Token(queue[j]) /\ queue[j].run = queue'[i].run
    /\ \A i \in Entries' :
          queue'[i] = m \/ \E j \in Entries : j # 1 /\ queue'[i] = queue[j]

\* A delivery that passes a run on, or drops it, keeps the runs distinct.
LEMMA HandedOn ==
    ASSUME queue \in Seq(Messages), queue # <<>>, NEW m \in Messages,
           \/ queue' = Tail(queue)
           \/ /\ queue' = Append(Tail(queue), m)
              /\ Token(m) => Token(Head(queue)) /\ m.run = Head(queue).run
    PROVE  PassedOn(m)
<1>1. CASE queue' = Tail(queue)
  <2>1. /\ Entries' = 1..(Len(queue) - 1) /\ Shifted
    BY <1>1, Pop
  <2>2. \A i \in Entries' : /\ i + 1 \in Entries /\ i + 1 # 1 /\ i \in Nat
                            /\ queue'[i] = queue[i + 1]
    BY <2>1 DEF Shifted
  <2>3. ASSUME OneEach, NEW i \in Entries', NEW j \in Entries', Token(queue'[i]),
               Token(queue'[j]), i # j
        PROVE  queue'[i].run # queue'[j].run
    <3>1. i + 1 # j + 1
      BY <2>2, <2>3
    <3> QED
      BY <2>2, <2>3, <3>1 DEF OneEach
  <2> QED
    BY <2>2, <2>3 DEF PassedOn, OneEach
<1>2. CASE /\ queue' = Append(Tail(queue), m)
           /\ Token(m) => Token(Head(queue)) /\ m.run = Head(queue).run
  <2>1. Entries' = 1..Len(queue) /\ queue'[Len(queue)] = m /\ Shifted
    BY <1>2, PopPush
  <2>2. \A i \in Entries' : \/ i = Len(queue) /\ queue'[i] = m
                            \/ /\ i \in 1..(Len(queue) - 1) /\ i + 1 \in Entries
                               /\ queue'[i] = queue[i + 1]
    BY <2>1 DEF Shifted
  <2>3. 1 \in Entries /\ Head(queue) = queue[1] /\ Entries' \subseteq Nat
    BY <2>1 DEF Shifted
  <2>4. ASSUME OneEach, NEW i \in Entries', NEW j \in Entries', Token(queue'[i]),
               Token(queue'[j]), i # j
        PROVE  queue'[i].run # queue'[j].run
    <3>1. CASE i = Len(queue)
      <4>1. /\ queue'[i] = m /\ Token(queue[1]) /\ m.run = queue[1].run
            /\ j + 1 \in Entries /\ queue'[j] = queue[j + 1] /\ j + 1 # 1
        BY <1>2, <2>1, <2>2, <2>3, <2>4, <3>1
      <4> QED
        BY <2>3, <2>4, <4>1 DEF OneEach
    <3>2. CASE j = Len(queue)
      <4>1. /\ queue'[j] = m /\ Token(queue[1]) /\ m.run = queue[1].run
            /\ i + 1 \in Entries /\ queue'[i] = queue[i + 1] /\ i + 1 # 1
        BY <1>2, <2>1, <2>2, <2>3, <2>4, <3>2
      <4> QED
        BY <2>3, <2>4, <4>1 DEF OneEach
    <3>3. CASE i # Len(queue) /\ j # Len(queue)
      BY <2>2, <2>3, <2>4, <3>3 DEF OneEach
    <3> QED
      BY <3>1, <3>2, <3>3
  <2>5. ASSUME NEW i \in Entries'
        PROVE  queue'[i] = m \/ \E j \in Entries : j # 1 /\ queue'[i] = queue[j]
    BY <2>2, <2>3
  <2>6. ASSUME NEW i \in Entries', Token(queue'[i])
        PROVE  \E j \in Entries : Token(queue[j]) /\ queue[j].run = queue'[i].run
    BY <1>2, <2>3, <2>5, <2>6
  <2> QED
    BY <2>4, <2>5, <2>6 DEF PassedOn, OneEach
<1> QED
  BY <1>1, <1>2

\* A run on the bus is still there after a delivery, unless the message
\* delivered carried it; and a message passed on carries it further.
LEMMA CarriedOn ==
    ASSUME queue \in Seq(Messages), queue # <<>>, NEW m \in Messages,
           queue' = Tail(queue) \/ queue' = Append(Tail(queue), m)
    PROVE  /\ \A i \in Entries : \/ i = 1 /\ queue[i] = Head(queue)
                                 \/ \E j \in Entries' : queue'[j] = queue[i]
           /\ queue' = Append(Tail(queue), m) => \E j \in Entries' : queue'[j] = m
<1>1. CASE queue' = Tail(queue)
  <2>1. Entries' = 1..(Len(queue) - 1) /\ Shifted
    BY <1>1, Pop
  <2>2. ASSUME NEW i \in Entries, i # 1
        PROVE  i - 1 \in Entries' /\ queue'[i - 1] = queue[i]
    <3>1. i - 1 \in 1..(Len(queue) - 1) /\ (i - 1) + 1 = i
      BY <2>1, <2>2 DEF Shifted
    <3> QED
      BY <2>1, <3>1 DEF Shifted
  <2>3. Tail(queue) # Append(Tail(queue), m)
    BY HeadTailProperties, AppendProperties
  <2> QED
    BY <1>1, <2>1, <2>2, <2>3 DEF Shifted
<1>2. CASE queue' = Append(Tail(queue), m)
  <2>1. Entries' = 1..Len(queue) /\ queue'[Len(queue)] = m /\ Shifted
    BY <1>2, PopPush
  <2>2. ASSUME NEW i \in Entries, i # 1
        PROVE  i - 1 \in Entries' /\ queue'[i - 1] = queue[i]
    <3>1. i - 1 \in 1..(Len(queue) - 1) /\ (i - 1) + 1 = i
      BY <2>1, <2>2 DEF Shifted
    <3> QED
      BY <2>1, <3>1 DEF Shifted
  <2> QED
    BY <2>1, <2>2 DEF Shifted
<1> QED
  BY <1>1, <1>2

\* What a delivered request does: at most one message takes its place, the
\* analysis of its run.
LEMMA RequestRound ==
    ASSUME RoundInv, DeliverRequest
    PROVE  Distinct' /\ Undisturbed' /\ Carried'
<1> DEFINE m == Head(queue)
           n == AnalysisOf(m.run, m.timed)
<1>1. queue # <<>> /\ m.kind = "request"
  BY DEF DeliverRequest, NextIs
<1>2. /\ queue \in Seq(Messages) /\ m \in Messages /\ m.run \in Nat /\ m.timed \in BOOLEAN
      /\ 1 \in Entries /\ m = queue[1]
  BY <1>1, NextMessage DEF RoundInv, Messages
<1>3. /\ n \in Messages /\ n.run = m.run /\ n.kind = "analysis" /\ n.timed = m.timed
      /\ Token(m) /\ Token(n) /\ Carrier(n)
  BY <1>1, <1>2, MessageTypes DEF Token, Carrier
<1>4. /\ UNCHANGED <<schedVars, analystUp, spreadRun, runnerVars, storeVars, plane>>
      /\ \/ /\ queue' = Tail(queue) /\ analysed' = analysed
            /\ unheard' = unheard \cup {m.run}
            /\ ~analystUp \/ m.run \in analysed
         \/ /\ queue' = Append(Tail(queue), n) /\ analysed' = analysed \cup {m.run}
            /\ unheard' = unheard
  BY DEF DeliverRequest, Drop
<1> HIDE DEF m, n
<1>5. UNCHANGED <<now, running, heard, inFlight, requested, occupying, resumed, runnerUp,
                  runnerTick, analystUp, schedulerFirst, stops>>
  BY <1>4 DEF schedVars, runnerVars, plane
<1>6. PassedOn(n)
  BY <1>1, <1>2, <1>3, <1>4, HandedOn DEF m
<1>7. Distinct'
  BY <1>5, <1>6 DEF PassedOn, RoundInv, Distinct
<1>8. ASSUME stops = 0
      PROVE  /\ queue' = Append(Tail(queue), n) /\ analysed' = analysed \cup {m.run}
             /\ m.timed = TRUE /\ unheard' = {}
  BY <1>1, <1>2, <1>4, <1>8 DEF RoundInv, Undisturbed
<1>9. Undisturbed'
  <2> SUFFICES ASSUME stops = 0
               PROVE  /\ unheard' = {} /\ analysed' \subseteq requested
                      /\ \A i \in Entries' : queue'[i].timed
                      /\ \A i \in Entries' : queue'[i].kind = "request" =>
                            queue'[i].run \notin analysed'
    BY <1>5 DEF RoundInv, Undisturbed
  <2>1. analysed' = analysed \cup {m.run} /\ m.timed = TRUE /\ unheard' = {}
    BY <1>8
  <2>2. m.run \in requested
    BY <1>2, <1>3 DEF RoundInv, Undisturbed, Distinct
  <2>3. ASSUME NEW i \in Entries', queue'[i].kind = "request"
        PROVE  queue'[i].run \notin analysed'
    <3>1. PICK j \in Entries : j # 1 /\ queue'[i] = queue[j]
      BY <1>3, <1>6, <2>3 DEF PassedOn
    <3>2. queue[j].run # m.run
      BY <1>2, <1>3, <2>3, <3>1 DEF RoundInv, Undisturbed, Distinct, OneEach,
                                            Token
    <3> QED
      BY <2>1, <2>3, <3>1, <3>2 DEF RoundInv, Undisturbed
  <2> QED
    BY <1>3, <1>6, <2>1, <2>2, <2>3 DEF PassedOn, RoundInv, Undisturbed
<1>10. Carried'
  <2> SUFFICES ASSUME inFlight # None, inFlight \notin unheard',
                      ~(occupying # None /\ occupying.run = inFlight)
               PROVE  \E i \in Entries' : Carrier(queue'[i]) /\ queue'[i].run = inFlight
    BY <1>5 DEF Carried
  <2>1. PICK i \in Entries : Carrier(queue[i]) /\ queue[i].run = inFlight
    BY <1>4 DEF RoundInv, Carried
  <2>2. /\ queue[i] = m \/ \E j \in Entries' : queue'[j] = queue[i]
        /\ queue' = Append(Tail(queue), n) => \E j \in Entries' : queue'[j] = n
    BY <1>1, <1>2, <1>3, <1>4, CarriedOn DEF m
  <2>3. queue[i] = m => queue' = Append(Tail(queue), n)
    BY <1>4, <2>1
  <2> QED
    BY <1>3, <2>1, <2>2, <2>3
<1> QED
  BY <1>7, <1>9, <1>10

\* An analysis: the runner takes its run, or passes on its refusal.
LEMMA AnalysisRound ==
    ASSUME RoundInv, DeliverAnalysis
    PROVE  Distinct' /\ Undisturbed' /\ Carried'
<1> DEFINE m == Head(queue)
           n == RunFailed(m.run)
<1>1. queue # <<>> /\ m.kind = "analysis"
  BY DEF DeliverAnalysis, NextIs
<1>2. /\ queue \in Seq(Messages) /\ m \in Messages /\ m.run \in Nat /\ m.timed \in BOOLEAN
      /\ 1 \in Entries /\ m = queue[1]
  BY <1>1, NextMessage DEF RoundInv, Messages
<1>3. /\ n \in Messages /\ n.run = m.run /\ n.kind = "failed" /\ n.timed = TRUE
      /\ Token(m) /\ Token(n) /\ Carrier(n)
  BY <1>1, <1>2, MessageTypes DEF Token, Carrier, RunFailed
<1>4. /\ UNCHANGED <<schedVars, analystVars, runnerUp, runnerTick, resumed, storeVars, plane>>
      /\ \/ /\ queue' = Tail(queue) /\ occupying' = occupying
            /\ unheard' = unheard \cup {m.run} /\ ~(runnerUp /\ m.timed)
         \/ /\ queue' = Append(Tail(queue), n) /\ occupying' = occupying
            /\ unheard' = unheard
         \/ /\ queue' = Tail(queue) /\ occupying = None /\ occupying' = Occupy(m.run)
            /\ unheard' = unheard
  BY DEF DeliverAnalysis, RunnerHandles, Drop
<1>5. UNCHANGED <<now, running, heard, inFlight, requested, resumed, runnerUp, runnerTick,
                  analystUp, analysed, schedulerFirst, stops>>
  BY <1>4 DEF schedVars, analystVars, plane
<1>6. PassedOn(n)
  BY <1>1, <1>2, <1>3, <1>4, HandedOn
<1>7. Occupy(m.run).run = m.run /\ Occupy(m.run) # None
  <2>1. Occupy(m.run) \in Occupations
    BY <1>2, SchedulerTypes, LoopAssumption
    DEF Occupy, Occupations, RoundInv, LoopInv, LoopTypeOK
  <2> QED
    BY <2>1, LoopAssumption DEF Occupy
<1> HIDE DEF m, n
<1>8. Distinct'
  <2> SUFFICES ASSUME schedulerFirst, running
               PROVE  /\ OneEach'
                      /\ \A i \in Entries' : Token(queue'[i]) =>
                            /\ queue'[i].run \in requested
                            /\ occupying' # None => queue'[i].run # occupying'.run
                      /\ occupying' # None => occupying'.run \in requested
    BY <1>5 DEF Distinct
  <2>1. OneEach' /\ \A i \in Entries' : Token(queue'[i]) => queue'[i].run \in requested
    BY <1>6 DEF PassedOn, RoundInv, Distinct
  <2>2. CASE occupying' = occupying \/ occupying' = None
    BY <1>6, <2>1, <2>2 DEF PassedOn, RoundInv, Distinct
  <2>3. CASE queue' = Tail(queue) /\ occupying' = Occupy(m.run)
    <3>1. m.run \in requested
      BY <1>2, <1>3 DEF RoundInv, Distinct
    <3>2. ASSUME NEW i \in Entries', Token(queue'[i])
          PROVE  queue'[i].run # m.run
      <4>1. PICK j \in Entries : j # 1 /\ queue'[i] = queue[j]
        <5>1. Entries' = 1..(Len(queue) - 1) /\ Shifted
          BY <1>1, <1>2, <2>3, Pop
        <5> QED
          BY <3>2, <5>1 DEF Shifted
      <4> QED
        BY <1>2, <1>3, <3>2, <4>1 DEF RoundInv, Distinct, OneEach
    <3> QED
      BY <1>7, <2>1, <2>3, <3>1, <3>2
  <2> QED
    BY <1>4, <2>2, <2>3
<1>9. Undisturbed'
  <2> SUFFICES ASSUME stops = 0
               PROVE  /\ unheard' = {} /\ \A i \in Entries' : queue'[i].timed
                      /\ \A i \in Entries' : queue'[i].kind = "request" =>
                            queue'[i].run \notin analysed
    BY <1>5 DEF RoundInv, Undisturbed
  <2>1. runnerUp /\ m.timed /\ unheard = {}
    BY <1>2 DEF RoundInv, Undisturbed
  <2> QED
    BY <1>3, <1>4, <1>6, <2>1 DEF PassedOn, RoundInv, Undisturbed
<1>10. Carried'
  <2> SUFFICES ASSUME inFlight # None, inFlight \notin unheard'
               PROVE  \/ occupying' # None /\ occupying'.run = inFlight
                      \/ \E i \in Entries' : Carrier(queue'[i]) /\ queue'[i].run = inFlight
    BY <1>5 DEF Carried
  <2>1. /\ \A i \in Entries : queue[i] = m \/ \E j \in Entries' : queue'[j] = queue[i]
        /\ queue' = Append(Tail(queue), n) => \E j \in Entries' : queue'[j] = n
    BY <1>1, <1>2, <1>3, <1>4, CarriedOn DEF m
  <2>2. \/ occupying # None /\ occupying.run = inFlight
        \/ \E i \in Entries : Carrier(queue[i]) /\ queue[i].run = inFlight
    BY <1>4 DEF RoundInv, Carried
  <2>3. CASE /\ queue' = Tail(queue) /\ occupying' = occupying
             /\ unheard' = unheard \cup {m.run}
    BY <2>1, <2>2, <2>3
  <2>4. CASE queue' = Append(Tail(queue), n) /\ occupying' = occupying
    BY <1>3, <2>1, <2>2, <2>4
  <2>5. CASE occupying = None /\ occupying' = Occupy(m.run)
    BY <1>7, <2>1, <2>2, <2>5
  <2> QED
    BY <1>4, <2>3, <2>4, <2>5
<1> QED
  BY <1>8, <1>9, <1>10

\* What the delivery of a publication, a refusal or a cost does: the scheduler
\* gives up the run it names, the analyst notes the spread of a publication.
NewsStep ==
    /\ queue # <<>> /\ queue' = Tail(queue)
    /\ Head(queue).kind \in {"published", "failed", "cost"}
    /\ UNCHANGED <<now, running, heard, requested, analystUp, analysed, runnerUp,
                   runnerTick, occupying, resumed, standing, forecast, schedulerFirst,
                   stops, unheard>>
    /\ inFlight' = IF running /\ Head(queue).kind # "cost" /\ inFlight = Head(queue).run
                   THEN None ELSE inFlight
    /\ spreadRun' = IF Head(queue).kind = "published" /\ analystUp
                    THEN Head(queue).run ELSE spreadRun
    /\ IF running /\ Head(queue).kind = "published"
       THEN /\ validityEnd' = Head(queue).run + Lifetime
            /\ lastRequest' = Sched!Later(Head(queue).run)
       ELSE UNCHANGED <<validityEnd, lastRequest>>

\* A publication, a refusal and a cost are heard in the same way.
LEMMA NewsIs ==
    ASSUME DeliverPublished \/ DeliverFailed \/ DeliverCost
    PROVE  NewsStep
<1>1. CASE DeliverPublished
  <2>1. CASE running
    BY <1>1, <2>1
    DEF DeliverPublished, NextIs, NewsStep, Sched!HearRunPublished, runnerVars,
        storeVars, plane, history
  <2>2. CASE ~running
    BY <1>1, <2>2
    DEF DeliverPublished, NextIs, NewsStep, schedVars, runnerVars, storeVars, plane,
        history
  <2> QED
    BY <2>1, <2>2
<1>2. CASE DeliverFailed
  <2>1. CASE running
    BY <1>2, <2>1
    DEF DeliverFailed, NextIs, NewsStep, Sched!HearRunFailed, analystVars, runnerVars,
        storeVars, plane, history
  <2>2. CASE ~running
    BY <1>2, <2>2
    DEF DeliverFailed, NextIs, NewsStep, schedVars, analystVars, runnerVars, storeVars,
        plane, history
  <2> QED
    BY <2>1, <2>2
<1>3. CASE DeliverCost
  BY <1>3
  DEF DeliverCost, NextIs, NewsStep, Sched!HearRunCost, schedVars, analystVars,
      runnerVars, storeVars, plane, history
<1> QED
  BY <1>1, <1>2, <1>3

\* What the scheduler gives up is what the message named.
LEMMA NewsRound ==
    ASSUME RoundInv, DeliverPublished \/ DeliverFailed \/ DeliverCost
    PROVE  Distinct' /\ Undisturbed' /\ Carried'
<1> DEFINE m == Head(queue)
<1>1. NewsStep
  BY NewsIs
<1>2. /\ queue \in Seq(Messages) /\ queue # <<>> /\ m \in Messages
      /\ 1 \in Entries /\ m = queue[1] /\ InDate(now, m)
  BY <1>1, NextMessage DEF RoundInv, NewsStep
<1>3. \A i \in Entries' : \E j \in Entries : j # 1 /\ queue'[i] = queue[j]
  <2>1. Entries' = 1..(Len(queue) - 1) /\ Shifted
    BY <1>1, <1>2, Pop DEF NewsStep
  <2> QED
    BY <2>1 DEF Shifted
<1>4. PassedOn(CostStated)
  BY <1>1, <1>2, HandedOn, MessageTypes DEF NewsStep
<1>5. Distinct'
  BY <1>1, <1>3, <1>4 DEF PassedOn, NewsStep, RoundInv, Distinct
<1>6. Undisturbed'
  BY <1>1, <1>3 DEF NewsStep, RoundInv, Undisturbed
<1>7. Carried'
  <2> SUFFICES ASSUME inFlight # None, inFlight' = inFlight, inFlight \notin unheard,
                      ~(occupying # None /\ occupying.run = inFlight)
               PROVE  \E i \in Entries' : Carrier(queue'[i]) /\ queue'[i].run = inFlight
    BY <1>1 DEF NewsStep, Carried
  <2>1. PICK i \in Entries : Carrier(queue[i]) /\ queue[i].run = inFlight
    BY DEF RoundInv, Carried
  <2>2. queue[i] = m \/ \E j \in Entries' : queue'[j] = queue[i]
    BY <1>1, <1>2, CarriedOn, MessageTypes DEF NewsStep
  <2>3. running
    BY SchedulerTypes DEF RoundInv, LoopInv, Dated
  <2>4. queue[i] # m
    BY <1>1, <2>1, <2>3 DEF NewsStep, Carrier
  <2> QED
    BY <2>1, <2>2, <2>4
<1> QED
  BY <1>5, <1>6, <1>7

\* A sample: the only message on its way to a forecast is the request of this
\* tick, which nobody has analysed.
LEMMA SampleRound ==
    ASSUME RoundInv, NEW t, Sampled(t)
    PROVE  Distinct' /\ Undisturbed' /\ Carried'
<1> DEFINE req == RequestFor(t, TRUE)
<1>1. t \in Nat /\ SampleQueue(t) /\ RunnerStep(t) /\ now' = t
  BY SampleSays, SampleRuns DEF RoundInv, Sampled
<1>2. /\ req.kind = "request" /\ req.run = t /\ req.timed = TRUE
      /\ Carrier(req)
      /\ CostStated.kind = "cost" /\ CostStated.timed = TRUE
      /\ \A r : /\ Published(r).kind = "published" /\ Published(r).timed = TRUE
                /\ Published(r).run = r /\ Carrier(Published(r))
  BY DEF RequestFor, CostStated, Published, Carrier
<1>3. /\ \A i \in Entries' :
            \/ AsksFor(t) /\ queue'[i] = req
            \/ queue'[i].timed /\ ~Token(queue'[i])
      /\ \A i, j \in Entries' : queue'[i] = req /\ queue'[j] = req => i = j
  <2>1. /\ \A i \in Entries' :
              \/ AsksFor(t) /\ queue'[i] = req
              \/ queue'[i] = CostStated \/ queue'[i] = Published(standing)
              \/ queue'[i] = Published(occupying.run)
        /\ \A i, j \in Entries' : queue'[i] = req /\ queue'[j] = req => i = j
    BY <1>1 DEF SampleQueue
  <2> HIDE DEF req
  <2> QED
    BY <1>2, <2>1 DEF Token
<1> HIDE DEF req
<1>4. requested \subseteq requested' /\ (AsksFor(t) => t \in requested' /\ t \notin requested)
  BY DEF Sampled, AsksFor, AsksNothing
<1>5. UNCHANGED <<runnerUp, analystUp, analysed, schedulerFirst, stops, running>>
  BY <1>1 DEF RunnerStep, Sampled
<1>6. occupying' = occupying \/ occupying' = None
  BY <1>1 DEF RunnerStep
<1>10. unheard' \subseteq unheard /\ (AsksNothing => unheard' = unheard)
  BY <1>1, Remembered DEF RoundInv, Sampled, Sample
<1>7. Distinct'
  <2> SUFFICES ASSUME schedulerFirst, running
               PROVE  /\ OneEach'
                      /\ \A i \in Entries' : Token(queue'[i]) =>
                            /\ queue'[i].run \in requested'
                            /\ occupying' # None => queue'[i].run # occupying'.run
                      /\ occupying' # None => occupying'.run \in requested'
    BY <1>5 DEF Distinct
  <2>1. OneEach'
    BY <1>3 DEF OneEach
  <2>2. occupying' # None => occupying'.run \in requested /\ occupying'.run \in requested'
    BY <1>4, <1>6 DEF RoundInv, Distinct
  <2> QED
    BY <1>2, <1>3, <1>4, <2>1, <2>2
<1>8. Undisturbed'
  <2> SUFFICES ASSUME stops = 0
               PROVE  /\ heard' /\ resumed' /\ runnerTick' = t
                      /\ unheard' = {} /\ analysed \subseteq requested'
                      /\ \A i \in Entries' : queue'[i].timed
                      /\ \A i \in Entries' : queue'[i].kind = "request" =>
                            queue'[i].run \notin analysed
    BY <1>1, <1>5 DEF RoundInv, Undisturbed
  <2>1. runnerUp /\ running /\ unheard = {} /\ analysed \subseteq requested
    BY DEF RoundInv, Undisturbed
  <2>2. heard' /\ resumed' /\ runnerTick' = t /\ unheard' = {}
    BY <1>1, <1>10, <2>1 DEF RunnerStep, Sampled
  <2>3. \A i \in Entries' : queue'[i].timed
    BY <1>2, <1>3
  <2>4. \A i \in Entries' : queue'[i].kind = "request" => AsksFor(t) /\ queue'[i] = req
    BY <1>3 DEF Token
  <2>5. \A i \in Entries' : queue'[i].kind = "request" => queue'[i].run \notin analysed
    BY <1>2, <1>4, <2>1, <2>4
  <2> QED
    BY <1>4, <2>1, <2>2, <2>3, <2>5
<1>9. Carried'
  <2> SUFFICES ASSUME inFlight' # None, inFlight' \notin unheard'
               PROVE  \/ occupying' # None /\ occupying'.run = inFlight'
                      \/ \E i \in Entries' : Carrier(queue'[i]) /\ queue'[i].run = inFlight'
    BY <1>5 DEF Carried
  <2>1. CASE AsksFor(t)
    <3>1. inFlight' = t /\ \E i \in Entries' : queue'[i] = req
      BY <1>1, <2>1 DEF SampleQueue, AsksFor, req
    <3> QED
      BY <1>2, <3>1
  <2>2. CASE AsksNothing /\ inFlight' = inFlight
    <3>1. Entries = {}
      BY <1>1 DEF SampleQueue, Entries
    <3>2. occupying # None /\ occupying.run = inFlight
      BY <1>10, <2>2, <3>1 DEF RoundInv, Carried
    <3>3. CASE Spent(t)
      <4>1. runnerUp
        BY <3>2 DEF RoundInv, LoopInv, Dated
      <4>2. \E i \in Entries' : queue'[i] = Published(occupying.run)
        BY <1>1, <3>3, <4>1 DEF SampleQueue
      <4> QED
        BY <1>2, <2>2, <3>2, <4>2
    <3>4. CASE ~Spent(t)
      BY <1>1, <2>2, <3>2, <3>4 DEF RunnerStep
    <3> QED
      BY <3>3, <3>4
  <2> QED
    BY <2>1, <2>2 DEF Sampled
<1> QED
  BY <1>7, <1>8, <1>9

\* A prompt or a divergence asks for a run of this tick nobody asked for.
LEMMA AskRound ==
    ASSUME RoundInv, Prompt \/ Divergence
    PROVE  Distinct' /\ Undisturbed' /\ Carried'
<1> DEFINE req == RequestFor(tick, heard)
<1>1. AskStep
  BY AskIs DEF RoundInv
<1>2. UNCHANGED <<now, running, heard, occupying, resumed, runnerUp, runnerTick, analystUp,
                  analysed, schedulerFirst, stops>>
  BY <1>1 DEF AskStep, analystVars, runnerVars, plane
<1>5. unheard' \subseteq unheard /\ (AsksNothing => unheard' = unheard)
  BY <1>1, Remembered DEF RoundInv, AskStep
<1>3. CASE AsksNothing /\ inFlight' = inFlight /\ queue' = queue
  BY <1>2, <1>3, <1>5
  DEF AsksNothing, RoundInv, Distinct, OneEach, Undisturbed, Carried, Entries
<1>4. CASE /\ AsksFor(tick) /\ inFlight = None
           /\ queue' = queue \o <<req>> /\ req \in Messages
  <2>1. req.kind = "request" /\ req.run = tick /\ req.timed = heard /\ Carrier(req)
    BY DEF RequestFor, Carrier
  <2> HIDE DEF req
  <2>2. /\ Len(queue) \in Nat /\ Entries = 1..Len(queue)
        /\ Entries' = 1..(Len(queue) + 1) /\ queue'[Len(queue) + 1] = req
        /\ \A i \in Entries : queue'[i] = queue[i]
    BY <1>4, Push DEF RoundInv, LoopInv, LoopTypeOK
  <2>3. /\ \A i \in Entries' : \/ i \in Entries /\ queue'[i] = queue[i]
                               \/ i = Len(queue) + 1 /\ queue'[i] = req
        /\ \E i \in Entries' : queue'[i] = req
    BY <2>2
  <2>4. /\ tick \notin requested /\ requested' = requested \cup {tick} /\ inFlight' = tick
    BY <1>4 DEF AsksFor
  <2>5. Distinct'
    <3> SUFFICES ASSUME schedulerFirst, running
                 PROVE  /\ OneEach'
                        /\ \A i \in Entries' : Token(queue'[i]) =>
                              /\ queue'[i].run \in requested'
                              /\ occupying # None => queue'[i].run # occupying.run
                        /\ occupying # None => occupying.run \in requested'
      BY <1>2 DEF Distinct
    <3>1. /\ OneEach /\ \A i \in Entries : Token(queue[i]) =>
                              /\ queue[i].run \in requested
                              /\ occupying # None => queue[i].run # occupying.run
          /\ occupying # None => occupying.run \in requested
      BY DEF RoundInv, Distinct
    <3>2. OneEach'
      <4> SUFFICES ASSUME NEW i \in Entries', NEW j \in Entries', Token(queue'[i]),
                          Token(queue'[j]), i # j
                   PROVE  queue'[i].run # queue'[j].run
        BY DEF OneEach
      <4>1. CASE /\ i \in Entries /\ queue'[i] = queue[i]
                 /\ j \in Entries /\ queue'[j] = queue[j]
        BY <3>1, <4>1 DEF OneEach
      <4>2. CASE i \in Entries /\ queue'[i] = queue[i] /\ queue'[j] = req
        BY <2>1, <2>4, <3>1, <4>2
      <4>3. CASE j \in Entries /\ queue'[j] = queue[j] /\ queue'[i] = req
        BY <2>1, <2>4, <3>1, <4>3
      <4> QED
        BY <2>3, <4>1, <4>2, <4>3
    <3> QED
      BY <2>1, <2>3, <2>4, <3>1, <3>2
  <2>6. Undisturbed'
    BY <1>2, <1>5, <2>1, <2>3, <2>4 DEF RoundInv, Undisturbed
  <2>7. Carried'
    BY <2>1, <2>3, <2>4 DEF Carried
  <2> QED
    BY <2>5, <2>6, <2>7
<1> QED
  BY <1>1, <1>3, <1>4 DEF AskStep

\* A component is started only after one was stopped.
LEMMA ControlCounts ==
    ASSUME RoundInv, Control
    PROVE  stops' # 0
<1>1. stops \in Nat
  BY DEF RoundInv, LoopInv, LoopTypeOK
<1>2. CASE StopScheduler \/ StopAnalyst \/ StopRunner
  BY <1>1, <1>2 DEF StopScheduler, StopAnalyst, StopRunner, MayStop
<1>3. CASE StartScheduler \/ StartAnalyst \/ StartRunner
  BY <1>3 DEF StartScheduler, StartAnalyst, StartRunner, Sched!Start, plane, RoundInv,
              Undisturbed
<1> QED
  BY <1>2, <1>3 DEF Control

\* The first stop verb ends what is promised of an undisturbed loop.
LEMMA ControlRound ==
    ASSUME RoundInv, Control
    PROVE  Distinct' /\ Undisturbed' /\ Carried'
<1>1. queue = <<>> /\ Entries = {} /\ stops \in Nat
  BY DEF Control, StopScheduler, StartScheduler, StopAnalyst, StartAnalyst, StopRunner,
         StartRunner, MayStop, Drained, Entries, RoundInv, LoopInv, LoopTypeOK
<1>2. stops' # 0
  BY ControlCounts
<1>3. Undisturbed'
  BY <1>2 DEF Undisturbed
<1>8. unheard' = unheard
  BY DEF Control, StopScheduler, StartScheduler, StopAnalyst, StartAnalyst, StopRunner,
         StartRunner, history
<1>9. inFlight # None =>
         (occupying # None /\ occupying.run = inFlight) \/ inFlight \in unheard
  BY <1>1 DEF RoundInv, Carried
<1>4. CASE StopScheduler \/ StartScheduler
  <2>1. running' = FALSE \/ schedulerFirst' = FALSE
    BY <1>4 DEF StopScheduler, StartScheduler, Sched!Stop
  <2>2. inFlight' = None
    BY <1>4 DEF StopScheduler, StartScheduler, Sched!Stop, Sched!Start, Sched!Blank
  <2> QED
    BY <1>3, <2>1, <2>2 DEF Distinct, Carried
<1>5. CASE StopAnalyst \/ StartAnalyst
  BY <1>1, <1>3, <1>5, <1>8, <1>9
  DEF StopAnalyst, StartAnalyst, schedVars, runnerVars, plane, Entries, RoundInv,
      Distinct, OneEach, Carried
<1>6. CASE StartRunner
  <2>1. occupying = None /\ occupying' = None /\ Entries' = {} /\ inFlight' = inFlight
    BY <1>1, <1>6 DEF StartRunner, Entries, RoundInv, LoopInv, Dated, schedVars
  <2> QED
    BY <1>3, <1>8, <1>9, <2>1 DEF Distinct, OneEach, Carried
<1>7. CASE StopRunner
  <2>1. /\ UNCHANGED schedVars /\ schedulerFirst' = schedulerFirst /\ occupying' = None
        /\ inFlight' = inFlight
    BY <1>7 DEF StopRunner, schedVars
  <2>2. CASE occupying = None
    <3>1. Entries' = {}
      BY <1>7, <2>2 DEF StopRunner, Entries
    <3> QED
      BY <1>3, <1>8, <1>9, <2>1, <2>2, <3>1 DEF Distinct, OneEach, Carried
  <2>3. CASE occupying # None
    <3> DEFINE m == RunFailed(occupying.run)
    <3>1. m \in Messages /\ m.run = occupying.run /\ Carrier(m)
      BY <2>3, MessageTypes DEF RoundInv, LoopInv, LoopTypeOK, Occupations, Carrier
    <3>2. queue' = <<m>>
      BY <1>7, <2>3 DEF StopRunner
    <3> HIDE DEF m
    <3>3. Entries' = {1} /\ queue'[1] = m
      BY <3>1, <3>2, OneMessage DEF Entries
    <3>4. Carried'
      BY <1>8, <1>9, <2>1, <3>1, <3>3 DEF Carried
    <3> QED
      BY <1>3, <2>1, <2>3, <3>1, <3>3, <3>4
      DEF schedVars, RoundInv, Distinct, OneEach
  <2> QED
    BY <2>2, <2>3
<1> QED
  BY <1>3, <1>4, <1>5, <1>6, <1>7 DEF Control

\* Every step keeps the way round the loop.
LEMMA RoundStep ==
    ASSUME RoundInv, [Next]_vars
    PROVE  RoundInv'
<1>1. LoopInv'
  BY StepKeeps DEF RoundInv
<1>2. Distinct' /\ Undisturbed' /\ Carried'
  <2>1. CASE DeliverRequest
    BY <2>1, RequestRound
  <2>2. CASE DeliverAnalysis
    BY <2>2, AnalysisRound
  <2>3. CASE DeliverPublished \/ DeliverFailed \/ DeliverCost
    BY <2>3, NewsRound
  <2>4. CASE Tick \/ Repeat
    BY <2>4, SampleIs, SampleRound DEF RoundInv
  <2>5. CASE Prompt \/ Divergence
    BY <2>5, AskRound
  <2>6. CASE Control
    BY <2>6, ControlRound
  <2>7. CASE UNCHANGED vars
    BY <2>7
    DEF vars, schedVars, analystVars, runnerVars, storeVars, plane, history, RoundInv,
        Distinct, OneEach, Undisturbed, Carried, Entries
  <2> QED
    BY <2>1, <2>2, <2>3, <2>4, <2>5, <2>6, <2>7 DEF Next, Deliver
<1> QED
  BY <1>1, <1>2 DEF RoundInv

\* Nothing is under way at the first tick.
LEMMA RoundInit == Init => RoundInv
<1> SUFFICES ASSUME Init PROVE RoundInv
  OBVIOUS
<1>1. Entries = {1} /\ queue[1] = CostStated
  BY DEF Init, Entries
<1>2. CostStated.kind = "cost" /\ CostStated.timed = TRUE
  BY DEF CostStated
<1>3. /\ running = TRUE /\ heard = TRUE /\ requested = {} /\ inFlight = None /\ now = 0
  BY DEF Init, Sched!Init
<1>4. Distinct /\ Undisturbed /\ Carried
  BY <1>1, <1>2, <1>3 DEF Init, Distinct, OneEach, Undisturbed, Carried, Token
<1> QED
  BY <1>4, InitHolds DEF RoundInv

\* No two messages on their way to a forecast are of one run while the scheduler
\* hears a sample first, and a run that is waited for is lost only where a request
\* or an analysis is dropped (scheduler.ts:189).
THEOREM RoundInvariance == Spec => []RoundInv
<1>1. RoundInv /\ [Next]_vars => RoundInv'
  BY RoundStep
<1> QED
  BY <1>1, RoundInit, PTL DEF Spec

\* No run the scheduler waits for is lost or crossed on the way round the loop but
\* where a party was away or could not use its message, whatever is stopped and
\* started and whatever the cost and the margin (scheduler.ts:189, analyst.ts:242,
\* runner.ts:377-430).
THEOREM OutstandingOccupies == Spec => []OutstandingIsAccountedFor
<1>1. RoundInv => OutstandingIsAccountedFor
  BY DEF RoundInv, Carried, OutstandingIsAccountedFor, Drained, Entries
<1> QED
  BY <1>1, RoundInvariance, PTL

-----------------------------------------------------------------------------
(* A run that was forecast is not run again after one restart.             *)

\* A runner that was never stopped dates a release by the clock, so that the run
\* of a tick is never released within it: an analysis that names its instant
\* names a tick not yet forecast.
RunnerKept ==
    /\ runnerUp /\ runnerTick = now /\ now \notin forecast
    /\ occupying # None => /\ occupying.publishAt >= occupying.run + Cost
                           /\ occupying.run \notin forecast

\* A scheduler that was never stopped asks for no run twice: what is on its way
\* to a forecast is not among those it asked for and had made.
SchedulerKept ==
    /\ schedulerFirst /\ running /\ forecast \subseteq requested
    /\ \A i \in Entries : Token(queue[i]) => queue[i].run \notin forecast
    /\ occupying # None => occupying.run \notin forecast

\* Either of the two is enough.
Single ==
    /\ stops = 0 => RunnerKept /\ SchedulerKept
    /\ stops <= 1 => RunnerKept \/ SchedulerKept

\* Only the runner's own stop ends what it knows.
LEMMA RunnerStaysKept ==
    ASSUME RoundInv, RunnerKept, [Next]_vars, ~StopRunner
    PROVE  RunnerKept'
<1>1. CASE DeliverRequest \/ DeliverPublished \/ DeliverFailed \/ DeliverCost
  <2>1. UNCHANGED <<now, runnerUp, runnerTick, forecast, occupying>>
    BY <1>1, NewsIs DEF DeliverRequest, NewsStep, schedVars, runnerVars, storeVars
  <2> QED
    BY <2>1 DEF RunnerKept
<1>2. CASE DeliverAnalysis
  <2> DEFINE m == Head(queue)
  <2>1. queue # <<>> /\ m.kind = "analysis"
    BY <1>2 DEF DeliverAnalysis, NextIs
  <2>2. InDate(now, m)
    BY <2>1, NextMessage DEF RoundInv
  <2>3. UNCHANGED <<now, runnerUp, runnerTick, forecast>>
    BY <1>2 DEF DeliverAnalysis, schedVars, storeVars
  <2>4. occupying' = occupying \/ (m.timed /\ occupying' = Occupy(m.run))
    BY <1>2 DEF DeliverAnalysis, RunnerHandles, RunnerKept
  <2>5. m.timed => m.run = now
    BY <2>1, <2>2 DEF InDate, Timed
  <2>6. Occupy(m.run).run = m.run /\ Occupy(m.run).publishAt = runnerTick + Cost
    BY DEF Occupy
  <2> HIDE DEF m
  <2>7. now + Cost >= now + Cost
    BY SchedulerTypes, LoopAssumption DEF RoundInv, LoopInv
  <2> QED
    BY <2>3, <2>4, <2>5, <2>6, <2>7 DEF RunnerKept
<1>3. CASE Tick \/ Repeat
  <2>1. PICK t \in {now, now + 1} : Sampled(t)
    BY <1>3, SampleIs DEF RoundInv
  <2>2. /\ now \in Nat /\ t \in Nat /\ now' = t /\ RunnerStep(t)
    BY <2>1, SampleSays, SampleRuns, SchedulerTypes DEF RoundInv, LoopInv, Sampled
  <2>3. t \notin forecast
    <3>1. forecast \subseteq 0..now
      BY DEF RoundInv, LoopInv, Dated
    <3> QED
      BY <2>1, <2>2, <3>1 DEF RunnerKept
  <2>4. CASE Spent(t)
    <3>1. occupying.run # t
      <4>1. occupying # None /\ t >= occupying.publishAt
        BY <2>4 DEF Spent
      <4>2. /\ occupying.publishAt >= occupying.run + Cost
            /\ occupying.run \in Nat /\ occupying.publishAt \in Nat
        BY <4>1 DEF RunnerKept, RoundInv, LoopInv, LoopTypeOK, Occupations
      <4> QED
        BY <2>2, <4>1, <4>2, LoopAssumption
    <3> QED
      BY <2>2, <2>3, <2>4, <3>1 DEF RunnerStep, RunnerKept
  <2>5. CASE ~Spent(t)
    BY <2>2, <2>3, <2>5 DEF RunnerStep, RunnerKept
  <2> QED
    BY <2>4, <2>5
<1>4. CASE Prompt \/ Divergence
  <2>1. AskStep
    BY <1>4, AskIs DEF RoundInv
  <2> QED
    BY <2>1 DEF AskStep, runnerVars, storeVars, RunnerKept
<1>5. CASE Control
  <2>1. ~StartRunner
    BY DEF StartRunner, RunnerKept
  <2>2. UNCHANGED <<now, runnerVars, storeVars>>
    BY <1>5, <2>1 DEF Control, StopScheduler, StartScheduler, StopAnalyst, StartAnalyst,
                      Sched!Stop, Sched!Start, schedVars
  <2> QED
    BY <2>2 DEF runnerVars, storeVars, RunnerKept
<1>6. CASE UNCHANGED vars
  BY <1>6 DEF vars, schedVars, runnerVars, storeVars, RunnerKept
<1> QED
  BY <1>1, <1>2, <1>3, <1>4, <1>5, <1>6 DEF Next, Deliver

\* What a delivery leaves on the way to a forecast was on its way before.
TokensFrom ==
    /\ UNCHANGED <<running, requested, forecast, schedulerFirst>>
    /\ \A i \in Entries' : Token(queue'[i]) =>
          \E j \in Entries : Token(queue[j]) /\ queue[j].run = queue'[i].run
    /\ \/ occupying' = occupying
       \/ occupying' = None
       \/ \E i \in Entries : Token(queue[i]) /\ occupying'.run = queue[i].run

\* The runs on their way after a request is answered were on their way before.
LEMMA RequestTokens ==
    ASSUME RoundInv, DeliverRequest
    PROVE  TokensFrom
<1> DEFINE m == Head(queue)
           n == AnalysisOf(m.run, m.timed)
<1>1. queue # <<>> /\ m.kind = "request"
  BY DEF DeliverRequest, NextIs
<1>2. queue \in Seq(Messages) /\ m \in Messages /\ m.run \in Nat /\ m.timed \in BOOLEAN
  BY <1>1, NextMessage DEF RoundInv, Messages
<1>3. n \in Messages /\ n.run = m.run /\ Token(m)
  BY <1>1, <1>2, MessageTypes DEF Token
<1>4. /\ UNCHANGED <<running, requested, forecast, schedulerFirst, occupying>>
      /\ queue' = Tail(queue) \/ queue' = Append(Tail(queue), n)
  BY DEF DeliverRequest, schedVars, runnerVars, storeVars, plane
<1> HIDE DEF n
<1>5. PassedOn(n)
  BY <1>1, <1>2, <1>3, <1>4, HandedOn
<1> QED
  BY <1>4, <1>5 DEF PassedOn, TokensFrom

\* So they were when the runner takes an analysis up, refuses it or drops it.
LEMMA AnalysisTokens ==
    ASSUME RoundInv, DeliverAnalysis
    PROVE  TokensFrom
<1> DEFINE m == Head(queue)
           n == RunFailed(m.run)
<1>1. queue # <<>> /\ m.kind = "analysis"
  BY DEF DeliverAnalysis, NextIs
<1>2. /\ queue \in Seq(Messages) /\ m \in Messages /\ m.run \in Nat
      /\ 1 \in Entries /\ m = queue[1]
  BY <1>1, NextMessage DEF RoundInv
<1>3. n \in Messages /\ n.run = m.run /\ Token(m) /\ Occupy(m.run).run = m.run
  BY <1>1, <1>2, MessageTypes DEF Token, Occupy
<1>4. /\ UNCHANGED <<running, requested, forecast, schedulerFirst>>
      /\ queue' = Tail(queue) \/ queue' = Append(Tail(queue), n)
      /\ occupying' = occupying \/ occupying' = Occupy(m.run)
  BY DEF DeliverAnalysis, RunnerHandles, schedVars, storeVars, plane
<1> HIDE DEF n
<1>5. PassedOn(n)
  BY <1>1, <1>2, <1>3, <1>4, HandedOn
<1> QED
  BY <1>2, <1>3, <1>4, <1>5 DEF PassedOn, TokensFrom

\* And when what is delivered is news to whoever hears it.
LEMMA NewsTokens ==
    ASSUME RoundInv, DeliverPublished \/ DeliverFailed \/ DeliverCost
    PROVE  TokensFrom
<1>1. NewsStep
  BY NewsIs
<1>2. PassedOn(CostStated)
  <2>1. queue \in Seq(Messages)
    BY DEF RoundInv, LoopInv, LoopTypeOK
  <2> QED
    BY <1>1, <2>1, HandedOn, MessageTypes DEF NewsStep
<1> QED
  BY <1>1, <1>2 DEF NewsStep, PassedOn, TokensFrom

\* Only the scheduler's own stop ends what it remembers.
LEMMA SchedulerStaysKept ==
    ASSUME RoundInv, SchedulerKept, [Next]_vars, ~StopScheduler
    PROVE  SchedulerKept'
<1>1. CASE Deliver
  <2>1. TokensFrom
    BY <1>1, RequestTokens, AnalysisTokens, NewsTokens DEF Deliver
  <2> QED
    BY <2>1 DEF TokensFrom, SchedulerKept
<1>2. CASE Tick \/ Repeat
  <2>1. PICK t \in {now, now + 1} : Sampled(t)
    BY <1>2, SampleIs DEF RoundInv
  <2>2. SampleQueue(t) /\ RunnerStep(t) /\ running' = running
    BY <2>1, SampleSays, SampleRuns DEF RoundInv, Sampled
  <2>3. occupying # None => occupying.run \in requested
    BY DEF SchedulerKept, RoundInv, Distinct
  <2>4. /\ requested \subseteq requested' /\ (AsksFor(t) => t \notin requested)
    BY <2>1 DEF Sampled, AsksFor, AsksNothing
  <2>5. forecast' \subseteq requested
    BY <2>2, <2>3 DEF RunnerStep, SchedulerKept
  <2>6. ASSUME NEW i \in Entries', Token(queue'[i])
        PROVE  AsksFor(t) /\ queue'[i].run = t
    <3>1. /\ CostStated.kind = "cost" /\ RequestFor(t, TRUE).run = t
          /\ \A q : Published(q).kind = "published"
      BY DEF CostStated, RequestFor, Published
    <3> QED
      BY <2>2, <2>6, <3>1 DEF SampleQueue, Token
  <2>7. schedulerFirst' = schedulerFirst
    BY <2>2 DEF RunnerStep
  <2>8. occupying' # None => occupying'.run \notin forecast'
    BY <2>2 DEF RunnerStep, SchedulerKept
  <2> QED
    BY <2>2, <2>4, <2>5, <2>6, <2>7, <2>8 DEF SchedulerKept
<1>3. CASE Prompt \/ Divergence
  <2>1. AskStep
    BY <1>3, AskIs DEF RoundInv
  <2>2. UNCHANGED <<running, forecast, occupying, schedulerFirst>>
    BY <2>1 DEF AskStep, runnerVars, storeVars, plane
  <2>3. CASE AsksNothing /\ queue' = queue
    BY <2>2, <2>3 DEF AsksNothing, SchedulerKept, Entries
  <2>4. CASE /\ AsksFor(tick) /\ queue' = queue \o <<RequestFor(tick, heard)>>
             /\ RequestFor(tick, heard) \in Messages
    <3> DEFINE req == RequestFor(tick, heard)
    <3>1. req.run = tick /\ req \in Messages /\ queue' = queue \o <<req>>
      BY <2>4 DEF RequestFor
    <3> HIDE DEF req
    <3>2. \A i \in Entries' : \/ i \in Entries /\ queue'[i] = queue[i]
                              \/ queue'[i] = req
      <4>1. /\ Len(queue) \in Nat /\ Entries = 1..Len(queue)
            /\ Entries' = 1..(Len(queue) + 1) /\ queue'[Len(queue) + 1] = req
            /\ \A i \in Entries : queue'[i] = queue[i]
        BY <3>1, Push DEF RoundInv, LoopInv, LoopTypeOK
      <4> QED
        BY <4>1
    <3>3. tick \notin requested /\ requested' = requested \cup {tick}
      BY <2>4 DEF AsksFor
    <3> QED
      BY <2>2, <3>1, <3>2, <3>3 DEF SchedulerKept
  <2> QED
    BY <2>1, <2>3, <2>4 DEF AskStep
<1>4. CASE Control
  <2>1. ~StartScheduler
    BY DEF StartScheduler, Sched!Start, SchedulerKept
  <2>2. /\ UNCHANGED <<running, requested, forecast>>
        /\ schedulerFirst' \in {schedulerFirst, TRUE}
        /\ occupying' \in {occupying, None}
    BY <1>4, <2>1 DEF Control, StopAnalyst, StartAnalyst, StopRunner, StartRunner,
                      schedVars, runnerVars, storeVars, plane
  <2>3. ASSUME NEW i \in Entries' PROVE queue'[i].run \notin forecast
    <3>1. \/ queue' = <<>>
          \/ queue' = <<RunFailed(occupying.run)>> /\ occupying # None
      BY <1>4, <2>1 DEF Control, StopAnalyst, StartAnalyst, StopRunner, StartRunner,
                        MayStop, Drained
    <3>2. queue' = <<RunFailed(occupying.run)>> /\ occupying # None
      BY <2>3, <3>1 DEF Entries
    <3>3. queue'[i] = RunFailed(occupying.run)
      BY <2>3, <3>2 DEF Entries
    <3> QED
      BY <3>2, <3>3 DEF RunFailed, SchedulerKept
  <2> QED
    BY <2>2, <2>3 DEF SchedulerKept
<1>5. CASE UNCHANGED vars
  BY <1>5 DEF vars, schedVars, runnerVars, storeVars, plane, SchedulerKept, Entries
<1> QED
  BY <1>1, <1>2, <1>3, <1>4, <1>5 DEF Next

\* One stop ends what one of the two knows; a start follows a stop.
LEMMA SingleStep ==
    ASSUME RoundInv, Single, [Next]_vars
    PROVE  Single'
<1>1. stops \in Nat
  BY DEF RoundInv, LoopInv, LoopTypeOK
<1>2. RunnerKept /\ ~StopRunner => RunnerKept'
  BY RunnerStaysKept
<1>3. SchedulerKept /\ ~StopScheduler => SchedulerKept'
  BY SchedulerStaysKept
<1>4. CASE StopScheduler \/ StopAnalyst \/ StopRunner
  <2>1. stops' = stops + 1
    BY <1>4 DEF StopScheduler, StopAnalyst, StopRunner, MayStop
  <2>2. ~(StopScheduler /\ StopRunner)
    BY DEF StopScheduler, StopRunner, Sched!Stop, runnerVars
  <2>3. stops' # 0 /\ (stops' <= 1 => stops = 0)
    BY <1>1, <2>1
  <2> QED
    BY <1>2, <1>3, <2>2, <2>3 DEF Single
<1>5. CASE ~(StopScheduler \/ StopAnalyst \/ StopRunner)
  <2>1. stops' = stops
    <3>1. CASE Tick \/ Repeat
      BY <3>1, SampleIs, SampleRuns DEF RunnerStep, RoundInv
    <3> QED
      BY <1>5, <3>1
      DEF Next, Deliver, DeliverRequest, DeliverAnalysis, DeliverPublished,
          DeliverFailed, DeliverCost, Prompt, Divergence, Control, StartScheduler,
          StartAnalyst, StartRunner, vars, plane
  <2> QED
    BY <1>2, <1>3, <1>5, <2>1 DEF Single
<1> QED
  BY <1>4, <1>5

\* A forecast that another has replaced is never made and published again, and
\* the one that stands only when two components were stopped: what the loop has
\* run it does not run again after one restart, whichever component's and wherever
\* it falls (scheduler.ts:402, 612, runner.ts:395-431, 607-655).
THEOREM ReplacedRunsNeverReturn == Spec => ReplacedNeverReturns
<1> DEFINE Fine == Publishes => \/ occupying.run \notin forecast
                                \/ occupying.run = standing /\ stops > 1
<1>1. Init => RoundInv /\ Single
  <2> SUFFICES ASSUME Init PROVE Single
    BY RoundInit
  <2>1. Entries = {1} /\ queue[1] = CostStated /\ CostStated.kind = "cost"
    BY DEF Init, Entries, CostStated
  <2>2. now = 0 /\ running = TRUE
    BY DEF Init, Sched!Init
  <2>3. RunnerKept /\ SchedulerKept
    BY <2>1, <2>2 DEF Init, RunnerKept, SchedulerKept, Token
  <2> QED
    BY <2>3 DEF Single
<1>2. RoundInv /\ Single /\ [Next]_vars => (RoundInv /\ Single)'
  BY RoundStep, SingleStep
<1>3. RoundInv /\ Single => [Fine]_vars
  <2> SUFFICES ASSUME RoundInv, Single, occupying # None
               PROVE  \/ occupying.run \notin forecast
                      \/ occupying.run = standing /\ stops > 1
    BY DEF Publishes
  <2>1. stops \in Nat
    BY DEF RoundInv, LoopInv, LoopTypeOK
  <2>2. stops <= 1 => occupying.run \notin forecast
    BY <2>1 DEF Single, RunnerKept, SchedulerKept
  <2> QED
    BY <2>1, <2>2 DEF RoundInv, LoopInv, Once
<1> QED
  BY <1>1, <1>2, <1>3, PTL DEF Spec, ReplacedNeverReturns

-----------------------------------------------------------------------------
(* The spread, when the margin covers the cost.                            *)

\* What was asked for with a tick and is not forecast yet is still waited for,
\* or already stands.
Awaited ==
    schedulerFirst /\ running =>
      /\ \A i \in Entries : Timed(queue[i]) =>
            inFlight = queue[i].run \/ standing = queue[i].run
      /\ occupying # None =>
            inFlight = occupying.run \/ standing = occupying.run

\* A publication the store has moved on from is of an earlier tick, and of no
\* run under way.
Old ==
    \A i \in Entries : queue[i].kind = "published" /\ queue[i].run # standing =>
       /\ queue[i].run # now
       /\ occupying # None => occupying.run # queue[i].run

\* The spread the analyst holds, or will hold on the way to the end of the
\* queue, is not the standing forecast's ...
Stale ==
    \/ spreadRun \notin {None, standing}
    \/ \E i \in Entries : queue[i].kind = "published" /\ queue[i].run # standing

\* ... and the publication that puts it right is on its way, before any
\* request and after every other publication.
CatchesAt(k) ==
    /\ queue[k].kind = "published" /\ queue[k].run = standing
    /\ \A j \in Entries : j < k => queue[j].kind # "request"
    /\ \A j \in Entries : j > k => queue[j].kind # "published"

Spread == Stale => \E k \in Entries : CatchesAt(k)

SpreadInv == RoundInv /\ Awaited /\ Old /\ Spread

\* A request is delivered only when nothing is stale.
LEMMA RequestSeesNoStale ==
    ASSUME LoopInv, Spread, NextIs("request")
    PROVE  ~Stale
<1>1. 1 \in Entries /\ queue[1].kind = "request" /\ Entries \subseteq Nat
  BY NextMessage, LenProperties DEF NextIs, Entries, LoopInv, LoopTypeOK
<1>2. ASSUME NEW k \in Entries, CatchesAt(k) PROVE FALSE
  <2>1. k # 1 /\ k \in Nat /\ k # 0
    BY <1>1, <1>2, LenProperties DEF CatchesAt, Entries, LoopInv, LoopTypeOK
  <2> QED
    BY <1>1, <1>2, <2>1 DEF CatchesAt
<1> QED
  BY <1>2 DEF Spread

\* A delivery that neither asks nor publishes brings the publication nearer.
LEMMA CatchingOn ==
    ASSUME queue \in Seq(Messages), queue # <<>>, NEW m \in Messages,
           queue' = Tail(queue) \/ queue' = Append(Tail(queue), m),
           m.kind \notin {"request", "published"}, standing' = standing,
           NEW k \in Entries, k # 1, CatchesAt(k)
    PROVE  \E j \in Entries' : CatchesAt(j)'
<1>1. /\ Shifted /\ k - 1 \in Entries'
      /\ \A i \in Entries' : \/ i \in 1..(Len(queue) - 1)
                             \/ i = Len(queue) /\ queue'[i] = m
  <2>1. CASE queue' = Tail(queue)
    <3>1. Entries' = 1..(Len(queue) - 1) /\ Shifted
      BY <2>1, Pop
    <3> QED
      BY <3>1 DEF Shifted
  <2>2. CASE queue' = Append(Tail(queue), m)
    <3>1. Entries' = 1..Len(queue) /\ queue'[Len(queue)] = m /\ Shifted
      BY <2>2, PopPush
    <3> QED
      BY <3>1 DEF Shifted
  <2> QED
    BY <2>1, <2>2
<1>2. /\ k \in 2..Len(queue) /\ Len(queue) \in Nat
      /\ \A i \in Entries' : \/ i + 1 \in Entries /\ queue'[i] = queue[i + 1]
                             \/ i = Len(queue) /\ queue'[i] = m
      /\ Entries' \subseteq Nat
  BY <1>1 DEF Shifted
<1>3. queue'[k - 1] = queue[k]
  <2>1. k - 1 \in 1..(Len(queue) - 1) /\ (k - 1) + 1 = k
    BY <1>2
  <2> QED
    BY <1>1, <2>1 DEF Shifted
<1>4. ASSUME NEW j \in Entries', j < k - 1 PROVE queue'[j].kind # "request"
  <2>1. j + 1 < k /\ j # Len(queue)
    BY <1>2, <1>4
  <2> QED
    BY <1>2, <2>1 DEF CatchesAt
<1>5. ASSUME NEW j \in Entries', j > k - 1 PROVE queue'[j].kind # "published"
  <2>1. j + 1 > k
    BY <1>2, <1>5
  <2> QED
    BY <1>2, <2>1 DEF CatchesAt
<1> QED
  BY <1>1, <1>3, <1>4, <1>5 DEF CatchesAt

\* A request finds nothing stale and leaves nothing stale.
LEMMA RequestSpread ==
    ASSUME SpreadInv, DeliverRequest
    PROVE  Awaited' /\ Old' /\ Spread'
<1> DEFINE m == Head(queue)
           n == AnalysisOf(m.run, m.timed)
<1>1. queue # <<>> /\ m.kind = "request" /\ NextIs("request")
  BY DEF DeliverRequest, NextIs
<1>2. /\ queue \in Seq(Messages) /\ m \in Messages /\ m.run \in Nat /\ m.timed \in BOOLEAN
      /\ 1 \in Entries /\ m = queue[1]
  BY <1>1, NextMessage DEF SpreadInv, RoundInv, Messages
<1>3. /\ n \in Messages /\ n.run = m.run /\ n.kind = "analysis" /\ n.timed = m.timed
      /\ Token(m) /\ Token(n)
  BY <1>1, <1>2, MessageTypes DEF Token
<1>4. /\ UNCHANGED <<schedVars, analystUp, spreadRun, runnerVars, storeVars, plane>>
      /\ queue' = Tail(queue) \/ queue' = Append(Tail(queue), n)
  BY DEF DeliverRequest
<1> HIDE DEF m, n
<1>5. UNCHANGED <<now, running, inFlight, occupying, schedulerFirst, standing, spreadRun>>
  BY <1>4 DEF schedVars, runnerVars, storeVars, plane
<1>6. PassedOn(n)
  BY <1>1, <1>2, <1>3, <1>4, HandedOn DEF m
<1>7. Timed(n) => Timed(m)
  BY <1>1, <1>3 DEF Timed
<1>8. Awaited'
  BY <1>2, <1>3, <1>5, <1>6, <1>7 DEF PassedOn, SpreadInv, Awaited
<1>9. Old'
  BY <1>3, <1>5, <1>6 DEF PassedOn, SpreadInv, Old
<1>10. ~Stale
  BY <1>1, RequestSeesNoStale DEF SpreadInv, RoundInv
<1>11. ~Stale'
  BY <1>3, <1>5, <1>6, <1>10 DEF PassedOn, Stale
<1> QED
  BY <1>8, <1>9, <1>11 DEF Spread

\* An analysis, and its refusal, let the publication come one place nearer.
LEMMA AnalysisSpread ==
    ASSUME SpreadInv, DeliverAnalysis
    PROVE  Awaited' /\ Old' /\ Spread'
<1> DEFINE m == Head(queue)
           n == RunFailed(m.run)
<1>1. queue # <<>> /\ m.kind = "analysis"
  BY DEF DeliverAnalysis, NextIs
<1>2. /\ queue \in Seq(Messages) /\ m \in Messages /\ m.run \in Nat /\ m.timed \in BOOLEAN
      /\ 1 \in Entries /\ m = queue[1] /\ InDate(now, m)
  BY <1>1, NextMessage DEF SpreadInv, RoundInv, Messages
<1>3. /\ n \in Messages /\ n.run = m.run /\ n.kind = "failed"
      /\ Token(m) /\ Token(n)
  BY <1>1, <1>2, MessageTypes DEF Token, RunFailed
<1>4. /\ UNCHANGED <<schedVars, analystVars, runnerUp, runnerTick, resumed, storeVars, plane>>
      /\ queue' = Tail(queue) \/ queue' = Append(Tail(queue), n)
      /\ occupying' \in {occupying, None} \/ (m.timed /\ occupying' = Occupy(m.run))
  BY DEF DeliverAnalysis, RunnerHandles
<1>5. UNCHANGED <<now, running, inFlight, schedulerFirst, standing, spreadRun>>
  BY <1>4 DEF schedVars, analystVars, storeVars, plane
<1>6. PassedOn(n)
  BY <1>1, <1>2, <1>3, <1>4, HandedOn
<1>7. Occupy(m.run).run = m.run /\ (m.timed => m.run = now /\ Timed(m))
  BY <1>1, <1>2 DEF Occupy, InDate, Timed
<1> HIDE DEF m, n
<1>8. Awaited'
  BY <1>2, <1>3, <1>4, <1>5, <1>6, <1>7 DEF PassedOn, SpreadInv, Awaited, Timed
<1>9. Old'
  BY <1>3, <1>4, <1>5, <1>6, <1>7 DEF PassedOn, SpreadInv, Old
<1>10. ASSUME Stale' PROVE \E j \in Entries' : CatchesAt(j)'
  <2>1. Stale
    BY <1>3, <1>5, <1>6, <1>10 DEF PassedOn, Stale
  <2>2. PICK k \in Entries : CatchesAt(k)
    BY <2>1 DEF SpreadInv, Spread
  <2>3. k # 1
    BY <1>1, <1>2, <2>2 DEF CatchesAt
  <2> QED
    BY <1>1, <1>2, <1>3, <1>4, <1>5, <2>2, <2>3, CatchingOn
<1> QED
  BY <1>8, <1>9, <1>10 DEF Spread

\* A publication that is not the last is followed by the one that stands.
LEMMA NewsSpread ==
    ASSUME SpreadInv, DeliverPublished \/ DeliverFailed \/ DeliverCost
    PROVE  Awaited' /\ Old' /\ Spread'
<1> DEFINE m == Head(queue)
<1>1. NewsStep
  BY NewsIs
<1>2. /\ queue \in Seq(Messages) /\ queue # <<>> /\ m \in Messages
      /\ 1 \in Entries /\ m = queue[1] /\ InDate(now, m)
      /\ m.kind \in {"published", "failed", "cost"}
  BY <1>1, NextMessage DEF SpreadInv, RoundInv, NewsStep
<1>3. \A i \in Entries' : \E j \in Entries : j # 1 /\ queue'[i] = queue[j]
  <2>1. Entries' = 1..(Len(queue) - 1) /\ Shifted
    BY <1>1, <1>2, Pop DEF NewsStep
  <2> QED
    BY <2>1 DEF Shifted
<1>4. UNCHANGED <<now, running, occupying, schedulerFirst, standing, analystUp>>
  BY <1>1 DEF NewsStep
<1> HIDE DEF m
<1>5. Old'
  BY <1>3, <1>4 DEF SpreadInv, Old
<1>6. Awaited'
  <2> SUFFICES ASSUME schedulerFirst, running
               PROVE  /\ \A i \in Entries' : Timed(queue'[i]) =>
                            inFlight' = queue'[i].run \/ standing = queue'[i].run
                      /\ occupying # None =>
                            inFlight' = occupying.run \/ standing = occupying.run
    BY <1>4 DEF Awaited
  <2>1. inFlight' = IF m.kind # "cost" /\ inFlight = m.run THEN None ELSE inFlight
    BY <1>1 DEF NewsStep, m
  <2>2. CASE inFlight' = inFlight
    BY <1>3, <2>2 DEF SpreadInv, Awaited
  <2>3. CASE m.kind = "published" /\ inFlight = m.run
    <3>1. CASE m.run = standing
      BY <1>3, <2>3, <3>1 DEF SpreadInv, Awaited
    <3>2. CASE m.run # standing
      <4>1. m.run # now /\ (occupying # None => occupying.run # m.run)
        BY <1>2, <2>3, <3>2 DEF SpreadInv, Old
      <4>2. \A i \in Entries : Timed(queue[i]) => queue[i].run = now
        BY DEF SpreadInv, RoundInv, LoopInv, Dated, InDate
      <4> QED
        BY <1>3, <2>3, <4>1, <4>2 DEF SpreadInv, Awaited
    <3> QED
      BY <3>1, <3>2
  <2>4. CASE m.kind = "failed" /\ inFlight = m.run
    <3>1. \A i \in Entries : i # 1 /\ Timed(queue[i]) => queue[i].run # m.run
      BY <1>2, <2>4 DEF SpreadInv, RoundInv, Distinct, OneEach, Token, Timed
    <3>2. occupying # None => occupying.run # m.run
      BY <1>2, <2>4 DEF SpreadInv, RoundInv, Distinct, Token
    <3> QED
      BY <1>3, <2>4, <3>1, <3>2 DEF SpreadInv, Awaited
  <2> QED
    BY <1>2, <2>1, <2>2, <2>3, <2>4
<1>7. ASSUME Stale' PROVE \E j \in Entries' : CatchesAt(j)'
  <2>1. spreadRun' = IF m.kind = "published" /\ analystUp THEN m.run ELSE spreadRun
    BY <1>1 DEF NewsStep, m
  <2>2. Stale
    <3>1. CASE \E i \in Entries' : queue'[i].kind = "published" /\ queue'[i].run # standing
      BY <1>3, <3>1 DEF Stale
    <3>2. CASE spreadRun' \notin {None, standing}
      BY <1>2, <2>1, <3>2 DEF Stale
    <3> QED
      BY <1>4, <1>7, <3>1, <3>2 DEF Stale
  <2>3. PICK k \in Entries : CatchesAt(k)
    BY <2>2 DEF SpreadInv, Spread
  <2>4. ASSUME k = 1 PROVE FALSE
    <3>1. m.kind = "published" /\ m.run = standing
      BY <1>2, <2>3, <2>4 DEF CatchesAt
    <3>2. spreadRun' \in {None, standing}
      BY <2>1, <3>1 DEF SpreadInv, RoundInv, LoopInv, Dated
    <3>3. \A j \in Entries : j # 1 => queue[j].kind # "published"
      <4>1. Entries = 1..Len(queue) /\ Len(queue) \in Nat
        BY <1>2, LenProperties DEF Entries
      <4> QED
        BY <2>3, <2>4, <4>1 DEF CatchesAt
    <3> QED
      BY <1>3, <1>4, <1>7, <3>2, <3>3 DEF Stale
  <2>5. CostStated \in Messages /\ CostStated.kind = "cost"
    BY MessageTypes
  <2> QED
    BY <1>1, <1>2, <1>4, <2>3, <2>4, <2>5, CatchingOn DEF NewsStep
<1> QED
  BY <1>5, <1>6, <1>7 DEF Spread

\* A run published on a sample is put right before the next request; when the
\* scheduler asks first, what is published already stood.
LEMMA SampleSpread ==
    ASSUME SpreadInv, MarginCoversCost, NEW t, Sampled(t)
    PROVE  Awaited' /\ Old' /\ Spread'
<1> DEFINE req == RequestFor(t, TRUE)
<1>1. t \in Nat /\ SampleQueue(t) /\ RunnerStep(t) /\ now' = t /\ t \in {now, now + 1}
  BY SampleSays, SampleRuns DEF SpreadInv, RoundInv, Sampled
<1>2. /\ req.kind = "request" /\ req.run = t
      /\ CostStated.kind = "cost"
      /\ \A r : Published(r).kind = "published" /\ Published(r).run = r
  BY DEF RequestFor, CostStated, Published
<1>3. \A i \in Entries' :
         \/ AsksFor(t) /\ queue'[i] = req
         \/ queue'[i] = CostStated
         \/ runnerUp /\ Resumes /\ queue'[i] = Published(standing)
         \/ runnerUp /\ Spent(t) /\ queue'[i] = Published(occupying.run)
  BY <1>1 DEF SampleQueue
<1> HIDE DEF req
<1>4. /\ now \in Nat /\ inFlight \in Nat \cup {None}
      /\ occupying # None => occupying.run \in Nat /\ runnerUp
      /\ standing \in Nat \cup {None} /\ (standing # None => standing <= now)
      /\ None \notin Nat
  BY SchedulerTypes, LoopAssumption
  DEF SpreadInv, RoundInv, LoopInv, LoopTypeOK, Occupations, Dated
<1>5. spreadRun \in {None, standing}
  <2>1. Entries = {}
    BY <1>1 DEF SampleQueue, Entries
  <2> QED
    BY <2>1 DEF SpreadInv, Spread, Stale
<1>6. /\ UNCHANGED <<runnerUp, spreadRun, schedulerFirst, running>>
      /\ Spent(t) => occupying # None /\ occupying' = None /\ standing' = occupying.run
      /\ ~Spent(t) => occupying' = occupying /\ standing' = standing
  BY <1>1 DEF RunnerStep, Sampled
<1>7. ASSUME schedulerFirst, running, occupying # None, Spared(t)
      PROVE  standing = occupying.run
  <2>1. inFlight # None => occupying.run # inFlight
    BY <1>7, LiveRunSpared DEF SpreadInv, RoundInv
  <2>2. inFlight = occupying.run \/ standing = occupying.run
    BY <1>7 DEF SpreadInv, Awaited
  <2> QED
    BY <1>4, <1>7, <2>1, <2>2
<1>8. Awaited'
  <2> SUFFICES ASSUME schedulerFirst, running
               PROVE  /\ \A i \in Entries' : Timed(queue'[i]) =>
                            inFlight' = queue'[i].run \/ standing' = queue'[i].run
                      /\ occupying' # None =>
                            inFlight' = occupying'.run \/ standing' = occupying'.run
    BY <1>6 DEF Awaited
  <2>1. ASSUME NEW i \in Entries', Timed(queue'[i]) PROVE inFlight' = queue'[i].run
    <3>1. AsksFor(t) /\ queue'[i] = req
      BY <1>2, <1>3, <2>1 DEF Timed
    <3> QED
      BY <1>2, <3>1 DEF AsksFor
  <2>2. ASSUME occupying' # None
        PROVE  inFlight' = occupying'.run \/ standing' = occupying'.run
    <3>1. occupying' = occupying /\ standing' = standing
      BY <1>6, <2>2
    <3>2. CASE inFlight' = inFlight
      BY <2>2, <3>1, <3>2 DEF SpreadInv, Awaited
    <3>3. CASE Spared(t)
      BY <1>7, <2>2, <3>1, <3>3
    <3> QED
      BY <3>2, <3>3 DEF Sampled
  <2> QED
    BY <2>1, <2>2
<1>9. Old'
  <2> SUFFICES ASSUME NEW i \in Entries', queue'[i].kind = "published",
                      queue'[i].run # standing'
               PROVE  queue'[i].run # t /\ occupying' = None
    BY <1>1 DEF Old
  <2>1. Resumes /\ queue'[i].run = standing /\ Spent(t)
    BY <1>2, <1>3, <1>6
  <2>2. occupying.run = now /\ standing # now
    BY <1>6, <2>1 DEF Resumes, SpreadInv, RoundInv, LoopInv, Spending
  <2> QED
    BY <1>1, <1>4, <1>6, <2>1, <2>2 DEF Resumes
<1>10. ASSUME Stale' PROVE \E k \in Entries' : CatchesAt(k)'
  <2>1. CASE standing' = standing
    <3>1. \A i \in Entries' : queue'[i].kind = "published" => queue'[i].run = standing'
      BY <1>2, <1>3, <1>6, <2>1
    <3> QED
      BY <1>5, <1>6, <1>10, <2>1, <3>1 DEF Stale
  <2>2. CASE standing' # standing
    <3>1. Spent(t) /\ runnerUp /\ occupying # None /\ standing' = occupying.run
      BY <1>4, <1>6, <2>2
    <3>2. schedulerFirst => AsksNothing
      BY <1>7, <2>2, <3>1 DEF Sampled
    <3>3. PICK k \in Entries' :
             /\ queue'[k] = Published(occupying.run)
             /\ \A j \in Entries' : j < k => queue'[j].kind # "request"
             /\ \A j \in Entries' : j > k => queue'[j].kind # "published"
      BY <1>1, <3>1, <3>2 DEF SampleQueue
    <3> QED
      BY <1>2, <3>1, <3>3 DEF CatchesAt
  <2> QED
    BY <2>1, <2>2
<1> QED
  BY <1>8, <1>9, <1>10 DEF Spread

\* A request found nothing outstanding, so whatever is under way already stands.
LEMMA AskSpread ==
    ASSUME SpreadInv, Prompt \/ Divergence
    PROVE  Awaited' /\ Old' /\ Spread'
<1> DEFINE req == RequestFor(tick, heard)
<1>1. AskStep
  BY AskIs DEF SpreadInv, RoundInv
<1>2. UNCHANGED <<now, running, occupying, standing, spreadRun, schedulerFirst>>
  BY <1>1 DEF AskStep, analystVars, runnerVars, storeVars, plane
<1>3. CASE AsksNothing /\ inFlight' = inFlight /\ queue' = queue
  BY <1>2, <1>3 DEF SpreadInv, Awaited, Old, Spread, Stale, CatchesAt, Entries
<1>4. CASE /\ AsksFor(tick) /\ inFlight = None
           /\ queue' = queue \o <<req>> /\ req \in Messages
  <2>1. req.kind = "request" /\ req.run = tick /\ inFlight' = tick
    BY <1>4 DEF RequestFor, AsksFor
  <2> HIDE DEF req
  <2>2. /\ queue \in Seq(Messages) /\ Len(queue) \in Nat /\ Entries = 1..Len(queue)
        /\ Entries' = 1..(Len(queue) + 1) /\ queue'[Len(queue) + 1] = req
        /\ \A i \in Entries : queue'[i] = queue[i]
    BY <1>4, Push DEF SpreadInv, RoundInv, LoopInv, LoopTypeOK
  <2>3. \A i \in Entries' : \/ i \in Entries /\ queue'[i] = queue[i]
                            \/ i = Len(queue) + 1 /\ queue'[i] = req
    BY <2>2
  <2>4. ASSUME schedulerFirst, running
        PROVE  /\ \A i \in Entries : Timed(queue[i]) => standing = queue[i].run
               /\ occupying # None => standing = occupying.run
    <3>1. \A i \in Entries : Timed(queue[i]) => queue[i].run # None
      <4>1. now # None
        BY SchedulerTypes, LoopAssumption DEF SpreadInv, RoundInv, LoopInv
      <4> QED
        BY <4>1 DEF SpreadInv, RoundInv, LoopInv, Dated, InDate
    <3>2. occupying # None => occupying.run # None
      BY LoopAssumption DEF SpreadInv, RoundInv, LoopInv, LoopTypeOK, Occupations
    <3> QED
      BY <1>4, <2>4, <3>1, <3>2 DEF SpreadInv, Awaited
  <2>5. Awaited'
    BY <1>2, <2>1, <2>3, <2>4 DEF Awaited
  <2>6. Old'
    BY <1>2, <2>1, <2>3 DEF SpreadInv, Old
  <2>7. ASSUME Stale' PROVE \E k \in Entries' : CatchesAt(k)'
    <3>1. Stale
      BY <1>2, <2>1, <2>3, <2>7 DEF Stale
    <3>2. PICK k \in Entries : CatchesAt(k)
      BY <3>1 DEF SpreadInv, Spread
    <3>3. /\ k \in Entries' /\ k < Len(queue) + 1 /\ k \in Nat
          /\ queue'[k].kind = "published" /\ queue'[k].run = standing
      BY <2>2, <3>2 DEF CatchesAt
    <3>4. \A j \in Entries' : j < k => queue'[j].kind # "request"
      BY <2>2, <2>3, <3>2, <3>3 DEF CatchesAt
    <3>5. \A j \in Entries' : j > k => queue'[j].kind # "published"
      BY <2>1, <2>3, <3>2 DEF CatchesAt
    <3> QED
      BY <1>2, <3>3, <3>4, <3>5 DEF CatchesAt
  <2> QED
    BY <2>5, <2>6, <2>7 DEF Spread
<1> QED
  BY <1>1, <1>3, <1>4 DEF AskStep

\* A verb finds nothing stale, and forgets a spread rather than change one.
LEMMA ControlSpread ==
    ASSUME SpreadInv, Control
    PROVE  Awaited' /\ Old' /\ Spread'
<1>1. queue = <<>> /\ Entries = {} /\ standing' = standing /\ now' = now
  BY DEF Control, StopScheduler, StartScheduler, StopAnalyst, StartAnalyst, StopRunner,
         StartRunner, MayStop, Drained, Entries, storeVars, schedVars, Sched!Stop,
         Sched!Start
<1>2. spreadRun \in {None, standing}
  BY <1>1 DEF SpreadInv, Spread, Stale
<1>3. spreadRun' \in {None, standing}
  BY <1>2 DEF Control, StopScheduler, StartScheduler, StopAnalyst, StartAnalyst,
              StopRunner, StartRunner, analystVars
<1>4. \A i \in Entries' : queue'[i].kind = "failed"
  <2>1. queue' = <<>> \/ queue' = <<RunFailed(occupying.run)>>
    BY <1>1 DEF Control, StopScheduler, StartScheduler, StopAnalyst, StartAnalyst,
                StopRunner, StartRunner
  <2> QED
    BY <2>1 DEF Entries, RunFailed
<1>5. Old' /\ Spread'
  BY <1>1, <1>3, <1>4 DEF Old, Spread, Stale
<1>6. occupying' # None /\ schedulerFirst' /\ running' =>
         inFlight' = inFlight /\ occupying' = occupying /\ schedulerFirst /\ running
  BY DEF Control, StopScheduler, StartScheduler, StopAnalyst, StartAnalyst, StopRunner,
         StartRunner, schedVars, runnerVars, plane, Sched!Stop, SpreadInv, RoundInv,
         LoopInv, Dated
<1>7. Awaited'
  BY <1>1, <1>4, <1>6 DEF Awaited, Timed, SpreadInv
<1> QED
  BY <1>5, <1>7

\* Every step leaves the right spread on its way.
LEMMA SpreadStep ==
    ASSUME SpreadInv, MarginCoversCost, [Next]_vars
    PROVE  SpreadInv'
<1>1. RoundInv'
  BY RoundStep DEF SpreadInv
<1>2. Awaited' /\ Old' /\ Spread'
  <2>1. CASE DeliverRequest
    BY <2>1, RequestSpread
  <2>2. CASE DeliverAnalysis
    BY <2>2, AnalysisSpread
  <2>3. CASE DeliverPublished \/ DeliverFailed \/ DeliverCost
    BY <2>3, NewsSpread
  <2>4. CASE Tick \/ Repeat
    <3>1. PICK t \in {now, now + 1} : Sampled(t)
      BY <2>4, SampleIs DEF SpreadInv, RoundInv
    <3> QED
      BY <3>1, SampleSpread
  <2>5. CASE Prompt \/ Divergence
    BY <2>5, AskSpread
  <2>6. CASE Control
    BY <2>6, ControlSpread
  <2>7. CASE UNCHANGED vars
    BY <2>7
    DEF vars, schedVars, analystVars, runnerVars, storeVars, plane, SpreadInv, Awaited,
        Old, Spread, Stale, CatchesAt, Entries
  <2> QED
    BY <2>1, <2>2, <2>3, <2>4, <2>5, <2>6, <2>7 DEF Next, Deliver
<1> QED
  BY <1>1, <1>2 DEF SpreadInv

\* The first message states the cost: nothing is asked for, nor stands.
LEMMA SpreadInit == Init => SpreadInv
<1> SUFFICES ASSUME Init PROVE SpreadInv
  OBVIOUS
<1>1. Entries = {1} /\ queue[1] = CostStated /\ CostStated.kind = "cost"
  BY DEF Init, Entries, CostStated
<1>2. Awaited /\ Old /\ Spread
  BY <1>1 DEF Init, Awaited, Old, Spread, Stale, Timed
<1> QED
  BY <1>2, RoundInit DEF SpreadInv

\* When the margin covers the cost, what an analyst holds of a spread is always
\* put right before the next request reaches it.
THEOREM SpreadInvariance ==
    ASSUME MarginCoversCost
    PROVE  Spec => []SpreadInv
<1>1. SpreadInv /\ [Next]_vars => SpreadInv'
  BY SpreadStep
<1> QED
  BY <1>1, SpreadInit, PTL DEF Spec

\* When the margin covers the cost, the background an analyst reads from the
\* store and the spread it heard on the bus are one run's, whatever is stopped
\* and started (analyst.ts:152, analyst.ts:199).
THEOREM SpreadMatches ==
    ASSUME MarginCoversCost
    PROVE  Spec => []SpreadMatchesBackground
<1>1. SpreadInv => SpreadMatchesBackground
  BY RequestSeesNoStale DEF SpreadInv, RoundInv, Stale, SpreadMatchesBackground
<1> QED
  BY <1>1, SpreadInvariance, PTL

-----------------------------------------------------------------------------
(* One run at a time, and the life of the standing forecast.               *)

\* Until a stop verb is used one run is under way at a time, as one message or
\* as the run the runner is occupied with, for exactly the ticks it costs.
Solo ==
    stops = 0 =>
      /\ \A i \in Entries : Carrier(queue[i]) =>
            queue[i].run = inFlight /\ queue[i].kind # "failed" /\ occupying = None
      /\ \A i, j \in Entries : Carrier(queue[i]) /\ Carrier(queue[j]) => i = j
      /\ occupying # None =>
            occupying.run = inFlight /\ occupying.publishAt = inFlight + Cost

Settled == \A i \in Entries : queue[i].kind # "published"

\* What a scheduler that waits for nothing, or for a run, leaves of a forecast's
\* life: at least the ticks the next run costs.
Ahead ==
    IF standing = None
    THEN IF inFlight = None THEN now < MaxInterval ELSE inFlight <= MaxInterval
    ELSE IF inFlight = None THEN now < standing + Lifetime - Cost
                            ELSE inFlight <= standing + Lifetime - Cost

\* The scheduler knows the standing forecast, but for the moment its publication
\* is on the bus.
Fresh ==
    stops = 0 =>
      IF Settled
      THEN /\ lastRequest = (IF inFlight # None THEN inFlight ELSE standing)
           /\ validityEnd = (IF standing = None THEN None ELSE standing + Lifetime)
           /\ Ahead
      ELSE /\ standing = inFlight /\ lastRequest = standing
           /\ standing # None /\ now = standing + Cost

\* The first run and every later one fit in a forecast's life, the cadence floor
\* included (as configured: 1800 and about 9 against 2700).
LifeFits == MaxInterval + Cost <= Lifetime /\ 2 * Cost < Lifetime

SoloInv == SpreadInv /\ Solo /\ Fresh

\* What is needed of the types in this section.
LEMMA SoloTypes ==
    ASSUME SoloInv
    PROVE  /\ now \in Nat /\ inFlight \in Nat \cup {None}
           /\ standing \in Nat \cup {None} /\ None \notin Int
           /\ lastRequest \in Nat \cup {None} /\ validityEnd \in Nat \cup {None}
           /\ MaxInterval \in Nat /\ Cost \in Nat \ {0} /\ Lifetime \in Nat
           /\ occupying # None => occupying.run \in Nat /\ occupying.publishAt \in Nat
           /\ queue \in Seq(Messages)
           /\ LoopInv /\ RoundInv
  BY SchedulerTypes, LoopAssumption
  DEF SoloInv, SpreadInv, RoundInv, LoopInv, LoopTypeOK, Occupations

\* An undisturbed loop that carries nothing waits for nothing.
LEMMA NothingCarried ==
    ASSUME SoloInv, stops = 0, inFlight = None
    PROVE  occupying = None /\ \A i \in Entries : ~Carrier(queue[i])
<1>1. occupying = None
  BY SoloTypes DEF SoloInv, Solo
<1>2. ASSUME NEW i \in Entries, Carrier(queue[i]) PROVE FALSE
  <2>1. queue[i].run = None
    BY <1>2 DEF SoloInv, Solo
  <2> QED
    BY <1>2, <2>1, SoloTypes DEF LoopInv, Dated, InDate, Carrier
<1> QED
  BY <1>1, <1>2

\* A request becomes an analysis.
LEMMA RequestSolo ==
    ASSUME SoloInv, DeliverRequest, stops = 0
    PROVE  Solo' /\ Fresh'
<1> DEFINE m == Head(queue)
           n == AnalysisOf(m.run, m.timed)
<1>1. queue # <<>> /\ m.kind = "request"
  BY DEF DeliverRequest, NextIs
<1>2. /\ queue \in Seq(Messages) /\ m \in Messages /\ m.run \in Nat /\ m.timed \in BOOLEAN
      /\ 1 \in Entries /\ m = queue[1]
  BY <1>1, NextMessage, SoloTypes DEF Messages
<1>3. n \in Messages /\ n.run = m.run /\ n.kind = "analysis"
  BY <1>2, MessageTypes
<1>4. analystUp /\ m.run \notin analysed
  BY <1>1, <1>2, SoloTypes DEF RoundInv, Undisturbed
<1>5. /\ UNCHANGED <<schedVars, occupying, standing, stops>>
      /\ queue' = Append(Tail(queue), n)
  BY <1>4 DEF DeliverRequest, runnerVars, storeVars, plane
<1> HIDE DEF m, n
<1>6. Entries' = 1..Len(queue) /\ queue'[Len(queue)] = n /\ Shifted
  BY <1>1, <1>2, <1>3, <1>5, PopPush DEF m
<1>7. \A i \in Entries : i # 1 => ~Carrier(queue[i])
  BY <1>1, <1>2 DEF SoloInv, Solo, Carrier
<1>8. \A i \in Entries' : i # Len(queue) => ~Carrier(queue'[i])
  <2> SUFFICES ASSUME NEW i \in Entries', i # Len(queue) PROVE ~Carrier(queue'[i])
    OBVIOUS
  <2>1. i \in 1..(Len(queue) - 1) /\ i + 1 # 1
    BY <1>6 DEF Shifted
  <2> QED
    BY <1>6, <1>7, <2>1 DEF Shifted
<1>9. m.run = inFlight /\ occupying = None
  BY <1>1, <1>2 DEF SoloInv, Solo, Carrier
<1>10. Solo'
  BY <1>3, <1>5, <1>6, <1>8, <1>9 DEF Solo, schedVars
<1>11. Settled /\ Settled'
  BY <1>1, <1>2, <1>3, <1>6, <1>7, <1>8 DEF Settled, Carrier
<1>12. Fresh'
  BY <1>5, <1>11 DEF SoloInv, Fresh, Ahead, schedVars
<1> QED
  BY <1>10, <1>12

\* The runner is free, and occupied for the ticks a run costs from this one.
LEMMA AnalysisSolo ==
    ASSUME SoloInv, DeliverAnalysis, stops = 0
    PROVE  Solo' /\ Fresh'
<1> DEFINE m == Head(queue)
<1>1. queue # <<>> /\ m.kind = "analysis"
  BY DEF DeliverAnalysis, NextIs
<1>2. /\ queue \in Seq(Messages) /\ m \in Messages /\ m.run \in Nat
      /\ 1 \in Entries /\ m = queue[1] /\ InDate(now, m)
  BY <1>1, NextMessage, SoloTypes
<1>3. m.run = inFlight /\ occupying = None
  BY <1>1, <1>2 DEF SoloInv, Solo, Carrier
<1>4. runnerUp /\ m.timed /\ runnerTick = now
  BY <1>2, SoloTypes DEF RoundInv, Undisturbed
<1>5. /\ UNCHANGED <<schedVars, standing, stops>>
      /\ queue' = Tail(queue) /\ occupying' = Occupy(m.run)
  BY <1>3, <1>4 DEF DeliverAnalysis, RunnerHandles, storeVars, plane
<1>6. m.run = now
  BY <1>1, <1>2, <1>4 DEF InDate, Timed
<1>7. Occupy(m.run).run = m.run /\ Occupy(m.run).publishAt = now + Cost
  BY <1>4 DEF Occupy
<1> HIDE DEF m
<1>8. Entries' = 1..(Len(queue) - 1) /\ Shifted
  BY <1>1, <1>2, <1>5, Pop
<1>9. \A i \in Entries : i # 1 => ~Carrier(queue[i])
  BY <1>1, <1>2 DEF SoloInv, Solo, Carrier
<1>10. \A i \in Entries' : ~Carrier(queue'[i])
  BY <1>8, <1>9 DEF Shifted
<1>11. Solo'
  BY <1>3, <1>5, <1>6, <1>7, <1>10 DEF Solo, schedVars
<1>12. Settled /\ Settled'
  BY <1>1, <1>2, <1>9, <1>10 DEF Settled, Carrier
<1>13. Fresh'
  BY <1>5, <1>12 DEF SoloInv, Fresh, Ahead, schedVars
<1> QED
  BY <1>11, <1>13

\* A publication is what the scheduler waits for: its life is what follows.
LEMMA NewsSolo ==
    ASSUME SoloInv, LifeFits, DeliverPublished \/ DeliverFailed \/ DeliverCost, stops = 0
    PROVE  Solo' /\ Fresh'
<1> DEFINE m == Head(queue)
<1>1. NewsStep
  BY NewsIs
<1>2. /\ queue \in Seq(Messages) /\ queue # <<>> /\ m \in Messages
      /\ 1 \in Entries /\ m = queue[1] /\ running
      /\ m.kind \in {"published", "failed", "cost"}
  BY <1>1, NextMessage, SoloTypes DEF NewsStep, RoundInv, Undisturbed
<1>3. UNCHANGED <<now, occupying, standing, stops>>
  BY <1>1 DEF NewsStep
<1>4. /\ inFlight' = IF m.kind # "cost" /\ inFlight = m.run THEN None ELSE inFlight
      /\ IF m.kind = "published"
         THEN validityEnd' = m.run + Lifetime /\ lastRequest' = Sched!Later(m.run)
         ELSE UNCHANGED <<validityEnd, lastRequest>>
  BY <1>1, <1>2 DEF NewsStep
<1> HIDE DEF m
<1>5. Entries' = 1..(Len(queue) - 1) /\ Shifted
  BY <1>1, <1>2, Pop DEF NewsStep
<1>6. m.kind # "failed"
  BY <1>2 DEF SoloInv, Solo, Carrier
<1>7. CASE m.kind = "cost"
  <2>1. UNCHANGED <<inFlight, validityEnd, lastRequest>>
    BY <1>4, <1>7
  <2>2. Solo'
    <3>1. \A i \in Entries' : i + 1 \in Entries /\ queue'[i] = queue[i + 1]
      BY <1>5 DEF Shifted
    <3>2. \A i, j \in Entries' : i + 1 = j + 1 => i = j
      BY <1>5, LenProperties
    <3> QED
      BY <1>3, <2>1, <3>1, <3>2 DEF SoloInv, Solo
  <2>3. Settled' <=> Settled
    <3>1. \A i \in Entries' : i + 1 \in Entries /\ queue'[i] = queue[i + 1]
      BY <1>5 DEF Shifted
    <3>2. ASSUME NEW i \in Entries, queue[i].kind = "published"
          PROVE  \E j \in Entries' : queue'[j] = queue[i]
      <4>1. i # 1
        BY <1>2, <1>7, <3>2
      <4>2. i - 1 \in 1..(Len(queue) - 1) /\ (i - 1) + 1 = i
        BY <1>5, <4>1 DEF Shifted
      <4> QED
        BY <1>5, <4>2 DEF Shifted
    <3> QED
      BY <3>1, <3>2 DEF Settled
  <2>4. Fresh'
    BY <1>3, <2>1, <2>3 DEF SoloInv, Fresh, Ahead
  <2> QED
    BY <2>2, <2>4
<1>8. CASE m.kind = "published"
  <2>1. m.run = inFlight /\ occupying = None /\ ~Settled
    BY <1>2, <1>8 DEF SoloInv, Solo, Settled, Carrier
  <2>2. /\ standing = inFlight /\ lastRequest = standing /\ standing # None
        /\ now = standing + Cost
    BY <2>1 DEF SoloInv, Fresh
  <2>3. \A i \in Entries' : ~Carrier(queue'[i])
    <3>1. \A i \in Entries : i # 1 => ~Carrier(queue[i])
      BY <1>2, <1>8 DEF SoloInv, Solo, Carrier
    <3> QED
      BY <1>5, <3>1 DEF Shifted
  <2>4. inFlight' = None /\ validityEnd' = standing + Lifetime /\ lastRequest' = standing
    BY <1>4, <1>8, <2>1, <2>2 DEF Sched!Later
  <2>5. Solo'
    BY <1>3, <2>1, <2>3 DEF Solo
  <2>6. now < standing + Lifetime - Cost
    BY <2>2, SoloTypes DEF LifeFits
  <2>7. Settled'
    BY <2>3 DEF Settled, Carrier
  <2>8. Fresh'
    BY <1>3, <2>2, <2>4, <2>6, <2>7 DEF Fresh, Ahead
  <2> QED
    BY <2>5, <2>8
<1> QED
  BY <1>2, <1>6, <1>7, <1>8

\* The threshold a sample holds a run for is at least what the run costs.
LEMMA ThresholdCoversCost ==
    ASSUME SoloInv, MarginCoversCost
    PROVE  Sched!Threshold \in Nat /\ Sched!Threshold >= Cost
<1>1. runCost \in Nat \cup {None}
  BY SoloTypes, SchedulerTypes DEF LoopInv
<1> QED
  BY <1>1, LoopAssumption DEF Sched!Threshold, MarginCoversCost

\* A sample while a run is outstanding asks for nothing; it publishes the run
\* the tick its cost is spent.
LEMMA OutstandingSolo ==
    ASSUME SoloInv, MarginCoversCost, NEW t, Sampled(t), stops = 0, inFlight # None
    PROVE  Solo' /\ Fresh'
<1>1. /\ t \in Nat /\ SampleQueue(t) /\ RunnerStep(t) /\ now' = t /\ t \in {now, now + 1}
      /\ stops' = 0
  BY SampleSays, SampleRuns, SoloTypes DEF Sampled, RunnerStep
<1>2. Entries = {} /\ ~Resumes /\ runnerUp
  BY <1>1, SoloTypes DEF SampleQueue, Entries, Resumes, RoundInv, Undisturbed
<1>3. occupying # None /\ occupying.run = inFlight /\ occupying.publishAt = inFlight + Cost
  BY <1>2, SoloTypes DEF RoundInv, Carried, Undisturbed, SoloInv, Solo
<1>4. ~Spared(t)
  BY <1>3, LiveRunSpared, SoloTypes
<1>5. /\ AsksNothing /\ inFlight' = inFlight
      /\ lastRequest' = lastRequest /\ validityEnd' = validityEnd
  BY <1>4 DEF Sampled, AsksNothing
<1>6. ~AsksFor(t)
  BY <1>5 DEF AsksFor, AsksNothing
<1>7. \A r : /\ Published(r).kind = "published" /\ Published(r).run = r
             /\ CostStated.kind = "cost"
  BY DEF Published, CostStated
<1>8. Settled
  BY <1>2 DEF Settled
<1>9. /\ lastRequest = inFlight
      /\ validityEnd = (IF standing = None THEN None ELSE standing + Lifetime)
      /\ Ahead
  BY <1>8 DEF SoloInv, Fresh
<1>10. CASE Spent(t)
  <2>1. /\ occupying' = None /\ standing' = inFlight
    BY <1>1, <1>3, <1>10 DEF RunnerStep
  <2>2. \A i \in Entries' : \/ queue'[i] = CostStated
                            \/ queue'[i] = Published(inFlight)
    BY <1>1, <1>2, <1>3, <1>6 DEF SampleQueue
  <2>3. \A i \in Entries' : Carrier(queue'[i]) =>
           queue'[i].kind = "published" /\ queue'[i].run = inFlight
    BY <1>7, <2>2 DEF Carrier
  <2>4. \A i, j \in Entries' :
           queue'[i].kind = "published" /\ queue'[j].kind = "published" => i = j
    BY <1>1, <1>2 DEF SampleQueue
  <2>5. Solo'
    BY <1>5, <2>1, <2>3, <2>4 DEF Solo
  <2>6. ~Settled'
    <3>1. \E i \in Entries' : queue'[i] = Published(occupying.run)
      BY <1>1, <1>2, <1>10 DEF SampleQueue
    <3> QED
      BY <1>7, <3>1 DEF Settled
  <2>7. t = inFlight + Cost
    <3>1. t >= inFlight + Cost
      BY <1>3, <1>10 DEF Spent
    <3>2. now < inFlight + Cost
      BY <1>3, SoloTypes DEF LoopInv, Spending
    <3> QED
      BY <1>1, <3>1, <3>2, SoloTypes
  <2>8. Fresh'
    BY <1>1, <1>5, <1>9, <2>1, <2>6, <2>7 DEF Fresh
  <2> QED
    BY <2>5, <2>8
<1>11. CASE ~Spent(t)
  <2>1. occupying' = occupying /\ standing' = standing
    BY <1>1, <1>11 DEF RunnerStep
  <2>2. \A i \in Entries' : queue'[i] = CostStated
    BY <1>1, <1>2, <1>6, <1>11 DEF SampleQueue
  <2>3. \A i \in Entries' : ~Carrier(queue'[i]) /\ queue'[i].kind # "published"
    BY <1>7, <2>2 DEF Carrier
  <2>4. Solo'
    BY <1>3, <1>5, <2>1, <2>3 DEF Solo
  <2>5. Fresh'
    BY <1>5, <1>9, <2>1, <2>3 DEF Fresh, Settled, Ahead
  <2> QED
    BY <2>4, <2>5
<1> QED
  BY <1>10, <1>11

\* A sample that finds nothing outstanding asks before what is left of the
\* standing forecast's life is less than a run costs.
LEMMA IdleSolo ==
    ASSUME SoloInv, MarginCoversCost, LifeFits, NEW t, Sampled(t), stops = 0,
           inFlight = None
    PROVE  Solo' /\ Fresh'
<1> DEFINE req == RequestFor(t, TRUE)
<1>1. /\ t \in Nat /\ SampleQueue(t) /\ RunnerStep(t) /\ now' = t /\ t \in {now, now + 1}
      /\ stops' = 0
  BY SampleSays, SampleRuns, SoloTypes DEF Sampled, RunnerStep
<1>2. Settled /\ ~Resumes /\ running /\ maximum = MaxInterval
  BY <1>1, SoloTypes
  DEF SampleQueue, Entries, Settled, Resumes, RoundInv, Undisturbed, LoopInv, Dated
<1>3. ~Spent(t) /\ occupying' = None /\ standing' = standing
  BY <1>1, NothingCarried DEF Spent, RunnerStep
<1>4. /\ \A i \in Entries' :
            \/ AsksFor(t) /\ queue'[i] = req
            \/ queue'[i] = CostStated
      /\ \A i, j \in Entries' : queue'[i] = req /\ queue'[j] = req => i = j
  BY <1>1, <1>2, <1>3 DEF SampleQueue
<1>5. /\ lastRequest = standing
      /\ validityEnd = (IF standing = None THEN None ELSE standing + Lifetime)
      /\ IF standing = None THEN now < MaxInterval ELSE now < standing + Lifetime - Cost
      /\ validityEnd' = validityEnd
  BY <1>2 DEF SoloInv, Fresh, Ahead, Sampled
<1>6. req.kind = "request" /\ req.run = t /\ CostStated.kind = "cost"
  BY DEF RequestFor, CostStated
<1> HIDE DEF req
<1>7. /\ \A i \in Entries' : queue'[i].kind # "published"
      /\ \A i \in Entries' : Carrier(queue'[i]) => AsksFor(t) /\ queue'[i] = req
  BY <1>4, <1>6 DEF Carrier
<1>8. Settled'
  BY <1>7 DEF Settled
<1>9. CASE AsksFor(t)
  <2>1. inFlight' = t /\ lastRequest' = t
    BY <1>9 DEF AsksFor
  <2>2. Solo'
    BY <1>3, <1>4, <1>6, <1>7, <2>1 DEF Solo
  <2>3. t # None /\ Ahead'
    BY <1>1, <1>3, <1>5, <2>1, SoloTypes DEF Ahead
  <2>4. Fresh'
    BY <1>3, <1>5, <1>8, <2>1, <2>3 DEF Fresh
  <2> QED
    BY <2>2, <2>4
<1>10. CASE ~AsksFor(t)
  <2>1. AsksNothing /\ inFlight' = None /\ lastRequest' = lastRequest
    BY <1>10 DEF Sampled, AsksNothing
  <2>2. Waits(t)
    BY <1>2, <2>1 DEF Sampled
  <2>3. Sched!Threshold \in Nat /\ Sched!Threshold >= Cost
    BY ThresholdCoversCost
  <2>4. IF standing = None THEN t < MaxInterval ELSE t < standing + Lifetime - Cost
    <3>1. CASE ~Sched!FloorDue(t)
      <4>1. standing = None => t < MaxInterval
        BY <1>1, <1>2, <1>5, <3>1, SoloTypes DEF Sched!FloorDue
      <4>2. standing # None => t < standing + MaxInterval
        BY <1>1, <1>2, <1>5, <3>1, SoloTypes DEF Sched!FloorDue
      <4> QED
        BY <1>1, <4>1, <4>2, SoloTypes DEF LifeFits
    <3>2. CASE Sched!HeldForCost(t, TRUE)
      <4>1. standing # None /\ standing + Lifetime - t > Sched!Threshold
        <5>1. validityEnd # None /\ validityEnd - t > Sched!Threshold
          BY <3>2 DEF Sched!HeldForCost
        <5>2. standing # None /\ validityEnd = standing + Lifetime
          BY <1>5, <5>1
        <5> QED
          BY <1>1, <2>3, <5>1, <5>2, SoloTypes
      <4> QED
        BY <1>1, <2>3, <4>1, SoloTypes
    <3> QED
      BY <2>2, <3>1, <3>2 DEF Waits
  <2>5. Solo'
    BY <1>3, <1>7, <1>10 DEF Solo
  <2>6. Fresh'
    BY <1>1, <1>3, <1>5, <1>8, <2>1, <2>4 DEF Fresh, Ahead
  <2> QED
    BY <2>5, <2>6
<1> QED
  BY <1>9, <1>10

\* A prompt or a divergence asks while nothing is under way, and no later than
\* the cadence would.
LEMMA AskSolo ==
    ASSUME SoloInv, Prompt \/ Divergence, stops = 0
    PROVE  Solo' /\ Fresh'
<1> DEFINE req == RequestFor(tick, heard)
<1>1. AskStep
  BY AskIs, SoloTypes
<1>2. UNCHANGED <<now, validityEnd, occupying, standing, stops>>
  BY <1>1 DEF AskStep, runnerVars, storeVars, plane
<1>3. CASE AsksNothing /\ inFlight' = inFlight /\ queue' = queue
  <2>1. Entries' = Entries /\ lastRequest' = lastRequest
    BY <1>3 DEF Entries, AsksNothing
  <2> QED
    BY <1>2, <1>3, <2>1 DEF SoloInv, Solo, Fresh, Settled, Ahead
<1>4. CASE /\ AsksFor(tick) /\ inFlight = None
           /\ queue' = queue \o <<req>> /\ req \in Messages
  <2>1. req.kind = "request" /\ req.run = tick /\ inFlight' = tick /\ lastRequest' = tick
    BY <1>4 DEF RequestFor, AsksFor
  <2> HIDE DEF req
  <2>2. /\ Len(queue) \in Nat /\ Entries = 1..Len(queue)
        /\ Entries' = 1..(Len(queue) + 1) /\ queue'[Len(queue) + 1] = req
        /\ \A i \in Entries : queue'[i] = queue[i]
    BY <1>4, Push, SoloTypes
  <2>3. \A i \in Entries' : \/ i \in Entries /\ queue'[i] = queue[i]
                            \/ i = Len(queue) + 1 /\ queue'[i] = req
    BY <2>2
  <2>4. occupying = None /\ \A i \in Entries : ~Carrier(queue[i])
    BY <1>4, NothingCarried
  <2>5. \A i \in Entries' : Carrier(queue'[i]) => i = Len(queue) + 1 /\ queue'[i] = req
    BY <2>3, <2>4
  <2>6. Solo'
    BY <1>2, <2>1, <2>4, <2>5 DEF Solo
  <2>7. Settled /\ Settled'
    BY <2>1, <2>3, <2>4 DEF Settled, Carrier
  <2>8. tick = now
    BY SoloTypes DEF RoundInv, Undisturbed, LoopInv, Dated
  <2>9. /\ validityEnd = (IF standing = None THEN None ELSE standing + Lifetime)
        /\ IF standing = None THEN now < MaxInterval ELSE now < standing + Lifetime - Cost
    BY <1>4, <2>7 DEF SoloInv, Fresh, Ahead
  <2>10. tick # None /\ Ahead'
    BY <1>2, <2>1, <2>8, <2>9, SoloTypes DEF Ahead
  <2>11. Fresh'
    BY <1>2, <2>1, <2>7, <2>9, <2>10 DEF Fresh
  <2> QED
    BY <2>6, <2>11
<1> QED
  BY <1>1, <1>3, <1>4 DEF AskStep

\* Every step of an undisturbed loop keeps to one run.
LEMMA SoloStep ==
    ASSUME SoloInv, MarginCoversCost, LifeFits, [Next]_vars
    PROVE  SoloInv'
<1>1. SpreadInv'
  BY SpreadStep DEF SoloInv
<1>2. Solo' /\ Fresh'
  <2>1. CASE Control
    BY <2>1, ControlCounts, SoloTypes DEF Solo, Fresh
  <2>2. CASE ~Control /\ stops # 0
    <3>1. stops' = stops
      <4>1. CASE Tick \/ Repeat
        BY <4>1, SampleIs, SampleRuns, SoloTypes DEF RunnerStep
      <4> QED
        BY <2>2, <4>1
        DEF Next, Deliver, DeliverRequest, DeliverAnalysis, DeliverPublished,
            DeliverFailed, DeliverCost, Prompt, Divergence, vars, plane
    <3> QED
      BY <2>2, <3>1 DEF Solo, Fresh
  <2>3. CASE stops = 0 /\ DeliverRequest
    BY <2>3, RequestSolo
  <2>4. CASE stops = 0 /\ DeliverAnalysis
    BY <2>4, AnalysisSolo
  <2>5. CASE stops = 0 /\ (DeliverPublished \/ DeliverFailed \/ DeliverCost)
    BY <2>5, NewsSolo
  <2>6. CASE stops = 0 /\ (Tick \/ Repeat)
    <3>1. PICK t \in {now, now + 1} : Sampled(t)
      BY <2>6, SampleIs, SoloTypes
    <3> QED
      BY <2>6, <3>1, OutstandingSolo, IdleSolo
  <2>7. CASE stops = 0 /\ (Prompt \/ Divergence)
    BY <2>7, AskSolo
  <2>8. CASE UNCHANGED vars
    BY <2>8
    DEF vars, schedVars, runnerVars, storeVars, plane, SoloInv, Solo, Fresh, Settled,
        Ahead, Entries
  <2> QED
    BY <2>1, <2>2, <2>3, <2>4, <2>5, <2>6, <2>7, <2>8 DEF Next, Deliver
<1> QED
  BY <1>1, <1>2 DEF SoloInv

\* No forecast stands yet, and the floor is ahead.
LEMMA SoloInit == Init => SoloInv
<1> SUFFICES ASSUME Init PROVE SoloInv
  OBVIOUS
<1>1. Entries = {1} /\ queue[1] = CostStated /\ CostStated.kind = "cost"
  BY DEF Init, Entries, CostStated
<1>2. lastRequest = None /\ inFlight = None /\ validityEnd = None /\ now = 0
  BY DEF Init, Sched!Init
<1>3. occupying = None /\ standing = None
  BY DEF Init
<1>4. Solo
  BY <1>1, <1>3 DEF Solo, Carrier
<1>5. Fresh
  BY <1>1, <1>2, <1>3, LoopAssumption DEF Fresh, Settled, Ahead
<1> QED
  BY <1>4, <1>5, SpreadInit DEF SoloInv

\* One run is under way at a time until a component is stopped, and the scheduler
\* knows which forecast stands.
THEOREM SoloInvariance ==
    ASSUME MarginCoversCost, LifeFits
    PROVE  Spec => []SoloInv
<1>1. SoloInv /\ [Next]_vars => SoloInv'
  BY SoloStep
<1> QED
  BY <1>1, SoloInit, PTL DEF Spec

\* The standing forecast is replaced before it lapses, for as long as nothing is
\* stopped, the margin covers the cost and the cadence floor fits in a forecast's
\* life (scheduler.ts:322-340, runner.ts:623).
THEOREM StandingNeverLapses ==
    ASSUME MarginCoversCost, LifeFits
    PROVE  Spec => []NeverLapses
<1>1. SoloInv => NeverLapses
  <2> SUFFICES ASSUME SoloInv, stops = 0, queue = <<>>, now > MaxInterval + Cost
               PROVE  standing # None /\ now <= standing + Lifetime
    BY DEF NeverLapses, Drained
  <2>1. Entries = {} /\ Settled
    BY DEF Entries, Settled
  <2>2. Ahead
    BY <2>1 DEF SoloInv, Fresh
  <2>3. inFlight # None => now < inFlight + Cost
    <3>1. inFlight # None => occupying # None /\ occupying.run = inFlight
      BY <2>1, SoloTypes DEF RoundInv, Carried, Undisturbed
    <3> QED
      BY <3>1, SoloTypes DEF LoopInv, Spending
  <2> QED
    BY <2>2, <2>3, SoloTypes DEF Ahead
<1> QED
  BY <1>1, SoloInvariance, PTL
=============================================================================
