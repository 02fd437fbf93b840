--------------------------- MODULE SchedulerProofs ---------------------------
(***************************************************************************)
(* Theorems about the scheduler, for every value of its constants.  The    *)
(* inductive invariant adds to the types the fact the uniqueness of        *)
(* identifiers rests on: lastRequestTick is no earlier than any run the    *)
(* instance has requested.  Held prompts need a second one, that a stopped *)
(* scheduler holds none.                                                   *)
(***************************************************************************)
EXTENDS Scheduler, TLAPS

IInv ==
    /\ TypeOK
    /\ \A r \in requested : lastRequest # None /\ r <= lastRequest

Idle == promptHeld => running

-----------------------------------------------------------------------------

\* A request made at tick t, no earlier than lastRequestTick, keeps the types
\* and the invariant (request, scheduler.ts:615-645).
LEMMA RequestKeeps ==
    ASSUME IInv, NEW t \in Nat, NEW cause \in Causes,
           heard' \in BOOLEAN, Request(t, cause),
           lastRequest # None => lastRequest <= t
    PROVE  /\ asked' \subseteq RunRequests
           /\ lastRequest' \in Nat /\ inFlight' \in Nat
           /\ requested' \subseteq Nat /\ reportedHolds' \subseteq Causes
           /\ \A r \in requested' : lastRequest' # None /\ r <= lastRequest'
  BY SchedulerAssumption
  DEF IInv, TypeOK, Request, RunRequests, Causes

\* A clock sample at a tick the clock has reached keeps the invariant.
LEMMA SampleKeeps ==
    ASSUME IInv, NEW t \in Nat, ClockSample(t), now' \in Nat, running' \in BOOLEAN
    PROVE  IInv'
<1> USE SchedulerAssumption
<1>1. /\ heard' \in BOOLEAN /\ tick' \in Nat /\ paced' \in BOOLEAN
      /\ validityEnd' \in Nat \cup {None} /\ runCost' \in Nat \cup {None}
      /\ minimum' \in Nat \ {0} /\ maximum' \in Nat \ {0}
  BY DEF IInv, TypeOK, ClockSample, Observe
<1>2. Abandonment(t) \subseteq Decisions
  BY DEF Abandonment, Decisions
<1>3. CASE StillOutstanding(t)
  BY <1>1, <1>3 DEF IInv, TypeOK, StillOutstanding, NoRequest
<1>4. CASE ReleaseHeldPrompt(t)
  <2>1. lastRequest # None => lastRequest <= t
    BY <1>4 DEF ReleaseHeldPrompt, InsideMinimum, IInv, TypeOK
  <2>2. Request(t, "operator") /\ "operator" \in Causes
    BY <1>4 DEF ReleaseHeldPrompt, Causes
  <2>3. promptHeld' \in BOOLEAN /\ decided' \subseteq Decisions
    BY <1>2, <1>4 DEF ReleaseHeldPrompt, Decisions
  <2> QED BY <1>1, <2>1, <2>2, <2>3, RequestKeeps DEF IInv, TypeOK
<1>5. CASE FloorRequests(t)
  <2>1. lastRequest # None => lastRequest <= t
    BY <1>5 DEF FloorRequests, FloorDue, IInv, TypeOK
  <2>2. Request(t, "scheduled") /\ "scheduled" \in Causes
    BY <1>5 DEF FloorRequests, Causes
  <2>3. promptHeld' \in BOOLEAN /\ decided' \subseteq Decisions
    BY <1>2, <1>5 DEF FloorRequests, Decisions
  <2> QED BY <1>1, <2>1, <2>2, <2>3, RequestKeeps DEF IInv, TypeOK
<1>6. CASE FloorHolds(t)
  BY <1>1, <1>2, <1>6 DEF IInv, TypeOK, FloorHolds, NoRequest, Causes, Decisions
<1>7. CASE FloorQuiet(t)
  <2>1. promptHeld' \in BOOLEAN /\ decided' \subseteq Decisions
        /\ reportedHolds' \subseteq Causes
    BY <1>2, <1>7 DEF IInv, TypeOK, FloorQuiet, Decisions
  <2> QED BY <1>1, <1>7, <2>1 DEF IInv, TypeOK, FloorQuiet, NoRequest
<1> QED BY <1>3, <1>4, <1>5, <1>6, <1>7 DEF ClockSample

\* A divergence or a prompt keeps the invariant, declined, held or accepted.
LEMMA ConsiderKeeps ==
    ASSUME IInv, ConsiderDivergence \/ ConsiderPrompt
    PROVE  IInv'
<1> USE SchedulerAssumption
<1>1. /\ now' \in Nat /\ running' \in BOOLEAN
      /\ heard' \in BOOLEAN /\ tick' \in Nat /\ paced' \in BOOLEAN
      /\ validityEnd' \in Nat \cup {None} /\ runCost' \in Nat \cup {None}
      /\ minimum' \in Nat \ {0} /\ maximum' \in Nat \ {0}
  BY DEF IInv, TypeOK, ConsiderDivergence, ConsiderPrompt
<1>2. CASE DeclineByPolicy
  BY <1>1, <1>2
  DEF IInv, TypeOK, DeclineByPolicy, Decline, NoRequest, Decisions
<1>3. ASSUME NEW cause \in {"divergence", "operator"}, Open, Accept(cause)
      PROVE  IInv'
  <2>1. lastRequest # None => lastRequest <= tick
    BY <1>3 DEF Open, InsideMinimum, IInv, TypeOK
  <2>2. Request(tick, cause) /\ cause \in Causes /\ tick \in Nat
    BY <1>3 DEF Accept, Causes, IInv, TypeOK
  <2>3. promptHeld' \in BOOLEAN /\ decided' \subseteq Decisions
    BY <1>3 DEF Accept, Decisions, IInv, TypeOK
  <2> QED BY <1>1, <2>1, <2>2, <2>3, RequestKeeps DEF IInv, TypeOK
<1>4. CASE Hold
  BY <1>1, <1>4 DEF IInv, TypeOK, Hold, NoRequest, Causes, Decisions
<1> QED BY <1>2, <1>3, <1>4 DEF ConsiderDivergence, ConsiderPrompt

\* Every step of the scheduler keeps the invariant.
LEMMA StepKeeps ==
    ASSUME IInv, [Next]_vars
    PROVE  IInv'
<1> USE SchedulerAssumption
<1>1. CASE Tick
  <2>1. now + 1 \in Nat /\ now' \in Nat /\ running' \in BOOLEAN
    BY <1>1 DEF Tick, IInv, TypeOK
  <2>2. CASE running
    BY <1>1, <2>1, <2>2, SampleKeeps DEF Tick
  <2>3. CASE ~running
    BY <1>1, <2>1, <2>3 DEF Tick, Silent, instance, IInv, TypeOK
  <2> QED BY <2>2, <2>3
<1>2. CASE Repeat
  BY <1>2, SampleKeeps DEF Repeat, IInv, TypeOK
<1>3. ASSUME NEW c \in Costs, HearRunCost(c)
      PROVE  IInv'
  BY <1>3 DEF HearRunCost, Silent, IInv, TypeOK
<1>4. ASSUME NEW r \in 0..now, HearRunFailed(r)
      PROVE  IInv'
  BY <1>4 DEF HearRunFailed, Silent, IInv, TypeOK
<1>5. ASSUME NEW r \in 0..now, HearRunPublished(r)
      PROVE  IInv'
  <2>1. r \in Nat /\ r + Lifetime \in Nat
    BY DEF IInv, TypeOK
  <2>2. Later(r) \in Nat \cup {None}
    BY <2>1 DEF Later, IInv, TypeOK
  <2>3. \A q \in requested : Later(r) # None /\ q <= Later(r)
    BY <2>1 DEF Later, IInv, TypeOK
  <2> QED BY <1>5, <2>1, <2>2, <2>3 DEF HearRunPublished, Silent, IInv, TypeOK
<1>6. CASE ConsiderDivergence \/ ConsiderPrompt
  BY <1>6, ConsiderKeeps
<1>7. ASSUME NEW v \in Dial, TuneMinimum(v) \/ TuneMaximum(v)
      PROVE  IInv'
  BY <1>7 DEF TuneMinimum, TuneMaximum, Tuning, Silent, IInv, TypeOK
<1>8. CASE Stop \/ Start
  <2>1. Blank /\ Silent /\ now' = now
    BY <1>8 DEF Stop, Start
  <2>2. /\ running' \in BOOLEAN /\ heard' \in BOOLEAN
        /\ paced' \in BOOLEAN /\ promptHeld' \in BOOLEAN
    BY <1>8 DEF Stop, Start, Blank
  <2>3. MinInterval \in Nat \ {0} /\ MaxInterval \in Nat \ {0}
    OBVIOUS
  <2> QED BY <2>1, <2>2, <2>3 DEF Blank, Silent, IInv, TypeOK
<1>9. CASE UNCHANGED vars
  BY <1>9 DEF vars, instance, IInv, TypeOK
<1> QED
  BY <1>1, <1>2, <1>3, <1>4, <1>5, <1>6, <1>7, <1>8, <1>9 DEF Next

\* A scheduler that has just started remembers nothing.
LEMMA InitHolds == Init => IInv
<1> SUFFICES ASSUME Init PROVE IInv
  OBVIOUS
<1>1. /\ running \in BOOLEAN /\ heard \in BOOLEAN
      /\ paced \in BOOLEAN /\ promptHeld \in BOOLEAN
  BY DEF Init
<1> QED BY <1>1, SchedulerAssumption DEF Init, IInv, TypeOK

\* The inductive invariant holds of every behaviour.
THEOREM Invariance == Spec => []IInv
<1>1. IInv /\ [Next]_vars => IInv'
  BY StepKeeps
<1> QED BY <1>1, InitHolds, PTL DEF Spec

\* Every field keeps its type.
THEOREM TypeCorrect == Spec => []TypeOK
<1>1. IInv => TypeOK
  BY DEF IInv
<1> QED BY <1>1, Invariance, PTL

-----------------------------------------------------------------------------
(* What a request says of the requests before it.                          *)

\* A run requested on a clock sample is later than lastRequestTick, and a held
\* prompt's by the minimum interval in force.
LEMMA SampleSpacing ==
    ASSUME IInv, NEW t \in Nat, ClockSample(t), NEW m \in asked',
           lastRequest # None
    PROVE  /\ m.run \in Nat /\ m.run > lastRequest
           /\ m.cause # "scheduled" => m.run - lastRequest >= minimum
<1>1. ReleaseHeldPrompt(t) \/ FloorRequests(t)
  BY DEF ClockSample, StillOutstanding, FloorHolds, FloorQuiet, NoRequest
<1>2. CASE ReleaseHeldPrompt(t)
  <2>1. m.run = t /\ ~InsideMinimum(t)
    BY <1>2 DEF ReleaseHeldPrompt, Request
  <2> QED BY <2>1 DEF InsideMinimum, IInv, TypeOK
<1>3. CASE FloorRequests(t)
  <2>1. m.run = t /\ m.cause = "scheduled" /\ FloorDue(t)
    BY <1>3 DEF FloorRequests, Request
  <2> QED BY <2>1 DEF FloorDue, IInv, TypeOK
<1> QED BY <1>1, <1>2, <1>3

\* Every request of a step is later than lastRequestTick, and a prompt's or a
\* divergence's by the minimum interval in force.
LEMMA RequestSpacing ==
    ASSUME IInv, Next, NEW m \in asked', lastRequest # None
    PROVE  /\ m.run \in Nat /\ m.run > lastRequest
           /\ m.cause # "scheduled" => m.run - lastRequest >= minimum
<1>1. CASE Tick
  <2>1. running /\ ClockSample(now + 1) /\ now + 1 \in Nat
    BY <1>1 DEF Tick, Silent, IInv, TypeOK
  <2> QED BY <2>1, SampleSpacing
<1>2. CASE Repeat
  BY <1>2, SampleSpacing DEF Repeat, IInv, TypeOK
<1>3. CASE ConsiderDivergence \/ ConsiderPrompt
  <2>1. m.run = tick /\ ~InsideMinimum(tick)
    BY <1>3 DEF ConsiderDivergence, ConsiderPrompt, DeclineByPolicy, Decline,
                Hold, NoRequest, Open, Accept, Request
  <2> QED BY <2>1 DEF InsideMinimum, IInv, TypeOK
<1>4. CASE \/ \E c \in Costs : HearRunCost(c)
           \/ \E r \in 0..now : HearRunFailed(r) \/ HearRunPublished(r)
           \/ \E v \in Dial : TuneMinimum(v) \/ TuneMaximum(v)
           \/ Stop \/ Start
  BY <1>4 DEF HearRunCost, HearRunFailed, HearRunPublished, TuneMinimum,
              TuneMaximum, Tuning, Stop, Start, Silent
<1> QED BY <1>1, <1>2, <1>3, <1>4 DEF Next

\* No instance issues an identifier twice.
THEOREM UniqueIdentifiers == Spec => IdentifiersUnique
<1> DEFINE Fresh == \A m \in asked' : m.run \notin requested
<1>1. IInv /\ [Next]_vars => [Fresh]_vars
  <2> SUFFICES ASSUME IInv, Next, NEW m \in asked', m.run \in requested
               PROVE  FALSE
    BY DEF vars
  <2>1. lastRequest # None /\ m.run <= lastRequest
    BY DEF IInv
  <2>2. m.run > lastRequest /\ m.run \in Nat
    BY <2>1, RequestSpacing
  <2> QED BY <2>1, <2>2 DEF IInv, TypeOK
<1> QED BY <1>1, Invariance, PTL DEF Spec, IdentifiersUnique

\* A prompt or a divergence gets no run inside the minimum interval of any run
\* the instance requested.
THEOREM IntervalIsKept == Spec => IntervalKept
<1> DEFINE Kept == \A m \in asked' : m.cause # "scheduled" =>
                      \A r \in requested : m.run - r >= minimum
<1>1. IInv /\ [Next]_vars => [Kept]_vars
  <2> SUFFICES ASSUME IInv, Next, NEW m \in asked', m.cause # "scheduled",
                      NEW r \in requested
               PROVE  m.run - r >= minimum
    BY DEF vars
  <2>1. lastRequest # None /\ r <= lastRequest
    BY DEF IInv
  <2>2. m.run \in Nat /\ m.run - lastRequest >= minimum
    BY <2>1, RequestSpacing
  <2> QED BY <2>1, <2>2 DEF IInv, TypeOK
<1> QED BY <1>1, Invariance, PTL DEF Spec, IntervalKept

-----------------------------------------------------------------------------
(* The loop is never becalmed.                                             *)

\* The two ways a sample leaves nothing outstanding: the standing forecast is
\* held on to, or the cadence floor is not due.
LEMMA HeldGap ==
    ASSUME NEW t \in Nat, NEW end \in Nat, NEW life \in Nat, NEW cost \in Nat,
           NEW latest \in Int, NEW quiet \in Int,
           end - t > cost, latest >= end - life, quiet >= life - cost
    PROVE  t - latest < quiet
  OBVIOUS

\* A floor counted from a later instant is reached no sooner.
LEMMA FloorGap ==
    ASSUME NEW t \in Nat, NEW floor \in Nat, NEW since \in Nat,
           NEW latest \in Int, NEW quiet \in Int,
           t - since < floor, latest >= since, quiet >= floor
    PROVE  t - latest < quiet
  OBVIOUS

\* After a sample a run is outstanding and in time, or the floor is still ahead.
LEMMA SampleAnswers ==
    ASSUME IInv, NEW t \in Nat, ClockSample(t)
    PROVE  \/ inFlight' # None /\ tick' - inFlight' <= Threshold'
           \/ inFlight' = None /\ tick' - LatestRun' < Quiet'
<1> USE SchedulerAssumption
<1>1. /\ tick' = t /\ runCost' = runCost /\ maximum' = maximum
      /\ validityEnd' = validityEnd
  BY DEF ClockSample, Observe
<1>2. Threshold' = Threshold /\ Threshold \in Nat
  BY <1>1 DEF Threshold, IInv, TypeOK
<1>3. CASE StillOutstanding(t)
  <2>1. inFlight' = inFlight /\ inFlight # None /\ ~(t - inFlight > Threshold)
    BY <1>3 DEF StillOutstanding, Free, Stalled
  <2>2. inFlight \in Nat
    BY <2>1 DEF IInv, TypeOK
  <2>3. t - inFlight <= Threshold
    BY <1>2, <2>1, <2>2
  <2> QED BY <1>1, <1>2, <2>1, <2>3
<1>4. CASE ReleaseHeldPrompt(t) \/ FloorRequests(t)
  <2>1. inFlight' = t
    BY <1>4 DEF ReleaseHeldPrompt, FloorRequests, Request
  <2> QED BY <1>1, <1>2, <2>1
<1>5. CASE FloorHolds(t)
  <2>1. /\ inFlight' = None /\ lastRequest' = lastRequest
        /\ validityEnd # None /\ validityEnd - t > Threshold
    BY <1>5 DEF FloorHolds, HeldForCost, NoRequest
  <2>2. LatestRun' >= validityEnd - Lifetime /\ LatestRun' \in Int
    BY <1>1, <2>1 DEF LatestRun, IInv, TypeOK
  <2>3. Quiet' >= Lifetime - Threshold /\ Quiet' \in Int
    BY <1>1, <1>2 DEF Quiet, IInv, TypeOK
  <2>4. validityEnd \in Nat
    BY <2>1 DEF IInv, TypeOK
  <2>5. t - LatestRun' < Quiet'
    BY <1>2, <2>1, <2>2, <2>3, <2>4, HeldGap
  <2> QED BY <1>1, <2>1, <2>5
<1>6. CASE FloorQuiet(t)
  <2>1. /\ inFlight' = None /\ lastRequest' = lastRequest
        /\ (lastRequest # None /\ t - lastRequest < maximum) \/ t < maximum
    BY <1>6 DEF FloorQuiet, FloorDue, NoRequest, IInv, TypeOK
  <2>2. /\ LatestRun' \in Int /\ LatestRun' >= 0
        /\ lastRequest # None => LatestRun' >= lastRequest
    BY <1>1, <2>1 DEF LatestRun, IInv, TypeOK
  <2>3. Quiet' >= maximum /\ Quiet' \in Int
    BY <1>1, <1>2 DEF Quiet, IInv, TypeOK
  <2>4. maximum \in Nat /\ (lastRequest # None => lastRequest \in Nat)
    BY DEF IInv, TypeOK
  <2>5. t - LatestRun' < Quiet'
    <3>1. CASE lastRequest # None /\ t - lastRequest < maximum
      <4>1. lastRequest \in Nat /\ LatestRun' >= lastRequest
        BY <2>2, <2>4, <3>1
      <4> QED BY <2>2, <2>3, <2>4, <3>1, <4>1, FloorGap
    <3>2. CASE t < maximum
      <4>1. t - 0 < maximum /\ 0 \in Nat /\ LatestRun' >= 0
        BY <2>2, <2>4, <3>2
      <4> QED BY <2>2, <2>3, <2>4, <4>1, FloorGap
    <3> QED BY <2>1, <3>1, <3>2
  <2> QED BY <1>1, <2>1, <2>5
<1> QED BY <1>3, <1>4, <1>5, <1>6 DEF ClockSample

\* FR-31, for every interval, cost, margin and lifetime.
THEOREM LoopNotBecalmed == Spec => NeverBecalmed
<1> DEFINE Answered ==
             tick' > tick =>
               \/ inFlight' # None /\ tick' - inFlight' <= Threshold'
               \/ inFlight' = None /\ tick' - LatestRun' < Quiet'
<1>1. IInv /\ [Next]_vars => [Answered]_vars
  <2> SUFFICES ASSUME IInv, Next PROVE Answered
    BY DEF vars
  <2>1. CASE Tick
    <3>1. CASE running
      BY <2>1, <3>1, SampleAnswers DEF Tick, IInv, TypeOK
    <3>2. CASE ~running
      BY <2>1, <3>2 DEF Tick, instance, IInv, TypeOK
    <3> QED BY <3>1, <3>2
  <2>2. CASE Repeat
    BY <2>2, SampleAnswers DEF Repeat, IInv, TypeOK
  <2>3. CASE Stop \/ Start
    BY <2>3 DEF Stop, Start, Blank, IInv, TypeOK
  <2>4. CASE \/ \E c \in Costs : HearRunCost(c)
             \/ \E r \in 0..now : HearRunFailed(r) \/ HearRunPublished(r)
             \/ \E v \in Dial : TuneMinimum(v) \/ TuneMaximum(v)
             \/ ConsiderDivergence \/ ConsiderPrompt
    <3>1. tick' = tick
      BY <2>4 DEF HearRunCost, HearRunFailed, HearRunPublished, TuneMinimum,
                  TuneMaximum, Tuning, ConsiderDivergence, ConsiderPrompt
    <3> QED BY <3>1 DEF IInv, TypeOK
  <2> QED BY <2>1, <2>2, <2>3, <2>4 DEF Next
<1> QED BY <1>1, Invariance, PTL DEF Spec, NeverBecalmed

-----------------------------------------------------------------------------
(* Held prompts.                                                           *)

\* A stopped scheduler holds no prompt.
LEMMA StoppedHoldsNone == Spec => []Idle
<1>1. Init => Idle
  BY DEF Init, Idle
<1>2. Idle /\ [Next]_vars => Idle'
  <2> SUFFICES ASSUME Idle, [Next]_vars PROVE Idle'
    OBVIOUS
  <2>1. CASE Tick \/ Repeat
    BY <2>1 DEF Tick, Repeat, ClockSample, Silent, instance, Idle
  <2>2. CASE ConsiderDivergence \/ ConsiderPrompt
    BY <2>2 DEF ConsiderDivergence, ConsiderPrompt, Idle
  <2>3. CASE Stop \/ Start
    BY <2>3 DEF Stop, Start, Blank, Idle
  <2>4. CASE \/ \E c \in Costs : HearRunCost(c)
             \/ \E r \in 0..now : HearRunFailed(r) \/ HearRunPublished(r)
             \/ \E v \in Dial : TuneMinimum(v) \/ TuneMaximum(v)
    BY <2>4 DEF HearRunCost, HearRunFailed, HearRunPublished, TuneMinimum,
                TuneMaximum, Tuning, Idle
  <2>5. CASE UNCHANGED vars
    BY <2>5 DEF vars, instance, Idle
  <2> QED BY <2>1, <2>2, <2>3, <2>4, <2>5 DEF Next
<1> QED BY <1>1, <1>2, PTL DEF Spec

\* A sample that forgets a held prompt has answered it.
LEMMA SampleKeepsPrompt ==
    ASSUME IInv, NEW t \in Nat, ClockSample(t), promptHeld, ~promptHeld'
    PROVE  \/ \E m \in asked' : m.cause = "operator"
           \/ "minimum-interval" \in decided'
<1>1. ~StillOutstanding(t) /\ ~FloorHolds(t)
  BY DEF StillOutstanding, FloorHolds
<1>2. CASE ReleaseHeldPrompt(t)
  BY <1>2 DEF ReleaseHeldPrompt, Request
<1>3. CASE FloorRequests(t)
  <2>1. PromptDeclined(t)
    BY <1>3 DEF FloorRequests, PromptDeclined, PromptDue
  <2> QED BY <1>3, <2>1 DEF FloorRequests
<1>4. CASE FloorQuiet(t)
  <2>1. PromptDeclined(t)
    BY <1>4 DEF FloorQuiet
  <2> QED BY <1>4, <2>1 DEF FloorQuiet
<1> QED BY <1>1, <1>2, <1>3, <1>4 DEF ClockSample

\* A held prompt ends as a run of the operator's or as a published decline.
THEOREM HeldPromptsAnswered == Spec => HeldPromptAnswered
<1> DEFINE Answered == promptHeld /\ ~promptHeld' /\ running' =>
                         \/ \E m \in asked' : m.cause = "operator"
                         \/ "minimum-interval" \in decided'
<1>1. IInv /\ Idle /\ [Next]_vars => [Answered]_vars
  <2> SUFFICES ASSUME IInv, Idle, Next, promptHeld, ~promptHeld', running'
               PROVE  \/ \E m \in asked' : m.cause = "operator"
                      \/ "minimum-interval" \in decided'
    BY DEF vars
  <2>1. CASE Tick
    <3>1. running /\ ClockSample(now + 1) /\ now + 1 \in Nat
      BY <2>1 DEF Tick, IInv, TypeOK
    <3> QED BY <3>1, SampleKeepsPrompt
  <2>2. CASE Repeat
    BY <2>2, SampleKeepsPrompt DEF Repeat, IInv, TypeOK
  <2>3. CASE Start
    BY <2>3 DEF Start, Idle
  <2>4. CASE ConsiderDivergence \/ ConsiderPrompt
    BY <2>4 DEF ConsiderDivergence, ConsiderPrompt, DeclineByPolicy, Decline,
                Hold, Accept
  <2>5. CASE \/ \E c \in Costs : HearRunCost(c)
             \/ \E r \in 0..now : HearRunFailed(r) \/ HearRunPublished(r)
             \/ \E v \in Dial : TuneMinimum(v) \/ TuneMaximum(v)
             \/ Stop
    BY <2>5 DEF HearRunCost, HearRunFailed, HearRunPublished, TuneMinimum,
                TuneMaximum, Tuning, Stop
  <2> QED BY <2>1, <2>2, <2>3, <2>4, <2>5 DEF Next
<1> QED BY <1>1, Invariance, StoppedHoldsNone, PTL DEF Spec, HeldPromptAnswered

\* No floor run goes out over a held prompt.
THEOREM FloorYields == Spec => FloorYieldsToPrompt
<1> DEFINE Yields == promptHeld /\ (\E m \in asked' : m.cause = "scheduled") =>
                       "minimum-interval" \in decided'
<1>1. ASSUME NEW t \in Nat, ClockSample(t), promptHeld,
             NEW m \in asked', m.cause = "scheduled"
      PROVE  "minimum-interval" \in decided'
  <2>1. FloorRequests(t)
    <3>1. ~StillOutstanding(t) /\ ~FloorHolds(t) /\ ~FloorQuiet(t)
      BY <1>1 DEF StillOutstanding, FloorHolds, FloorQuiet, NoRequest
    <3>2. ~ReleaseHeldPrompt(t)
      BY <1>1 DEF ReleaseHeldPrompt, Request
    <3> QED BY <1>1, <3>1, <3>2 DEF ClockSample
  <2>2. PromptDeclined(t)
    BY <1>1, <2>1 DEF FloorRequests, PromptDeclined, PromptDue
  <2> QED BY <2>1, <2>2 DEF FloorRequests
<1>2. IInv /\ [Next]_vars => [Yields]_vars
  <2> SUFFICES ASSUME IInv, Next, promptHeld,
                      NEW m \in asked', m.cause = "scheduled"
               PROVE  "minimum-interval" \in decided'
    BY DEF vars
  <2>1. CASE Tick
    <3>1. running /\ ClockSample(now + 1)
      BY <2>1 DEF Tick, Silent
    <3>2. now + 1 \in Nat
      BY DEF IInv, TypeOK
    <3> QED BY <1>1, <3>1, <3>2
  <2>2. CASE Repeat
    <3>1. now \in Nat
      BY DEF IInv, TypeOK
    <3> QED BY <1>1, <2>2, <3>1 DEF Repeat
  <2>3. CASE ConsiderDivergence \/ ConsiderPrompt
    <3>1. PICK cause \in {"divergence", "operator"} : Request(tick, cause)
      BY <2>3 DEF ConsiderDivergence, ConsiderPrompt, DeclineByPolicy, Decline,
                  Hold, Accept, NoRequest
    <3>2. m.cause = cause
      BY <3>1 DEF Request
    <3> QED BY <3>1, <3>2
  <2>4. CASE \/ \E c \in Costs : HearRunCost(c)
             \/ \E r \in 0..now : HearRunFailed(r) \/ HearRunPublished(r)
             \/ \E v \in Dial : TuneMinimum(v) \/ TuneMaximum(v)
             \/ Stop \/ Start
    BY <2>4 DEF HearRunCost, HearRunFailed, HearRunPublished, TuneMinimum,
                TuneMaximum, Tuning, Stop, Start, Silent
  <2> QED BY <2>1, <2>2, <2>3, <2>4 DEF Next
<1> QED BY <1>2, Invariance, PTL DEF Spec, FloorYieldsToPrompt

=============================================================================
