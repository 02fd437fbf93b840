------------------------------ MODULE Scheduler ------------------------------
(***************************************************************************)
(* The scheduler of the backend (app/src/backend/scheduler/scheduler.ts):  *)
(* the component that turns clock samples, divergences and operator        *)
(* prompts into run requests, one outstanding at a time, no closer than    *)
(* the minimum interval and never silent for longer than the cadence       *)
(* floor.                                                                  *)
(*                                                                         *)
(* Time is the clock's tick.  A run is named by the tick it was requested  *)
(* at, which is what its identifier ("<scenario>-run-t<tick>") says, and a *)
(* published run is valid from that tick for Lifetime ticks.  Handlers run *)
(* to completion, so each is one action.  The variables asked and decided  *)
(* are the messages the action publishes; the environment (the clock, the  *)
(* runner, the monitor, the operator plane) is any sequence of messages    *)
(* about ticks the clock has reached.  Counters, wording and heartbeat     *)
(* figures are left out.                                                   *)
(***************************************************************************)
EXTENDS Integers, FiniteSets

CONSTANTS
    MinInterval,    \* config.min_interval_ticks
    MaxInterval,    \* config.max_interval_ticks, the cadence floor
    ReleaseMargin,  \* config.release_margin_ticks
    Lifetime,       \* ticks a published run is valid for
    Costs,          \* costs a runner may state
    Dial,           \* values the operator plane may tune an interval to
    MaxTick,        \* bound: the last tick of the model
    None            \* an undefined field

ASSUME SchedulerAssumption ==
    /\ MinInterval \in Nat \ {0}
    /\ MaxInterval \in Nat \ {0}
    /\ ReleaseMargin \in Nat
    /\ Lifetime \in Nat
    /\ Costs \subseteq Nat
    /\ Dial \subseteq Nat \ {0}
    /\ MaxTick \in Nat
    /\ None \notin Int

VARIABLES
    now,            \* the clock's tick, which no component keeps
    running,        \* is an instance subscribed?
    heard,          \* has this instance heard a clock sample (simTime.value # '')?
    tick,           \* simTime.tick
    paced,          \* is tickSeconds known?
    lastRequest,    \* lastRequestTick
    inFlight,       \* the outstanding run, or None
    validityEnd,    \* tick at which the standing forecast lapses, or None
    runCost,        \* runCostTicks
    reportedHolds,  \* causes whose hold has been stated
    promptHeld,     \* a held prompt is still owed an answer
    minimum,        \* tunedMinimum ?? config.min_interval_ticks
    maximum,        \* tunedMaximum ?? config.max_interval_ticks
    requested,      \* runs this instance has requested
    asked,          \* run requests published by the last step
    decided         \* decisions published by the last step

instance == <<heard, tick, paced, lastRequest, inFlight, validityEnd, runCost,
              reportedHolds, promptHeld, minimum, maximum, requested>>
vars == <<now, running, instance, asked, decided>>

Causes == {"scheduled", "operator", "divergence"}
Decisions == {"accepted", "minimum-interval", "duplicate-outstanding",
              "held-for-cost", "abandoned"}
RunRequests == [run : Nat, cause : Causes, timed : BOOLEAN]

-----------------------------------------------------------------------------
(* What a handler reads.                                                   *)

\* An unstated cost is treated as nothing, leaving the margin alone.
Threshold == (IF runCost = None THEN 0 ELSE runCost) + ReleaseMargin

\* Fault: the minimum interval read one tick short.
InsideMinimumShort(t) == lastRequest # None /\ t - lastRequest < minimum - 1

InsideMinimum(t) == lastRequest # None /\ t - lastRequest < minimum

\* holdShortfall() > 0, once the sample's pacing is known.
HeldForCost(t, p) == p /\ validityEnd # None /\ validityEnd - t > Threshold

FloorDue(t) ==
    /\ lastRequest # None => t - lastRequest >= maximum
    /\ t >= maximum

\* Faults: the watchdog a tick late, and no watchdog.
StalledLate(t) == inFlight # None /\ t - inFlight > Threshold + 1
StalledNever(t) == FALSE

Stalled(t) == inFlight # None /\ t - inFlight > Threshold

-----------------------------------------------------------------------------
(* What a handler publishes and keeps.                                     *)

Request(t, cause) ==
    /\ asked' = {[run |-> t, cause |-> cause, timed |-> heard']}
    /\ lastRequest' = t
    /\ inFlight' = t
    /\ requested' = requested \cup {t}
    /\ reportedHolds' = {}

NoRequest ==
    /\ asked' = {}
    /\ UNCHANGED <<lastRequest, requested>>

Blank ==
    /\ heard' = FALSE /\ tick' = 0 /\ paced' = FALSE
    /\ lastRequest' = None /\ inFlight' = None
    /\ validityEnd' = None /\ runCost' = None
    /\ reportedHolds' = {} /\ promptHeld' = FALSE
    /\ minimum' = MinInterval /\ maximum' = MaxInterval
    /\ requested' = {}

Silent == asked' = {} /\ decided' = {}

-----------------------------------------------------------------------------
(* A clock sample.  The order of the calls is the code's: the watchdog     *)
(* first, then the held prompt, then the cadence floor, each reading what  *)
(* the one before it left.                                                 *)

Observe(t) ==
    /\ heard' = TRUE
    /\ tick' = t
    /\ paced' = (paced \/ (heard /\ t > tick))
    /\ UNCHANGED <<validityEnd, runCost, minimum, maximum>>

Abandonment(t) == IF Stalled(t) THEN {"abandoned"} ELSE {}
Free(t) == inFlight = None \/ Stalled(t)

\* A held prompt whose headroom is spent is answered in this sample ...
PromptDue(t) == promptHeld /\ ~HeldForCost(t, paced')
\* ... by a decline when the world has moved inside the minimum interval.
PromptDeclined(t) == PromptDue(t) /\ InsideMinimum(t)

StillOutstanding(t) ==
    /\ ~Free(t)
    /\ NoRequest
    /\ decided' = {}
    /\ UNCHANGED <<inFlight, reportedHolds, promptHeld>>

ReleaseHeldPrompt(t) ==
    /\ Free(t) /\ PromptDue(t) /\ ~InsideMinimum(t)
    /\ Request(t, "operator")
    /\ promptHeld' = FALSE
    /\ decided' = Abandonment(t) \cup {"accepted"}

\* Fault: the floor considered before the held prompt.
FloorFirst(t) ==
    /\ Free(t) /\ FloorDue(t) /\ ~HeldForCost(t, paced')
    /\ Request(t, "scheduled")
    /\ promptHeld' = FALSE
    /\ decided' = Abandonment(t)

FloorRequests(t) ==
    /\ Free(t) /\ FloorDue(t) /\ ~HeldForCost(t, paced')
    /\ PromptDue(t) => InsideMinimum(t)
    /\ Request(t, "scheduled")
    /\ promptHeld' = FALSE
    /\ decided' = Abandonment(t) \cup
                  (IF PromptDeclined(t) THEN {"minimum-interval"} ELSE {})

FloorHolds(t) ==
    /\ Free(t) /\ FloorDue(t) /\ HeldForCost(t, paced')
    /\ NoRequest
    /\ inFlight' = None
    /\ reportedHolds' = reportedHolds \cup {"scheduled"}
    /\ decided' = Abandonment(t) \cup
                  (IF "scheduled" \in reportedHolds THEN {} ELSE {"held-for-cost"})
    /\ UNCHANGED promptHeld

FloorQuiet(t) ==
    /\ Free(t) /\ ~FloorDue(t)
    /\ PromptDue(t) => InsideMinimum(t)
    /\ NoRequest
    /\ inFlight' = None
    /\ reportedHolds' = IF PromptDeclined(t) THEN {} ELSE reportedHolds
    /\ promptHeld' = (promptHeld /\ ~PromptDeclined(t))
    /\ decided' = Abandonment(t) \cup
                  (IF PromptDeclined(t) THEN {"minimum-interval"} ELSE {})

ClockSample(t) ==
    /\ running
    /\ Observe(t)
    /\ \/ StillOutstanding(t)
       \/ ReleaseHeldPrompt(t)
       \/ FloorRequests(t)
       \/ FloorHolds(t)
       \/ FloorQuiet(t)

-----------------------------------------------------------------------------
(* The other subscriptions.                                                *)

HearRunCost(c) ==
    /\ running
    /\ runCost' = c
    /\ Silent
    /\ UNCHANGED <<now, running, heard, tick, paced, lastRequest, inFlight,
                   validityEnd, reportedHolds, promptHeld, minimum, maximum,
                   requested>>

HearRunFailed(r) ==
    /\ running
    /\ inFlight' = IF inFlight = r THEN None ELSE inFlight
    /\ Silent
    /\ UNCHANGED <<now, running, heard, tick, paced, lastRequest, validityEnd,
                   runCost, reportedHolds, promptHeld, minimum, maximum,
                   requested>>

\* Fault: any publication moves what the interval is measured from.
LaterOrEarlier(r) == IF paced THEN r ELSE lastRequest

\* A standing run was requested when it initialised, by whichever instance.
Later(r) == IF paced /\ (lastRequest # None => r > lastRequest)
            THEN r ELSE lastRequest

HearRunPublished(r) ==
    /\ running
    /\ inFlight' = IF inFlight = r THEN None ELSE inFlight
    /\ validityEnd' = r + Lifetime
    /\ lastRequest' = Later(r)
    /\ Silent
    /\ UNCHANGED <<now, running, heard, tick, paced, runCost, reportedHolds,
                   promptHeld, minimum, maximum, requested>>

\* The policy a prompt and a divergence share.
Decline(reason) ==
    /\ NoRequest
    /\ decided' = {reason}
    /\ UNCHANGED <<inFlight, reportedHolds, promptHeld>>

DeclineByPolicy ==
    \/ inFlight # None /\ Decline("duplicate-outstanding")
    \/ inFlight = None /\ InsideMinimum(tick) /\ Decline("minimum-interval")

Open == inFlight = None /\ ~InsideMinimum(tick)

\* Fault: a request of any cause drops the held prompt.
AcceptForgetting(cause) ==
    /\ Request(tick, cause)
    /\ decided' = {"accepted"}
    /\ promptHeld' = FALSE

Accept(cause) ==
    /\ Request(tick, cause)
    /\ decided' = {"accepted"}
    /\ UNCHANGED promptHeld

\* Fault: the reason of a hold is remembered instead of its cause.
HoldReason ==
    /\ NoRequest
    /\ promptHeld' = TRUE
    /\ reportedHolds' = reportedHolds \cup {"held-for-cost"}
    /\ decided' = {"held-for-cost"}
    /\ UNCHANGED inFlight

Hold ==
    /\ NoRequest
    /\ promptHeld' = TRUE
    /\ reportedHolds' = reportedHolds \cup {"operator"}
    /\ decided' = {"held-for-cost"}
    /\ UNCHANGED inFlight

\* A divergence is never held: the standing forecast is what it disputes.
ConsiderDivergence ==
    /\ running
    /\ UNCHANGED <<now, running, heard, tick, paced, validityEnd, runCost,
                   minimum, maximum>>
    /\ DeclineByPolicy \/ (Open /\ Accept("divergence"))

ConsiderPrompt ==
    /\ running
    /\ UNCHANGED <<now, running, heard, tick, paced, validityEnd, runCost,
                   minimum, maximum>>
    /\ \/ DeclineByPolicy
       \/ Open /\ HeldForCost(tick, paced) /\ Hold
       \/ Open /\ ~HeldForCost(tick, paced) /\ Accept("operator")

Tuning(low, high) ==
    /\ running
    /\ minimum' = low
    /\ maximum' = high
    /\ Silent
    /\ UNCHANGED <<now, running, heard, tick, paced, lastRequest, inFlight,
                   validityEnd, runCost, reportedHolds, promptHeld, requested>>

TuneMinimum(v) == Tuning(v, maximum)
TuneMaximum(v) == Tuning(minimum, v)

-----------------------------------------------------------------------------
(* The operator plane's lifecycle verbs (runtime.ts): stopping disconnects *)
(* the instance, whose memory nothing reads again; starting makes another. *)

Stop ==
    /\ running
    /\ running' = FALSE
    /\ Blank
    /\ Silent
    /\ UNCHANGED now

Start ==
    /\ ~running
    /\ running' = TRUE
    /\ Blank
    /\ Silent
    /\ UNCHANGED now

-----------------------------------------------------------------------------
(* The clock advances, or republishes its tick when its rate changes.      *)

Tick ==
    /\ now < MaxTick
    /\ now' = now + 1
    /\ UNCHANGED running
    /\ IF running THEN ClockSample(now + 1) ELSE Silent /\ UNCHANGED instance

Repeat ==
    /\ ClockSample(now)
    /\ UNCHANGED <<now, running>>

\* The runtime starts every component, then the clock, which publishes its tick
\* at once: an instance that booted with the backend has heard tick 0.
Init ==
    /\ now = 0
    /\ running = TRUE
    /\ heard = TRUE /\ tick = 0 /\ paced = FALSE
    /\ lastRequest = None /\ inFlight = None
    /\ validityEnd = None /\ runCost = None
    /\ reportedHolds = {} /\ promptHeld = FALSE
    /\ minimum = MinInterval /\ maximum = MaxInterval
    /\ requested = {}
    /\ asked = {} /\ decided = {}

Next ==
    \/ Tick
    \/ Repeat
    \/ \E c \in Costs : HearRunCost(c)
    \/ \E r \in 0..now : HearRunFailed(r)
    \/ \E r \in 0..now : HearRunPublished(r)
    \/ ConsiderDivergence
    \/ ConsiderPrompt
    \/ \E v \in Dial : TuneMinimum(v)
    \/ \E v \in Dial : TuneMaximum(v)
    \/ Stop
    \/ Start

Spec == Init /\ [][Next]_vars

-----------------------------------------------------------------------------
(* Properties.                                                             *)

\* Every field holds what its declaration says (scheduler.ts:54-119).
TypeOK ==
    /\ now \in Nat /\ running \in BOOLEAN
    /\ heard \in BOOLEAN /\ tick \in Nat /\ paced \in BOOLEAN
    /\ lastRequest \in Nat \cup {None} /\ inFlight \in Nat \cup {None}
    /\ validityEnd \in Nat \cup {None} /\ runCost \in Nat \cup {None}
    /\ reportedHolds \subseteq Causes /\ promptHeld \in BOOLEAN
    /\ minimum \in Nat \ {0} /\ maximum \in Nat \ {0}
    /\ requested \subseteq Nat
    /\ asked \subseteq RunRequests /\ decided \subseteq Decisions

\* One instance never issues one identifier twice, whatever order samples,
\* failures, publications and tunings arrive in (the claim of the comment on
\* identifierForThisTick: the outstanding-run guard and the minimum interval
\* each forbid a second request in a tick).
IdentifiersUnique == [][\A m \in asked' : m.run \notin requested]_vars

\* A divergence or a prompt never gets a run closer than the minimum interval
\* in force to ANY run this instance requested, even though the interval is
\* measured from one field that other components' announcements also move.
IntervalKept ==
    [][\A m \in asked' : m.cause # "scheduled" =>
          \A r \in requested : m.run - r >= minimum]_vars

\* The newest run this scheduler knows of: the last it asked for or measured
\* from, or the one it believes stands.
LatestRun ==
    LET asOf == IF lastRequest = None THEN 0 ELSE lastRequest
        standing == IF validityEnd = None THEN 0 ELSE validityEnd - Lifetime
    IN  IF asOf >= standing THEN asOf ELSE standing

\* The longest quiet the scheduler may leave after that run.
Quiet ==
    IF maximum >= Lifetime - Threshold THEN maximum ELSE Lifetime - Threshold

\* The loop is never becalmed (FR-31): once a sample has been handled, either
\* a run is outstanding and no older than a run's cost plus the margin, or the
\* newest run is younger than the cadence floor or the life it has to spend.
NeverBecalmed ==
    [][tick' > tick =>
         \/ inFlight' # None /\ tick' - inFlight' <= Threshold'
         \/ inFlight' = None /\ tick' - LatestRun' < Quiet']_vars

\* A held prompt is a commitment: it leaves the scheduler's memory as a run of
\* the operator's, or as a published decline, never silently and never because
\* a divergence, a tuning or another message came in between.
HeldPromptAnswered ==
    [][promptHeld /\ ~promptHeld' /\ running' =>
         \/ \E m \in asked' : m.cause = "operator"
         \/ "minimum-interval" \in decided']_vars

\* The cadence floor never takes the run a reader's held prompt is waiting for:
\* a floor run goes out only when no prompt is held, or when the prompt was
\* declined in the same sample.
FloorYieldsToPrompt ==
    [][promptHeld /\ (\E m \in asked' : m.cause = "scheduled") =>
         "minimum-interval" \in decided']_vars

\* What run.json says of the minimum interval: "No two runs closer together
\* than this".  The floor does not ask it.
NoTwoRunsCloser ==
    [][\A m \in asked' : \A r \in requested : m.run - r >= minimum]_vars

=============================================================================
