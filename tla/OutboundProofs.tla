--------------------------- MODULE OutboundProofs ---------------------------
(***************************************************************************)
(* Theorems about what leaves the loop, for every cadence, staging bound   *)
(* and length of run, and however often a component is prompted, stopped   *)
(* and started.                                                            *)
(***************************************************************************)
EXTENDS Outbound, SequenceTheorems, FiniteSetTheorems, TLAPS

-----------------------------------------------------------------------------
(* The inductive invariant.                                                *)

Messages ==
    [kind : {"published"}, run : Runs, tick : Nat]
      \cup [kind : {"row"}, tick : Nat]
      \cup [kind : {"scored"}, run : Runs]
      \cup [kind : {"advisory"}, number : Nat]

Entries == DOMAIN queue
Is(i, kind) == queue[i].kind = kind

MoreTypes ==
    /\ queue \in Seq(Messages) /\ scored \in [Runs -> Nat]
    /\ packagerUp \in BOOLEAN /\ runnerUp \in BOOLEAN /\ resumed \in BOOLEAN
    /\ runnerLast \in BOOLEAN /\ sourceUp \in BOOLEAN /\ sourceHeard \in BOOLEAN

\* The run noted last is the latest one bundled, and stands or has stood.
Kept ==
    /\ ~packagerUp => /\ packagerTick = 0 /\ intervalStart = 0
                      /\ stagedFor = None /\ bundles = <<>>
    /\ \A n \in DOMAIN bundles : stagedFor # None /\ bundles[n].run <= stagedFor
    /\ stagedFor # None => standing # None /\ stagedFor <= standing

\* The interval under way begins where the bundles end, at every moment.
Divided ==
    /\ \A t \in rows :
          t < intervalStart <=> \E n \in DOMAIN bundles : t \in bundles[n].measured
    /\ \A n \in DOMAIN bundles : bundles[n].measured \subseteq rows
    /\ \A m, n \in DOMAIN bundles :
          m # n => bundles[m].measured \cap bundles[n].measured = {}

\* A runner that restates hears a sample after telemetry.
Restated == runnerUp /\ ~resumed => runnerLast

\* The scores published and not yet heard.
Unheard == IF \E i \in Entries : Is(i, "scored") THEN 1 ELSE 0

\* An announcement waiting is of a run no earlier than the one bundled last, and
\* telemetry has heard no score of it but where it is the run it keeps; a second one
\* is the release.
Announced ==
    /\ \A i \in Entries : Is(i, "published") =>
          /\ queue[i].run \in Runs /\ queue[i].tick \in 0..now
          /\ standing # None /\ queue[i].run <= standing
          /\ packagerUp => packagerTick = now
          /\ stagedFor # None => stagedFor <= queue[i].run
          /\ queue[i].run # forecastRun =>
                scored[queue[i].run] = IF queue[i].run = standing THEN Unheard ELSE 0
          /\ queue[i].run # standing => forecastRun # standing
    /\ \A i, j \in Entries : Is(i, "published") /\ Is(j, "published") /\ i < j =>
          queue[j].run = standing /\ scored[standing] = Unheard

\* A sample's measurement or its score waits, never both: the measurement anywhere in
\* the queue, for the sensors may speak before the runner or after it, the score behind
\* every announcement.
Measuring(i) == Is(i, "row") \/ Is(i, "scored")

Measurement ==
    /\ \A i, j \in Entries : Measuring(i) /\ Measuring(j) => i = j
    /\ \A i \in Entries :
          /\ Is(i, "row") => queue[i].tick = now
          /\ Is(i, "scored") => i = Len(queue) /\ standing # None /\ queue[i].run = standing

\* What is scored is in the ledger or on its way to it.
Scores ==
    /\ \A r \in Runs : standing = None \/ r > standing => scored[r] = 0
    /\ forecastRun # None => standing # None /\ forecastRun <= standing
    /\ forecastRun = None => ledger = <<>>
    /\ \A n \in DOMAIN ledger : ledger[n] = forecastRun
    /\ forecastRun # None =>
          scored[forecastRun] =
              Len(ledger) + (IF forecastRun = standing THEN Unheard ELSE 0)
    /\ standing # None /\ forecastRun # standing => scored[standing] = Unheard

\* What the store holds, and the number on its way to it.
AsFar(k) ==
    /\ advisories = 0..(k - 1)
    /\ \A i, j \in Entries : Is(i, "advisory") /\ Is(j, "advisory") => i = j
    /\ \A i \in Entries : Is(i, "advisory") =>
          /\ queue[i].number \in 0..k /\ sequence = queue[i].number + 1
          /\ stops = 0 => queue[i].number = k
    /\ (\A i \in Entries : ~Is(i, "advisory")) =>
          sequence <= k /\ (stops = 0 => sequence = k)

Sequenced == \E k \in Nat : AsFar(k)

IInv ==
    /\ OutboundTypeOK /\ MoreTypes /\ Kept /\ Divided /\ Restated
    /\ Announced /\ Measurement /\ Scores /\ Sequenced

-----------------------------------------------------------------------------
(* Sequences and messages.                                                 *)

\* A message that is published or not.
LEMMA AtMostOne ==
    ASSUME NEW P \in BOOLEAN, NEW m \in Messages
    PROVE  /\ Only(P, m) \in Seq(Messages)
           /\ Len(Only(P, m)) = IF P THEN 1 ELSE 0
           /\ DOMAIN Only(P, m) = IF P THEN {1} ELSE {}
           /\ P => Only(P, m)[1] = m
  BY DEF Only

\* What two sequences make together.
Joins(a, b, q) ==
    /\ Len(a) \in Nat /\ Len(b) \in Nat
    /\ DOMAIN a = 1..Len(a) /\ DOMAIN b = 1..Len(b)
    /\ Len(q) = Len(a) + Len(b) /\ DOMAIN q = 1..(Len(a) + Len(b))
    /\ \A i \in DOMAIN a : i \in DOMAIN q /\ q[i] = a[i]
    /\ \A i \in DOMAIN b : Len(a) + i \in DOMAIN q /\ q[Len(a) + i] = b[i]
    /\ \A i \in DOMAIN q : \/ i \in DOMAIN a
                           \/ i - Len(a) \in DOMAIN b /\ q[i] = b[i - Len(a)]

\* A concatenation is the join of its parts.
LEMMA ConcatEntries ==
    ASSUME NEW S, NEW a \in Seq(S), NEW b \in Seq(S)
    PROVE  a \o b \in Seq(S) /\ Joins(a, b, a \o b)
<1>1. /\ Len(a) \in Nat /\ Len(b) \in Nat
      /\ DOMAIN a = 1..Len(a) /\ DOMAIN b = 1..Len(b)
  BY LenProperties
<1>2. /\ a \o b \in Seq(S) /\ Len(a \o b) = Len(a) + Len(b)
      /\ \A i \in 1..(Len(a) + Len(b)) :
            (a \o b)[i] = IF i <= Len(a) THEN a[i] ELSE b[i - Len(a)]
  BY ConcatProperties
<1>3. DOMAIN (a \o b) = 1..(Len(a) + Len(b))
  BY <1>2, LenProperties
<1> QED
  BY <1>1, <1>2, <1>3 DEF Joins

\* Places in a sequence that loses its first entry.
LEMMA OneFewer ==
    ASSUME NEW L \in Nat \ {0}
    PROVE  /\ \A i \in 1..(L - 1) :
                 i \in Nat /\ i + 1 \in 1..L /\ i + 1 # 1 /\ (i + 1 = L => i = L - 1)
           /\ \A i \in 1..L : i # 1 => i - 1 \in 1..(L - 1) /\ (i - 1) + 1 = i
  OBVIOUS

\* What is left of the queue once its first message was delivered.
LEMMA Pop ==
    ASSUME queue \in Seq(Messages), queue # <<>>, queue' = Tail(queue)
    PROVE  /\ queue' \in Seq(Messages)
           /\ Len(queue) \in Nat \ {0} /\ Entries = 1..Len(queue) /\ 1 \in Entries
           /\ Head(queue) = queue[1] /\ Len(queue') = Len(queue) - 1
           /\ Entries' = 1..(Len(queue) - 1)
           /\ \A i \in Entries' : i + 1 \in Entries /\ queue'[i] = queue[i + 1]
<1>1. Len(queue) \in Nat \ {0} /\ Entries = 1..Len(queue) /\ Head(queue) = queue[1]
  BY EmptySeq, LenProperties, HeadTailProperties DEF Entries
<1>2. /\ queue' \in Seq(Messages) /\ Len(queue') = Len(queue) - 1
      /\ \A i \in 1..(Len(queue) - 1) : queue'[i] = queue[i + 1]
  BY <1>1, HeadTailProperties
<1>3. Entries' = 1..Len(queue')
  BY <1>2, LenProperties DEF Entries
<1> QED
  BY <1>1, <1>2, <1>3

\* The message delivered next.
LEMMA First ==
    ASSUME queue \in Seq(Messages), queue # <<>>
    PROVE  /\ Len(queue) \in Nat \ {0} /\ Entries = 1..Len(queue) /\ 1 \in Entries
           /\ Head(queue) = queue[1]
  BY EmptySeq, LenProperties, HeadTailProperties DEF Entries

-----------------------------------------------------------------------------
(* The packager.                                                           *)

\* A field more.
LEMMA OneMoreField ==
    ASSUME NEW n \in Nat
    PROVE  FieldBytes * (n + 1) = FieldBytes * n + FieldBytes /\ FieldBytes * n \in Nat
  BY OutboundAssumption

PackagerTypes ==
    /\ intervalStart \in 0..packagerTick
    /\ stagedFor \in Runs \cup {None}
    /\ bundles \in Seq(Bundles) /\ declined \in Nat /\ producing \in BOOLEAN
    /\ Bytes < Bound + FieldBytes /\ (Bytes >= Bound => ~producing)

\* A decline keeps what is staged; a bundle is the last one and of this run.
BundledOrNot(run) ==
    \/ bundles' = bundles /\ stagedFor' = stagedFor /\ intervalStart' = intervalStart
    \/ /\ stagedFor' = run
       /\ \A n \in DOMAIN bundles' :
             bundles'[n].run = run \/ (n \in DOMAIN bundles /\ bundles'[n] = bundles[n])

\* A staging keeps the bytes bounded and the measurements divided.
LEMMA StageKeeps ==
    ASSUME IInv, NEW run \in Runs, NEW upto \in 0..packagerTick, Stage(run, upto),
           UNCHANGED <<rows, packagerTick>>
    PROVE  PackagerTypes' /\ Divided' /\ BundledOrNot(run)
<1>1. /\ PackagerTypes /\ Divided /\ packagerTick \in Nat
      /\ rows \subseteq Ticks /\ rows \subseteq Nat
      /\ Len(bundles) \in Nat /\ DOMAIN bundles = 1..Len(bundles)
      /\ FieldBytes \in Nat \ {0} /\ Bound \in Nat \ {0}
  <2>1. now \in 0..MaxTick /\ packagerTick \in 0..now /\ rows \subseteq 0..now
    BY DEF IInv, OutboundTypeOK, Ticks
  <2> QED
    BY <2>1, LenProperties, OutboundAssumption
    DEF IInv, OutboundTypeOK, PackagerTypes, Ticks
<1>2. CASE Decline
  BY <1>1, <1>2 DEF Decline, PackagerTypes, Divided, BundledOrNot, Bytes
<1>3. CASE ~Decline
  <2> DEFINE b == [run |-> run, index |-> Len(bundles) + declined,
                   measured |-> Measured(upto)]
  <2>1. /\ ~AtBound /\ Measured(upto) # {} /\ stagedFor' = run
        /\ bundles' = Append(bundles, b) /\ intervalStart' = upto
        /\ producing' = (Bytes + FieldBytes < Bound) /\ declined' = declined
    BY <1>3 DEF Stage, Bundle
  <2>2. b \in Bundles
    <3>1. Measured(upto) \in SUBSET Ticks
      BY <1>1 DEF Measured
    <3>2. Len(bundles) + declined \in Nat
      BY <1>1 DEF PackagerTypes
    <3> QED
      BY <3>1, <3>2 DEF Bundles
  <2>3. b.run = run /\ b.measured = {t \in rows : t >= intervalStart /\ t < upto}
    BY DEF Measured
  <2> HIDE DEF b
  <2>4. /\ bundles' \in Seq(Bundles) /\ Len(bundles') = Len(bundles) + 1
        /\ bundles'[Len(bundles) + 1] = b
        /\ \A n \in DOMAIN bundles : bundles'[n] = bundles[n]
        /\ DOMAIN bundles' = 1..(Len(bundles) + 1)
    <3>1. /\ bundles' \in Seq(Bundles) /\ Len(bundles') = Len(bundles) + 1
          /\ bundles'[Len(bundles) + 1] = b
          /\ \A n \in 1..Len(bundles) : bundles'[n] = bundles[n]
      BY <1>1, <2>1, <2>2, AppendProperties DEF PackagerTypes
    <3> QED
      BY <1>1, <3>1, LenProperties
  <2>5. \A n \in DOMAIN bundles' :
           \/ n \in DOMAIN bundles /\ bundles'[n] = bundles[n]
           \/ n = Len(bundles) + 1 /\ bundles'[n] = b
    BY <1>1, <2>4
  <2>6. intervalStart < upto /\ intervalStart \in Nat /\ upto \in Nat
    <3>1. PICK t \in rows : t >= intervalStart /\ t < upto
      BY <2>1 DEF Measured
    <3>2. t \in Nat /\ intervalStart \in Nat /\ upto \in Nat
      BY <1>1 DEF PackagerTypes
    <3> QED
      BY <3>1, <3>2
  <2>7. PackagerTypes'
    <3>1. Bytes' = Bytes + FieldBytes /\ Bytes \in Nat
      BY <1>1, <2>4, OneMoreField DEF Bytes
    <3>2. Bytes < Bound
      BY <1>1, <2>1, <3>1 DEF AtBound
    <3>3. Bytes' < Bound + FieldBytes
      BY <1>1, <3>1, <3>2
    <3>4. Bytes' >= Bound => ~(Bytes + FieldBytes < Bound)
      BY <1>1, <3>1
    <3>5. intervalStart' \in 0..packagerTick' /\ stagedFor' \in Runs \cup {None}
      BY <2>1
    <3>6. bundles' \in Seq(Bundles) /\ declined' \in Nat
      BY <1>1, <2>1, <2>4 DEF PackagerTypes
    <3>7. producing' \in BOOLEAN /\ (Bytes' >= Bound => ~producing')
      <4> DEFINE room == Bytes + FieldBytes < Bound
      <4>1. producing' = room /\ room \in BOOLEAN /\ (Bytes' >= Bound => ~room)
        BY <2>1, <3>4
      <4> HIDE DEF room
      <4> QED
        BY <4>1
    <3> QED
      BY <3>3, <3>5, <3>6, <3>7 DEF PackagerTypes
  <2>8. Divided'
    <3>1. ASSUME NEW t \in rows
          PROVE  t < upto <=> \E n \in DOMAIN bundles' : t \in bundles'[n].measured
      <4>1. t \in b.measured <=> t >= intervalStart /\ t < upto
        BY <2>3
      <4>2. t < intervalStart <=> \E n \in DOMAIN bundles : t \in bundles[n].measured
        BY <1>1 DEF Divided
      <4>3. (\E n \in DOMAIN bundles' : t \in bundles'[n].measured)
               <=> t \in b.measured \/ \E n \in DOMAIN bundles : t \in bundles[n].measured
        BY <1>1, <2>4, <2>5
      <4>4. t \in Nat
        BY <1>1
      <4> QED
        BY <2>6, <4>1, <4>2, <4>3, <4>4
    <3>2. \A n \in DOMAIN bundles' : bundles'[n].measured \subseteq rows
      BY <1>1, <2>3, <2>5 DEF Divided
    <3>3. \A n \in DOMAIN bundles : b.measured \cap bundles[n].measured = {}
      <4> SUFFICES ASSUME NEW n \in DOMAIN bundles, NEW t \in b.measured,
                          t \in bundles[n].measured
                   PROVE  FALSE
        OBVIOUS
      <4>1. t \in rows /\ t >= intervalStart
        BY <2>3
      <4>2. t < intervalStart
        BY <1>1, <4>1 DEF Divided
      <4>3. t \in Nat
        BY <1>1, <4>1
      <4> QED
        BY <2>6, <4>1, <4>2, <4>3
    <3>4. \A m, n \in DOMAIN bundles' :
             m # n => bundles'[m].measured \cap bundles'[n].measured = {}
      BY <1>1, <2>5, <3>3 DEF Divided
    <3> QED
      BY <2>1, <3>1, <3>2, <3>4 DEF Divided
  <2>9. BundledOrNot(run)
    BY <2>1, <2>3, <2>5 DEF BundledOrNot
  <2> QED
    BY <2>7, <2>8, <2>9
<1> QED
  BY <1>2, <1>3

-----------------------------------------------------------------------------
(* Deliveries.                                                             *)

\* The types the arithmetic of this module needs.
LEMMA Types ==
    ASSUME IInv
    PROVE  /\ now \in 0..MaxTick /\ now \in Nat /\ MaxTick \in Nat
           /\ standing \in Runs \cup {None} /\ forecastRun \in Runs \cup {None}
           /\ stagedFor \in Runs \cup {None} /\ Runs \subseteq Nat /\ None \notin Nat
           /\ dated \in 0..now /\ packagerTick \in 0..now /\ rows \subseteq 0..now
           /\ queue \in Seq(Messages) /\ scored \in [Runs -> Nat]
           /\ ledger \in Seq(Runs) /\ Len(ledger) \in Nat
           /\ DOMAIN ledger = 1..Len(ledger)
           /\ sequence \in Nat /\ stops \in Nat /\ Unheard \in Nat
           /\ PackagerTypes
<1>1. /\ now \in 0..MaxTick /\ now \in Nat /\ MaxTick \in Nat
      /\ Runs \subseteq Nat /\ None \notin Nat
  BY OutboundAssumption DEF IInv, OutboundTypeOK, Ticks, Runs
<1>2. ledger \in Seq(Runs) /\ Len(ledger) \in Nat /\ DOMAIN ledger = 1..Len(ledger)
  BY LenProperties DEF IInv, OutboundTypeOK
<1>3. stops \in Nat /\ Unheard \in Nat
  BY OutboundAssumption DEF IInv, OutboundTypeOK, Unheard
<1> QED
  BY <1>1, <1>2, <1>3 DEF IInv, OutboundTypeOK, MoreTypes, PackagerTypes

\* What is waiting moves up, and what is said meanwhile is no advisory.
MovesUp ==
    /\ \A i \in Entries : i # 1 => i - 1 \in Entries' /\ queue'[i - 1] = queue[i]
    /\ \A i \in Entries' : \/ i + 1 \in Entries /\ queue'[i] = queue[i + 1]
                           \/ ~Is(i, "advisory")'

\* A delivery of anything but an advisory leaves the advisories' order alone.
LEMMA AdvisoriesWait ==
    ASSUME IInv, queue # <<>>, Head(queue).kind # "advisory", MovesUp,
           Entries' \subseteq Nat, UNCHANGED <<advisories, sequence, stops>>
    PROVE  Sequenced'
<1>1. PICK k \in Nat : AsFar(k)
  BY DEF IInv, Sequenced
<1>2. queue \in Seq(Messages) /\ 1 \in Entries /\ Head(queue) = queue[1]
      /\ Entries = 1..Len(queue) /\ Len(queue) \in Nat
  BY First, Types
<1>3. ASSUME NEW i \in Entries', Is(i, "advisory")'
      PROVE  i + 1 \in Entries /\ Is(i + 1, "advisory") /\ queue'[i] = queue[i + 1]
  BY <1>3 DEF MovesUp, Is
<1>4. ASSUME NEW i \in Entries, Is(i, "advisory")
      PROVE  \E j \in Entries' : Is(j, "advisory")'
  <2>1. i # 1
    BY <1>2, <1>4 DEF Is
  <2>2. i - 1 \in Entries' /\ queue'[i - 1] = queue[i]
    BY <2>1 DEF MovesUp
  <2> QED
    BY <1>4, <2>2 DEF Is
<1>5. ASSUME NEW i \in Entries', NEW j \in Entries', Is(i, "advisory")', Is(j, "advisory")'
      PROVE  i = j
  <2>1. i + 1 = j + 1
    BY <1>1, <1>3, <1>5 DEF AsFar
  <2>2. i \in Nat /\ j \in Nat
    OBVIOUS
  <2> QED
    BY <2>1, <2>2
<1>6. AsFar(k)'
  BY <1>1, <1>3, <1>4, <1>5 DEF AsFar
<1> QED
  BY <1>6 DEF Sequenced

\* A delivery with nothing said: what is waiting moves up.
LEMMA Popped ==
    ASSUME IInv, queue # <<>>, queue' = Tail(queue)
    PROVE  MovesUp /\ Entries' \subseteq Nat
<1>1. /\ Len(queue) \in Nat \ {0} /\ Entries = 1..Len(queue)
      /\ Entries' = 1..(Len(queue) - 1)
      /\ \A i \in Entries' : i + 1 \in Entries /\ queue'[i] = queue[i + 1]
  BY Pop, Types
<1>2. \A i \in Entries : i # 1 => i - 1 \in Entries' /\ (i - 1) + 1 = i
  BY <1>1
<1> QED
  BY <1>1, <1>2 DEF MovesUp

\* The measurement or its score goes on waiting while something else is delivered.
LEMMA MeasurementWaits ==
    ASSUME IInv, queue # <<>>, queue' = Tail(queue), Head(queue).kind # "scored",
           UNCHANGED <<now, standing>>
    PROVE  Measurement' /\ Unheard' = Unheard
<1>1. /\ Len(queue) \in Nat \ {0} /\ Entries = 1..Len(queue) /\ Head(queue) = queue[1]
      /\ Entries' = 1..(Len(queue) - 1) /\ Len(queue') = Len(queue) - 1
      /\ \A i \in Entries' : i + 1 \in Entries /\ queue'[i] = queue[i + 1]
  BY Pop, Types
<1>2. /\ \A i \in Entries' : i \in Nat /\ i + 1 # 1 /\ (i + 1 = Len(queue) => i = Len(queue'))
      /\ \A i \in Entries : i # 1 => i - 1 \in Entries' /\ (i - 1) + 1 = i
  BY <1>1, OneFewer, Zenon
<1>3. \A i \in Entries' : /\ (Is(i, "row")' <=> Is(i + 1, "row"))
                          /\ (Is(i, "scored")' <=> Is(i + 1, "scored"))
                          /\ (Measuring(i)' <=> Measuring(i + 1))
  BY <1>1 DEF Is, Measuring
<1>4. /\ \A i, j \in Entries : Measuring(i) /\ Measuring(j) => i = j
      /\ \A i \in Entries :
            /\ Is(i, "row") => queue[i].tick = now
            /\ Is(i, "scored") => i = Len(queue) /\ standing # None /\ queue[i].run = standing
  BY DEF IInv, Measurement
<1>5. ASSUME NEW i \in Entries', NEW j \in Entries', Measuring(i)', Measuring(j)'
      PROVE  i = j
  <2>1. i + 1 \in Entries /\ j + 1 \in Entries /\ Measuring(i + 1) /\ Measuring(j + 1)
    BY <1>1, <1>3, <1>5, Zenon
  <2>2. i + 1 = j + 1
    BY <1>4, <2>1, Zenon
  <2>3. i \in Nat /\ j \in Nat
    BY <1>2
  <2> QED
    BY <2>2, <2>3
<1>6. Measurement'
  <2>1. ASSUME NEW i \in Entries', Is(i, "row")' PROVE queue'[i].tick = now'
    <3>1. i + 1 \in Entries /\ queue'[i] = queue[i + 1] /\ Is(i + 1, "row")
      BY <1>1, <1>3, <2>1, Zenon
    <3> QED
      BY <1>4, <3>1, Zenon
  <2>2. ASSUME NEW i \in Entries', Is(i, "scored")'
        PROVE  i = Len(queue') /\ standing' # None /\ queue'[i].run = standing'
    <3>1. i + 1 \in Entries /\ queue'[i] = queue[i + 1] /\ Is(i + 1, "scored")
      BY <1>1, <1>3, <2>2, Zenon
    <3>2. i + 1 = Len(queue) /\ standing # None /\ queue'[i].run = standing
      BY <1>4, <3>1, Zenon
    <3>3. i = Len(queue')
      BY <1>2, <3>2, Zenon
    <3> QED
      BY <3>2, <3>3, Zenon
  <2> QED
    BY <1>5, <2>1, <2>2 DEF Measurement
<1>7. ASSUME NEW i \in Entries, Is(i, "scored") PROVE \E j \in Entries' : Is(j, "scored")'
  <2>1. i # 1
    BY <1>1, <1>7 DEF Is
  <2>2. i - 1 \in Entries' /\ Is(i - 1, "scored")'
    BY <1>2, <1>3, <1>7, <2>1, Zenon
  <2> QED
    BY <2>2, Zenon
<1>8. (\E j \in Entries' : Is(j, "scored")') <=> (\E i \in Entries : Is(i, "scored"))
  BY <1>1, <1>3, <1>7
<1> QED
  BY <1>6, <1>8 DEF Unheard

\* An announcement: a bundle of the run at most, and a ledger opened for it.
LEMMA PublishedKeeps ==
    ASSUME IInv, Deliver, Head(queue).kind = "published"
    PROVE  IInv'
<1> DEFINE m == Head(queue)
<1>1. /\ queue # <<>> /\ HearPublished(m.run, m.tick) /\ Adopt(m.run)
      /\ queue' = Tail(queue)
      /\ UNCHANGED <<rows, advisories, scored, now, standing, dated, runnerVars,
                     sourceVars, bounds, order>>
  BY DEF Deliver, Drained
<1>2. /\ 1 \in Entries /\ m = queue[1] /\ Len(queue) \in Nat \ {0}
      /\ Entries = 1..Len(queue)
  BY <1>1, First, Types
<1>3. /\ queue' \in Seq(Messages) /\ Entries' = 1..(Len(queue) - 1)
      /\ Len(queue') = Len(queue) - 1
      /\ \A i \in Entries' : i + 1 \in Entries /\ queue'[i] = queue[i + 1]
  BY <1>1, Pop, Types
<1>4. /\ m.run \in Runs /\ m.tick \in 0..now /\ standing # None /\ m.run <= standing
      /\ packagerUp => packagerTick = now
      /\ stagedFor # None => stagedFor <= m.run
      /\ m.run # forecastRun => scored[m.run] = IF m.run = standing THEN Unheard ELSE 0
      /\ m.run # standing => forecastRun # standing
  BY <1>2 DEF IInv, Announced, Is
<1> HIDE DEF m
<1>5. /\ PackagerTypes' /\ Divided' /\ BundledOrNot(m.run)
      /\ ~packagerUp => UNCHANGED <<packagerTick, intervalStart, stagedFor, bundles>>
      /\ UNCHANGED <<packagerUp, packagerTick>>
  <2>1. UNCHANGED <<packagerUp, packagerTick>>
    BY <1>1 DEF HearPublished
  <2>2. CASE packagerUp /\ stagedFor # m.run
    <3>1. Stage(m.run, m.tick) /\ m.tick \in 0..packagerTick
      BY <1>1, <1>4, <2>2 DEF HearPublished
    <3> QED
      BY <1>1, <1>4, <2>1, <2>2, <3>1, StageKeeps
  <2>3. CASE ~(packagerUp /\ stagedFor # m.run)
    <3>1. UNCHANGED <<intervalStart, stagedFor, bundles, declined, producing>>
      BY <1>1, <2>3 DEF HearPublished
    <3> QED
      BY <1>1, <2>1, <3>1, Types DEF PackagerTypes, Bytes, IInv, Divided, BundledOrNot
  <2> QED
    BY <2>2, <2>3
<1>6. Kept'
  <2>1. CASE bundles' = bundles /\ stagedFor' = stagedFor
    BY <1>1, <1>5, <2>1 DEF IInv, Kept
  <2>2. CASE /\ stagedFor' = m.run
             /\ \A n \in DOMAIN bundles' :
                   bundles'[n].run = m.run \/ (n \in DOMAIN bundles /\ bundles'[n] = bundles[n])
    <3>1. m.run # None /\ m.run \in Nat /\ standing \in Nat
      BY <1>4, Types
    <3>2. \A n \in DOMAIN bundles : bundles[n].run \in Nat
      <4> SUFFICES ASSUME NEW n \in DOMAIN bundles PROVE bundles[n].run \in Nat
        OBVIOUS
      <4>1. bundles \in Seq(Bundles)
        BY Types DEF PackagerTypes
      <4>2. bundles[n] \in Bundles
        BY <4>1, LenProperties
      <4>3. bundles[n].run \in Runs
        BY <4>2 DEF Bundles
      <4> QED
        BY <4>3, Types
    <3>3. \A n \in DOMAIN bundles' : bundles'[n].run <= m.run
      <4> SUFFICES ASSUME NEW n \in DOMAIN bundles' PROVE bundles'[n].run <= m.run
        OBVIOUS
      <4>1. CASE bundles'[n].run = m.run
        BY <3>1, <4>1
      <4>2. CASE n \in DOMAIN bundles /\ bundles'[n] = bundles[n]
        <5>1. stagedFor # None /\ bundles[n].run <= stagedFor
          BY <4>2 DEF IInv, Kept
        <5> QED
          BY <1>4, <3>1, <3>2, <4>2, <5>1, Types
      <4> QED
        BY <2>2, <4>1, <4>2
    <3>4. ~packagerUp => stagedFor' = None
      BY <1>5 DEF IInv, Kept
    <3> QED
      BY <1>1, <1>4, <1>5, <2>2, <3>1, <3>3, <3>4 DEF Kept
  <2> QED
    BY <1>5, <2>1, <2>2 DEF BundledOrNot
<1>7. Measurement' /\ Unheard' = Unheard /\ Unheard \in Nat
  BY <1>1, MeasurementWaits, Types DEF m
<1>8. \A i \in Entries' : Is(i, "published")' =>
         queue'[i].run = standing /\ scored[standing] = Unheard /\ queue'[i].tick \in 0..now
  <2> SUFFICES ASSUME NEW i \in Entries', Is(i, "published")'
               PROVE  queue'[i].run = standing /\ scored[standing] = Unheard
                      /\ queue'[i].tick \in 0..now
    OBVIOUS
  <2>1. i + 1 \in Entries /\ 1 < i + 1 /\ Is(1, "published") /\ Is(i + 1, "published")
    BY <1>2, <1>3 DEF Is, m
  <2> QED
    BY <1>2, <1>3, <2>1 DEF IInv, Announced
<1>9. Announced'
  <2>1. stagedFor' # None => stagedFor' <= standing
    BY <1>1, <1>6 DEF Kept
  <2>2. standing \in Runs /\ standing <= standing
    BY <1>4, Types
  <2> QED
    BY <1>1, <1>4, <1>5, <1>7, <1>8, <2>1, <2>2 DEF Announced
<1>10. Scores'
  <2>1. CASE UNCHANGED <<forecastRun, ledger>>
    BY <1>1, <1>7, <2>1 DEF IInv, Scores
  <2>2. CASE m.run # forecastRun /\ forecastRun' = m.run /\ ledger' = <<>>
    <3>1. /\ DOMAIN ledger' = {} /\ Len(ledger') = 0 /\ m.run # None
      BY <1>4, <2>2, Types
    <3>2. m.run # standing => scored[standing] = Unheard
      BY <1>4 DEF IInv, Scores
    <3>3. scored[m.run] = Len(ledger') + (IF m.run = standing THEN Unheard' ELSE 0)
      BY <1>4, <1>7, <2>2, <3>1
    <3> QED
      BY <1>1, <1>4, <1>7, <2>2, <3>1, <3>2, <3>3 DEF IInv, Scores
  <2> QED
    BY <1>1, <1>4, <2>1, <2>2, Types DEF Adopt
<1>11. OutboundTypeOK' /\ MoreTypes' /\ Restated'
  <2>1. forecastRun' \in Runs \cup {None} /\ ledger' \in Seq(Runs)
    <3>1. <<>> \in Seq(Runs)
      BY EmptySeq
    <3> QED
      BY <1>1, <1>4, <3>1, Types DEF Adopt
  <2> QED
    BY <1>1, <1>3, <1>5, <2>1
    DEF IInv, OutboundTypeOK, MoreTypes, Restated, PackagerTypes, runnerVars, sourceVars,
        bounds
<1>12. Sequenced'
  BY <1>1, AdvisoriesWait, Popped DEF sourceVars, bounds, m
<1> QED
  BY <1>5, <1>6, <1>7, <1>9, <1>10, <1>11, <1>12 DEF IInv

\* Nothing waits behind the last message.
LEMMA LastTaken ==
    ASSUME queue \in Seq(Messages), Len(queue) = 1
    PROVE  Tail(queue) = <<>>
<1>1. queue # <<>>
  OBVIOUS
<1>2. Tail(queue) \in Seq(Messages) /\ Len(Tail(queue)) = 0
  BY <1>1, HeadTailProperties
<1> QED
  BY <1>2, EmptySeq

\* A word behind a sequence.
Behind(rest, word, q) ==
    /\ Len(q) = Len(rest) + 1 /\ DOMAIN q = 1..(Len(rest) + 1)
    /\ \A i \in 1..Len(rest) : q[i] = rest[i]
    /\ q[Len(rest) + 1] = word

\* Any word put behind a sequence is so.
LEMMA OneBehind ==
    ASSUME NEW S, NEW rest \in Seq(S), NEW word \in S
    PROVE  rest \o <<word>> \in Seq(S) /\ Behind(rest, word, rest \o <<word>>)
<1> DEFINE one == <<word>>
<1>1. one \in Seq(S) /\ Len(one) = 1 /\ one[1] = word
  OBVIOUS
<1> HIDE DEF one
<1>2. rest \o one \in Seq(S) /\ Joins(rest, one, rest \o one)
  BY <1>1, ConcatEntries
<1>3. 1 \in 1..1
  OBVIOUS
<1>4. Behind(rest, word, rest \o one)
  BY <1>1, <1>2, <1>3, Zenon DEF Joins, Behind
<1> QED
  BY <1>2, <1>4, Zenon DEF one

\* A delivery that may add one message behind what is waiting.
LEMMA TailAndOne ==
    ASSUME queue \in Seq(Messages), queue # <<>>, NEW said \in BOOLEAN, NEW word,
           said => word \in Messages, queue' = Tail(queue) \o Only(said, word)
    PROVE  /\ queue' \in Seq(Messages) /\ Entries' = 1..Len(queue') /\ Len(queue') \in Nat
           /\ \A i \in Entries : i # 1 => i - 1 \in Entries' /\ queue'[i - 1] = queue[i]
           /\ \A i \in Entries' :
                 \/ i + 1 \in Entries /\ queue'[i] = queue[i + 1]
                 \/ said /\ i = Len(queue') /\ queue'[i] = word
           /\ said => \E i \in Entries' : queue'[i] = word
<1> DEFINE L == Len(queue)
           rest == Tail(queue)
<1>1. L \in Nat \ {0} /\ Entries = 1..L
  BY First
<1>2. /\ rest \in Seq(Messages) /\ Len(rest) = L - 1
      /\ \A i \in 1..(L - 1) : rest[i] = queue[i + 1]
  BY <1>1, HeadTailProperties
<1>3. queue' = rest \o Only(said, word)
  OBVIOUS
<1> HIDE DEF L, rest
<1>4. CASE said
  <2>1. word \in Messages /\ queue' = rest \o <<word>>
    BY <1>3, <1>4 DEF Only
  <2>2. queue' \in Seq(Messages) /\ Behind(rest, word, queue')
    BY <1>2, <2>1, OneBehind, Zenon
  <2>3. (L - 1) + 1 = L /\ L \in 1..L /\ L \in Nat
    BY <1>1
  <2>4. /\ Len(queue') = L /\ Entries' = 1..L /\ queue'[L] = word
        /\ \A i \in 1..(L - 1) : queue'[i] = queue[i + 1]
    BY <1>2, <2>2, <2>3, Zenon DEF Entries, Behind
  <2>5. \A i \in 1..L : i # 1 => i - 1 \in 1..L /\ queue'[i - 1] = queue[i]
    <3>1. \A i \in 1..L : i # 1 => i - 1 \in 1..(L - 1) /\ i - 1 \in 1..L /\ (i - 1) + 1 = i
      BY <1>1
    <3> QED
      BY <2>4, <3>1, Zenon
  <2>6. \A i \in 1..L : i = L \/ (i + 1 \in 1..L /\ queue'[i] = queue[i + 1])
    <3>1. \A i \in 1..L : i = L \/ (i \in 1..(L - 1) /\ i + 1 \in 1..L)
      BY <1>1
    <3> QED
      BY <2>4, <3>1, Zenon
  <2> QED
    BY <1>1, <1>4, <2>2, <2>3, <2>4, <2>5, <2>6, Zenon
<1>5. CASE ~said
  <2>1. queue' = rest \o <<>>
    BY <1>3, <1>5 DEF Only
  <2>2. rest \o <<>> = rest
    BY <1>2, ConcatEmptySeq
  <2>3. queue' \in Seq(Messages) /\ Len(queue') = L - 1
    BY <1>2, <2>1, <2>2
  <2>4. Entries' = 1..(L - 1)
    BY <2>3, LenProperties DEF Entries
  <2>5. \A i \in 1..(L - 1) : queue'[i] = queue[i + 1] /\ i + 1 \in 1..L
    BY <1>1, <1>2, <2>1, <2>2
  <2>6. \A i \in 1..L : i # 1 => i - 1 \in 1..(L - 1) /\ queue'[i - 1] = queue[i]
    <3>1. \A i \in 1..L : i # 1 => i - 1 \in 1..(L - 1) /\ (i - 1) + 1 = i
      BY <1>1
    <3> QED
      BY <2>5, <3>1
  <2>7. L - 1 \in Nat
    BY <1>1
  <2> QED
    BY <1>1, <1>5, <2>3, <2>4, <2>5, <2>6, <2>7
<1> QED
  BY <1>4, <1>5

\* A measurement is stored at a tick no bundle has reached, and its score waits
\* behind every announcement.
LEMMA RowKeeps ==
    ASSUME IInv, Deliver, Head(queue).kind = "row"
    PROVE  IInv'
<1> DEFINE m == Head(queue)
<1>1. PICK reached \in BOOLEAN :
         LET scores == reached /\ standing # None IN
         /\ queue' = Tail(queue) \o Only(scores, Scored(standing))
         /\ scored' = [r \in Runs |-> IF scores /\ r = standing
                                      THEN scored[r] + 1 ELSE scored[r]]
  BY DEF Deliver
<1>2. /\ queue # <<>> /\ rows' = rows \cup {m.tick}
      /\ UNCHANGED <<packagerVars, forecastRun, ledger, advisories, now, standing, dated,
                     order, runnerVars, sourceVars, bounds>>
  BY DEF Deliver, Drained
<1>3. /\ 1 \in Entries /\ m = queue[1] /\ m.tick = now /\ Entries = 1..Len(queue)
      /\ Len(queue) \in Nat /\ \A i \in Entries : i # 1 => ~Measuring(i)
      /\ ~Is(1, "scored") /\ Unheard = 0
  <2>1. /\ 1 \in Entries /\ m = queue[1] /\ Entries = 1..Len(queue) /\ Len(queue) \in Nat
    BY <1>2, First, Types
  <2>2. Is(1, "row") /\ ~Is(1, "scored")
    BY <2>1 DEF Is
  <2>3. m.tick = now /\ \A i \in Entries : i # 1 => ~Measuring(i)
    BY <2>1, <2>2 DEF IInv, Measurement, Measuring
  <2> QED
    BY <2>1, <2>2, <2>3 DEF Unheard, Measuring
<1>4. /\ UNCHANGED <<packagerUp, packagerTick, intervalStart, stagedFor, bundles, declined,
                     producing, stops, sequence>>
  BY <1>2 DEF packagerVars, packagerState, bounds, sourceVars
<1> DEFINE scores == reached /\ standing # None
           score == Scored(standing)
<1>5. scores \in BOOLEAN /\ (scores => standing # None)
  OBVIOUS
<1>6. /\ queue' = Tail(queue) \o Only(scores, score)
      /\ scored' = [r \in Runs |-> IF scores /\ r = standing
                                   THEN scored[r] + 1 ELSE scored[r]]
  BY <1>1
<1>7. scores => score \in Messages /\ score.kind = "scored" /\ score.run = standing
  BY <1>5, Types DEF Scored, Messages
<1> HIDE DEF m, scores, score
<1>8. /\ queue' \in Seq(Messages) /\ Entries' = 1..Len(queue') /\ Len(queue') \in Nat
      /\ \A i \in Entries : i # 1 => i - 1 \in Entries' /\ queue'[i - 1] = queue[i]
      /\ \A i \in Entries' :
            \/ i + 1 \in Entries /\ queue'[i] = queue[i + 1]
            \/ scores /\ i = Len(queue') /\ queue'[i] = score
      /\ scores => \E i \in Entries' : queue'[i] = score
  <2>1. scores => score \in Messages
    BY <1>7
  <2> QED
    BY <1>2, <1>5, <1>6, <2>1, TailAndOne, Types
<1>9. ASSUME NEW i \in Entries'
      PROVE  /\ Measuring(i)' => /\ scores /\ i = Len(queue') /\ queue'[i] = score
                                /\ Is(i, "scored")' /\ ~Is(i, "row")'
             /\ ~Measuring(i)' => i + 1 \in Entries /\ queue'[i] = queue[i + 1]
  <2>1. CASE i + 1 \in Entries /\ queue'[i] = queue[i + 1]
    <3>1. i + 1 # 1
      BY <1>8
    <3>2. ~Measuring(i + 1)
      BY <1>3, <2>1, <3>1
    <3> QED
      BY <2>1, <3>2 DEF Measuring, Is
  <2>2. CASE scores /\ i = Len(queue') /\ queue'[i] = score
    BY <1>7, <2>2 DEF Measuring, Is
  <2> QED
    BY <1>8, <2>1, <2>2
<1>10. Measurement' /\ Unheard' = IF scores THEN 1 ELSE 0
  <2>1. Measurement'
    <3>1. ASSUME NEW i \in Entries', Is(i, "row")' PROVE FALSE
      BY <1>9, <3>1 DEF Measuring
    <3>2. ASSUME NEW i \in Entries', Is(i, "scored")'
          PROVE  i = Len(queue') /\ standing # None /\ queue'[i].run = standing
      BY <1>5, <1>7, <1>9, <3>2 DEF Measuring
    <3>3. \A i, j \in Entries' : Measuring(i)' /\ Measuring(j)' => i = j
      BY <1>9
    <3> QED
      BY <1>2, <3>1, <3>2, <3>3 DEF Measurement
  <2>2. scores => \E i \in Entries' : Is(i, "scored")'
    BY <1>7, <1>8 DEF Is
  <2>3. ~scores => \A i \in Entries' : ~Is(i, "scored")'
    BY <1>9 DEF Measuring
  <2> QED
    BY <2>1, <2>2, <2>3 DEF Unheard
<1>11. /\ \A r \in Runs : r # standing => scored'[r] = scored[r]
       /\ standing # None => scored'[standing] = scored[standing] + Unheard'
       /\ UNCHANGED <<standing, forecastRun, ledger>>
  BY <1>2, <1>6, <1>10, Types
<1>12. Announced'
  <2>1. ASSUME NEW i \in Entries', Is(i, "published")'
        PROVE  /\ i + 1 \in Entries /\ Is(i + 1, "published") /\ queue'[i] = queue[i + 1]
               /\ i \in Nat
    <3>1. ~Measuring(i)' /\ i \in Nat
      BY <1>8, <2>1 DEF Measuring, Is
    <3> QED
      BY <1>9, <2>1, <3>1 DEF Is
  <2>2. ASSUME NEW i \in Entries', Is(i, "published")'
        PROVE  /\ queue'[i].run \in Runs /\ queue'[i].tick \in 0..now
               /\ standing # None /\ queue'[i].run <= standing
               /\ packagerUp => packagerTick = now
               /\ stagedFor # None => stagedFor <= queue'[i].run
               /\ queue'[i].run # standing => forecastRun # standing
    BY <2>1, <2>2 DEF IInv, Announced
  <2>3. ASSUME NEW i \in Entries', Is(i, "published")', queue'[i].run # forecastRun
        PROVE  scored'[queue'[i].run] = IF queue'[i].run = standing THEN Unheard' ELSE 0
    <3> DEFINE run == queue[i + 1].run
    <3>1. i + 1 \in Entries /\ Is(i + 1, "published") /\ queue'[i] = queue[i + 1]
      BY <2>1, <2>3, Zenon
    <3>2. run # forecastRun /\ queue'[i].run = run
      BY <2>3, <3>1, Zenon
    <3>3. run \in Runs /\ scored[run] = 0
      BY <1>3, <3>1, <3>2, Zenon DEF IInv, Announced
    <3> HIDE DEF run
    <3>4. scored'[run] = IF run = standing THEN Unheard' ELSE 0
      <4>1. run # None /\ Unheard' \in Nat
        BY <1>10, <3>3, Types
      <4> QED
        BY <1>11, <3>3, <4>1
    <3> QED
      BY <3>2, <3>4, Zenon
  <2>4. ASSUME NEW i \in Entries', NEW j \in Entries', Is(i, "published")',
               Is(j, "published")', i < j
        PROVE  queue'[j].run = standing /\ scored'[standing] = Unheard'
    <3>1. i + 1 < j + 1 /\ standing # None
      BY <2>1, <2>2, <2>4
    <3>2. queue'[j].run = standing /\ scored[standing] = 0
      BY <1>3, <2>1, <2>4, <3>1 DEF IInv, Announced
    <3>3. Unheard' \in Nat
      BY <1>10
    <3> QED
      BY <1>11, <3>1, <3>2, <3>3
  <2> QED
    BY <1>2, <1>4, <2>2, <2>3, <2>4 DEF Announced
<1>13. Kept' /\ Restated'
  BY <1>2, <1>4 DEF IInv, Kept, Restated, runnerVars
<1>14. Divided'
  <2>1. intervalStart <= now /\ intervalStart \in Nat
    BY Types DEF PackagerTypes
  <2>2. ~(now < intervalStart)
    BY <2>1, Types
  <2>3. \A n \in DOMAIN bundles : now \in bundles[n].measured => now \in rows
    BY DEF IInv, Divided
  <2> QED
    BY <1>2, <1>3, <1>4, <2>2, <2>3 DEF IInv, Divided
<1>15. Scores'
  <2>1. \A r \in Runs : standing = None \/ r > standing => scored'[r] = 0
    BY <1>11, Types DEF IInv, Scores
  <2>2. ASSUME forecastRun # None
        PROVE  scored'[forecastRun] =
                   Len(ledger) + (IF forecastRun = standing THEN Unheard' ELSE 0)
    BY <1>3, <1>11, <2>2, Types DEF IInv, Scores
  <2>3. Unheard' \in Nat
    BY <1>10
  <2>4. standing # None /\ forecastRun # standing => scored'[standing] = Unheard'
    BY <1>3, <1>11, <2>3, Types DEF IInv, Scores
  <2> QED
    BY <1>11, <2>1, <2>2, <2>4 DEF IInv, Scores
<1>16. OutboundTypeOK' /\ MoreTypes'
  <2>1. scored' \in [Runs -> Nat]
    BY <1>6, Types
  <2>2. rows' \subseteq 0..now
    BY <1>2, <1>3, Types
  <2> QED
    BY <1>2, <1>4, <1>8, <2>1, <2>2
    DEF IInv, OutboundTypeOK, MoreTypes, Bytes, runnerVars, sourceVars, bounds
<1>17. Sequenced'
  <2>1. MovesUp
    BY <1>8, <1>9 DEF MovesUp, Measuring, Is
  <2>2. Entries' \subseteq Nat
    BY <1>8
  <2> QED
    BY <1>2, <1>4, <2>1, <2>2, AdvisoriesWait DEF m
<1> QED
  BY <1>10, <1>12, <1>13, <1>14, <1>15, <1>16, <1>17 DEF IInv

\* A score is of the standing run, and joins its ledger or opens it.
LEMMA ScoredKeeps ==
    ASSUME IInv, Deliver, Head(queue).kind = "scored"
    PROVE  IInv'
<1> DEFINE m == Head(queue)
<1>1. /\ queue # <<>> /\ Absorb(m.run) /\ queue' = Tail(queue)
      /\ UNCHANGED <<rows, packagerVars, advisories, scored, now, standing, dated,
                     runnerVars, sourceVars, bounds, order>>
  BY DEF Deliver, Drained
<1>2. /\ 1 \in Entries /\ m = queue[1] /\ Len(queue) = 1
      /\ standing # None /\ m.run = standing /\ standing \in Runs
  BY <1>1, First, Types DEF IInv, Measurement, Is
<1>3. queue' = <<>> /\ Entries' = {} /\ Unheard' = 0 /\ Unheard = 1
  <2>1. queue' = <<>>
    BY <1>1, <1>2, LastTaken, Types
  <2>2. Is(1, "scored")
    BY <1>2 DEF Is
  <2> QED
    BY <1>2, <2>1, <2>2 DEF Entries, Unheard
<1>4. /\ UNCHANGED <<packagerUp, packagerTick, intervalStart, stagedFor, bundles, declined,
                     producing, stops, sequence>>
  BY <1>1 DEF packagerVars, packagerState, bounds, sourceVars
<1> DEFINE kept == IF standing = forecastRun THEN ledger ELSE <<>>
<1>5. forecastRun' = standing /\ ledger' = Append(kept, standing)
  BY <1>1, <1>2 DEF Absorb
<1>6. /\ kept \in Seq(Runs) /\ Len(kept) + 1 = scored[standing] /\ Len(kept) \in Nat
      /\ \A n \in 1..Len(kept) : kept[n] = standing
  <2>1. CASE standing = forecastRun
    BY <1>2, <1>3, <2>1, Types DEF IInv, Scores
  <2>2. CASE standing # forecastRun
    <3>1. kept = <<>>
      BY <2>2
    <3>2. scored[standing] = 1
      BY <1>2, <1>3, <2>2 DEF IInv, Scores
    <3>3. <<>> \in Seq(Runs) /\ Len(<<>>) = 0
      OBVIOUS
    <3> HIDE DEF kept
    <3> QED
      BY <3>1, <3>2, <3>3
  <2> QED
    BY <2>1, <2>2
<1> HIDE DEF m, kept
<1>7. /\ ledger' \in Seq(Runs) /\ Len(ledger') = scored[standing]
      /\ \A n \in DOMAIN ledger' : ledger'[n] = standing
  <2>1. /\ ledger' \in Seq(Runs) /\ Len(ledger') = Len(kept) + 1
        /\ \A n \in 1..Len(kept) : ledger'[n] = kept[n]
        /\ ledger'[Len(kept) + 1] = standing
    BY <1>2, <1>5, <1>6, AppendProperties
  <2>2. DOMAIN ledger' = 1..(Len(kept) + 1)
    BY <2>1, LenProperties
  <2> QED
    BY <1>6, <2>1, <2>2
<1>8. Scores'
  <2>1. \A r \in Runs : standing = None \/ r > standing => scored[r] = 0
    BY DEF IInv, Scores
  <2>2. standing <= standing /\ Len(ledger') + 0 = scored[standing]
    BY <1>2, <1>7, Types
  <2> QED
    BY <1>1, <1>2, <1>3, <1>5, <1>7, <2>1, <2>2 DEF Scores
<1>9. Announced' /\ Measurement'
  BY <1>3 DEF Announced, Measurement
<1>10. Kept' /\ Divided' /\ Restated'
  BY <1>1, <1>4 DEF IInv, Kept, Divided, Restated, runnerVars
<1>11. OutboundTypeOK' /\ MoreTypes'
  <2>1. queue' \in Seq(Messages)
    BY <1>3, EmptySeq
  <2> QED
    BY <1>1, <1>2, <1>4, <1>5, <1>7, <2>1
    DEF IInv, OutboundTypeOK, MoreTypes, Bytes, runnerVars, sourceVars, bounds
<1>12. Sequenced'
  BY <1>1, <1>4, AdvisoriesWait, Popped DEF m
<1> QED
  BY <1>8, <1>9, <1>10, <1>11, <1>12 DEF IInv

\* An advisory is absorbed where its number is held, and is the next where not.
LEMMA AdvisoryKeeps ==
    ASSUME IInv, Deliver, Head(queue).kind = "advisory"
    PROVE  IInv'
<1> DEFINE m == Head(queue)
<1>1. /\ queue # <<>> /\ advisories' = advisories \cup {m.number} /\ queue' = Tail(queue)
      /\ UNCHANGED <<rows, packagerVars, forecastRun, ledger, scored, now, standing, dated,
                     runnerVars, sourceVars, bounds, order>>
  BY DEF Deliver, Drained
<1>2. /\ 1 \in Entries /\ m = queue[1] /\ Is(1, "advisory")
      /\ Len(queue) \in Nat \ {0} /\ Entries = 1..Len(queue)
  BY <1>1, First, Types DEF Is
<1>3. /\ queue' \in Seq(Messages) /\ Entries' = 1..(Len(queue) - 1)
      /\ Len(queue') = Len(queue) - 1
      /\ \A i \in Entries' : i + 1 \in Entries /\ queue'[i] = queue[i + 1]
  BY <1>1, Pop, Types
<1>4. /\ UNCHANGED <<packagerUp, packagerTick, intervalStart, stagedFor, bundles, declined,
                     producing, stops, sequence>>
  BY <1>1 DEF packagerVars, packagerState, bounds, sourceVars
<1>5. PICK k \in Nat : AsFar(k)
  BY DEF IInv, Sequenced
<1>6. m.number \in 0..k /\ sequence = m.number + 1 /\ (stops = 0 => m.number = k)
  BY <1>2, <1>5 DEF AsFar
<1> HIDE DEF m
<1>7. \A i \in Entries' : ~Is(i, "advisory")'
  <2> SUFFICES ASSUME NEW i \in Entries', Is(i, "advisory")' PROVE FALSE
    OBVIOUS
  <2>1. i + 1 = 1
    BY <1>2, <1>3, <1>5 DEF AsFar, Is
  <2> QED
    BY <1>2, <1>3, <2>1
<1>8. Sequenced'
  <2>1. PICK next \in Nat : /\ advisories' = 0..(next - 1) /\ sequence <= next
                            /\ (stops = 0 => sequence = next)
    <3>1. /\ advisories = 0..(k - 1) /\ m.number \in Nat
          /\ advisories' = advisories \cup {m.number}
      BY <1>1, <1>5, <1>6 DEF AsFar
    <3>2. CASE m.number = k
      <4>1. advisories' = 0..((k + 1) - 1) /\ k + 1 \in Nat
        BY <3>1, <3>2
      <4> QED
        BY <1>6, <3>2, <4>1
    <3>3. CASE m.number # k
      <4>1. m.number \in 0..(k - 1) /\ sequence <= k /\ stops # 0
        BY <1>6, <3>1, <3>3
      <4>2. advisories' = 0..(k - 1)
        BY <3>1, <4>1
      <4> QED
        BY <4>1, <4>2
    <3> QED
      BY <3>2, <3>3
  <2>2. AsFar(next)'
    BY <1>4, <1>7, <2>1 DEF AsFar
  <2> QED
    BY <2>1, <2>2 DEF Sequenced
<1>9. Measurement' /\ Unheard' = Unheard
  BY <1>1, <1>2, MeasurementWaits DEF Is, m
<1>10. Announced'
  <2>1. \A i, j \in Entries' : i < j => i + 1 < j + 1
    BY <1>3
  <2> QED
    BY <1>1, <1>3, <1>4, <1>9, <2>1 DEF IInv, Announced, Is
<1>11. Scores'
  BY <1>1, <1>9 DEF IInv, Scores
<1>12. Kept' /\ Divided' /\ Restated'
  BY <1>1, <1>4 DEF IInv, Kept, Divided, Restated, runnerVars
<1>13. OutboundTypeOK' /\ MoreTypes'
  <2>1. advisories' \subseteq Nat
    <3>1. advisories \subseteq Nat /\ m.number \in Nat
      BY <1>6 DEF IInv, OutboundTypeOK
    <3> QED
      BY <1>1, <3>1
  <2> QED
    BY <1>1, <1>3, <1>4, <2>1
    DEF IInv, OutboundTypeOK, MoreTypes, Bytes, runnerVars, sourceVars, bounds
<1> QED
  BY <1>8, <1>9, <1>10, <1>11, <1>12, <1>13 DEF IInv
-----------------------------------------------------------------------------
(* A clock sample.                                                         *)

\* One sequence has its place in another, and an entry of the other is one of it.
Place(all, part, u) ==
    \A k \in DOMAIN part : u + k \in DOMAIN all /\ all[u + k] = part[k]
From(all, part, u, i) == i - u \in DOMAIN part /\ all[i] = part[i - u]

\* Three sequences make up another, in whatever order.
MadeOf(all, a, b, c) ==
    \E u, v, w \in Nat :
        /\ Place(all, a, u) /\ Place(all, b, v) /\ Place(all, c, w)
        /\ \A i \in DOMAIN all :
              From(all, a, u, i) \/ From(all, b, v, i) \/ From(all, c, w, i)

\* Three sequences one behind another do.
LEMMA ThreeParts ==
    ASSUME NEW S, NEW a \in Seq(S), NEW b \in Seq(S), NEW c \in Seq(S)
    PROVE  a \o b \o c \in Seq(S) /\ MadeOf(a \o b \o c, a, b, c)
<1> DEFINE ab == a \o b
           all == ab \o c
<1>1. ab \in Seq(S) /\ Joins(a, b, ab)
  BY ConcatEntries
<1> HIDE DEF ab
<1>2. all \in Seq(S) /\ Joins(ab, c, all)
  BY <1>1, ConcatEntries
<1> HIDE DEF all
<1>3. /\ Len(a) \in Nat /\ Len(ab) \in Nat /\ Len(ab) = Len(a) + Len(b)
      /\ DOMAIN a \subseteq Nat /\ DOMAIN all \subseteq Nat /\ DOMAIN b \subseteq Nat
  BY <1>1, <1>2 DEF Joins
<1>4. Place(all, a, 0)
  <2> SUFFICES ASSUME NEW k \in DOMAIN a PROVE 0 + k \in DOMAIN all /\ all[0 + k] = a[k]
    BY DEF Place
  <2>1. k \in DOMAIN all /\ all[k] = a[k]
    BY <1>1, <1>2, Zenon DEF Joins
  <2>2. 0 + k = k
    BY <1>3
  <2> QED
    BY <2>1, <2>2, Zenon
<1>5. Place(all, b, Len(a)) /\ Place(all, c, Len(ab))
  BY <1>1, <1>2, Zenon DEF Joins, Place
<1>6. ASSUME NEW i \in DOMAIN all
      PROVE  From(all, a, 0, i) \/ From(all, b, Len(a), i) \/ From(all, c, Len(ab), i)
  <2>1. i - 0 = i
    BY <1>3
  <2>2. ASSUME i \in DOMAIN ab PROVE all[i] = ab[i]
    BY <1>2, <2>2, Zenon DEF Joins
  <2>3. CASE i \in DOMAIN ab /\ i \in DOMAIN a
    BY <1>1, <2>1, <2>2, <2>3, Zenon DEF Joins, From
  <2>4. CASE i \in DOMAIN ab /\ i \notin DOMAIN a
    BY <1>1, <2>2, <2>4, Zenon DEF Joins, From
  <2>5. CASE i \notin DOMAIN ab
    BY <1>2, <2>5, Zenon DEF Joins, From
  <2> QED
    BY <2>3, <2>4, <2>5
<1>7. MadeOf(all, a, b, c)
  <2>1. 0 \in Nat
    OBVIOUS
  <2> QED
    BY <1>3, <1>4, <1>5, <1>6, <2>1, Zenon DEF MadeOf
<1> QED
  BY <1>2, <1>7, Zenon DEF all, ab

\* The order of three parts is no part of what they make up.
LEMMA AnyOrder ==
    ASSUME NEW all, NEW a, NEW b, NEW c, MadeOf(all, a, b, c)
    PROVE  /\ MadeOf(all, a, c, b) /\ MadeOf(all, b, a, c) /\ MadeOf(all, b, c, a)
           /\ MadeOf(all, c, a, b) /\ MadeOf(all, c, b, a)
<1>1. PICK u \in Nat, v \in Nat, w \in Nat :
        /\ Place(all, a, u) /\ Place(all, b, v) /\ Place(all, c, w)
        /\ \A i \in DOMAIN all :
              From(all, a, u, i) \/ From(all, b, v, i) \/ From(all, c, w, i)
  BY DEF MadeOf
<1>2. MadeOf(all, a, c, b) /\ MadeOf(all, b, a, c)
  BY <1>1, Zenon DEF MadeOf
<1>3. MadeOf(all, b, c, a) /\ MadeOf(all, c, a, b)
  BY <1>1, Zenon DEF MadeOf
<1>4. MadeOf(all, c, b, a)
  BY <1>1, Zenon DEF MadeOf
<1> QED
  BY <1>2, <1>3, <1>4

\* What each says when its turn comes.
Turn(x, a, b, c) ==
    CASE x = "sensors" -> a [] x = "runner" -> b [] x = "source" -> c

\* Whoever speaks first, what is said is made of what the three say.
LEMMA InTheirTurn ==
    ASSUME order \in Orders, NEW a \in Seq(Messages), NEW b \in Seq(Messages),
           NEW c \in Seq(Messages), NEW all,
           all = Turn(order[1], a, b, c) \o Turn(order[2], a, b, c) \o Turn(order[3], a, b, c)
    PROVE  all \in Seq(Messages) /\ MadeOf(all, a, b, c)
<1>1. /\ order[1] \in Voices /\ order[2] \in Voices /\ order[3] \in Voices
      /\ order[1] # order[2] /\ order[1] # order[3] /\ order[2] # order[3]
  BY DEF Orders
<1>2. /\ Turn("sensors", a, b, c) = a /\ Turn("runner", a, b, c) = b
      /\ Turn("source", a, b, c) = c
  BY DEF Turn
<1>3. \/ all = a \o b \o c \/ all = a \o c \o b \/ all = b \o a \o c
      \/ all = b \o c \o a \/ all = c \o a \o b \/ all = c \o b \o a
  <2>1. \/ order[1] = "sensors" /\ order[2] = "runner" /\ order[3] = "source"
        \/ order[1] = "sensors" /\ order[2] = "source" /\ order[3] = "runner"
        \/ order[1] = "runner" /\ order[2] = "sensors" /\ order[3] = "source"
        \/ order[1] = "runner" /\ order[2] = "source" /\ order[3] = "sensors"
        \/ order[1] = "source" /\ order[2] = "sensors" /\ order[3] = "runner"
        \/ order[1] = "source" /\ order[2] = "runner" /\ order[3] = "sensors"
    BY <1>1 DEF Voices
  <2> QED
    BY <1>2, <2>1, Zenon
<1>4. CASE all = a \o b \o c
  BY <1>4, ThreeParts
<1>5. CASE all = a \o c \o b
  BY <1>5, ThreeParts, AnyOrder
<1>6. CASE all = b \o a \o c
  BY <1>6, ThreeParts, AnyOrder
<1>7. CASE all = b \o c \o a
  BY <1>7, ThreeParts, AnyOrder
<1>8. CASE all = c \o a \o b
  BY <1>8, ThreeParts, AnyOrder
<1>9. CASE all = c \o b \o a
  BY <1>9, ThreeParts, AnyOrder
<1> QED
  BY <1>3, <1>4, <1>5, <1>6, <1>7, <1>8, <1>9, Zenon

\* Each message where its condition holds and in a place of its own, a restatement
\* before the release.
InTurn(said, P, p, Q, q, R, r, S, s) ==
    \E first, second, third, fourth \in Nat :
        /\ P /\ Q => first < second
        /\ R => third \in DOMAIN said /\ said[third] = r
        /\ \A i \in DOMAIN said :
              \/ P /\ i = first /\ said[i] = p
              \/ Q /\ i = second /\ said[i] = q
              \/ R /\ i = third /\ said[i] = r
              \/ S /\ i = fourth /\ said[i] = s

\* What a sample says, whoever subscribed first.
LEMMA SaidInTurn ==
    ASSUME NEW P \in BOOLEAN, NEW Q \in BOOLEAN, NEW R \in BOOLEAN, NEW S \in BOOLEAN,
           NEW p, NEW q, NEW r, NEW s,
           P => p \in Messages, Q => q \in Messages,
           R => r \in Messages, S => s \in Messages,
           NEW a, NEW b, NEW c, NEW said,
           a = Only(S, s), b = Only(P, p) \o Only(Q, q), c = Only(R, r),
           MadeOf(said, a, b, c), DOMAIN said \subseteq Nat
    PROVE  InTurn(said, P, p, Q, q, R, r, S, s)
<1>1. ASSUME NEW T \in BOOLEAN, NEW m, T => m \in Messages
      PROVE  /\ Only(T, m) \in Seq(Messages) /\ Len(Only(T, m)) = IF T THEN 1 ELSE 0
             /\ \A i \in DOMAIN Only(T, m) : T /\ i = 1 /\ Only(T, m)[i] = m
             /\ T => 1 \in DOMAIN Only(T, m) /\ Only(T, m)[1] = m
  <2>1. CASE T
    <3>1. Only(T, m) = <<m>> /\ m \in Messages
      BY <1>1, <2>1 DEF Only
    <3>2. /\ <<m>> \in Seq(Messages) /\ Len(<<m>>) = 1
          /\ \A i \in DOMAIN <<m>> : i = 1 /\ <<m>>[i] = m
          /\ 1 \in DOMAIN <<m>> /\ <<m>>[1] = m
      BY <3>1
    <3> QED
      BY <2>1, <3>1, <3>2
  <2>2. CASE ~T
    <3>1. Only(T, m) = <<>>
      BY <2>2 DEF Only
    <3> QED
      BY <2>2, <3>1
  <2> QED
    BY <2>1, <2>2
<1> DEFINE d == Only(P, p)
           e == Only(Q, q)
<1>2. /\ d \in Seq(Messages) /\ (\A i \in DOMAIN d : P /\ i = 1 /\ d[i] = p)
      /\ e \in Seq(Messages) /\ (\A i \in DOMAIN e : Q /\ i = 1 /\ e[i] = q)
      /\ Len(d) = IF P THEN 1 ELSE 0
  BY <1>1
<1>3. /\ \A i \in DOMAIN a : S /\ i = 1 /\ a[i] = s
      /\ \A i \in DOMAIN c : R /\ i = 1 /\ c[i] = r
      /\ R => 1 \in DOMAIN c /\ c[1] = r
  BY <1>1
<1>4. b = d \o e
  OBVIOUS
<1> HIDE DEF d, e
<1>5. Joins(d, e, b)
  BY <1>2, <1>4, ConcatEntries, Zenon
<1>6. PICK u \in Nat, v \in Nat, w \in Nat :
        /\ Place(said, a, u) /\ Place(said, b, v) /\ Place(said, c, w)
        /\ \A i \in DOMAIN said :
              From(said, a, u, i) \/ From(said, b, v, i) \/ From(said, c, w, i)
  BY DEF MadeOf
<1>7. ASSUME NEW k \in DOMAIN b
      PROVE  \/ P /\ k = 1 /\ b[k] = p
             \/ Q /\ k = Len(d) + 1 /\ b[k] = q
  <2>1. k \in Nat /\ Len(d) \in Nat
    BY <1>5 DEF Joins
  <2>2. CASE k \in DOMAIN d
    BY <1>2, <1>5, <2>2, Zenon DEF Joins
  <2>3. CASE k - Len(d) \in DOMAIN e /\ b[k] = e[k - Len(d)]
    <3>1. Q /\ k - Len(d) = 1 /\ b[k] = q
      BY <1>2, <2>3, Zenon
    <3>2. k = Len(d) + 1
      BY <2>1, <3>1
    <3> QED
      BY <3>1, <3>2
  <2> QED
    BY <1>5, <2>2, <2>3, Zenon DEF Joins
<1> DEFINE second == v + Len(d) + 1
<1>8. /\ v + 1 \in Nat /\ second \in Nat /\ w + 1 \in Nat /\ u + 1 \in Nat
      /\ P => v + 1 < second
  BY <1>2
<1>9. \A i, x \in Nat : (i - x = 1 => i = x + 1)
                        /\ (i - x = Len(d) + 1 => i = x + Len(d) + 1)
  <2>1. Len(d) \in Nat
    BY <1>2
  <2> QED
    BY <2>1
<1>10. R => w + 1 \in DOMAIN said /\ said[w + 1] = r
  BY <1>3, <1>6, Zenon DEF Place
<1>11. ASSUME NEW i \in DOMAIN said
       PROVE  \/ P /\ i = v + 1 /\ said[i] = p
              \/ Q /\ i = second /\ said[i] = q
              \/ R /\ i = w + 1 /\ said[i] = r
              \/ S /\ i = u + 1 /\ said[i] = s
  <2>1. CASE From(said, a, u, i)
    <3>1. S /\ i - u = 1 /\ said[i] = s
      BY <1>3, <2>1, Zenon DEF From
    <3> QED
      BY <1>9, <3>1
  <2>2. CASE From(said, b, v, i)
    <3>1. \/ P /\ i - v = 1 /\ said[i] = p
          \/ Q /\ i - v = Len(d) + 1 /\ said[i] = q
      BY <1>7, <2>2, Zenon DEF From
    <3> QED
      BY <1>9, <3>1
  <2>3. CASE From(said, c, w, i)
    <3>1. R /\ i - w = 1 /\ said[i] = r
      BY <1>3, <2>3, Zenon DEF From
    <3> QED
      BY <1>9, <3>1
  <2> QED
    BY <1>6, <2>1, <2>2, <2>3
<1> HIDE DEF second
<1> SUFFICES \E first, then, third, fourth \in Nat :
                 /\ P /\ Q => first < then
                 /\ R => third \in DOMAIN said /\ said[third] = r
                 /\ \A i \in DOMAIN said :
                       \/ P /\ i = first /\ said[i] = p
                       \/ Q /\ i = then /\ said[i] = q
                       \/ R /\ i = third /\ said[i] = r
                       \/ S /\ i = fourth /\ said[i] = s
  BY DEF InTurn
<1> USE <1>8
<1> WITNESS v + 1 \in Nat, second \in Nat, w + 1 \in Nat, u + 1 \in Nat
<1> QED
  BY <1>8, <1>10, <1>11, Zenon

\* A sample, though it releases, restates, announces, authors and measures at once.
LEMMA SampleKeeps ==
    ASSUME IInv, NEW t \in 0..MaxTick, t = now \/ t = now + 1, Sample(t), now' = t,
           prompts' \in 0..MaxPrompts
    PROVE  IInv'
<1> DEFINE next == IF standing = None THEN 1 ELSE standing + 1
           restates == runnerUp /\ ~resumed /\ standing # None
           read == IF runnerLast THEN standing ELSE standing'
<1>1. PICK released \in BOOLEAN, measured \in BOOLEAN :
         /\ released => next <= MaxRun /\ (standing # None => dated < t)
         /\ standing' = IF released THEN next ELSE standing
         /\ dated' = IF released THEN t ELSE dated
         /\ resumed' = (resumed \/ runnerUp)
         /\ Cadence(t, read)
         /\ LET says(x) == Turn(x, Only(measured, Row(t)),
                                Only(restates, Published(standing, dated))
                                   \o Only(runnerUp /\ released, Published(next, t)),
                                Only(Authors(t), Advisory(sequence)))
            IN queue' = says(order[1]) \o says(order[2]) \o says(order[3])
  BY Zenon DEF Sample, Turn
<1>2. /\ queue = <<>> /\ packagerTick' = (IF packagerUp THEN t ELSE packagerTick)
      /\ sequence' = (IF Authors(t) THEN sequence + 1 ELSE sequence)
      /\ sourceHeard' = sourceUp
      /\ UNCHANGED <<rows, runnerUp, runnerLast, packagerUp, intervalStart, stagedFor,
                     bundles, declined, producing, stops, scored, sourceUp, advisories,
                     order>>
  BY DEF Sample, Drained, Author
<1>3. /\ standing \in Runs \cup {None} /\ forecastRun \in Runs \cup {None}
      /\ stagedFor \in Runs \cup {None} /\ None \notin Nat /\ None \notin Runs
      /\ Runs \subseteq Nat /\ now \in Nat /\ dated \in 0..now /\ MaxRun \in Nat
      /\ MaxTick \in Nat
      /\ \A x \in Nat : x >= 1 /\ x <= MaxRun <=> x \in Runs
  <2>1. MaxRun \in Nat
    BY OutboundAssumption
  <2>2. \A x \in Nat : x >= 1 /\ x <= MaxRun <=> x \in Runs
    BY <2>1 DEF Runs
  <2> QED
    BY <2>1, <2>2, Types
<1>4. /\ t \in Nat /\ now <= t /\ next \in Nat \ {0} /\ (released => next \in Runs)
      /\ dated' \in 0..t /\ dated \in 0..t
  <2>1. t \in Nat /\ now <= t
    BY <1>3
  <2>2. next \in Nat \ {0}
    BY <1>3
  <2>3. released => next \in Runs
    BY <1>3, <1>1, <2>2
  <2>4. dated \in 0..t
    BY <1>3, <2>1
  <2> QED
    BY <1>1, <2>1, <2>2, <2>3, <2>4
<1>5. /\ standing' \in Runs \cup {None}
      /\ standing # None => standing' # None /\ standing <= standing'
      /\ released => standing' = next /\ standing # standing'
      /\ ~released => standing' = standing
      /\ \A r \in Runs : r <= standing /\ standing # None => r < next /\ r <= standing'
  <2>1. standing # None => standing \in Nat /\ next = standing + 1
    BY <1>3
  <2>2. standing' = next \/ standing' = standing
    BY <1>1
  <2>3. released => standing' = next /\ standing # standing'
    BY <1>3, <1>1, <1>4, <2>1
  <2>4. standing # None => standing' # None /\ standing <= standing'
    BY <1>3, <1>4, <2>1, <2>2
  <2>5. \A x \in Runs : x <= standing /\ standing # None => x < next /\ x <= standing'
    BY <1>3, <2>1, <2>2
  <2> QED
    BY <1>3, <1>1, <1>4, <2>3, <2>4, <2>5
<1>6. Unheard = 0 /\ Entries = {}
  BY <1>2 DEF Unheard, Entries
<1>7. next \in Runs => scored[next] = 0
  <2>1. standing = None \/ next > standing
    BY <1>3
  <2> QED
    BY <2>1 DEF IInv, Scores
<1>8. restates => read = standing /\ standing \in Runs
  BY Types DEF IInv, Restated
<1>9. read = standing' \/ read = standing
  OBVIOUS
<1> DEFINE announces == runnerUp /\ released
           P == restates
           Q == announces
           R == Authors(t)
           p == Published(standing, dated)
           q == Published(next, t)
           r == Advisory(sequence)
           s == Row(t)
<1>10. P \in BOOLEAN /\ Q \in BOOLEAN /\ R \in BOOLEAN /\ measured \in BOOLEAN
  BY DEF Authors
<1>11. /\ P => p \in Messages /\ standing # None
       /\ Q => q \in Messages /\ released
       /\ r \in Messages /\ s \in Messages
  BY <1>4, <1>5, Types DEF Published, Advisory, Row, Messages
<1>12. /\ p.kind = "published" /\ p.run = standing /\ p.tick = dated
       /\ q.kind = "published" /\ q.run = next /\ q.tick = t
       /\ r.kind = "advisory" /\ r.number = sequence
       /\ s.kind = "row" /\ s.tick = t
  BY DEF Published, Advisory, Row
<1> DEFINE a == Only(measured, s)
           b == Only(P, p) \o Only(Q, q)
           c == Only(R, r)
<1>13. queue' = Turn(order[1], a, b, c) \o Turn(order[2], a, b, c) \o Turn(order[3], a, b, c)
  BY <1>1
<1>14. P => read = standing /\ standing \in Runs
  BY <1>8
<1>15. Cadence(t, read)
  BY <1>1
<1> HIDE DEF P, Q, R, p, q, r, s, announces, restates, read
<1>16. queue' \in Seq(Messages) /\ InTurn(queue', P, p, Q, q, R, r, measured, s)
  <2>1. /\ P => p \in Messages
        /\ Q => q \in Messages
        /\ R => r \in Messages
        /\ measured => s \in Messages
    BY <1>11
  <2>2. a \in Seq(Messages) /\ b \in Seq(Messages) /\ c \in Seq(Messages)
    <3>1. ASSUME NEW T \in BOOLEAN, NEW m, T => m \in Messages
          PROVE  Only(T, m) \in Seq(Messages)
      <4>1. CASE T
        BY <3>1, <4>1, AtMostOne
      <4>2. CASE ~T
        BY <4>2 DEF Only
      <4> QED
        BY <4>1, <4>2
    <3>2. /\ Only(measured, s) \in Seq(Messages) /\ Only(P, p) \in Seq(Messages)
          /\ Only(Q, q) \in Seq(Messages) /\ Only(R, r) \in Seq(Messages)
      BY <1>10, <2>1, <3>1
    <3> QED
      BY <3>2, ConcatEntries
  <2>3. order \in Orders
    BY DEF IInv, OutboundTypeOK
  <2>4. queue' \in Seq(Messages) /\ MadeOf(queue', a, b, c)
    <3> HIDE DEF a, b, c
    <3> QED
      BY <1>13, <2>2, <2>3, InTheirTurn
  <2>5. DOMAIN queue' \subseteq Nat
    <3>1. DOMAIN queue' = 1..Len(queue')
      BY <2>4, LenProperties
    <3> QED
      BY <3>1
  <2> QED
    BY <1>10, <2>1, <2>4, <2>5, SaidInTurn
<1>17. PICK first \in Nat, second \in Nat, third \in Nat, fourth \in Nat :
         /\ P /\ Q => first < second
         /\ R => third \in DOMAIN queue' /\ queue'[third] = r
         /\ \A i \in DOMAIN queue' :
               \/ P /\ i = first /\ queue'[i] = p
               \/ Q /\ i = second /\ queue'[i] = q
               \/ R /\ i = third /\ queue'[i] = r
               \/ measured /\ i = fourth /\ queue'[i] = s
  BY <1>16 DEF InTurn
<1> HIDE DEF a, b, c
<1>18. ASSUME NEW i \in Entries'
       PROVE  /\ Is(i, "published")' =>
                   \/ P /\ i = first /\ queue'[i] = p
                   \/ Q /\ i = second /\ queue'[i] = q
              /\ Is(i, "row")' => i = fourth /\ queue'[i] = s
              /\ ~Is(i, "scored")'
              /\ Is(i, "advisory")' => R /\ i = third /\ queue'[i] = r
  <2>1. i \in DOMAIN queue'
    BY DEF Entries
  <2> QED
    BY <1>12, <1>17, <2>1 DEF Is
<1>19. Unheard' = 0
  BY <1>18 DEF Unheard
<1>20. \/ UNCHANGED <<forecastRun, ledger>>
       \/ read # None /\ read # forecastRun /\ forecastRun' = read /\ ledger' = <<>>
  BY <1>15 DEF Cadence, Adopt
<1>21. ASSUME standing \in Runs, standing # forecastRun'
       PROVE  read = standing => scored[standing] = 0
  BY <1>6, <1>20, <1>21, Types DEF IInv, Scores
<1> HIDE DEF next
<1>22. Announced'
  <2>1. ASSUME NEW i \in Entries', Is(i, "published")'
        PROVE  /\ queue'[i].run \in Runs /\ queue'[i].tick \in 0..now'
               /\ standing' # None /\ queue'[i].run <= standing'
               /\ stagedFor # None => stagedFor <= queue'[i].run
               /\ queue'[i].run # forecastRun' => scored[queue'[i].run] = 0
               /\ queue'[i].run # standing' => forecastRun' # standing'
    <3>1. CASE P /\ queue'[i] = p
      <4>1. standing \in Runs /\ standing # None /\ read = standing
        BY <1>11, <1>14, <3>1
      <4>2. stagedFor # None => stagedFor <= standing
        BY DEF IInv, Kept
      <4>3. ASSUME standing # standing' PROVE forecastRun' # standing'
        <5>1. forecastRun' = standing \/ forecastRun' = forecastRun
          BY <1>20, <4>1
        <5>2. forecastRun # None => forecastRun <= standing
          BY DEF IInv, Scores
        <5>3. forecastRun # None => forecastRun < standing'
          BY <1>5, <4>1, <4>3, <5>2, Types
        <5> QED
          BY <1>5, <4>1, <4>3, <5>1, <5>3, Types
      <4> QED
        BY <1>4, <1>5, <1>12, <1>21, <3>1, <4>1, <4>2, <4>3
    <3>2. CASE Q /\ queue'[i] = q
      <4>1. released /\ standing' = next /\ next \in Runs
        BY <1>4, <1>5, <1>11, <3>2
      <4>2. stagedFor # None => stagedFor <= next
        BY <1>5, <4>1, Types DEF IInv, Kept
      <4>3. next # None /\ next <= next
        BY <1>3, <4>1
      <4> QED
        BY <1>4, <1>7, <1>12, <3>2, <4>1, <4>2, <4>3
    <3> QED
      BY <1>18, <2>1, <3>1, <3>2
  <2>2. ASSUME NEW i \in Entries', NEW j \in Entries', Is(i, "published")',
               Is(j, "published")', i < j
        PROVE  queue'[j].run = standing' /\ scored[standing'] = 0
    <3>1. Q /\ queue'[j] = q
      <4>1. \/ P /\ j = first /\ queue'[j] = p
            \/ Q /\ j = second /\ queue'[j] = q
        BY <1>18, <2>2
      <4>2. (P /\ i = first) \/ (Q /\ i = second)
        BY <1>18, <2>2
      <4>3. i # j
        BY <2>2, <4>1, <4>2
      <4>4. ASSUME P, Q, i = second, j = first PROVE FALSE
        <5>1. first < second
          BY <1>17, <4>4, Zenon
        <5> QED
          BY <2>2, <4>4, <5>1
      <4> QED
        BY <4>1, <4>2, <4>3, <4>4, Zenon
    <3>2. released /\ standing' = next /\ next \in Runs
      BY <1>4, <1>5, <1>11, <3>1
    <3> QED
      BY <1>7, <1>12, <3>1, <3>2
  <2> QED
    BY <1>2, <1>19, <2>1, <2>2 DEF Announced
<1>23. Measurement'
  <2>1. ASSUME NEW i \in Entries', NEW j \in Entries', Measuring(i)', Measuring(j)'
        PROVE  i = j
    BY <1>18, <2>1 DEF Measuring
  <2>2. ASSUME NEW i \in Entries', Is(i, "row")' PROVE queue'[i].tick = now'
    BY <1>12, <1>18, <2>2
  <2> QED
    BY <1>18, <2>1, <2>2 DEF Measurement
<1>24. Scores'
  <2>1. \A x \in Runs : standing' = None \/ x > standing' => scored[x] = 0
    <3> SUFFICES ASSUME NEW x \in Runs, standing' = None \/ x > standing'
                 PROVE  scored[x] = 0
      OBVIOUS
    <3>1. standing = None \/ x > standing
      BY <1>3, <1>5
    <3> QED
      BY <3>1 DEF IInv, Scores
  <2>2. CASE UNCHANGED <<forecastRun, ledger>>
    <3>1. forecastRun # None => standing' # None /\ forecastRun <= standing'
      BY <1>5, Types DEF IInv, Scores
    <3>2. forecastRun # None => scored[forecastRun] = Len(ledger)
      BY <1>6, Types DEF IInv, Scores
    <3>3. ASSUME standing' # None, forecastRun # standing' PROVE scored[standing'] = 0
      <4>1. CASE released
        BY <1>4, <1>5, <1>7, <4>1
      <4>2. CASE ~released
        BY <1>5, <1>6, <3>3, <4>2 DEF IInv, Scores
      <4> QED
        BY <4>1, <4>2
    <3> QED
      BY <1>2, <1>19, <2>1, <2>2, <3>1, <3>2, <3>3, Types DEF IInv, Scores
  <2>3. CASE read # None /\ read # forecastRun /\ forecastRun' = read /\ ledger' = <<>>
    <3>1. read \in Runs /\ scored[read] = 0 /\ standing' # None /\ read <= standing'
      <4>1. CASE read = standing
        BY <1>5, <1>6, <2>3, <4>1, Types DEF IInv, Scores
      <4>2. CASE read = standing' /\ read # standing
        <5>1. released
          BY <1>5, <4>2
        <5> QED
          BY <1>4, <1>5, <1>7, <2>3, <4>2, <5>1, Types
      <4> QED
        BY <1>9, <4>1, <4>2 DEF read
    <3>2. ASSUME read # standing' PROVE scored[standing'] = 0
      <4>1. released
        BY <1>5, <1>9, <3>2 DEF read
      <4> QED
        BY <1>4, <1>5, <1>7, <4>1
    <3>3. DOMAIN ledger' = {} /\ Len(ledger') = 0
      BY <2>3
    <3> QED
      BY <1>2, <1>19, <2>1, <2>3, <3>1, <3>2, <3>3 DEF Scores
  <2> QED
    BY <1>20, <2>2, <2>3
<1>25. Kept' /\ Divided' /\ Restated'
  <2>1. stagedFor # None => standing' # None /\ stagedFor <= standing'
    BY <1>5, Types DEF IInv, Kept
  <2> QED
    BY <1>1, <1>2, <2>1 DEF IInv, Kept, Divided, Restated
<1>26. Sequenced'
  <2>1. PICK k \in Nat : AsFar(k)
    BY DEF IInv, Sequenced
  <2>2. advisories = 0..(k - 1) /\ sequence \in 0..k /\ (stops = 0 => sequence = k)
    BY <1>6, <2>1, Types DEF AsFar
  <2>3. \A i, j \in Entries' : Is(i, "advisory")' /\ Is(j, "advisory")' => i = j
    BY <1>18
  <2>4. \A i \in Entries' : Is(i, "advisory")' =>
           R /\ queue'[i].number = sequence
    BY <1>12, <1>18
  <2>5. (\A i \in Entries' : ~Is(i, "advisory")') => ~R
    BY <1>12, <1>17 DEF Entries, Is
  <2>6. sequence' = IF R THEN sequence + 1 ELSE sequence
    BY <1>2 DEF R
  <2>7. AsFar(k)'
    <3>1. ASSUME NEW i \in Entries', Is(i, "advisory")'
          PROVE  /\ queue'[i].number \in 0..k /\ sequence' = queue'[i].number + 1
                 /\ stops' = 0 => queue'[i].number = k
      BY <1>2, <2>2, <2>4, <2>6, <3>1
    <3>2. (\A i \in Entries' : ~Is(i, "advisory")') =>
             sequence' <= k /\ (stops' = 0 => sequence' = k)
      BY <1>2, <2>2, <2>5, <2>6
    <3>3. advisories' = 0..(k - 1)
      BY <1>2, <2>2
    <3> QED
      BY <2>3, <3>1, <3>2, <3>3 DEF AsFar
  <2> QED
    BY <2>7 DEF Sequenced
<1>27. OutboundTypeOK' /\ MoreTypes'
  <2>1. forecastRun' \in Runs \cup {None} /\ ledger' \in Seq(Runs)
    <3>1. <<>> \in Seq(Runs)
      BY EmptySeq
    <3>2. read \in Runs \cup {None}
      BY <1>5, Types DEF read
    <3> QED
      BY <1>20, <3>1, <3>2, Types
  <2>2. packagerTick' \in 0..now' /\ intervalStart' \in 0..packagerTick'
    <3>1. packagerTick \in 0..now /\ intervalStart \in 0..packagerTick
      BY Types DEF PackagerTypes
    <3>2. packagerTick' = t \/ packagerTick' = packagerTick
      BY <1>2
    <3> QED
      BY <1>3, <1>2, <1>4, <3>1, <3>2
  <2>3. rows' \subseteq 0..now'
    BY <1>2, <1>4, Types
  <2>4. sequence' \in Nat
    BY <1>2, Types
  <2>5. resumed' \in BOOLEAN
    BY <1>1 DEF IInv, MoreTypes
  <2>6. now' \in Ticks /\ dated' \in 0..now'
    BY <1>4 DEF Ticks
  <2> QED
    BY <1>2, <1>5, <1>16, <2>1, <2>2, <2>3, <2>4, <2>5, <2>6
    DEF IInv, OutboundTypeOK, MoreTypes, Bytes
<1> QED
  BY <1>22, <1>23, <1>24, <1>25, <1>26, <1>27 DEF IInv

-----------------------------------------------------------------------------
(* Prompts and verbs, none of which is heard while a message waits.        *)

\* Nothing said, nothing scored.
LEMMA QuietKeeps ==
    ASSUME IInv, Drained,
           UNCHANGED <<queue, standing, forecastRun, ledger, scored, now, dated, rows,
                       advisories>>
    PROVE  Announced' /\ Measurement' /\ Scores' /\ queue' \in Seq(Messages)
<1>1. Entries' = {}
  BY DEF Drained, Entries
<1>2. Announced' /\ Measurement'
  BY <1>1 DEF Announced, Measurement
<1>3. Unheard' = Unheard
  BY DEF Unheard, Is, Entries
<1> QED
  BY <1>2, <1>3 DEF IInv, Scores, MoreTypes

\* A source left alone, or stopped: one that is stopped has not been the only one.
LEMMA QuietSequence ==
    ASSUME IInv, Drained, UNCHANGED <<queue, advisories>>,
           UNCHANGED sequence \/ sequence' = 0,
           (UNCHANGED sequence /\ stops' = stops) \/ stops' # 0
    PROVE  Sequenced'
<1>1. PICK k \in Nat : AsFar(k)
  BY DEF IInv, Sequenced
<1>2. Entries = {} /\ Entries' = {}
  BY DEF Drained, Entries
<1>3. /\ advisories = 0..(k - 1) /\ sequence <= k /\ (stops = 0 => sequence = k)
  BY <1>1, <1>2 DEF AsFar
<1>4. sequence' <= k /\ (stops' = 0 => sequence' = k)
  BY <1>3, Types
<1>5. AsFar(k)'
  BY <1>2, <1>3, <1>4 DEF AsFar
<1> QED
  BY <1>5 DEF Sequenced

\* The release that stands is bundled on request, or declined.
LEMMA OffloadKeeps ==
    ASSUME IInv, OffloadOnRequest
    PROVE  IInv'
<1>1. /\ Drained /\ packagerUp /\ prompts' \in 0..MaxPrompts
      /\ UNCHANGED <<now, queue, order, storeVars, runnerVars, packagerUp, packagerTick,
                     forecastRun, ledger, shore, stops, scored>>
  <2>1. prompts \in Nat /\ MaxPrompts \in Nat
    BY OutboundAssumption DEF IInv, OutboundTypeOK
  <2> QED
    BY <2>1 DEF OffloadOnRequest
<1>2. /\ UNCHANGED <<order, standing, dated, rows, runnerUp, resumed, runnerLast, sourceUp,
                     sourceHeard, sequence, advisories>>
  BY <1>1 DEF storeVars, runnerVars, shore, sourceVars
<1>3. PackagerTypes' /\ Divided' /\ Kept'
  <2>1. CASE standing = None
    <3>1. declined' = declined + 1 /\ UNCHANGED <<intervalStart, stagedFor, bundles, producing>>
      BY <2>1 DEF OffloadOnRequest
    <3>2. PackagerTypes'
      <4>1. PackagerTypes /\ declined + 1 \in Nat
        BY Types DEF PackagerTypes
      <4>2. Bytes' = Bytes
        BY <3>1 DEF Bytes
      <4> QED
        BY <1>1, <3>1, <4>1, <4>2 DEF PackagerTypes
    <3> QED
      BY <1>1, <1>2, <3>1, <3>2 DEF IInv, Divided, Kept
  <2>2. CASE standing # None
    <3>1. Stage(standing, packagerTick)
      BY <2>2 DEF OffloadOnRequest
    <3>2. standing \in Runs /\ standing \in Nat /\ packagerTick \in 0..packagerTick
      BY <2>2, Types
    <3>3. PackagerTypes' /\ Divided' /\ BundledOrNot(standing)
      BY <1>1, <1>2, <3>1, <3>2, StageKeeps
    <3>4. CASE bundles' = bundles /\ stagedFor' = stagedFor /\ intervalStart' = intervalStart
      BY <1>1, <1>2, <3>3, <3>4 DEF IInv, Kept
    <3>5. CASE /\ stagedFor' = standing
               /\ \A n \in DOMAIN bundles' : bundles'[n].run = standing
                                             \/ (n \in DOMAIN bundles /\ bundles'[n] = bundles[n])
      <4>1. \A n \in DOMAIN bundles : bundles[n].run \in Nat
        <5> SUFFICES ASSUME NEW n \in DOMAIN bundles PROVE bundles[n].run \in Nat
          OBVIOUS
        <5>1. bundles \in Seq(Bundles)
          BY Types DEF PackagerTypes
        <5>2. bundles[n] \in Bundles
          BY <5>1, LenProperties
        <5>3. bundles[n].run \in Runs
          BY <5>2 DEF Bundles
        <5> QED
          BY <5>3, Types
      <4>2. ASSUME NEW n \in DOMAIN bundles' PROVE bundles'[n].run <= standing
        <5>1. CASE bundles'[n].run = standing
          BY <3>2, <5>1
        <5>2. CASE n \in DOMAIN bundles /\ bundles'[n] = bundles[n]
          <6>1. /\ stagedFor # None /\ bundles[n].run <= stagedFor /\ stagedFor <= standing
            BY <5>2 DEF IInv, Kept
          <6>2. stagedFor \in Nat /\ bundles[n].run \in Nat
            BY <4>1, <5>2, <6>1, Types
          <6>3. bundles[n].run <= standing
            BY <3>2, <6>1, <6>2
          <6> QED
            BY <5>2, <6>3
        <5> QED
          BY <3>5, <5>1, <5>2
      <4>3. standing <= standing
        BY <3>2
      <4> QED
        BY <1>1, <1>2, <2>2, <3>3, <3>5, <4>2, <4>3 DEF Kept
    <3> QED
      BY <3>3, <3>4, <3>5 DEF BundledOrNot
  <2> QED
    BY <2>1, <2>2
<1>4. Announced' /\ Measurement' /\ Scores' /\ queue' \in Seq(Messages)
  BY <1>1, <1>2, QuietKeeps
<1>5. Sequenced'
  BY <1>1, <1>2, QuietSequence
<1>6. OutboundTypeOK' /\ MoreTypes' /\ Restated'
  BY <1>1, <1>2, <1>3, <1>4
  DEF IInv, OutboundTypeOK, MoreTypes, Restated, PackagerTypes
<1> QED
  BY <1>3, <1>4, <1>5, <1>6 DEF IInv

\* The next number is on its way.
LEMMA RequestKeeps ==
    ASSUME IInv, AdvisoryOnRequest
    PROVE  IInv'
<1> DEFINE m == Advisory(sequence)
<1>1. /\ Drained /\ prompts' \in 0..MaxPrompts /\ queue' = <<m>>
      /\ sequence' = sequence + 1
      /\ UNCHANGED <<now, order, storeVars, runnerVars, packagerVars, forecastRun, ledger,
                     sourceUp, sourceHeard, advisories, stops, scored>>
  <2>1. prompts \in Nat /\ MaxPrompts \in Nat
    BY OutboundAssumption DEF IInv, OutboundTypeOK
  <2> QED
    BY <2>1 DEF AdvisoryOnRequest
<1>2. /\ UNCHANGED <<order, standing, dated, rows, runnerUp, resumed, runnerLast, packagerUp,
                     packagerTick, intervalStart, stagedFor, bundles, declined, producing>>
  BY <1>1 DEF storeVars, runnerVars, packagerVars, packagerState
<1>3. m \in Messages /\ m.kind = "advisory" /\ m.number = sequence
  BY Types DEF Advisory, Messages
<1> HIDE DEF m
<1>4. /\ queue' \in Seq(Messages) /\ Len(queue') = 1 /\ Entries' = {1} /\ queue'[1] = m
      /\ queue' # <<>> /\ Head(queue') = m
  BY <1>1, <1>3 DEF Entries
<1>5. Announced' /\ Measurement'
  BY <1>3, <1>4 DEF Announced, Measurement, Is
<1>6. Unheard = 0 /\ Unheard' = 0
  <2>1. Entries = {}
    BY <1>1 DEF Drained, Entries
  <2>2. \A i \in Entries' : ~Is(i, "scored")'
    BY <1>3, <1>4 DEF Is
  <2> QED
    BY <2>1, <2>2 DEF Unheard
<1>7. Scores'
  BY <1>1, <1>2, <1>6 DEF IInv, Scores
<1>8. Kept' /\ Divided' /\ Restated'
  BY <1>1, <1>2 DEF IInv, Kept, Divided, Restated
<1>9. Sequenced'
  <2>1. PICK k \in Nat : AsFar(k)
    BY DEF IInv, Sequenced
  <2>2. Entries = {}
    BY <1>1 DEF Drained, Entries
  <2>3. advisories = 0..(k - 1) /\ sequence \in 0..k /\ (stops = 0 => sequence = k)
    BY <2>1, <2>2, Types DEF AsFar
  <2>4. AsFar(k)'
    BY <1>1, <1>3, <1>4, <2>3 DEF AsFar, Is
  <2> QED
    BY <2>4 DEF Sequenced
<1>10. OutboundTypeOK' /\ MoreTypes'
  <2>1. sequence' \in Nat
    BY <1>1, Types
  <2> QED
    BY <1>1, <1>2, <1>4, <2>1 DEF IInv, OutboundTypeOK, MoreTypes, Bytes
<1> QED
  BY <1>5, <1>7, <1>8, <1>9, <1>10 DEF IInv

\* The stop verb is used within its bound, and is remembered.
LEMMA Stopped ==
    ASSUME IInv, MayStop
    PROVE  Drained /\ stops' \in 0..MaxStops /\ stops' # 0
<1>1. stops \in Nat /\ MaxStops \in Nat
  BY OutboundAssumption DEF IInv, OutboundTypeOK
<1> QED
  BY <1>1 DEF MayStop

\* Three who speak, in some order.
LEMMA ThreeVoices ==
    ASSUME NEW x \in Voices, NEW y \in Voices, NEW z \in Voices,
           x # y, x # z, y # z
    PROVE  <<x, y, z>> \in Orders
<1> DEFINE o == <<x, y, z>>
<1>1. o \in [1..3 -> Voices] /\ o[1] = x /\ o[2] = y /\ o[3] = z
  OBVIOUS
<1> HIDE DEF o
<1>2. \A m, n \in 1..3 : o[m] = o[n] => m = n
  <2> SUFFICES ASSUME NEW m \in 1..3, NEW n \in 1..3, o[m] = o[n] PROVE m = n
    OBVIOUS
  <2>1. (m = 1 \/ m = 2 \/ m = 3) /\ (n = 1 \/ n = 2 \/ n = 3)
    OBVIOUS
  <2> QED
    BY <1>1, <2>1
<1>3. o \in Orders
  BY <1>1, <1>2 DEF Orders
<1> QED
  BY <1>3 DEF o

\* Who is started again speaks last of the three.
LEMMA Rejoined ==
    ASSUME order \in Orders, NEW c \in Voices, Rejoin(c)
    PROVE  order' \in Orders
<1>1. /\ order[1] \in Voices /\ order[2] \in Voices /\ order[3] \in Voices
      /\ order[1] # order[2] /\ order[1] # order[3] /\ order[2] # order[3]
  BY DEF Orders
<1>2. CASE order[1] = c
  BY <1>1, <1>2, ThreeVoices DEF Rejoin
<1>3. CASE order[1] # c /\ order[2] = c
  BY <1>1, <1>3, ThreeVoices DEF Rejoin
<1>4. CASE order[1] # c /\ order[2] # c
  BY <1>4 DEF Rejoin
<1> QED
  BY <1>2, <1>3, <1>4

\* The runner is stopped and started, and the sensors are.
LEMMA RunnerVerbsKeep ==
    ASSUME IInv, StopRunner \/ StartRunner \/ RestartSensors
    PROVE  IInv'
<1>1. /\ UNCHANGED <<now, queue, storeVars, packagerVars, forecastRun, ledger, shore,
                     prompts, scored>>
      /\ Drained /\ stops' \in 0..MaxStops /\ (stops' = stops \/ stops' # 0)
      /\ order' \in Orders
  <2>1. order \in Orders
    BY DEF IInv, OutboundTypeOK
  <2>2. CASE StopRunner
    BY <2>1, <2>2, Stopped DEF StopRunner
  <2>3. CASE StartRunner
    <3>1. order' \in Orders
      BY <2>1, <2>3, Rejoined DEF StartRunner, Voices
    <3> QED
      BY <2>3, <3>1 DEF StartRunner, bounds, IInv, OutboundTypeOK
  <2>4. CASE RestartSensors
    <3>1. order' \in Orders
      BY <2>1, <2>4, Rejoined DEF RestartSensors, Voices
    <3> QED
      BY <2>4, <3>1, Stopped DEF RestartSensors
  <2> QED
    BY <2>2, <2>3, <2>4
<1>2. /\ UNCHANGED <<standing, dated, rows, packagerUp, packagerTick, intervalStart,
                     stagedFor, bundles, declined, producing, sourceUp, sourceHeard,
                     sequence, advisories>>
  BY <1>1 DEF storeVars, packagerVars, packagerState, shore, sourceVars
<1>3. /\ Restated' /\ runnerUp' \in BOOLEAN /\ resumed' \in BOOLEAN /\ runnerLast' \in BOOLEAN
  <2>1. runnerUp \in BOOLEAN /\ resumed \in BOOLEAN /\ runnerLast \in BOOLEAN /\ Restated
    BY DEF IInv, MoreTypes
  <2>2. CASE StopRunner
    BY <2>1, <2>2 DEF StopRunner, Restated
  <2>3. CASE StartRunner
    BY <2>1, <2>3 DEF StartRunner, Restated
  <2>4. CASE RestartSensors
    BY <2>1, <2>4 DEF RestartSensors, runnerVars, Restated
  <2> QED
    BY <2>2, <2>3, <2>4
<1>4. Announced' /\ Measurement' /\ Scores' /\ queue' \in Seq(Messages)
  BY <1>1, <1>2, QuietKeeps
<1>5. Sequenced'
  BY <1>1, <1>2, QuietSequence
<1>6. Kept' /\ Divided'
  BY <1>1, <1>2 DEF IInv, Kept, Divided
<1>7. OutboundTypeOK' /\ MoreTypes'
  BY <1>1, <1>2, <1>3, <1>4 DEF IInv, OutboundTypeOK, MoreTypes, Bytes
<1> QED
  BY <1>3, <1>4, <1>5, <1>6, <1>7 DEF IInv

\* The packager is stopped, which lets its staging area go, and started.
LEMMA PackagerVerbsKeep ==
    ASSUME IInv, StopPackager \/ StartPackager
    PROVE  IInv'
<1>1. /\ UNCHANGED <<now, queue, order, storeVars, runnerVars, forecastRun, ledger, shore,
                     prompts, scored>>
      /\ Drained /\ stops' \in 0..MaxStops /\ (stops' = stops \/ stops' # 0)
  <2>1. CASE StopPackager
    BY <2>1, Stopped DEF StopPackager
  <2>2. CASE StartPackager
    BY <2>2 DEF StartPackager, bounds, IInv, OutboundTypeOK
  <2> QED
    BY <2>1, <2>2
<1>2. /\ UNCHANGED <<order, standing, dated, rows, runnerUp, resumed, runnerLast, sourceUp,
                     sourceHeard, sequence, advisories>>
  BY <1>1 DEF storeVars, runnerVars, shore, sourceVars
<1>3. /\ PackagerTypes' /\ packagerTick' \in 0..now /\ packagerUp' \in BOOLEAN
      /\ Kept' /\ Divided'
  <2>1. CASE StopPackager
    <3>1. /\ packagerTick' = 0 /\ intervalStart' = 0 /\ stagedFor' = None
          /\ bundles' = <<>> /\ declined' = 0 /\ producing' = TRUE /\ packagerUp' = FALSE
      BY <2>1 DEF StopPackager
    <3>2. bundles' \in Seq(Bundles) /\ Len(bundles') = 0 /\ DOMAIN bundles' = {}
      BY <3>1
    <3>3. Bytes' = 0 /\ 0 < Bound + FieldBytes /\ ~(0 >= Bound)
      BY <3>2, OutboundAssumption DEF Bytes
    <3>4. PackagerTypes' /\ packagerTick' \in 0..now
      BY <3>1, <3>2, <3>3, Types DEF PackagerTypes
    <3>5. Divided'
      <4>1. rows \subseteq Nat
        BY Types
      <4>2. \A t \in rows : ~(t < 0)
        BY <4>1
      <4> QED
        BY <1>2, <3>1, <3>2, <4>2 DEF Divided
    <3> QED
      BY <3>1, <3>2, <3>4, <3>5 DEF Kept
  <2>2. CASE StartPackager
    <3>1. /\ packagerUp' = TRUE
          /\ UNCHANGED <<packagerTick, intervalStart, stagedFor, bundles, declined,
                         producing>>
      BY <2>2 DEF StartPackager, packagerState
    <3> QED
      BY <1>1, <1>2, <3>1, Types DEF PackagerTypes, Bytes, IInv, Kept, Divided
  <2> QED
    BY <2>1, <2>2
<1>4. Announced' /\ Measurement' /\ Scores' /\ queue' \in Seq(Messages)
  BY <1>1, <1>2, QuietKeeps
<1>5. Sequenced'
  BY <1>1, <1>2, QuietSequence
<1>6. OutboundTypeOK' /\ MoreTypes' /\ Restated'
  BY <1>1, <1>2, <1>3, <1>4 DEF IInv, OutboundTypeOK, MoreTypes, Restated, PackagerTypes
<1> QED
  BY <1>3, <1>4, <1>5, <1>6 DEF IInv

\* The source is stopped, which lets its number go, and started.
LEMMA SourceVerbsKeep ==
    ASSUME IInv, StopSource \/ StartSource
    PROVE  IInv'
<1>1. /\ UNCHANGED <<now, queue, storeVars, runnerVars, packagerVars, forecastRun, ledger,
                     advisories, prompts, scored>>
      /\ Drained /\ stops' \in 0..MaxStops
      /\ (sequence' = sequence /\ stops' = stops) \/ (sequence' = 0 /\ stops' # 0)
      /\ sourceUp' \in BOOLEAN /\ sourceHeard' \in BOOLEAN /\ order' \in Orders
  <2>1. order \in Orders
    BY DEF IInv, OutboundTypeOK
  <2>2. CASE StopSource
    BY <2>1, <2>2, Stopped DEF StopSource
  <2>3. CASE StartSource
    <3>1. order' \in Orders
      BY <2>1, <2>3, Rejoined DEF StartSource, Voices
    <3> QED
      BY <2>3, <3>1 DEF StartSource, bounds, IInv, OutboundTypeOK, MoreTypes
  <2> QED
    BY <2>2, <2>3
<1>2. /\ UNCHANGED <<standing, dated, rows, runnerUp, resumed, runnerLast, packagerUp,
                     packagerTick, intervalStart, stagedFor, bundles, declined, producing>>
  BY <1>1 DEF storeVars, runnerVars, packagerVars, packagerState
<1>3. Announced' /\ Measurement' /\ Scores' /\ queue' \in Seq(Messages)
  BY <1>1, <1>2, QuietKeeps
<1>4. Sequenced'
  BY <1>1, QuietSequence
<1>5. Kept' /\ Divided' /\ Restated'
  BY <1>1, <1>2 DEF IInv, Kept, Divided, Restated
<1>6. OutboundTypeOK' /\ MoreTypes'
  <2>1. sequence' \in Nat
    BY <1>1, Types
  <2> QED
    BY <1>1, <1>2, <1>3, <2>1 DEF IInv, OutboundTypeOK, MoreTypes, Bytes
<1> QED
  BY <1>3, <1>4, <1>5, <1>6 DEF IInv

-----------------------------------------------------------------------------
(* The invariant, and what it says.                                        *)

\* Nothing has been measured, released, bundled, scored or authored.
LEMMA InitEstablishes == Init => IInv
<1> SUFFICES ASSUME Init PROVE IInv
  OBVIOUS
<1>1. /\ now = 0 /\ queue = <<>> /\ standing = None /\ dated = 0 /\ rows = {}
      /\ order = <<"sensors", "runner", "source">>
      /\ runnerUp \in BOOLEAN /\ resumed = runnerUp /\ runnerLast = FALSE
      /\ packagerUp = TRUE /\ packagerTick = 0 /\ intervalStart = 0
      /\ stagedFor = None /\ bundles = <<>> /\ declined = 0 /\ producing = TRUE
      /\ forecastRun = None /\ ledger = <<>>
      /\ sourceUp = TRUE /\ sourceHeard = TRUE /\ sequence = 0 /\ advisories = {}
      /\ prompts = 0 /\ stops = 0 /\ scored = [r \in Runs |-> 0]
  BY DEF Init
<1>2. Entries = {} /\ queue \in Seq(Messages)
  BY <1>1 DEF Entries
<1>3. bundles \in Seq(Bundles) /\ Len(bundles) = 0 /\ DOMAIN bundles = {}
  BY <1>1
<1>4. Bytes = 0 /\ 0 < Bound + FieldBytes /\ ~(0 >= Bound)
  BY <1>3, OutboundAssumption DEF Bytes
<1>5. OutboundTypeOK
  <2>1. ledger \in Seq(Runs)
    BY <1>1
  <2>2. now \in Ticks /\ 0 \in 0..MaxPrompts /\ 0 \in 0..MaxStops /\ 0 \in 0..0
    BY <1>1, OutboundAssumption DEF Ticks
  <2>3. order \in Orders
    BY <1>1, ThreeVoices DEF Voices
  <2> QED
    BY <1>1, <1>3, <1>4, <2>1, <2>2, <2>3 DEF OutboundTypeOK
<1>6. MoreTypes /\ Kept /\ Divided /\ Restated /\ Announced /\ Measurement
  BY <1>1, <1>2, <1>3 DEF MoreTypes, Kept, Divided, Restated, Announced, Measurement
<1>7. Scores
  BY <1>1 DEF Scores
<1>8. AsFar(0)
  <2>1. 0..(0 - 1) = {}
    OBVIOUS
  <2> QED
    BY <1>1, <1>2, <2>1 DEF AsFar
<1> QED
  BY <1>5, <1>6, <1>7, <1>8 DEF IInv, Sequenced

\* Every step keeps the invariant.
LEMMA NextKeeps == IInv /\ [Next]_vars => IInv'
<1> SUFFICES ASSUME IInv, [Next]_vars PROVE IInv'
  OBVIOUS
<1>1. prompts \in 0..MaxPrompts /\ MaxPrompts \in Nat
  BY OutboundAssumption DEF IInv, OutboundTypeOK
<1>2. CASE Tick
  <2>1. now + 1 \in 0..MaxTick
    BY <1>2, Types DEF Tick
  <2> QED
    BY <1>1, <1>2, <2>1, SampleKeeps DEF Tick
<1>3. CASE Repeat
  <2>1. now \in 0..MaxTick /\ prompts' \in 0..MaxPrompts
    BY <1>1, <1>3, Types DEF Repeat
  <2> QED
    BY <1>3, <2>1, SampleKeeps DEF Repeat
<1>4. CASE Deliver
  <2>1. \/ Head(queue).kind = "published" \/ Head(queue).kind = "row"
        \/ Head(queue).kind = "scored" \/ Head(queue).kind = "advisory"
    BY <1>4 DEF Deliver
  <2> QED
    BY <1>4, <2>1, PublishedKeeps, RowKeeps, ScoredKeeps, AdvisoryKeeps
<1>5. CASE OffloadOnRequest
  BY <1>5, OffloadKeeps
<1>6. CASE AdvisoryOnRequest
  BY <1>6, RequestKeeps
<1>7. CASE StopRunner \/ StartRunner \/ RestartSensors
  BY <1>7, RunnerVerbsKeep
<1>8. CASE StopPackager \/ StartPackager
  BY <1>8, PackagerVerbsKeep
<1>9. CASE StopSource \/ StartSource
  BY <1>9, SourceVerbsKeep
<1>10. CASE UNCHANGED vars
  <2>1. /\ UNCHANGED <<now, queue, order, standing, dated, rows, runnerUp, resumed, runnerLast,
                       packagerUp, packagerTick, intervalStart, stagedFor, bundles,
                       declined, producing>>
        /\ UNCHANGED <<forecastRun, ledger, sourceUp, sourceHeard, sequence, advisories,
                       prompts, stops, scored>>
    BY <1>10
    DEF vars, storeVars, runnerVars, packagerVars, packagerState, telemetryVars, shore,
        sourceVars, bounds
  <2>2. OutboundTypeOK' /\ MoreTypes' /\ Kept' /\ Divided' /\ Restated'
    BY <2>1 DEF IInv, OutboundTypeOK, MoreTypes, Kept, Divided, Restated, Bytes
  <2>3. Unheard' = Unheard
    BY <2>1 DEF Unheard, Is, Entries
  <2>4. Announced' /\ Measurement'
    <3>1. Announced'
      BY <2>1, <2>3, Zenon DEF IInv, Announced, Is, Entries
    <3>2. Measurement'
      BY <2>1, Zenon DEF IInv, Measurement, Measuring, Is, Entries
    <3> QED
      BY <3>1, <3>2
  <2>5. Scores'
    BY <2>1, <2>3 DEF IInv, Scores
  <2>6. Sequenced'
    <3>1. PICK k \in Nat : AsFar(k)
      BY DEF IInv, Sequenced
    <3>2. AsFar(k)'
      BY <2>1, <3>1 DEF AsFar, Is, Entries
    <3> QED
      BY <3>2 DEF Sequenced
  <2> QED
    BY <2>2, <2>4, <2>5, <2>6 DEF IInv
<1> QED
  BY <1>2, <1>3, <1>4, <1>5, <1>6, <1>7, <1>8, <1>9, <1>10 DEF Next

\* The invariant holds of every state of what leaves the loop.
THEOREM OutboundInvariance == Spec => []IInv
<1>1. Init => IInv
  BY InitEstablishes
<1>2. IInv /\ [Next]_vars => IInv'
  BY NextKeeps
<1> QED
  BY <1>1, <1>2, PTL DEF Spec

\* What the packager, telemetry and the source keep is of its type; the staging area
\* passes its bound by less than one field (packager.ts:54-82, telemetry.ts:60-76).
THEOREM OutboundTypeCorrect == Spec => []OutboundTypeOK
<1>1. IInv => OutboundTypeOK
  BY DEF IInv
<1> QED
  BY <1>1, OutboundInvariance, PTL

\* Between drains, each measurement made before the interval under way is in exactly
\* one of a packager's bundles (packager.ts:217-229, 275).
THEOREM EachMeasuredOnce == Spec => []MeasuredOnce
<1>1. IInv => MeasuredOnce
  <2> SUFFICES ASSUME IInv PROVE MeasuredOnce
    OBVIOUS
  <2>1. Divided
    BY DEF IInv
  <2>2. UNION {bundles[n].measured : n \in DOMAIN bundles} = {t \in rows : t < intervalStart}
    <3>1. ASSUME NEW t \in UNION {bundles[n].measured : n \in DOMAIN bundles}
          PROVE  t \in rows /\ t < intervalStart
      <4>1. PICK n \in DOMAIN bundles : t \in bundles[n].measured
        BY <3>1
      <4>2. t \in rows
        BY <2>1, <4>1 DEF Divided
      <4> QED
        BY <2>1, <4>1, <4>2 DEF Divided
    <3>2. ASSUME NEW t \in rows, t < intervalStart
          PROVE  t \in UNION {bundles[n].measured : n \in DOMAIN bundles}
      <4>1. PICK n \in DOMAIN bundles : t \in bundles[n].measured
        BY <2>1, <3>2 DEF Divided
      <4> QED
        BY <4>1
    <3> QED
      BY <3>1, <3>2
  <2> QED
    BY <2>1, <2>2 DEF Divided, MeasuredOnce
<1> QED
  BY <1>1, OutboundInvariance, PTL

\* Between drains telemetry's ledger is every score published of the run it names,
\* and of no other (telemetry.ts:146-160, 173-203).
THEOREM LedgerStaysWhole == Spec => []LedgerIsWhole
<1>1. IInv => LedgerIsWhole
  <2> SUFFICES ASSUME IInv, Drained
               PROVE  /\ \A n \in DOMAIN ledger : ledger[n] = forecastRun
                      /\ forecastRun # None => Len(ledger) = scored[forecastRun]
    BY DEF LedgerIsWhole
  <2>1. Unheard = 0
    BY DEF Unheard, Drained, Entries
  <2>2. Len(ledger) \in Nat
    BY Types
  <2> QED
    BY <2>1, <2>2 DEF IInv, Scores
<1> QED
  BY <1>1, OutboundInvariance, PTL

\* Between drains the advisory store holds an unbroken beginning of the sequence its
\* source authors, however the source is prompted and restarted
\* (advisories/source.ts:119, advisories/store.ts:69-72).
THEOREM AdvisoriesStayInSequence == Spec => []AdvisoriesAreInSequence
<1>1. IInv => AdvisoriesAreInSequence
  <2> SUFFICES ASSUME IInv, Drained
               PROVE  /\ advisories = 0..Cardinality(advisories) - 1
                      /\ sequence <= Cardinality(advisories)
                      /\ stops = 0 => sequence = Cardinality(advisories)
    BY DEF AdvisoriesAreInSequence
  <2>1. PICK k \in Nat : AsFar(k)
    BY DEF IInv, Sequenced
  <2>2. Entries = {}
    BY DEF Drained, Entries
  <2>3. advisories = 0..(k - 1) /\ sequence <= k /\ (stops = 0 => sequence = k)
    BY <2>1, <2>2 DEF AsFar
  <2>4. Cardinality(0..(k - 1)) = k
    <3>1. 0 \in Int /\ k - 1 \in Int
      OBVIOUS
    <3>2. Cardinality(0..(k - 1)) = IF 0 > k - 1 THEN 0 ELSE (k - 1) - 0 + 1
      BY <3>1, FS_Interval
    <3> QED
      BY <3>2
  <2> QED
    BY <2>3, <2>4
<1> QED
  BY <1>1, OutboundInvariance, PTL

\* A restatement of a run that was bundled, on its release or on request, changes
\* nothing of the packager's (packager.ts:58-76).
THEOREM RestatementsAreInert == Spec => RestatementIsInert
<1> DEFINE Known == /\ queue # <<>> /\ Head(queue).kind = "published"
                    /\ \E n \in DOMAIN bundles : bundles[n].run = Head(queue).run
<1>1. IInv /\ [Next]_vars => [Known => UNCHANGED packagerState]_vars
  <2> SUFFICES ASSUME IInv, Next, Known PROVE UNCHANGED packagerState
    OBVIOUS
  <2>1. Deliver
    <3>1. ASSUME NEW t, Sample(t) PROVE Drained
      BY <3>1, Zenon DEF Sample
    <3>2. Tick \/ Repeat => Drained
      BY <3>1 DEF Tick, Repeat
    <3>3. StopRunner \/ StartRunner \/ RestartSensors => Drained
      BY DEF StopRunner, StartRunner, RestartSensors, MayStop
    <3>4. StopPackager \/ StartPackager \/ StopSource \/ StartSource => Drained
      BY DEF StopPackager, StartPackager, StopSource, StartSource, MayStop
    <3>5. OffloadOnRequest \/ AdvisoryOnRequest => Drained
      BY DEF OffloadOnRequest, AdvisoryOnRequest
    <3> QED
      BY <3>2, <3>3, <3>4, <3>5 DEF Next, Drained
  <2>2. HearPublished(Head(queue).run, Head(queue).tick)
    BY <2>1 DEF Deliver
  <2>3. 1 \in Entries /\ Head(queue) = queue[1] /\ Is(1, "published")
    BY First, Types DEF Is
  <2>4. PICK n \in DOMAIN bundles : bundles[n].run = queue[1].run
    BY <2>3
  <2>5. /\ stagedFor # None /\ queue[1].run <= stagedFor
        /\ stagedFor <= queue[1].run /\ queue[1].run \in Runs
    BY <2>3, <2>4 DEF IInv, Kept, Announced
  <2>6. stagedFor = queue[1].run
    BY <2>5, Types
  <2> QED
    BY <2>2, <2>3, <2>6 DEF HearPublished, packagerState
<1> QED
  BY <1>1, OutboundInvariance, PTL DEF Spec, RestatementIsInert
=============================================================================
