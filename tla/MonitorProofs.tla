--------------------------- MODULE MonitorProofs ----------------------------
(***************************************************************************)
(* What a divergence rests on, for every threshold, persistence, dial and  *)
(* magnitude.  The evidence is the streak, so the argument is about the    *)
(* streak: its last pair is the last one scored, and all were scored       *)
(* against one forecast.                                                   *)
(***************************************************************************)
EXTENDS Monitor, SequenceTheorems, TLAPS

IInv == TypeOK /\ StreakIsRecent /\ EvidenceIsConsecutive

\* A monitor that has just started has scored nothing.
LEMMA InitIInv == Init => IInv
<1> SUFFICES ASSUME Init PROVE IInv
  OBVIOUS
<1>1. <<>> \in Seq(Breaches) /\ DOMAIN <<>> = {}
  BY EmptySeq
<1>2. TypeOK
  BY <1>1, MonitorAssumption DEF Init, TypeOK
<1> QED
  BY <1>1, <1>2 DEF Init, IInv, StreakIsRecent, EvidenceIsConsecutive

\* What is carried over is recent, and of the forecast that stands.
LEMMA StreakFacts ==
    ASSUME IInv
    PROVE  /\ Streak \in Seq(Breaches)
           /\ \A i \in DOMAIN Streak :
                 /\ Streak[i].ordinal = residualCount - Len(Streak) + i
                 /\ Streak[i].run = standing
<1>1. <<>> \in Seq(Breaches) /\ DOMAIN <<>> = {}
  BY EmptySeq
<1> QED
  BY <1>1 DEF Streak, IInv, TypeOK, StreakIsRecent

\* A breach lengthens the streak by one, the newest last.
LEMMA LongerStreak ==
    ASSUME IInv, NEW b \in Breaches, b.run = standing, b.ordinal = residualCount + 1,
           NEW streak, streak = Append(Streak, b)
    PROVE  /\ streak \in Seq(Breaches)
           /\ \A i \in DOMAIN streak :
                 /\ streak[i].ordinal = (residualCount + 1) - Len(streak) + i
                 /\ streak[i].run = standing
<1>1. Streak \in Seq(Breaches)
  BY StreakFacts
<1>2. /\ Len(Streak) \in Nat /\ DOMAIN Streak = 1..Len(Streak)
      /\ streak \in Seq(Breaches) /\ Len(streak) = Len(Streak) + 1
      /\ DOMAIN streak = 1..Len(Streak) + 1
      /\ \A i \in 1..Len(Streak) : streak[i] = Streak[i]
      /\ streak[Len(Streak) + 1] = b
  BY <1>1, AppendProperties
<1>3. residualCount \in Nat
  BY DEF IInv, TypeOK
<1>4. ASSUME NEW i \in 1..Len(Streak)
      PROVE  /\ streak[i].ordinal = (residualCount + 1) - Len(streak) + i
             /\ streak[i].run = standing
  BY <1>2, <1>3, StreakFacts
<1>5. /\ streak[Len(Streak) + 1].ordinal
             = (residualCount + 1) - Len(streak) + (Len(Streak) + 1)
      /\ streak[Len(Streak) + 1].run = standing
  BY <1>2, <1>3
<1> QED
  BY <1>2, <1>4, <1>5

\* Scoring the halves of a sounding keeps the invariant.
LEMMA ScoreKeepsIInv ==
    ASSUME IInv, NEW halves \in SUBSET Readings, Complete(halves), Score(halves),
           pending' \subseteq Readings,
           UNCHANGED <<standing, monitorUp, monitorTick, threshold, persistence>>
    PROVE  IInv'
<1>1. TypeOK /\ StreakIsRecent
  BY DEF IInv
<1>2. <<>> \in Seq(Breaches) /\ DOMAIN <<>> = {}
  BY EmptySeq
<1>3. CASE standing = None
  BY <1>1, <1>3 DEF Score, IInv, TypeOK, StreakIsRecent, EvidenceIsConsecutive
<1>4. CASE standing # None
  <2>1. /\ scoredAgainst' = standing /\ standing \in 1..MaxRun
        /\ residualCount \in Nat /\ monitorTick \in 0..MaxTick
    BY <1>1, <1>4 DEF Score, TypeOK
  <2>2. PICK residual \in Scores(halves) :
                IF residual = Outside
                THEN /\ breaches' = Streak /\ raised' = None
                     /\ UNCHANGED residualCount
                ELSE /\ residualCount' = residualCount + 1
                     /\ IF Over(residual) THEN ScoreOver(halves)
                                          ELSE ScoreWithin
    BY <1>4 DEF Score
  <2>3. CASE breaches' = Streak /\ raised' = None /\ UNCHANGED residualCount
    <3>1. Streak \in Seq(Breaches)
          /\ \A i \in DOMAIN Streak :
                 /\ Streak[i].ordinal = residualCount - Len(Streak) + i
                 /\ Streak[i].run = standing
      BY StreakFacts
    <3>2. TypeOK'
      BY <1>1, <2>1, <2>3, <3>1 DEF TypeOK
    <3>3. StreakIsRecent'
      BY <2>1, <2>3, <3>1 DEF StreakIsRecent
    <3> QED
      BY <2>3, <3>2, <3>3 DEF IInv, EvidenceIsConsecutive
  <2>4. CASE residualCount' = residualCount + 1 /\ ScoreWithin
    <3>1. breaches' = <<>> /\ raised' = None
      BY <2>4 DEF ScoreWithin
    <3>2. TypeOK'
      BY <1>1, <1>2, <2>1, <2>4, <3>1 DEF TypeOK
    <3>3. StreakIsRecent'
      BY <1>2, <3>1 DEF StreakIsRecent
    <3> QED
      BY <3>1, <3>2, <3>3 DEF IInv, EvidenceIsConsecutive
  <2>5. CASE residualCount' = residualCount + 1 /\ ScoreOver(halves)
    <3> DEFINE b == BreachOf(halves)
               streak == Append(Streak, b)
    <3>1. b \in Breaches /\ b.run = standing /\ b.ordinal = residualCount + 1
      <4>1. \E h \in halves : h.datastream = Temperature
        BY DEF Complete, Pair
      <4>2. PICK h \in halves : b = [tick |-> h.tick, run |-> standing,
                                     ordinal |-> residualCount + 1]
        BY <4>1 DEF BreachOf
      <4>3. h.tick \in 0..MaxTick
        BY <4>2 DEF Readings
      <4> QED
        BY <2>1, <4>2, <4>3 DEF Breaches
    <3>2. \/ /\ Len(streak) >= persistence /\ breaches' = <<>>
             /\ raised' = DivergenceOf(streak)
          \/ breaches' = streak /\ raised' = None
      BY <2>5 DEF ScoreOver
    <3> HIDE DEF b
    <3>3. /\ streak \in Seq(Breaches)
          /\ \A i \in DOMAIN streak :
                 /\ streak[i].ordinal = residualCount' - Len(streak) + i
                 /\ streak[i].run = standing
      BY <2>5, <3>1, LongerStreak
    <3> HIDE DEF streak
    <3>4. CASE /\ Len(streak) >= persistence /\ breaches' = <<>>
               /\ raised' = DivergenceOf(streak)
      <4>1. raised' = [run |-> standing, tick |-> monitorTick, evidence |-> streak]
        BY <3>4 DEF DivergenceOf
      <4>2. TypeOK'
        BY <1>1, <1>2, <2>1, <2>5, <3>3, <3>4, <4>1 DEF TypeOK
      <4>3. StreakIsRecent'
        BY <1>2, <3>4 DEF StreakIsRecent
      <4>4. EvidenceIsConsecutive'
        BY <3>3, <3>4, <4>1 DEF EvidenceIsConsecutive
      <4> QED
        BY <4>2, <4>3, <4>4 DEF IInv
    <3>5. CASE breaches' = streak /\ raised' = None
      <4>1. TypeOK'
        BY <1>1, <2>1, <2>5, <3>3, <3>5 DEF TypeOK
      <4>2. StreakIsRecent'
        BY <2>1, <3>3, <3>5 DEF StreakIsRecent
      <4> QED
        BY <3>5, <4>1, <4>2 DEF IInv, EvidenceIsConsecutive
    <3> QED
      BY <3>2, <3>4, <3>5
  <2> QED
    BY <2>2, <2>3, <2>4, <2>5
<1> QED
  BY <1>3, <1>4

\* Considering an observation keeps the invariant, scored or held.
LEMMA ConsiderKeepsIInv ==
    ASSUME IInv, NEW o \in Readings, Consider(o), UNCHANGED standing
    PROVE  IInv'
<1>1. Slot(o) \subseteq Readings /\ Filled(o) \in SUBSET Readings
      /\ pending \subseteq Readings
  BY DEF Slot, Filled, IInv, TypeOK
<1>2. CASE o.datastream \notin Pair
  BY <1>2 DEF Consider, instance, IInv, TypeOK, StreakIsRecent, EvidenceIsConsecutive
<1>3. CASE o.datastream \in Pair /\ Complete(Filled(o))
  <2>1. /\ pending' = pending \ Slot(o) /\ Score(Filled(o))
        /\ UNCHANGED <<monitorUp, monitorTick, threshold, persistence>>
    BY <1>3 DEF Consider
  <2>2. pending' \subseteq Readings
    BY <1>1, <2>1
  <2> QED
    BY <1>1, <1>3, <2>1, <2>2, ScoreKeepsIInv
<1>4. CASE o.datastream \in Pair /\ ~Complete(Filled(o))
  BY <1>1, <1>4 DEF Consider, IInv, TypeOK, StreakIsRecent, EvidenceIsConsecutive
<1> QED
  BY <1>2, <1>3, <1>4

\* The inductive invariant of the monitor (monitor.ts:189-292): without the streak's
\* recency nothing is known of the evidence a divergence takes from it.
THEOREM MonitorInvariance == Spec => []IInv
<1>1. IInv /\ [Next]_vars => IInv'
  <2> SUFFICES ASSUME IInv, [Next]_vars PROVE IInv'
    OBVIOUS
  <2> USE DEF IInv, TypeOK, StreakIsRecent, EvidenceIsConsecutive
  <2>1. ASSUME NEW t \in 0..MaxTick, HearClock(t), raised' = None,
               UNCHANGED <<standing, monitorUp, pending, breaches, scoredAgainst,
                           residualCount, threshold, persistence>>
        PROVE  IInv'
    BY <2>1 DEF HearClock
  <2>2. ASSUME NEW o \in Readings, Consider(o), UNCHANGED standing PROVE IInv'
    <3> HIDE DEF IInv, TypeOK, StreakIsRecent, EvidenceIsConsecutive
    <3> QED
      BY <2>2, ConsiderKeepsIInv
  <2>3. CASE Tune
    BY <2>3, MonitorAssumption DEF Tune
  <2>4. CASE Stop
    <3>1. <<>> \in Seq(Breaches) /\ DOMAIN <<>> = {}
      BY EmptySeq
    <3>2. /\ monitorTick' \in 0..MaxTick /\ threshold' \in Nat
          /\ persistence' \in Nat \ {0, 1}
      BY <2>4, MonitorAssumption DEF Stop, Blank
    <3>3. /\ monitorUp' = FALSE /\ pending' = {} /\ breaches' = <<>>
          /\ scoredAgainst' = None /\ residualCount' = 0 /\ raised' = None
          /\ standing' = standing
      BY <2>4 DEF Stop, Blank
    <3> QED
      BY <3>1, <3>2, <3>3
  <2>5. CASE Start
    BY <2>5 DEF Start
  <2>6. CASE NewForecast
    <3>1. standing' \in 1..MaxRun
      BY <2>6, MonitorAssumption DEF NewForecast
    <3>2. raised' = None
          /\ UNCHANGED <<monitorUp, monitorTick, pending, breaches, scoredAgainst,
                         residualCount, threshold, persistence>>
      BY <2>6 DEF NewForecast, instance
    <3> QED
      BY <3>1, <3>2
  <2>7. CASE UNCHANGED vars
    BY <2>7 DEF vars, instance
  <2> QED
    BY <2>1, <2>2, <2>3, <2>4, <2>5, <2>6, <2>7 DEF Next
<1> QED
  BY InitIInv, <1>1, PTL DEF Spec

\* The types of the monitor's fields, for every configuration (monitor.ts:64-73).
THEOREM MonitorTypeCorrect == Spec => []TypeOK
  BY MonitorInvariance, PTL DEF IInv

\* Every divergence rests on consecutive pairs scored against the forecast it names,
\* for every threshold, persistence and dial (monitor.ts:194-224, 278-332).
THEOREM DivergencesAreEarned == Spec => []EvidenceIsConsecutive
  BY MonitorInvariance, PTL DEF IInv
=============================================================================
