------------------------- MODULE CoverageStoreProofs -------------------------
(***************************************************************************)
(* Theorems about the coverage store, for every set of holdings and every  *)
(* bound.  What the store's guards do not say by themselves is that a      *)
(* now-cast it let go stays gone: Forgotten says why, it is dated before   *)
(* the pointer, so publishing it again is a rewind.                        *)
(***************************************************************************)
EXTENDS CoverageStore, TLAPS

Forgotten ==
    \A i \in Ids : book[i] # None /\ ~Held(i) =>
        /\ EraOf[i] = "nowcast" /\ pointer["nowcast"] # None
        /\ book[i].tick \in Nat /\ book[i].tick < date[pointer["nowcast"]]

StoreInv ==
    /\ TypeOK
    /\ OneFieldPerName
    /\ PointerNamesNewest
    /\ OneNowcast
    /\ Forgotten

-----------------------------------------------------------------------------
(* What a write finds and leaves.                                          *)

\* The id of a staging the store writes is free or held, never forgotten, and
\* the book says of it what the staging says, of the date where it is stated once.
LEMMA WriteAgrees ==
    ASSUME StoreInv, NEW s \in Stagings, WellDated(s),
           ~Refused(s), ~Rewinds(s), Write(s)
    PROVE  /\ book[s.id] # None => Held(s.id)
           /\ book'[s.id] \in Entries /\ book'[s.id].field = s.recorded
           /\ Era(s) \in DatedByName => book'[s.id].tick = s.tick
           /\ \A i \in Ids : i # s.id => book'[i] = book[i]
<1> USE StoreAssumption
<1>1. s.id \in Ids /\ s.tick \in Nat /\ s.recorded \in Fields
  BY DEF Stagings
<1>2. book \in [Ids -> Entries \cup {None}]
  BY DEF StoreInv, TypeOK
<1>3. ASSUME book[s.id] # None, ~Held(s.id) PROVE FALSE
  <2>1. /\ Era(s) = "nowcast" /\ pointer["nowcast"] # None
        /\ s.tick < date[pointer["nowcast"]]
    BY <1>1, <1>3 DEF StoreInv, Forgotten, WellDated, Era, DatedByName
  <2>2. Pointed(Era(s)) = pointer["nowcast"]
    BY <2>1 DEF Pointed, PointedEras
  <2>3. Held(pointer["nowcast"]) /\ pointer["nowcast"] # s.id
    BY <1>3, <2>1 DEF StoreInv, PointerNamesNewest, PointedEras
  <2> QED BY <2>1, <2>2, <2>3 DEF Rewinds
<1>4. CASE book[s.id] = None
  <2>1. book' = [book EXCEPT ![s.id] = FirstWrite(s)]
    BY <1>4 DEF Write
  <2>2. book'[s.id] = FirstWrite(s)
    BY <1>1, <1>2, <2>1
  <2>3. \A i \in Ids : i # s.id => book'[i] = book[i]
    BY <1>2, <2>1
  <2>4. FirstWrite(s) \in Entries
    BY <1>1 DEF FirstWrite, Entries
  <2> QED BY <1>4, <2>2, <2>3, <2>4 DEF FirstWrite
<1>5. CASE book[s.id] # None
  <2>1. Held(s.id) /\ field[s.id] = s.recorded
    BY <1>3, <1>5 DEF Refused, Clashes
  <2>2. book[s.id] \in Entries /\ book[s.id].field = s.recorded
    BY <1>1, <1>2, <1>5, <2>1 DEF StoreInv, OneFieldPerName
  <2>3. book' = book
    BY <1>5 DEF Write
  <2>4. Era(s) \in DatedByName => book[s.id].tick = s.tick
    BY <1>5 DEF WellDated
  <2> QED BY <2>1, <2>2, <2>3, <2>4
<1> QED BY <1>4, <1>5

\* After a write, the staged holding is held as staged, the now-cast it
\* replaced is gone, and every other holding is as it was.
LEMMA WriteLeaves ==
    ASSUME StoreInv, NEW s \in Stagings, Write(s)
    PROVE  /\ field'[s.id] = s.recorded /\ date'[s.id] = s.tick
           /\ \A i \in Replaced(s) : i \in Ids =>
                  i # s.id /\ field'[i] = None /\ date'[i] = None
           /\ \A i \in Ids : i # s.id /\ i \notin Replaced(s) =>
                  field'[i] = field[i] /\ date'[i] = date[i]
           /\ field' \in [Ids -> Fields \cup {None}]
           /\ date' \in [Ids -> Nat \cup {None}]
           /\ pointer' \in [PointedEras -> Ids \cup {None}]
<1> USE StoreAssumption
<1>1. s.id \in Ids /\ s.tick \in Nat /\ s.recorded \in Fields
  BY DEF Stagings
<1>2. /\ field \in [Ids -> Fields \cup {None}]
      /\ date \in [Ids -> Nat \cup {None}]
      /\ pointer \in [PointedEras -> Ids \cup {None}]
  BY DEF StoreInv, TypeOK
<1>3. s.id \notin Replaced(s)
  BY DEF Replaced
<1>4. /\ field' = Put(field, s, s.recorded) /\ date' = Put(date, s, s.tick)
  BY DEF Write
<1>5. pointer' \in [PointedEras -> Ids \cup {None}]
  BY <1>1, <1>2 DEF Write
<1> QED BY <1>1, <1>2, <1>3, <1>4, <1>5 DEF Put

\* What is written is dated no earlier than what its era's pointer names.
LEMMA WriteAdvances ==
    ASSUME StoreInv, NEW s \in Stagings, WellDated(s), ~Rewinds(s),
           Era(s) \in PointedEras, pointer[Era(s)] # None
    PROVE  /\ date[pointer[Era(s)]] \in Nat
           /\ date[pointer[Era(s)]] <= s.tick
<1> USE StoreAssumption
<1>1. s.id \in Ids /\ s.tick \in Nat
  BY DEF Stagings
<1>2. /\ Held(pointer[Era(s)]) /\ pointer[Era(s)] \in Ids
      /\ date[pointer[Era(s)]] \in Nat
  BY DEF StoreInv, PointerNamesNewest, TypeOK, Held
<1>3. CASE pointer[Era(s)] = s.id
  <2>1. CASE Era(s) \in DatedByName
    <3>1. book[s.id] # None /\ book[s.id].tick = date[s.id]
      BY <1>1, <1>2, <1>3, <2>1 DEF StoreInv, OneFieldPerName, Era
    <3> QED BY <1>1, <1>2, <1>3, <2>1, <3>1 DEF WellDated
  <2>2. CASE Era(s) = "instance"
    BY <1>1, <1>2, <1>3, <2>2 DEF WellDated
  <2> QED BY <2>1, <2>2 DEF PointedEras, DatedByName
<1>4. CASE pointer[Era(s)] # s.id
  <2>1. ~(s.tick < date[pointer[Era(s)]])
    BY <1>2, <1>4 DEF Rewinds, Pointed
  <2> QED BY <1>1, <1>2, <2>1
<1> QED BY <1>3, <1>4

\* The era of the now-cast a write replaces is the staging's.
LEMMA ReplacedIsNowcast ==
    ASSUME StoreInv, NEW s \in Stagings, NEW i \in Replaced(s), i \in Ids
    PROVE  /\ Era(s) = "nowcast" /\ EraOf[i] = "nowcast"
           /\ pointer["nowcast"] = i /\ i # s.id /\ Held(i)
<1>1. Era(s) = "nowcast" /\ pointer["nowcast"] = i /\ i # s.id
  BY DEF Replaced
<1>2. i # None
  BY StoreAssumption
<1> QED BY <1>1, <1>2 DEF StoreInv, PointerNamesNewest, PointedEras

\* A write that the store accepts keeps the invariant.
LEMMA WriteKeeps ==
    ASSUME StoreInv, NEW s \in Stagings, WellDated(s), OneNowcastPerTick(s),
           ~Refused(s), ~Rewinds(s), Write(s)
    PROVE  StoreInv'
<1> USE StoreAssumption
<1>1. /\ s.id \in Ids /\ s.tick \in Nat /\ s.recorded \in Fields
      /\ Era(s) = EraOf[s.id]
  BY DEF Stagings, Era
<1>2. /\ field'[s.id] = s.recorded /\ date'[s.id] = s.tick
      /\ \A i \in Ids : i \in Replaced(s) =>
            i # s.id /\ field'[i] = None /\ date'[i] = None
      /\ \A i \in Ids : i # s.id /\ i \notin Replaced(s) =>
            field'[i] = field[i] /\ date'[i] = date[i]
  BY WriteLeaves
<1>3. /\ book'[s.id] \in Entries /\ book'[s.id].field = s.recorded
      /\ Era(s) \in DatedByName => book'[s.id].tick = s.tick
      /\ \A i \in Ids : i # s.id => book'[i] = book[i]
  BY WriteAgrees
<1>4. /\ Era(s) \in PointedEras => pointer'[Era(s)] = s.id
      /\ \A e \in PointedEras : e # Era(s) => pointer'[e] = pointer[e]
  BY DEF Write, StoreInv, TypeOK
<1>5. Held(s.id)' /\ \A i \in Ids : Held(i)' /\ i # s.id =>
                        Held(i) /\ i \notin Replaced(s)
  BY <1>1, <1>2 DEF Held
<1>6. TypeOK'
  <2>1. /\ field' \in [Ids -> Fields \cup {None}]
        /\ date' \in [Ids -> Nat \cup {None}]
        /\ pointer' \in [PointedEras -> Ids \cup {None}]
    BY WriteLeaves
  <2>2. \A i \in Ids : field'[i] = None <=> date'[i] = None
    BY <1>1, <1>2 DEF StoreInv, TypeOK
  <2>3. announced' \subseteq Ids /\ verdict' \in Verdicts \cup {None}
    BY <1>1 DEF Write, Verdicts
  <2>4. book' \in [Ids -> Entries \cup {None}]
    <3>1. book \in [Ids -> Entries \cup {None}]
      BY DEF StoreInv, TypeOK
    <3>2. FirstWrite(s) \in Entries
      BY <1>1 DEF FirstWrite, Entries
    <3> QED BY <1>1, <3>1, <3>2 DEF Write
  <2> QED BY <2>1, <2>2, <2>3, <2>4 DEF TypeOK
<1>7. OneFieldPerName'
  <2> SUFFICES ASSUME NEW i \in Ids, Held(i)'
               PROVE  /\ book'[i] # None /\ book'[i].field = field'[i]
                      /\ EraOf[i] \in DatedByName => book'[i].tick = date'[i]
    BY DEF OneFieldPerName
  <2>1. CASE i = s.id
    <3>1. book'[i] # None
      BY <1>3, <2>1 DEF Entries
    <3> QED BY <1>1, <1>2, <1>3, <2>1, <3>1
  <2>2. CASE i # s.id
    BY <1>2, <1>3, <1>5, <2>2 DEF StoreInv, OneFieldPerName
  <2> QED BY <2>1, <2>2
<1>8. OneNowcast'
  <2> SUFFICES ASSUME NEW i \in Ids, Held(i)', EraOf[i] = "nowcast"
               PROVE  pointer'["nowcast"] = i
    BY DEF OneNowcast
  <2>1. CASE i = s.id
    BY <1>1, <1>4, <2>1 DEF PointedEras
  <2>2. CASE i # s.id
    <3>1. pointer["nowcast"] = i
      BY <1>5, <2>2 DEF StoreInv, OneNowcast
    <3>2. Era(s) # "nowcast"
      BY <1>5, <2>2, <3>1 DEF Replaced
    <3> QED BY <1>4, <3>1, <3>2 DEF PointedEras
  <2> QED BY <2>1, <2>2
<1>9. PointerNamesNewest'
  <2> SUFFICES ASSUME NEW e \in PointedEras
               PROVE  /\ pointer'[e] # None =>
                            Held(pointer[e])' /\ EraOf[pointer'[e]] = e
                      /\ \A i \in Ids : Held(i)' /\ EraOf[i] = e =>
                            pointer'[e] # None /\ date'[i] <= date'[pointer'[e]]
    BY DEF PointerNamesNewest
  <2>1. CASE e = Era(s)
    <3>1. pointer'[e] = s.id /\ s.id # None /\ date'[pointer'[e]] = s.tick
      BY <1>1, <1>2, <1>4, <2>1
    <3>2. Held(pointer[e])' /\ EraOf[pointer'[e]] = e
      BY <1>1, <1>5, <2>1, <3>1 DEF Held
    <3>3. ASSUME NEW i \in Ids, Held(i)', EraOf[i] = e
          PROVE  date'[i] <= s.tick
      <4>1. CASE i = s.id
        BY <1>1, <1>2, <4>1
      <4>2. CASE i # s.id
        <5>1. Held(i) /\ date'[i] = date[i] /\ date[i] \in Nat
          BY <1>2, <1>5, <3>3, <4>2 DEF StoreInv, TypeOK, Held
        <5>2. pointer[e] # None /\ date[i] <= date[pointer[e]]
          BY <3>3, <5>1 DEF StoreInv, PointerNamesNewest
        <5>3. date[pointer[e]] \in Nat /\ date[pointer[e]] <= s.tick
          BY <2>1, <5>2, WriteAdvances
        <5> QED BY <1>1, <5>1, <5>2, <5>3
      <4> QED BY <4>1, <4>2
    <3> QED BY <3>1, <3>2, <3>3
  <2>2. CASE e # Era(s)
    <3>1. pointer'[e] = pointer[e]
      BY <1>4, <2>2
    <3>2. ASSUME NEW i \in Ids, EraOf[i] = e
          PROVE  field'[i] = field[i] /\ date'[i] = date[i]
      <4>1. i # s.id
        BY <1>1, <2>2, <3>2
      <4>2. i \notin Replaced(s)
        BY <2>2, <3>2, ReplacedIsNowcast
      <4> QED BY <1>2, <4>1, <4>2
    <3>3. pointer[e] # None => /\ pointer[e] \in Ids
                               /\ Held(pointer[e]) /\ EraOf[pointer[e]] = e
      BY DEF StoreInv, TypeOK, PointerNamesNewest
    <3>4. ASSUME NEW i \in Ids, Held(i)', EraOf[i] = e
          PROVE  pointer[e] # None /\ date[i] <= date[pointer[e]]
      BY <3>2, <3>4 DEF StoreInv, PointerNamesNewest, Held
    <3> QED BY <3>1, <3>2, <3>3, <3>4 DEF Held
  <2> QED BY <2>1, <2>2
<1>10. Forgotten'
  <2> SUFFICES ASSUME NEW i \in Ids, book'[i] # None, ~Held(i)'
               PROVE  /\ EraOf[i] = "nowcast" /\ pointer'["nowcast"] # None
                      /\ book'[i].tick \in Nat
                      /\ book'[i].tick < date'[pointer'["nowcast"]]
    BY DEF Forgotten
  <2>1. i # s.id /\ book'[i] = book[i] /\ book[i] \in Entries
    BY <1>3, <1>5 DEF StoreInv, TypeOK
  <2>3. CASE i \in Replaced(s)
    <3>1. /\ Era(s) = "nowcast" /\ EraOf[i] = "nowcast"
          /\ pointer["nowcast"] = i /\ Held(i)
      BY <2>3, ReplacedIsNowcast
    <3>2. book[i].tick = date[i] /\ date[i] \in Nat
      BY <3>1 DEF StoreInv, OneFieldPerName, TypeOK, DatedByName, Held
    <3>3. date[i] <= s.tick
      BY <3>1, WriteAdvances DEF PointedEras
    <3>4. book[i].tick # s.tick
      BY <2>1, <3>1 DEF OneNowcastPerTick
    <3>5. pointer'["nowcast"] = s.id /\ date'[s.id] = s.tick
      BY <1>2, <1>4, <3>1 DEF PointedEras
    <3> QED BY <1>1, <2>1, <3>1, <3>2, <3>3, <3>4, <3>5
  <2>4. CASE i \notin Replaced(s)
    <3>1. ~Held(i)
      BY <1>2, <2>1, <2>4 DEF Held
    <3>2. /\ EraOf[i] = "nowcast" /\ pointer["nowcast"] # None
          /\ book[i].tick \in Nat /\ book[i].tick < date[pointer["nowcast"]]
      BY <2>1, <3>1 DEF StoreInv, Forgotten
    <3>3. CASE Era(s) = "nowcast"
      <4>1. /\ date[pointer["nowcast"]] \in Nat
            /\ date[pointer["nowcast"]] <= s.tick
        BY <3>2, <3>3, WriteAdvances DEF PointedEras
      <4>2. pointer'["nowcast"] = s.id /\ date'[s.id] = s.tick
        BY <1>2, <1>4, <3>3 DEF PointedEras
      <4> QED BY <1>1, <2>1, <3>2, <4>1, <4>2
    <3>4. CASE Era(s) # "nowcast"
      <4>1. pointer'["nowcast"] = pointer["nowcast"]
        BY <1>4, <3>4 DEF PointedEras
      <4>2. pointer["nowcast"] \in Ids /\ EraOf[pointer["nowcast"]] = "nowcast"
        BY <3>2 DEF StoreInv, TypeOK, PointerNamesNewest, PointedEras
      <4>3. date'[pointer["nowcast"]] = date[pointer["nowcast"]]
        BY <1>1, <1>2, <3>4, <4>2 DEF Replaced
      <4> QED BY <2>1, <3>2, <4>1, <4>3
    <3> QED BY <3>3, <3>4
  <2> QED BY <2>3, <2>4
<1> QED BY <1>6, <1>7, <1>8, <1>9, <1>10 DEF StoreInv

\* Every operation of the store keeps the invariant.
LEMMA StoreStep == StoreInv /\ [Next]_vars => StoreInv'
<1> SUFFICES ASSUME StoreInv, [Next]_vars PROVE StoreInv'
  OBVIOUS
<1>1. ASSUME UNCHANGED <<field, date, pointer, book>>,
             announced' \subseteq Ids, verdict' \in Verdicts \cup {None}
      PROVE  StoreInv'
  BY <1>1 DEF StoreInv, TypeOK, OneFieldPerName, PointerNamesNewest,
              OneNowcast, Forgotten, Held
<1>2. CASE PublishAny
  <2>1. PICK s \in Stagings :
          WellDated(s) /\ OneNowcastPerTick(s) /\ Publish(s)
    BY <1>2, StoreAssumption DEF PublishAny, Stagings
  <2>2. CASE Write(s) /\ ~Refused(s) /\ ~Rewinds(s)
    BY <2>1, <2>2, WriteKeeps
  <2>3. CASE DoNotWrite("refused") \/ DoNotWrite("superseded")
    BY <1>1, <2>3 DEF DoNotWrite, Verdicts
  <2> QED BY <2>1, <2>2, <2>3 DEF Publish
<1>3. CASE AnnounceOnRequest
  <2>1. announced' \subseteq Ids
    BY <1>3 DEF AnnounceOnRequest, StoreInv, TypeOK
  <2> QED BY <1>1, <1>3, <2>1 DEF AnnounceOnRequest
<1>4. CASE UNCHANGED vars
  BY <1>1, <1>4 DEF vars, StoreInv, TypeOK
<1> QED BY <1>2, <1>3, <1>4 DEF Next

\* An empty store holds nothing to be inconsistent.
LEMMA StoreInit == Init => StoreInv
  BY StoreAssumption
  DEF Init, StoreInv, TypeOK, OneFieldPerName, PointerNamesNewest, OneNowcast,
      Forgotten, Held, Verdicts

\* The inductive invariant holds of every behaviour of the store.
THEOREM StoreInvariance == Spec => []StoreInv
  BY StoreInit, StoreStep, PTL DEF Spec

\* Every holding has a field and a date, and every pointer is a holding or none.
THEOREM StoreTypeCorrect == Spec => []TypeOK
<1>1. StoreInv => TypeOK
  BY DEF StoreInv
<1> QED BY <1>1, StoreInvariance, PTL

\* A holding id names the bytes it was first written with, whatever is refused,
\* replayed, replaced or deleted.
THEOREM NamesBindOneField == Spec => []OneFieldPerName
<1>1. StoreInv => OneFieldPerName
  BY DEF StoreInv
<1> QED BY <1>1, StoreInvariance, PTL

\* An era's pointer names a held holding of the era, and none newer is held.
THEOREM PointersNameNewest == Spec => []PointerNamesNewest
<1>1. StoreInv => PointerNamesNewest
  BY DEF StoreInv
<1> QED BY <1>1, StoreInvariance, PTL

\* The now-cast pointed to is the only one held.
THEOREM NowcastIsAlone == Spec => []OneNowcast
<1>1. StoreInv => OneNowcast
  BY DEF StoreInv
<1> QED BY <1>1, StoreInvariance, PTL

\* Nothing but the now-cast another replaces ever leaves the inventory.
THEOREM InstancesAccumulate == Spec => OnlyNowcastsLeave
<1> DEFINE Leave == \A i \in Ids : Held(i) /\ ~Held(i)' =>
                       EraOf[i] = "nowcast" /\ pointer["nowcast"] = i
<1>1. StoreInv /\ [Next]_vars => [Leave]_vars
  <2> SUFFICES ASSUME StoreInv, Next, NEW i \in Ids, Held(i), ~Held(i)'
               PROVE  EraOf[i] = "nowcast" /\ pointer["nowcast"] = i
    BY DEF vars
  <2>1. CASE PublishAny
    <3>1. PICK s \in Stagings : Publish(s)
      BY <2>1, StoreAssumption DEF PublishAny, Stagings
    <3>2. Write(s)
      BY <3>1 DEF Publish, DoNotWrite, Held
    <3>3. i \in Replaced(s)
      <4>1. s.recorded # None /\ i \in Ids
        BY StoreAssumption DEF Stagings
      <4>2. i # s.id
        BY <3>2, <4>1, WriteLeaves DEF Held
      <4> QED BY <3>2, <4>2, WriteLeaves DEF Held
    <3> QED BY <3>3, ReplacedIsNowcast
  <2>2. CASE AnnounceOnRequest
    BY <2>2 DEF AnnounceOnRequest, Held
  <2> QED BY <2>1, <2>2 DEF Next
<1> QED BY <1>1, StoreInvariance, PTL DEF Spec, OnlyNowcastsLeave

-----------------------------------------------------------------------------
(* The store implements the catalogue.                                     *)

Binding == [i \in Ids |-> IF Held(i) THEN field[i]
                          ELSE IF book[i] # None THEN book[i].field
                          ELSE None]

Latest == [e \in PointedEras |->
             IF pointer[e] = None THEN None ELSE date[pointer[e]]]

\* What a name is bound to, whether or not it is still held, is in the book.
LEMMA BoundByTheBook ==
    ASSUME StoreInv
    PROVE  Binding = [i \in Ids |-> IF book[i] # None THEN book[i].field ELSE None]
  BY DEF Binding, StoreInv, OneFieldPerName

\* A write binds its id to what it was bound to, or to what it was not.
LEMMA WriteBinds ==
    ASSUME StoreInv, NEW s \in Stagings, WellDated(s),
           ~Refused(s), ~Rewinds(s), Write(s), StoreInv'
    PROVE  /\ Binding[s.id] \in {None, s.recorded}
           /\ Binding' = [Binding EXCEPT ![s.id] = s.recorded]
<1> USE StoreAssumption
<1>1. s.id \in Ids /\ s.recorded \in Fields
  BY DEF Stagings
<1>2. /\ book[s.id] # None => Held(s.id)
      /\ book'[s.id] \in Entries /\ book'[s.id].field = s.recorded
      /\ \A i \in Ids : i # s.id => book'[i] = book[i]
  BY WriteAgrees
<1>3. Binding[s.id] \in {None, s.recorded}
  <2>1. CASE Held(s.id)
    BY <1>1, <2>1 DEF Binding, Refused, Clashes
  <2>2. CASE ~Held(s.id)
    BY <1>1, <1>2, <2>2 DEF Binding
  <2> QED BY <2>1, <2>2
<1>4. Binding = [i \in Ids |-> IF book[i] # None THEN book[i].field ELSE None]
  BY BoundByTheBook
<1>5. Binding' = [i \in Ids |-> IF book'[i] # None THEN book'[i].field ELSE None]
  BY DEF Binding, StoreInv, OneFieldPerName
<1>6. book'[s.id] # None
  BY <1>2 DEF Entries
<1> HIDE DEF Binding
<1> QED BY <1>1, <1>2, <1>3, <1>4, <1>5, <1>6

\* A write advances its era's pointer, and no other.
LEMMA WriteMovesOn ==
    ASSUME StoreInv, NEW s \in Stagings, WellDated(s), ~Rewinds(s), Write(s)
    PROVE  IF EraOf[s.id] \in PointedEras
           THEN /\ Latest[EraOf[s.id]] # None => s.tick >= Latest[EraOf[s.id]]
                /\ Latest' = [Latest EXCEPT ![EraOf[s.id]] = s.tick]
           ELSE Latest' = Latest
<1> USE StoreAssumption
<1>1. /\ s.id \in Ids /\ s.tick \in Nat /\ s.recorded \in Fields
      /\ Era(s) = EraOf[s.id]
  BY DEF Stagings, Era
<1>5. /\ Era(s) \in PointedEras => pointer'[Era(s)] = s.id
      /\ \A e \in PointedEras : e # Era(s) => pointer'[e] = pointer[e]
  BY DEF Write, StoreInv, TypeOK
<1>6. ASSUME NEW e \in PointedEras, e # Era(s)
      PROVE  Latest'[e] = Latest[e]
  <2>1. CASE pointer[e] = None
    BY <1>5, <1>6, <2>1 DEF Latest
  <2>2. CASE pointer[e] # None
    <3>1. pointer[e] \in Ids /\ EraOf[pointer[e]] = e
      BY <2>2 DEF StoreInv, TypeOK, PointerNamesNewest
    <3>2. pointer[e] # s.id /\ pointer[e] \notin Replaced(s)
      BY <1>1, <1>6, <3>1, ReplacedIsNowcast
    <3>3. date'[pointer[e]] = date[pointer[e]]
      BY <3>1, <3>2, WriteLeaves
    <3> QED BY <1>5, <1>6, <2>2, <3>3 DEF Latest
  <2> QED BY <2>1, <2>2
<1>7. CASE Era(s) \in PointedEras
  <2>1. Latest'[Era(s)] = s.tick
    BY <1>1, <1>5, <1>7, WriteLeaves DEF Latest
  <2>2. Latest' = [Latest EXCEPT ![Era(s)] = s.tick]
    BY <1>6, <2>1 DEF Latest
  <2>3. Latest[Era(s)] # None => s.tick >= Latest[Era(s)]
    BY <1>1, <1>7, WriteAdvances DEF Latest
  <2> QED BY <1>1, <1>7, <2>2, <2>3
<1>8. CASE Era(s) \notin PointedEras
  <2>1. Latest' = Latest
    BY <1>6, <1>8 DEF Latest
  <2> QED BY <1>1, <1>8, <2>1
<1> QED BY <1>7, <1>8

\* Every behaviour of the store is one of the catalogue.
THEOREM StoreImplementsCatalogue == Spec => CatalogueSpec
<1>1. Init => Cat!Init
  BY StoreAssumption DEF Init, Cat!Init, Held
<1>2. StoreInv /\ [Next]_vars => [Cat!Next]_<<Binding, Latest>>
  <2> SUFFICES ASSUME StoreInv, [Next]_vars
               PROVE  [Cat!Next]_<<Binding, Latest>>
    OBVIOUS
  <2>1. StoreInv'
    BY StoreStep
  <2>2. ASSUME UNCHANGED <<field, date, pointer, book>>
        PROVE  UNCHANGED <<Binding, Latest>>
    BY <2>2 DEF Binding, Latest, Held
  <2>3. CASE PublishAny
    <3>1. PICK s \in Stagings :
            s.tick \in 0..MaxTick /\ WellDated(s) /\ Publish(s)
      BY <2>3, StoreAssumption DEF PublishAny, Stagings
    <3>2. CASE Write(s) /\ ~Refused(s) /\ ~Rewinds(s)
      <4>1. /\ Binding[s.id] \in {None, s.recorded}
            /\ Binding' = [Binding EXCEPT ![s.id] = s.recorded]
        BY <2>1, <3>1, <3>2, WriteBinds
      <4>2. IF EraOf[s.id] \in PointedEras
            THEN /\ Latest[EraOf[s.id]] # None => s.tick >= Latest[EraOf[s.id]]
                 /\ Latest' = [Latest EXCEPT ![EraOf[s.id]] = s.tick]
            ELSE Latest' = Latest
        BY <3>1, <3>2, WriteMovesOn
      <4>3. s.id \in Ids /\ s.recorded \in Fields
        BY DEF Stagings
      <4>4. Cat!Enter(s.id, s.recorded, s.tick)
        BY <4>1, <4>2 DEF Cat!Enter, Cat!Advances, Binding, Latest
      <4> QED BY <3>1, <4>3, <4>4 DEF Cat!Next
    <3>3. CASE DoNotWrite("refused") \/ DoNotWrite("superseded")
      BY <2>2, <3>3 DEF DoNotWrite
    <3> QED BY <3>1, <3>2, <3>3 DEF Publish
  <2>4. CASE AnnounceOnRequest \/ UNCHANGED vars
    BY <2>2, <2>4 DEF AnnounceOnRequest, vars
  <2> QED BY <2>3, <2>4 DEF Next
<1> QED BY <1>1, <1>2, StoreInvariance, PTL
        DEF Spec, CatalogueSpec, Cat!Spec, Binding, Latest

=============================================================================
