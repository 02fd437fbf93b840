---------------------------- MODULE CoverageStore ----------------------------
(***************************************************************************)
(* The coverage store (app/src/backend/coverage-store/store.ts): holdings  *)
(* by id behind one write path, and a pointer for each of three eras.  A   *)
(* publication is refused, superseded or written.                          *)
(*                                                                         *)
(* Bytes are model values and a digest is the bytes it was taken of.  The  *)
(* length a descriptor records is a flag: does it agree with the bytes?    *)
(* The inventory's order is left out, and so are heartbeats.  book is a    *)
(* history variable: what each id was first written with, the tick only    *)
(* where it is part of what is named.                                      *)
(***************************************************************************)
EXTENDS Naturals

CONSTANTS
    Ids,        \* holding ids
    EraOf,      \* the era of each
    Fields,     \* byte strings
    MaxTick,    \* bound: the last publication tick of the model
    None        \* no holding

Eras == {"archive", "nowcast", "departure", "instance", "analysis"}
PointedEras == {"nowcast", "departure", "instance"}
DatedByName == {"nowcast", "departure"}     \* eras whose ids name one tick

ASSUME StoreAssumption ==
    /\ EraOf \in [Ids -> Eras]
    /\ MaxTick \in Nat
    /\ None \notin Ids /\ None \notin Fields
    /\ None \notin Nat
    /\ None \notin [field : Fields, tick : Nat \cup {None}]

VARIABLES
    field,      \* holdingsById: the bytes of each holding, or None
    date,       \* its descriptor's published_at.tick, or None
    pointer,    \* eraPointers
    announced,  \* holdings announced by the last step
    verdict,    \* the last publication's outcome, or None
    book        \* history: what each id was first written with, or None

vars == <<field, date, pointer, announced, verdict, book>>

Verdicts == {"written", "superseded", "refused"}
Entries == [field : Fields, tick : Nat \cup {None}]
Stagings == [id : Ids, tick : Nat, bytes : Fields, recorded : Fields,
             sized : BOOLEAN]

-----------------------------------------------------------------------------
(* The write path.                                                         *)

Held(i) == field[i] # None

\* The digest, the length, and a holding id that already names other bytes.
Corrupt(s) == s.bytes # s.recorded \/ ~s.sized
\* Fault: the clash sought only in the holding the era points to.
ClashesWithPointer(s) ==
    EraOf[s.id] \in PointedEras /\ pointer[EraOf[s.id]] = s.id
        /\ field[s.id] # s.recorded

Clashes(s) == Held(s.id) /\ field[s.id] # s.recorded
Refused(s) == Corrupt(s) \/ Clashes(s)

Era(s) == EraOf[s.id]
Pointed(e) == IF e \in PointedEras THEN pointer[e] ELSE None

\* Fault: publication times compared the wrong way round.
RewindsInverted(s) ==
    LET at == Pointed(Era(s))
    IN  at # None /\ at # s.id /\ Held(at) /\ s.tick > date[at]

\* An era pointer never moves backwards in publication time.
Rewinds(s) ==
    LET at == Pointed(Era(s))
    IN  /\ at # None /\ at # s.id
        /\ Held(at) /\ s.tick < date[at]

\* Faults: nothing is let go, and every era lets its predecessor go.
ReplacedNone(s) == {}
ReplacedAny(s) == {Pointed(Era(s))} \ {s.id, None}

\* The now-cast a new one replaces.
Replaced(s) == IF Era(s) = "nowcast" THEN {pointer["nowcast"]} \ {s.id} ELSE {}

Put(f, s, value) ==
    [i \in Ids |-> IF i = s.id THEN value
                   ELSE IF i \in Replaced(s) THEN None ELSE f[i]]

\* Fault: the replaced now-cast loses its field and keeps its descriptor.
WriteLeaving(s) ==
    /\ field' = Put(field, s, s.recorded)
    /\ date' = [date EXCEPT ![s.id] = s.tick]
    /\ pointer' = IF Era(s) \in PointedEras
                  THEN [pointer EXCEPT ![Era(s)] = s.id] ELSE pointer
    /\ announced' = {s.id}
    /\ verdict' = "written"
    /\ UNCHANGED book

FirstWrite(s) ==
    [field |-> s.recorded, tick |-> IF Era(s) \in DatedByName THEN s.tick ELSE None]

Write(s) ==
    /\ field' = Put(field, s, s.recorded)
    /\ date' = Put(date, s, s.tick)
    /\ pointer' = IF Era(s) \in PointedEras
                  THEN [pointer EXCEPT ![Era(s)] = s.id] ELSE pointer
    /\ announced' = {s.id}
    /\ verdict' = "written"
    /\ book' = IF book[s.id] = None
               THEN [book EXCEPT ![s.id] = FirstWrite(s)]
               ELSE book

DoNotWrite(outcome) ==
    /\ verdict' = outcome
    /\ announced' = {}
    /\ UNCHANGED <<field, date, pointer, book>>

Publish(s) ==
    \/ Refused(s) /\ DoNotWrite("refused")
    \/ ~Refused(s) /\ Rewinds(s) /\ DoNotWrite("superseded")
    \/ ~Refused(s) /\ ~Rewinds(s) /\ Write(s)

\* The operator's prompt: the pointers are announced again.
AnnounceOnRequest ==
    /\ announced' = {pointer[e] : e \in PointedEras} \ {None}
    /\ verdict' = None
    /\ UNCHANGED <<field, date, pointer, book>>

-----------------------------------------------------------------------------
(* The producers.  What names the tick it was authored at, a now-cast or   *)
(* the brief, is dated so however often it is published: a replay restates *)
(* the date.  A run's spread and forecast may be released again, and then  *)
(* no earlier than they are held; its analysis may be repeated at any      *)
(* tick.  The generator authors one now-cast a tick.                       *)

WellDated(s) ==
    /\ Era(s) \in DatedByName /\ book[s.id] # None => s.tick = book[s.id].tick
    /\ Era(s) = "instance" /\ Held(s.id) => s.tick >= date[s.id]

OneNowcastPerTick(s) ==
    \A i \in Ids : /\ i # s.id
                   /\ EraOf[i] = "nowcast" /\ Era(s) = "nowcast"
                   /\ book[i] # None
                   => book[i].tick # s.tick

Init ==
    /\ field = [i \in Ids |-> None]
    /\ date = [i \in Ids |-> None]
    /\ pointer = [e \in PointedEras |-> None]
    /\ announced = {}
    /\ verdict = None
    /\ book = [i \in Ids |-> None]

PublishAny ==
    \E i \in Ids, t \in 0..MaxTick, b \in Fields, r \in Fields, z \in BOOLEAN :
      LET s == [id |-> i, tick |-> t, bytes |-> b, recorded |-> r, sized |-> z]
      IN  WellDated(s) /\ OneNowcastPerTick(s) /\ Publish(s)

Next == PublishAny \/ AnnounceOnRequest

Spec == Init /\ [][Next]_vars

-----------------------------------------------------------------------------
(* Properties.                                                             *)

\* Every holding has a field and a date, every pointer is a holding or none.
TypeOK ==
    /\ field \in [Ids -> Fields \cup {None}]
    /\ date \in [Ids -> Nat \cup {None}]
    /\ \A i \in Ids : field[i] = None <=> date[i] = None
    /\ pointer \in [PointedEras -> Ids \cup {None}]
    /\ announced \subseteq Ids
    /\ verdict \in Verdicts \cup {None}
    /\ book \in [Ids -> Entries \cup {None}]

\* A holding id names one set of bytes for the life of a run: across every
\* refusal, replay, replacement and deletion, what is held under an id is what was
\* first written under it, and a now-cast or brief is dated as it was (store.ts,
\* the comment above `standing`).
OneFieldPerName ==
    \A i \in Ids : Held(i) =>
        /\ book[i] # None /\ book[i].field = field[i]
        /\ EraOf[i] \in DatedByName => book[i].tick = date[i]

\* An era's pointer names a holding of that era, and nothing of the era that is
\* held was published after it, so the readers who ask the pointer and those who
\* scan the inventory agree on what is newest.
PointerNamesNewest ==
    \A e \in PointedEras :
        /\ pointer[e] # None => Held(pointer[e]) /\ EraOf[pointer[e]] = e
        /\ \A i \in Ids : Held(i) /\ EraOf[i] = e =>
              pointer[e] # None /\ date[i] <= date[pointer[e]]

\* Exactly one now-cast is held once one has been published: a replay never
\* resurrects one the store let go (the fault the `rewinds` comment records).
OneNowcast ==
    \A i \in Ids : Held(i) /\ EraOf[i] = "nowcast" => pointer["nowcast"] = i

\* Only the now-cast another replaces ever leaves the inventory: instances
\* accumulate, whatever is refused or replayed (FR-30).
OnlyNowcastsLeave ==
    [][\A i \in Ids : Held(i) /\ ~Held(i)' =>
         EraOf[i] = "nowcast" /\ pointer["nowcast"] = i]_vars

\* The store implements the catalogue: names bound once, those it let go of too,
\* and pointers that advance.
Cat == INSTANCE Catalogue WITH
    Dates <- 0..MaxTick,
    binding <- [i \in Ids |-> IF Held(i) THEN field[i]
                              ELSE IF book[i] # None THEN book[i].field
                              ELSE None],
    latest <- [e \in PointedEras |->
                 IF pointer[e] = None THEN None ELSE date[pointer[e]]]
CatalogueSpec == Cat!Spec

=============================================================================
