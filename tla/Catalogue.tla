------------------------------ MODULE Catalogue ------------------------------
(***************************************************************************)
(* What the coverage store promises its readers over the life of a run: a  *)
(* name, once bound to a field, is never bound to another, not even after  *)
(* what it named was let go, and the date of what an era's pointer names   *)
(* never goes back.                                                        *)
(***************************************************************************)
EXTENDS Naturals

CONSTANTS Ids, Fields, Dates, PointedEras, EraOf, None

VARIABLES
    binding,    \* the field each name was bound to, or None
    latest      \* the date of what each era's pointer names, or None

Advances(e, t) == latest[e] # None => t >= latest[e]

\* Binding a name that is free, or stating again what it is bound to.
Enter(i, f, t) ==
    /\ binding[i] \in {None, f}
    /\ binding' = [binding EXCEPT ![i] = f]
    /\ IF EraOf[i] \in PointedEras
       THEN /\ Advances(EraOf[i], t)
            /\ latest' = [latest EXCEPT ![EraOf[i]] = t]
       ELSE UNCHANGED latest

Init ==
    /\ binding = [i \in Ids |-> None]
    /\ latest = [e \in PointedEras |-> None]

Next == \E i \in Ids, f \in Fields, t \in Dates : Enter(i, f, t)

Spec == Init /\ [][Next]_<<binding, latest>>
=============================================================================
