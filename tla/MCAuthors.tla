------------------------------ MODULE MCAuthors ------------------------------
(* A start condition of two ticks, with nothing committed for it, with what a  *)
(* run of it leaves in the store, or with that and one holding damaged.        *)
EXTENDS Authors

Committed ==
    <<Staging(<<"archive", 0>>, 0, Clean)>>
    \o <<Staging(<<"analysis", 0>>, 0, Clean),
         Staging(<<"spread", 0>>, 1, Clean), Staging(<<"forecast", 0>>, 1, Clean),
         Staging(<<"nowcast", 2>>, 2, Clean)>>

\* The file says Clean of bytes that are not.
Damaged(n) == [Committed EXCEPT ![n].bytes = Other]

MCArtefacts == {<<>>, Committed, Damaged(4), Damaged(5)}
=============================================================================
