--------------------------- MODULE MCForecastLoop ---------------------------
(* The loop on a clock long enough for a cold start, a second and a third    *)
(* forecast.  The cadence floor, a cost and the margin fit in a forecast's   *)
(* life, as configured.                                                      *)
EXTENDS ForecastLoop
=============================================================================
