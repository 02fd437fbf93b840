-------------------------- MODULE MonitorConfig ---------------------------
(***************************************************************************)
(* What the monitor is configured with and what it may hear, shared by the *)
(* monitor and by the chain that feeds it.                                 *)
(***************************************************************************)
EXTENDS Integers, Sequences, FiniteSets

CONSTANTS
    Temperature, Salinity,  \* the two datastreams of config.pairs
    Threshold,              \* config.threshold_m_per_s
    Persistence,            \* config.persistence_count
    ThresholdDial, PersistenceDial,     \* values the operator may tune to
    Residuals,              \* magnitudes a residual may have
    MaxTick,                \* bound: the last tick of the model
    MaxRun,                 \* bound: forecasts published
    None, Outside, NotANumber

Pair == {Temperature, Salinity}

\* The persistence count and its dial start at two (run.json, monitor).
ASSUME MonitorAssumption ==
    /\ Temperature # Salinity
    /\ Threshold \in Nat /\ ThresholdDial \subseteq Nat
    /\ Persistence \in Nat \ {0, 1} /\ PersistenceDial \subseteq Nat \ {0, 1}
    /\ Residuals \subseteq Nat /\ MaxTick \in Nat /\ MaxRun \in Nat
    /\ None \notin Int /\ Outside \notin Int /\ NotANumber \notin Int
    /\ Outside # NotANumber
=============================================================================
