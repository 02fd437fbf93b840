----------------------------- MODULE MCSensing ------------------------------
(* Two instruments that pair and one that does not, on a clock of a few      *)
(* sampling intervals.                                                       *)
EXTENDS Sensing

\* The order of the configured instruments: the pair's temperature first.
InstrumentOrder == <<Temperature, Salinity, Deep>>
=============================================================================
