------------------------------ MODULE MCRates ------------------------------
(* Devices whose counters start at zero or just below the wrap.             *)
EXTENDS Rates

MCDevices == 1 .. 2
ThreeDevices == 1 .. 3
MCInitialCounts == {0, Modulus - 1}
=============================================================================
