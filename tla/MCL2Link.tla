------------------------------ MODULE MCL2Link ------------------------------
(* Instances of L2Link for TLC.                                            *)
EXTENDS L2Link

\* data with numbers three apart have the same check sum
Sum3(x) == x[2] % 3
NeverQuits(x) == FALSE

OneWay == [s \in Stations |-> IF s \in Callers THEN 5 ELSE 0]
NoData == [s \in Stations |-> 0]
ThreePieces == [s \in Stations |-> IF s \in Callers THEN 3 ELSE 0]
=============================================================================
