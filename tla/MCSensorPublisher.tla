------------------------- MODULE MCSensorPublisher -------------------------
(***************************************************************************)
(* SensorPublisher with bases on both sides of each threshold: with a      *)
(* variation of 1 the readings include both thresholds, both limits of a   *)
(* valid reading, and a temperature beyond each limit.                     *)
(***************************************************************************)
EXTENDS SensorPublisher

MCMinCelsius == -2
MCLowest == -4
MCBases == {-4, -2, 0, 2, 4}

=============================================================================
