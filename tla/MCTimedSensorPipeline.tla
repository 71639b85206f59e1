------------------------ MODULE MCTimedSensorPipeline ------------------------
(***************************************************************************)
(* Small instances of TimedSensorPipeline for TLC.                         *)
(***************************************************************************)
EXTENDS TimedSensorPipeline

NoFaults == <<>>

JitterSpread == {-3, 0, 2}
Never == {FALSE}
Sometimes == {FALSE, TRUE}
=============================================================================
