--------------------------- MODULE MCSensorBridge ---------------------------
(***************************************************************************)
(* Small instances of SensorBridge for TLC.                                *)
(***************************************************************************)
EXTENDS SensorBridge

LidarAndRadar == <<"lidar", "radar">>
RadarOnly == <<"radar">>
=============================================================================
