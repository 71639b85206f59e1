---------------------------- MODULE SensorHandle ----------------------------
(***************************************************************************)
(* The C interface to one sensor (capi/hako_sensor_capi.cpp): an opaque    *)
(* handle with a sensor that may be missing, an error string that          *)
(* outlives the call that set it, and a scan whose output parameters the   *)
(* caller reads back.  Lidar3DSensor and RadarSensor are represented by    *)
(* the configuration they run on, their scan counter and the number of     *)
(* points of a frame.                                                      *)
(*                                                                         *)
(* The caller is one thread that never uses a handle it has destroyed.     *)
(***************************************************************************)
EXTENDS Integers

CONSTANTS
  DefaultGrid,   \* rays of the default LiDAR configuration
  ChosenGrid,    \* rays of the LiDAR configuration the caller passes
  MaxDetections, \* rays of a radar scan, hence the most detections of a frame
  Capacities,    \* the values of max_points the caller passes
  MaxScans       \* bound: scans between two resets

HandleAssumption ==
  /\ DefaultGrid \in Nat \ {0}
  /\ ChosenGrid \in Nat \ {0}
  /\ MaxDetections \in Nat \ {0}
  /\ Capacities \subseteq Int
  /\ MaxScans \in Nat

VARIABLES
  handle,   \* "null", "open" or "destroyed": what the caller holds
  kind,     \* kind
  sensor,   \* which configuration the sensor runs on, "absent" without one
  scans,    \* scan_count_ of the sensor
  err,      \* err, NoError when there is none
  rc,       \* the code the last scan of this handle returned, 0 before any
  out,      \* the output parameters in the caller's memory
  capacity, \* max_points of the last scan
  refused,  \* the configuration of this handle was in error
  last      \* the last call made on this handle

handleVars == <<handle, kind, sensor, scans, err, rc, out, capacity, refused, last>>

Nothing == [height |-> 0, width |-> 0, count |-> 0]
NoError == ""

Minimum(a, b) == IF a < b THEN a ELSE b

\* The number of points a frame of this sensor may have.
FrameSizes ==
  IF kind = "radar" THEN 0..MaxDetections
  ELSE {IF sensor = "default" THEN DefaultGrid ELSE ChosenGrid}
-----------------------------------------------------------------------------
\* hako_sensor_create returns no handle: no type, no callback, an unknown type.
CreateNull ==
  /\ handle # "open"
  /\ handle' = "null"
  /\ UNCHANGED <<kind, sensor, scans, err, rc, out, capacity, refused, last>>

Open(k, s, e) ==
  /\ handle # "open"
  /\ handle' = "open"
  /\ kind' = k
  /\ sensor' = s
  /\ err' = e
  /\ refused' = (e # NoError)
  /\ scans' = 0 /\ rc' = 0 /\ capacity' = 0 /\ last' = "create"
  /\ UNCHANGED out

CreateConfigured == \E k \in {"lidar3d", "radar"} : Open(k, "chosen", NoError)

\* The text is not JSON: found before the type is looked at, whatever it is.
CreateUnparsable == Open("lidar3d", "absent", "config_error")

\* A field has the wrong type: found before the sensor is made.
CreateBadField == \E k \in {"lidar3d", "radar"} : Open(k, "absent", "config_error")

\* SetConfig refuses: the sensor has been made and keeps its defaults.  The
\* radar fields of this interface are not among those its SetConfig checks.
CreateRejected == Open("lidar3d", "default", "config_error")
-----------------------------------------------------------------------------
Result(code, message, o) ==
  /\ rc' = code
  /\ err' = message
  /\ out' = o
  /\ last' = "scan"
  /\ UNCHANGED <<handle, kind, sensor, refused>>

\* The arguments are looked at before the output parameters are cleared.
ScanInvalid(max) ==
  /\ capacity' = max
  /\ Result(2, "invalid_arguments", out)
  /\ UNCHANGED scans

ScanWithoutSensor(max) ==
  /\ sensor = "absent" /\ max >= 0
  /\ capacity' = max
  /\ Result(3, "sensor_not_created", Nothing)
  /\ UNCHANGED scans

ScanSucceeds(max) ==
  /\ sensor # "absent" /\ max >= 0 /\ scans < MaxScans
  /\ capacity' = max
  /\ scans' = scans + 1
  /\ \E total \in FrameSizes :
       Result(0, NoError, [height |-> 1, width |-> total, count |-> Minimum(total, max)])

\* A variant that clears the output parameters only when the scan succeeds.
ScanThrowsKeepsOutput(max) ==
  /\ sensor # "absent" /\ max >= 0 /\ scans < MaxScans
  /\ capacity' = max
  /\ scans' = scans + 1
  /\ Result(4, "scan_error", out)

\* The model or the callback throws: the scan has been counted.
ScanThrows(max) ==
  /\ sensor # "absent" /\ max >= 0 /\ scans < MaxScans
  /\ capacity' = max
  /\ scans' = scans + 1
  /\ Result(4, "scan_error", Nothing)

Scan ==
  /\ handle = "open"
  /\ \E max \in Capacities :
       ScanInvalid(max) \/ ScanWithoutSensor(max) \/ ScanSucceeds(max) \/ ScanThrows(max)

ResetHandle ==
  /\ handle = "open"
  /\ scans' = 0
  /\ err' = NoError
  /\ last' = "reset"
  /\ UNCHANGED <<handle, kind, sensor, rc, out, capacity, refused>>

Destroy ==
  /\ handle = "open"
  /\ handle' = "destroyed"
  /\ UNCHANGED <<kind, sensor, scans, err, rc, out, capacity, refused, last>>

HandleInit ==
  /\ handle = "null"
  /\ kind = "lidar3d" /\ sensor = "absent" /\ scans = 0
  /\ err = NoError /\ rc = 0 /\ out = Nothing /\ capacity = 0
  /\ refused = FALSE
  /\ last = "create"

HandleNext ==
  \/ CreateNull \/ CreateConfigured \/ CreateUnparsable \/ CreateBadField \/ CreateRejected
  \/ Scan
  \/ ResetHandle
  \/ Destroy

HandleSpec == HandleInit /\ [][HandleNext]_handleVars
-----------------------------------------------------------------------------
(***************************************************************************)
(* After a scan the error string and the return code agree: the string is  *)
(* empty exactly when the scan succeeded, whatever was left in it before.  *)
(***************************************************************************)
ErrorAgreesWithCode ==
  last = "scan" => (err = NoError <=> rc = 0)

(***************************************************************************)
(* A caller can always tell that a frame did not fit: the points written   *)
(* fall short of the reported grid exactly when max_points does, and never *)
(* exceed max_points.                                                      *)
(***************************************************************************)
TruncationVisible ==
  last = "scan" /\ rc = 0 =>
    /\ out.count <= capacity
    /\ out.count < out.height * out.width <=> capacity < out.height * out.width
    /\ kind = "lidar3d" => out.height * out.width \in {DefaultGrid, ChosenGrid}

(***************************************************************************)
(* A scan that failed after its arguments were accepted leaves no frame of *)
(* an earlier scan in the caller's output parameters.                      *)
(***************************************************************************)
NoStaleFrame == last = "scan" /\ rc \in {3, 4} => out = Nothing

(***************************************************************************)
(* What a caller reads back after a scan is the answer of that scan: the   *)
(* error string, the output parameters and the number of points agree with *)
(* its return code, whatever create, scan and reset left behind before.    *)
(***************************************************************************)
AnswersOfThisCall == NoStaleFrame /\ ErrorAgreesWithCode /\ TruncationVisible
=============================================================================
