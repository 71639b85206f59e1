# Verification of hakoniwa-mujoco-sensor

TLA+ models of the sensor library, TLC configurations that check them on small
instances, and proofs that TLAPS checks for every value of the constants. Paths
are relative to the root of the repository; line numbers are in
`PROJECT.json` (`map`), definition by definition.

    tlc -workers 2 -config Devices.cfg MCDevices.tla    # one of the twelve runs
    tlapm SensorBridgeProofs.tla                        # one of the eight modules with proofs

## 1. The system

hakoniwa-mujoco-sensor turns a MuJoCo (or Godot) scene into sensor data on
Hakoniwa PDU channels. A payload passes through layers that are almost
independent of each other:

    scene -> ray caster / renderer -> sensor class -> noise -> common core -> runtime or C handle -> bridge -> PDU channel
                                                                                                          |
                                        flight commands <- detect-and-avoid programs <- radar health watch

### Components, their state and what makes them correct

| component | source | state | operations | correct means |
|---|---|---|---|---|
| timed sensor pipeline | `include/sensors/common/timed_sensor_pipeline.hpp` | queue, sequence number, loss counter and flag, Gilbert-Elliott state, two generators | `Enqueue`, `PublishDue`, `Reset` | every attempt is delivered, in flight or counted; a loss is announced once; join keys are unique; release order |
| schedule and its loop | same header, `SensorSchedule`; `docs/physical_ai/common_core.md` | next sample time | `Due`, `Reset` | no grid instant skipped or doubled, nothing due left behind |
| health wire codec | `include/sensors/common/sensor_health_wire.hpp`, `python/hakoniwa_sensor_health` | none of its own; the frame in the channel | encode, decode, send | both languages read the same record or both refuse |
| C interface | `capi/hako_sensor_capi.cpp` | sensor, last error, casters | create, scan, reset, destroy, last_error | no answer of an earlier call is handed out as a new one |
| ultrasonic | `src/sensors/ultrasonic/` | configuration, generator | `Measure`, `LoadConfig`, `Reset` | nearest echo in range, a status with a reason |
| 2D/3D LiDAR and ray casters | `src/sensors/lidar/`, `src/sensors/backend/` | configuration, frame, scan counter | `Scan`, `SetConfig`, `Cast` | the nearest surface that is not the vehicle's own; ranges and times that belong to their header |
| configuration loaders | `LoadConfig` of all sensors, `camera_config_loader.cpp` | what a file has left in the sensor | `LoadConfig`, `SetRuntimeOptions`, `Build` of joints and tf | a refused file leaves the sensor as it was; nothing derived is older than its source |
| radar | `src/sensors/radar/` | configuration, scan counter, three generators | `Scan`, `SetConfig`, `Reset` | a replay is exact; clutter changes no target |
| noise | `src/sensors/noise/`, `include/sensors/common/seed_manager.hpp` | generators, biases | `Apply`, `Reset`, `Reseed` | no repeated noise, no shared streams |
| inertial sensors | `src/sensors/imu/` | previous velocity, two noise pipelines | `Build`, `LoadConfig`, `Reset` | a possible acceleration |
| cameras and renderer | `src/sensors/camera/` | configuration, frames; the model they share | `Capture`, `Render` | the model is restored, a pair stays together, no old picture |
| odometry, joints, tf, contact, force, battery | `include/sensors/{odometry,joint_state,tf,contact,force_torque,battery}` | schedulers, battery charge | `Build`, `Update` | limits of the battery states |
| sensor runtime | `include/runtime/sensor_runtime.hpp` | scene, components, dirty flag | `LoadManifest`, `SetActor`, `Step` | no scan on old kinematics |
| channel definitions | `add_sensor_channel.py`, `include/runtime/pdudef_channels.hpp`, start of the bridge, `radar_fit` | pdudef files, the map name -> channel, the remembered fit | add a channel, load, override, fit | one channel per name, room for each frame, writer and reader on the same channel |
| sensor bridge | `examples/drone_envsim_sensors/sensor_bridge_multi.cpp` | previous positions, velocities | main loop | velocities the bodies can have |
| radar health watch | `drone_daasim/daa_common.py` | fingerprints, fresh and stale units, times | `StaleWatch`, `FitWatch`, `WatchThread` | no dead radar trusted, no live one rejected |
| detection from scans | `drone_daasim/daa_common.py` | the fitted units, the missing channels | coverage, `coverage_gap`, `scan_best` | what is said to be seen is what is seen |
| flight commands | `drone_daasim/daa_common.py` | the command record, shared with the drone service | `cancel_move`, `fly_to` | a leg is over before the next one is asked for; every leg ends |

`PROJECT.json` lists all 38 components, those that are not modelled too, each
with the reason.

### How they interact

* A loop calls the schedule and the pipeline from one thread, in the order
  `Due`, `Enqueue`..., `PublishDue`. The two share only the simulation clock.
* The bridge reads two positions from shared memory, each of which may fail,
  writes the actor into the scene (`SetActor`) and calls `Step`, which brings
  the kinematics up to date once and lets every sensor scan and publish.
* A channel keeps its last frame for ever. The watch thread polls channels of
  processes that die and restart, and stores its conclusions in attributes that
  the command loop reads without a lock.
* All cameras write their field of view and clip planes into the one model that
  the viewer shows, and restore it.
* A handle of the C interface owns one sensor and the text of its last error.
* Bridge and reader find a channel separately: each looks for the pdudef and the
  manifest in its own way, and `add_sensor_channel.py` may edit the pdudef between
  the two.
* The program that flies and the drone service overwrite one command record.
* Health records are written by one language and read by another.

### What is hard here

Jittered latency against order and against DropOldest eviction; losses on four
paths that must be counted on each; catching up after a long physics step;
reads that fail while time goes on; two stores seen one at a time; a process
that restarts with the frames it published before; random generators that are
shared, forgotten or reseeded where they should not be; exceptions in the middle
of a scan; a global model that is overridden and restored; a file refused half
way through a loader; angles that wrap, windows that overlap; an
acknowledgement that comes after the wait for it has ended. `hazards` in
`PROJECT.json` has each at its line, with the properties that would catch it.

## 2. Modules

| module | models | composed by |
|---|---|---|
| `ObservationContract` | what a stream promises: an attempt is pending, delivered once or lost, and the first delivery after a loss says so | implemented by `TimedSensorPipeline` |
| `TimedSensorPipeline` | the pipeline and the health record of each publication | extended by `SensorLoop` |
| `SensorLoop` | the schedule and the documented loop around the pipeline | `MCSensorLoop`: a lossy link, and a queue at either end of the sizing rule |
| `RadarWatch` | sensor processes, watch thread, command loop, reads that raise | |
| `SensorBridge` | the bridge's loop with the runtime's `SetActor` and `Step` | `MCDetectAndAvoid` |
| `SensorHandle` | a handle of the C interface with the sensor behind it | `MCDevices` |
| `UltrasonicMeasure` | one measurement, ray by ray | `MCDevices` |
| `GaussianNoise` | which random variates a sample is made of (operators) | `ImuSensor` |
| `ImuSensor` | the inertial sensor with its two noise pipelines | `MCDevices` |
| `RadarScan` | the radar's scan with its three generators | `MCDevices` |
| `CameraRig` | four kinds of camera sensor on one renderer and model | `MCDevices` |
| `LidarScan` | the 2D, the scan and the 3D LiDAR and both ray casters | `MCDevices` |
| `SensorSettings` | fourteen loaders, and what `Build` makes of joints and frames | `MCDevices` |
| `HealthWire` | the health record between a C++ and a Python codec | `MCDevices` |
| `ChannelWiring` | pdudef tool, loader, start of the bridge, manifest, fit of the reader | `MCDetectAndAvoid` |
| `RadarPicture` | coverage and detections of the fitted radars | `MCDetectAndAvoid` |
| `FlightCommand` | `fly_to` and `cancel_move` against the drone service | `MCDetectAndAvoid` |
| `MCDevices`, `MCDetectAndAvoid` | several components as one instance; a behaviour drives one of them | |
| other `MC*` | instances for TLC | |
| `*Proofs` | theorems, section 5 | |

A definition has the name it has in the code where there is one. Operators whose
comment starts with "A variant" are plausible mistakes: they are not part of any
specification and exist to show that a property notices them.

### State and actions against the code

**TimedSensorPipeline.** `queue`, `nextSequence`, `droppedCount`,
`droppedSincePublish` and `geBad` are the members of the class. `Enqueue` is the
method with every exit: a drop window, the dropout trial, queue depth zero,
`Refuse` (DropNewest), `Evict` (DropOldest) and `Admit`. `UpperBound` is
`std::upper_bound` by the position it returns. `PublishDue` drains the due
prefix in one call; `WithHealth` joins each envelope with what
`MakeSensorHealth` reads after the call (so `depth` and `dropped` are the same
for a whole batch). `log` is what the consumer has been given in this episode.
Normal and Bernoulli draws are choices from `Jitter` and from sets of Booleans.
A payload is the number of its acquisition.

**SensorLoop.** `Poll` is `SensorSchedule::Due`, `Sample` one iteration of the
inner loop, `Emit` the publication. `RestartEpisode` restarts clock, schedule and
pipeline, `ContinueClock` replays the pipeline on a clock that runs on (its
schedule runs on too). `Reset(RuntimeContinue)` is a stuttering step.

**RadarWatch.** `PollUnit` is one `StaleWatch.update` with its read of the
channel; `StoreFresh` and `StoreStale` are the two attribute stores of
`FitWatch`; `Note` is the rest of `WatchThread.run`; `AskStale` and `AskFresh`
are the two reads of `blind` or `degraded`. A frame is a number: the stamp that
`radar_hash` covers, or, with `SameScene`, a number that starts again with the
process. The first frame that is read counts as a change, as in the code.
A read may raise, in the watch thread (`ReadFails`) or in a scan of the command
loop (`ScanFails`): after a `RuntimeError` the channel is in `_missing_channels`,
which both threads share and which nothing ever leaves (`unreadable`), and the
verdict on its radar is frozen. Any other exception ends the poll: the watches
that have been updated stay so, neither tuple is stored, nothing is noted
(`PollFails`; `gaveUp` is when).

**SensorBridge.** One iteration is `Wake`, `SelfRead` or `SelfReadFails`,
`ActorRead` or `ActorReadFails`, `Refresh`, `ScanSensor` for each component,
`StepDone`. A position is used only as a difference, so the state has how far a
body has moved since the position that is remembered of it. The low-pass filter
is any value between its old output and the raw velocity, written without
division (`v * dt <= moved`). One axis stands for three, and a position that is
read is the one at that time.

**SensorHandle.** One action per C function. A call writes `rc`, `err` and
`out`; a scan writes at most `capacity` points and returns how many there were.
A sensor is its configuration, its scan counter and the size of its frame, zero
for a range that is not positive.

**UltrasonicMeasure.** `Begin` is a call of `Measure` and chooses the echo of each
ray; `NextRay` is one iteration of its loop, in which the ray `Misses`, is
`TooNear` (inside the blind zone), `Nearer` than the minimum so far, or
`Farther`. `Report` derives status, range and its noise, `Return` hands them out,
and `Invalid` is a call without a frame or rays. `StatusHasReason` says which scenes
have which status, the order of the rays included: it is what the code does, not
what the comment at `Measure` promises (section 4).

**GaussianNoise, ImuSensor.** A variate is named by the seed of its generator,
the pair that was drawn and the place in the pair; samples are sets of names, so
"correlated" is "shares a name". `dist_normal_` keeps the second of a pair.
`Build`, `ResetImu` and `LoadConfig` are the methods; `Move` is the body between
two samples.

**RadarScan.** A generator is the number of draws since its seed. The outcome of
a draw is left open until it is made and is then fixed (`oracle`), so that equal
draws give equal results, and no others. `NoReturn`, `FalseAlarm`, `Overlook`,
`Detect` are the ways through the loop's body, `CastThrows` is an exception of
the ray caster. The scene stands still: what a direction meets is part of its
draw. A radar that nobody configured seeds `effects_rng_` differently, but its
effects are off, so no draw of that generator is made before `SetConfig`.

**CameraRig.** `Capture` starts a sensor; for each view `RenderFails` is an
early return before the model is touched, or `Override`, `Draw`, `Restore` are
the constructor of the guards, the drawing and their destructors; `Encode` fills
or clears the frames, and may refuse any of the pictures: a mono, depth or RGB-D
frame is then cleared, and of a stereo pair both are. A picture is the time, field
of view and clip planes it was made with.

**LidarScan.** A direction is an index into the scene, and a scene gives the
surfaces that the ray in that direction crosses. `CastRay` is the 2D LiDAR's own
loop past the vehicle's surfaces, `Cast` the shared caster's, `Attempts` the
bound of both. `Readings` are the beams of a scan with bias and the first
matching noise rule, `Padded` the blind padding, `ReturnsEarly` the exits that
stamp the old frame. The 2D LiDAR's distance past a surface is `eps` of its
configuration, the larger of the shared epsilon and what its origin offset asks for.
`Accepts` is the check of `Lidar3DSensor::SetConfig` and `FiringTime` the time the
scan computes. Without a ray caster (`caster`) the scan LiDAR reads nothing and the 3D
one announces a cloud and fills in no point. `ScanAll` scans with all three, so
that they can be compared on one scene.

**SensorSettings.** A loader is a sequence of steps; each writes parts of the
sensor, refuses or throws. `Steps` has the sequence of each loader in the order
of its code, `Written` what is left when it ends. A part of the sensor is the
number of the load it comes from. The exceptions are joints and transforms,
which keep their entries, because `Build` reads them after a load that gave up. A
value of the wrong type throws wherever the code reads one without asking for its
type, and refuses the file where it catches that. Joints, transforms, odometry and the
MJCF inertial sensor read through helpers of a submodule (`get_json_string` and the
like) that are not here: they may throw on a value of the wrong type and are
modelled as doing so. The force/torque sensor asks for the type of every value.

**HealthWire.** A frame is the fields of its header and the bytes of its body.
`CppEncode` and `CppDecode` are the functions of the header file, `CheckText` its
UTF-8 check byte by byte; a text is any sequence of bytes. `PyEncode` and
`PyDecode` are the Python ones, whose texts are decoded by the library
(`WellFormed`, the table of the Unicode standard) and whose times and counts have a
sign and no width. `Send` publishes from either language, `Arrive` puts any other
frame into the channel, also one whose three lengths are more or less than its body
(`amiss`). A frame shorter than a header, or with another magic, version or reserved
field, is one that is not `ours`.

**ChannelWiring.** `AddChannel` is one run of `add_sensor_channel.py` with its
checks, the choice of the id and the edit of both lists. `Declared` is
`LoadPduDefChannels`: readers, then writers, the last entry of a name wins. `StartBridge` is the
bridge up to its loop: built-in channels, pdudef, alias and override, the
manifest with its capability requirements, and the room reserved per channel.
`Publish` is what the sink does with a frame. `RadarFit` is `radar_fit` with its
own search for the two files, the memory of the answer included.

**RadarPicture.** Angles are whole units, so that wrapping is exact.
`AzimuthCoverage` is the sweep over sorted segments, `CoverageGap` the three tests
per unit in the unit's frame, `Hits` the way back from a unit's returns into the
body frame with window, range and static filters. `ScanBest` reads each channel;
a channel that fails once is in `missing` for ever, as in `_missing_channels`.

**FlightCommand.** `Command`, `MoveClaimed`, `MoveTimesOut`, `Measure`,
`CancelWrite`, `CancelAcked`, `CancelFails` and `Report` are the stages of
`fly_to`; the service's three actions are external, as the comments of
`cancel_move` describe them. A wait may time out at any point, and a position
may be unreadable.

**MCDevices and MCDetectAndAvoid.** The components of these modules share no
state. A behaviour drives one of them (`device`, `part`) and leaves the others as
they were created, so one run explores the sum of their state spaces. What the
behaviours restricted to the variables of one component satisfy is the
specification of its module.

## 3. Runs

| run | what it asks | bounds |
|---|---|---|
| `pipeline_jitter` | loss accounting, join keys, bounded reordering and the stream contract under jitter, Gilbert-Elliott dropout and DropOldest | 4 attempts, 5 instants, depth 2 |
| `pipeline_jitter_order` | violation: the documented sequence order under jitter | 3 attempts |
| `loop` | `GridNeverSkipped` (catch-up), `ReleasedInTime` (nothing due waits); on a lossy link order under one fixed latency, fault windows, and that a loss is announced in the end (liveness); `SizesRule`, the sizing rule at both its ends: a queue of latency plus step loses nothing, a DropOldest queue of one latency delivers nothing | steps up to 3 with period 2; 15 instants, overlapping windows, a disabled one; 9 instants, depth 3 for latency up to 3, depth 1 for latency 3 |
| `watch_one` | a dead radar is reported in time, a live one is not, a recovery is real; the restarted process repeats its frames | 13 instants, timeout 4, frame interval 2, reads that raise at instant 4 |
| `watch_two` | `VerdictIsReal`: no false stale report and no false "blind", tuples read between their stores | 5 instants, 2 radars, reads that raise at instant 4 |
| `watch_degraded` | violation: a single radar "degraded" | 6 instants |
| `detect_and_avoid` | the parts between a radar's frame and the aircraft that avoids: bridge, channels, picture, legs; every leg ends (liveness) | below |
| `bridge_actor_lost` | violation: Doppler after a lost read | 6 periods without a read |
| `fit_drops` | violation: a radar left out of the fit is not published | as `detect_and_avoid` |
| `ultrasonic_mixed` | violation: the nearest valid hit is reported | three rays, as `devices` |
| `devices` | the components that are called and answer | below |
| `imu_axes` | violation: independence of all axes of an inertial sensor | as `devices` |

`detect_and_avoid` checks eleven properties on about 900 000 states. Of the
bridge: `SelfVelocityReal`, `DopplerRealUntilMissed`, `ScansSeeTheActor`. Of the
channels: `ChannelsStayDistinct`, `FramesFitTheirChannel`, `FitAgreesWithBridge`.
Of the picture: `CoverageCountedOnce`, `GapExplainsMiss`, `MoversOnly`. Of the
legs: `CancelledRetryAccepted`, `FlightEnds`.

`devices` checks thirteen on about 186 000 states. `MeasureSound` (ultrasonic: nothing overlooked, nothing
invented, a status with a reason); `AnswersOfThisCall` (C interface);
`SamplesSound` (inertial sensor: possible acceleration, no repeated noise,
independent axes of a stream); `RandomnessSeparated` (radar: replays, effects
apart from targets); `ModelRestored`, `PairTogether`, `NoOldPicture` (cameras);
`ScansSeeTheScene`, `FramesOfOneScan` (LiDARs); `RefusalKeepsSensor`,
`LoadedAsOne`, `FramesOfFile` (loaders); `LanguagesAgree` (health records).

Why the bounds are enough. In `pipeline_jitter` the queue fills, evicts and
overtakes with three attempts; a fourth lets a loss fall between two publications
of an overtaken order, and the latency (0, 2 or 3, clamped on both sides) spans
more instants than the depth. In the loop runs a step can be longer than the
period, so several instants are due at once, and the run is long enough for an
eviction, a publication and a replay. `watch_one` has room for a timeout, its
report, a restart and the recovery after it; `watch_two` has room for a timeout
and for two units polled at different times. `FaultTimes` bounds when a read may
raise; the instant 4 lies before the first report can be due and after the first
frames, so that a radar can be latched while it is fresh, or, in `watch_one`, counted
anew from a poll that gave up. The theorems hold for exceptions at any time.

In `detect_and_avoid` the bridge distinguishes a loop that is late (1 or 2
periods) from one whose read fails (3 periods without one), and two sensors of
one step. Channels: two robots that share files, a default file and one of the
launcher, one edit at any moment, three manifests of which one asks for a
capability its sensor lacks, the launcher's environment in four forms, an
override or none, frames that fail, fit and do not fit. Picture: eight
directions; one radar that looks ahead, one that looks back, two that look both ways,
two that overlap, one that sees the whole circle from above; the aircraft's velocity
as it is and turned by half a circle, which is what the rear radar has to be given; targets ahead, aside, behind and above; two looks,
so that a channel that failed once is missed again. Legs: one retry, two legs, so
that a late result of the first can meet the second.

In `devices`, three ultrasonic rays take every distance inside the blind zone, at
and between both limits and beyond; buffers of the C interface hold nothing, less
than a frame, exactly one, more; two axes per stream and three builds reach a
kept variate, a static bias and a reload; one radar ray and two scans suffice
because each ray is one iteration of the same body and the generators carry their
draws into the next scan as they do into the next ray; three sensors share a
camera with different views, and the stereo pair uses a second one. The LiDARs
meet every arrangement of vehicle, wall and nothing at four distances, with fewer
own surfaces than the two casts of a ray, as many, and more, and configurations at
and beyond each limit that is checked, one of them with an epsilon of its own; each
also without a ray caster. Every loader is given every file with one
fault, after every other (two loads). Health texts are the bytes at every
border of UTF-8 in every place, headers have times at both ends of 63 and 64 bits and counts
at both ends of their width (scaled), and lengths that add up to the body, to one byte
more and to one less.

Two reductions. `watch_two` uses symmetry over the radars (the properties treat
them alike, and no liveness is checked there). Both watch runs have a `VIEW`.
Both forget what the watch remembers of a channel it never reads again, and
what no property and no guard reads (`stale_since`; in `watch_two` `fresh_since`
too). `RadarView` also replaces frame numbers by the two comparisons the code makes of
them, and times by how far they lie back, up to where nothing distinguishes them:
with `SameScene = FALSE` no frame is ever repeated. `OneRadarView` keeps numbers
and times, because in `watch_one` frames are repeated.

Deadlock is checked except in `Devices.cfg`, `DetectAndAvoid.cfg` and
`FitDrops.cfg`: a destroyed handle, a sensor after its last bounded call and an
aircraft that has flown its legs really do nothing more. In the other runs, where
a bound ends the modelled time, an action `Horizon` stutters there or `Reset`
remains enabled.

**Fairness.** Two runs check liveness. `LoopFairSpec` asks weak fairness of
`PhysicsStep \/ Poll \/ Sample \/ Emit` as one action: the thread of the loop
keeps running. Nothing in the code blocks it, and nothing is asked of replays,
of the random outcomes or of which step comes next. The property speaks only of
losses that leave the bounded run enough time for the announcement. `DaaSpec`
asks weak fairness of the client's part of `FlightCommand`: the thread that flies
is scheduled, and its waits end because each of them has a timeout. Nothing is
asked of the drone service, which may never answer; that is what `FlightEnds` is
about.

## 4. What the runs found

1. *Order under jitter* (`pipeline_jitter_order`). The queue is sorted by release
   time, so a shorter latency overtakes, against
   `docs/physical_ai/sensor_contract.md:22`. What does hold is
   `ReorderBounded`, and the order itself for a fixed latency; both are proved.
2. *Degraded with one radar* (`watch_degraded`). `FitWatch` stores `fresh` and
   `stale` one after the other; a reader in between sees a unit in both.
3. *Doppler after a lost read* (`bridge_actor_lost`). The actor's move since its
   last read is divided by the time since the drone's last read. Until a read of
   the actor fails the Doppler is right (proved).
4. *One noise for two streams* (`imu_axes`). The two pipelines of the inertial
   sensor are built with the same default seed and sensor name, so the same axis
   of both streams has the same noise. Within a pipeline the axes are
   independent.
5. *A radar the fit leaves out* (`fit_drops`). `radar_fit` drops a unit whose name
   the pdudef does not declare and calls it a sensor "the bridge refuses to
   publish" (`drone_daasim/daa_common.py:207-208`). The bridge starts from
   built-in channels for `radar_scan` and `radar_points` and publishes it on one
   of these.
6. *Valid and too near at once* (`ultrasonic_mixed`). An echo below the minimum lowers
   the running minimum to the minimum range, so a valid echo that is cast after it is
   lost (BELOW_MIN_RANGE), and one cast before it gives OK with the minimum as range.
   `include/sensors/ultrasonic/ultrasonic_sensor.hpp:357-359` promises OK and the
   nearest valid hit. What does hold is `StatusHasReason`, proved for any number of rays.

Seen while modelling and not made into runs:

* a handle whose configuration `SetConfig` refuses keeps a sensor with the
  defaults and scans, though the comment at `capi/hako_sensor_capi.cpp:125-126`
  says that it has none; a handle without a sensor answers "sensor not created"
  where that comment promises the configuration error again;
* a radar channel that was never written counts as fresh;
* one `RuntimeError` of `pdu_read` puts a channel among the missing ones for ever
  (`drone_daasim/daa_common.py:435-437`), and `StaleWatch`, which "declares a sensor faulty
  once its output has stopped changing" (line 620), keeps its last verdict on the
  radar: one that dies afterwards stays fresh, one that was stale and publishes again
  stays stale, and an aircraft can be called blind that sees. `RadarWatch` has this
  (`unreadable`), and the four properties of the watch say "that can be read" where
  they need it;
* `WatchThread.run` passes over any other exception of a poll (871-872): its verdict is
  as old as the last poll that ended well, and the bounds of `DeadIsReported`,
  `LiveIsFresh` and `RecoveryIsReal` count from the last poll that did not;
* `scan_best` hands one velocity to all radars (`own_vel_sensor`, in the sensor's frame),
  which is right for radars that are mounted alike: with a rear radar beside a front one
  the filter for moving targets takes the wrong speed out of one of them. `MoversOnly`
  asks for a velocity that is right in the frame of each;
* a joint_state file that throws between the names and the ids leaves new names beside
  the ids of the file before (`src/sensors/joint_state/joint_state_sensor.cpp:24-75`);
  `FramesOfFile` leaves out joints that were built of such a load (`torn`);
* `radar_fit` remembers its answer for the life of the process, so that it is wrong once
  the files have been edited; `FitAgreesWithBridge` compares bridges and answers made
  of the same files;
* loaders that assign while they parse keep half of a file they refuse. `Transactional`
  in `SensorSettings` lists those that do not (camera, RGB-D, stereo, radar, 3D LiDAR);
* `GaussianNoiseModel::Reseed` leaves the variate `dist_normal_` has kept;
* the inertial sensor divides by its period, not by the time that passed (`late`
  in `ImuSensor` marks those samples);
* an RGB-D sensor renders both of its frames with the clip planes of the depth
  part;
* options set with `SetRuntimeOptions` of the 2D LiDAR are lost with the next
  load;
* a force/torque sensor whose file was refused half way may be built with an
  address that was not found;
* `add_sensor_channel.py`, run again for more robots, moves the entries of robots
  that had the name to the new channel.

## 5. Proofs

Every theorem about a component is of the form `Spec => Property`, from the
named assumption of its module and nothing else; five more are about the
operators of the health record. 36 of the 40 properties of the passing runs are
stated by a theorem. `SizesRule` is `SizingRule` of two instances of the loop,
which `SizingIsRight` proves of every instance, and `LossyKeepsOrder` is
`PublishedInSequenceOrder` of the third, which `FixedLatencyKeepsOrder` proves; the
other two are the liveness properties. So every safety property that TLC checks here on small instances is
also proved for all values of the constants.

| module | theorems | argument |
|---|---|---|
| `TimedSensorPipelineProofs` | `TypeCorrect`, `Accounted`, `Bounded`, `FaultsAreMarked`, `LossesAreReported`, `QueueStaysOrdered`, `KeysAreUnique`, `ReorderIsBounded`, `FixedLatencyKeepsOrder`, `ImplementsContract` | types first; the accounting and the bound are inductive with them; `SoundInv`, `LossInv`, `OrderInv`, `ContractInv` |
| `SensorLoopProofs` | `LoopUsesPipeline`, `GridIsKept`, `LoopReleasesInTime`, `SizingIsRight` | `GridInv`, `ReleaseInv`, `NumberInv`, `StarveInv` |
| `SensorBridgeProofs` | `TypeCorrect`, `SelfVelocitySound`, `DopplerSound`, `ScansSeeRefreshed` | `SelfInv`, `ActorInv`, `RefreshInv` |
| `ChannelWiringProofs` | `ToolKeepsChannelsDistinct`, `FramesFit`, `FitMatchesBridge` | `FilesInv`, `BridgeInv`, `FitInv` |
| `DetectAndAvoidProofs` (`RadarWatch`, `FlightCommand`, `RadarPicture`) | `DeathIsReported`, `RecoveriesAreReal`, `ReturnIsNoticed`, `VerdictsAreReal`; `RetryIsAccepted`; `MissesExplained`, `OnlyMovers`, `CoverageIsCounted` | `SilenceInv`, `ReturnInv`, `VerdictInv`; `CancelInv`; `PictureInv`; lemmas about the sweep |
| `SensorCallsProofs` (`SensorHandle`, `SensorSettings`) | `CallsAnswered`; `RefusalsKeepSensors`, `LoadsAreWhole`, `FramesAreOfFile` | `HandleInv`; `SettingsInv` |
| `RandomnessProofs` (`ImuSensor`, `RadarScan`) | `SamplesAreSound`; `RandomnessIsSeparated` | `ImuInv`; `RadarInv` |
| `DevicesProofs` (`UltrasonicMeasure`, `CameraRig`, `HealthWire`, `LidarScan`) | `TypeCorrect`, `NoObstacleOverlooked`, `NoObstacleInvented`, `StatusSound`, `MeasureIsSound`; `ModelAlwaysRestored`, `PairsStayTogether`, `NoPictureIsOld`; `CppReadsItsOwn`, `PythonReadsItsOwn`, `OneFramePerRecord`, `TextsAgree`, `SameRecords`, `WireIsShared`; `ScansAreWhole`, `SceneIsSeen` | `LoopInv`, `ReportInv`; `GuardInv`, `PairInv`; `WireInv`, lemmas about texts; `LidarInv`, `SceneInv` |

*Order.* `QueueOrdered` alone is not inductive: that a sample enters behind its
equals needs every number in the queue to be below `nextSequence`, uniqueness
needs the numbers of queue and log to be apart, and the bound on overtaking needs
source times to grow with sequence numbers, each release to lie within the
latency limits of its source, and everything published to have been released no
later than everything queued. `OrderInv` is the conjunction of these. The
insertion and the removal of a prefix are lemmas about sequences.
`FixedLatencyKeepsOrder` adds that all latencies are one number.

*Losses and faults.* A publication carries the flag exactly when the counter has
grown since the record before it. For that the counter never falls behind a
record, `dropped_since_publish_` is set exactly while it is ahead of the last one,
and no envelope carries the flag while it waits (`LossInv`). `SoundInv` says of
queue and log that VALID means an instant without a window; it rests on
`FoundInWindow`, that the action found is the action of a window that covers the
instant, and so on the least element of a set of naturals.

*Contract.* The refinement is proved step by step from `ContractInv`, the
conjunction of the invariants above. An acquisition is an attempt that is kept,
lost, or kept at the cost of the head; a publication of n envelopes is a delivery
of their n numbers. That needs the numbers in the queue to be distinct and below
the next one, and no more of them than attempts.

*Loop.* `GridInv` describes what `Due` has returned: a run of the grid that ends one
period before `next_sample_ns_`, starting one period after the latest sample. With
it every call of the loop is one the pipeline allows, so `LoopSpec` implies `Spec`
and the theorems above carry over. `ReleaseInv` says what waits was not due one
physics step ago. For the size, numbers and source times run together
(`NumberInv`): what a queue of the longest latency plus the longest step holds has
distinct numbers among the latest `QueueDepth - 1`, so there is room for the next
(`Pigeonhole`). Under the opposite condition the queue is the latest attempts in
order (`StarveInv`), and the head is due no earlier than the next sample.

*Bridge.* A velocity stays possible because the move since the remembered
position is at most the maximum speed times the time since then, on every path
on which a read fails: `SelfInv` says so with `dt`. For the actor that time is
`actorAge`, and `dt` equals it exactly as long as no read of the actor has
failed; this is `ActorInv`, under `~actorMissed`. Velocities stored in the scene
(`qvel`, `kinematics`) are bounded with them, and so are the frames. That scans
see the latest pose needs `RefreshInv` in every phase of the loop: a step that
finds nothing to refresh relies on what earlier loops have left.

*Ultrasonic.* `LoopInv` says what the minimum so far means in terms of the rays
already cast; `ReportInv` what the report means after the last one.

*Cameras.* `GuardInv`: while a render has the model overridden, the guards hold
the loaded one, and outside a render the model is that one. `PairInv`: types,
how many raw frames each phase has, and that the raw frames of a running capture
are of the current time, because the world does not step inside one; that an encoding
of one side refuses clears both. It assumes `CameraAssumption`, which stands for what
`LoadConfig` has checked.

*Channels.* `FilesInv` says of every robot of every file that the channels of its
two lists together tell its names apart. One run keeps it because the id it
writes is either one that no other name has in either list of any robot it
edits, or the one the name already has; `DeclareKeepsDistinct` is that for one
list, `DeclareAddsOne` what an edit adds, `LeastIsMember` that the least free id
is a free id. It rests on files whose lists tell names apart to begin with, which
`WiringAssumption` states.

What the bridge has read is kept as it was when it started (`Started` in
`BridgeInv`), so the width of a frame and the room reserved for it can be traced
to the declarations: `Declared` gives a name the entry of its last writer
(`LastWriter`), and the room of a channel is the greatest of the sizes that are
mapped to it (`GreatestIsMember`). For the fit, `FitInv` says that the remembered
units are those of the files it names, also after those files have changed;
together with `BridgeInv` bridge and reader resolve the same declarations to the
same channel (`SameResolution`).

*Watch.* Time passes between any two steps of the watch thread, so each statement
is about the time of the poll and has one form for units the poll has still to
read and one for those it has read. `ClockInv` bounds how far a poll can be
behind the clock. `SilenceInv`: a silence of the timeout is known to a unit one
poll after it, and to the list one poll later; the recovery needs no more.
`ReturnInv` follows a restarted sensor through four stages: it has published;
its next frame will differ from the one the watch holds; the watch recognises
it; it is off the list. `VerdictInv`: what is stored as fresh and what some
reader may still rely on (`Relied`) is no older than a poll. It is about sensors
that do not repeat their frames, as `VerdictIsReal` is. All of them are about the
units that can be read, and each says so of the unit when the poll reads it: a
channel that becomes unreadable drops out of the statement. A poll that gives up
leaves the tuples as they are, so the ages are counted from `gaveUp` on. `ReturnInv` was not
inductive with the bound of one frame interval that the property had before:
the first frame of a restarted sensor may be the one the watch holds, and is
taken for silence until the second. TLC confirmed this on a run with a frame
interval of two instants, and `LiveIsFresh` now has two frame intervals and four
polls.

*Legs.* `CancelInv`: from the moment the request is withdrawn the service can
only stop, so a result seen from then on is of a service that hovers, and it
hovers until something is requested again.

*Picture.* `PictureInv` says that the result is what `Best` makes of the radars
that have answered and of the sky. The rest is arithmetic on a circle of any
size: turning a bearing into a unit's frame and back is the bearing (`TurnParts`,
`TurnShift`, `Unturned`), so the return of a target passes the window that its
own bearing passes (`WindowOfReturn`); if `coverage_gap` has no reason, one unit
passes all three tests at once (`NoGap`); and `scan_best` returns the least of the
ranges that pass (`BestRange`).

*C interface and loaders.* `HandleInv` is the property with the kinds of sensor:
each call answers from scratch, which is the point. `SettingsInv` has three parts.
`KeptInv`: a loader that promises to be transactional judges everything before it
writes anything (`JudgedFirst`), so a load that does not end well writes nothing
(`RefusedWritesNothing`), and one that ends well has written each part after what
it is computed from (`OkTakesAll`). `JointsInv` and `TransformsInv` do the same for
lists of entries: also after a load that threw half way, an id belongs to the
joint in its place and the map of the frames to the list it was made of.

*Inertial sensor.* `ImuInv` places the noise of every earlier sample of an axis
between two positions of its generator, and that of the next behind all of them;
the axes of a stream have different seeds. The acceleration is possible because a
stored velocity is at most `waited` periods old, or is not used.

*Radar.* Replay relates frames that lie any number of scans, resets and
configurations apart, so `RadarInv` gives every frame a history: one state per
ray since the reset, each following from the one before by the draws in `oracle`
(`Follows`). Draws are functional, so two histories of one configuration are equal
ray by ray (`Deterministic`), and two that differ in the effects alone agree in
everything but the effects (`Alike`). That holds because false alarms draw from a
generator of their own.

*LiDARs.* `LidarInv` says what the frames in the sensor were made with. A cloud
has a point for each channel of each column (`WholeColumns`, `RowAndPoint`), and
each is fired before the next column (`FiredInColumn`). It uses that a rotation is
a whole number of column periods in the unit of time that is chosen
(`LidarAssumption`); the code computes in seconds as doubles, where nothing is
rounded to a unit.

`SceneInv` says that the frame of a scan is what its configuration reads of the
scene, and that the scene stands still. What remains is about the casts, which
start again behind each surface of the vehicle. One restart is `Leg`;
`LegsAreDefined` says there is a row of `Attempts` of them in which each refers to the
next, and `CastRayIs` and `CastIs` that both casters are that row, so they agree
(`SameRay`). From the last attempt to the first, a leg that starts where as many
surfaces have been passed as attempts were made, all of them the vehicle's, reads
the nearest foreign surface (`LegReadsTruth`), unless `Attempts` surfaces of the
vehicle lie before it: then, and only then, the bound ends the search. For that no
surface may be hidden within the epsilon by which a ray is moved on
(`Apart`, from `lidar_2d_sensor.cpp:196` and `:225`): one that close behind a
surface of the vehicle is really missed by the code. It is a premise of the property,
line by line and for the epsilon of the configuration; that the casters agree
(`CastersAgree`) asks for it only where the two have different epsilons.

*Health records.* Three texts that are joined and cut at their lengths are
themselves (`CutWhereJoined`), whatever their lengths; conversely the three cuts of
a body, joined, are the body if the lengths add up to it. `TextsAgree` says that the
C++ check accepts exactly the texts, of any length and any bytes, that Python
decodes, except that it also refuses long ones and zeros. Both are functions that
recur over the places of a text. `CppTakes` compares them at one place: the lead
byte, the continuation bytes and the arithmetic on the code point (overlong forms,
surrogates, the last code point) against the rows of the Unicode table, for each
length of a character. `CppGood` and `PyGood` then show that both are the one
function that holds at the end and wherever a character is followed by a place
where it holds. With it a frame is one record in both languages or in neither
(`SameRecords`), whatever its flags, lengths and 64-bit times, and `WireInv` carries
that to every frame in the channel.

*Coverage.* The sweep adds up sorted and merged segments. Sorting gives each segment
a rank, and by ranks `MergeCounts` and `SweepCounts` say of each prefix that the sum
so far is the number of unit arcs the segments of the prefix contain, and that no
later segment begins before the one that is open. `ArcsOfOne` and `ArcsOfTwo` say
that the one or two segments of a window, cut where it crosses the seam, contain the
arcs of the window (`TurnFrom`).

*Recursive functions.* The provers cannot use the induction theorems of the
library, which take an operator as a parameter. Where a function `f` recurs over
data the proofs use two facts about sets instead. A function in which the value at
each place is determined by the places of smaller rank exists
(`RecursionDefines`, by taking the greatest rank up to which there is one); and two
functions with the same equation are equal, because the places where they differ
have a least one (`NatHasLeast`, `SameFromBehind`). `StepByStep` is the same for a
statement about the numbers up to a bound.

The assumptions are those the constructors or callers establish: a valid
`LatencyConfig` and queue depth; at least one sensor; matching stereo views;
bearings as `atan2` returns them, a fit with at least one radar and windows that begin
before they end and are no taller than the sky (`PictureAssumption`; without a radar
`radar_fit` falls back to the default unit, a window from a field of view begins
before it ends, and nothing in the code refuses a manifest with `azimuth_start_deg`
behind `azimuth_end_deg`: of such a file the sums say nothing, and the manifests of
the repository have none); scenes of finitely many surfaces on a ray, at distances
without a sign (`LidarAssumption`); bytes below 256 and header
numbers of the width they have (`WireTypes`); loaders that exist (`SettingsAssumption`); files whose lists
tell names apart (`WiringAssumption`). TLC evaluates each of them in the run of
its module. The bounds `MaxTime`, `MaxAttempts`, `MaxGap`, `MaxEdits`, `MaxLooks`,
`MaxLegs` and the others are constants like the rest, so the theorems hold for
each of their values.

Model-checked only:

* `LossyAnnounces` (`LossEventuallyAnnounced` of the lossy loop) and `FlightEnds`: liveness under fairness is out of the
  prover's reach, and so is what its fairness needs (`ENABLED`);
* `SizesRule` and `LossyKeepsOrder`: three instances of `SensorLoop` with given numbers.
  Of all instances the rule is `SizingIsRight` and the order `FixedLatencyKeepsOrder`;
* the bounds of the runs and the fairness, by their nature.

The six properties of section 4 are false, and TLC shows how.

## 6. What is not modelled

* Geometry, radar mathematics and battery physics over doubles, correlated noise
  and clamps: arithmetic in which no order of calls can go wrong.
* Pixels, image formats, OpenGL contexts and windows.
* The values of configuration fields. What a loader does with a file it refuses,
  and which part it computes from which, is in `SensorSettings`.
* The conversion between message types, and the Hakoniwa libraries; the
  submodule's update scheduler, whose source is not here.
* `Build` of the contact, force/torque, odometry and MJCF inertial sensors: each
  call copies or sums values of the scene and keeps nothing.
* Of the detection programs: `read_vel`, `SpeedTracker` and the conversions
  around `scan_best`; the encounter sampler, which records positions for another
  repository.
* The single-drone bridges, which are smaller forms of the modelled one;
  examples, tools and scripts that only call the modelled parts.

Each component's `note` in `PROJECT.json` gives the detail.

## 7. Plan

Done, in this order: pipeline and contract, loop, watch, handle, bridge,
ultrasonic, noise and inertial sensor, radar, cameras; then LiDARs and ray
casters, loaders, channel definitions, coverage and detections, flight commands,
health records; proofs for every module, at first for all safety properties of the runs but three, then
for those three, which recur over data (casts, sweep, UTF-8).

Left, most important first:

1. `FlightCommand` composed with `RadarWatch` and `RadarPicture` in the loop of one
   avoidance program, which so far share an instance and no state.
2. Several sensors of one process on one renderer from two threads
   (`CameraRig` has one thread, as the programs of the repository have).

Runs stay few: a new device joins `devices`, a new part of the avoidance joins
`detect_and_avoid`, and a property that a theorem or a deeper property covers
leaves its run.
