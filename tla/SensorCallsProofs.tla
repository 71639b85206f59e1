------------------------- MODULE SensorCallsProofs --------------------------
(***************************************************************************)
(* What a caller can rely on, for every size of frame and every sequence of *)
(* calls (SensorHandle) and for every file and every order of loads        *)
(* (SensorSettings).  Both are proved by what each call leaves behind: the *)
(* handle's answer is about this call, and each part of a sensor is as new as *)
(* the load that wrote it.                                                 *)
(***************************************************************************)
EXTENDS SensorHandle, SensorSettings, SequenceTheorems, WellFoundedInduction, TLAPS

(***************************************************************************)
(* The C interface                                                         *)
(***************************************************************************)
\* The kinds of sensor, and the numbers the caller gets.
HandleInv ==
  /\ kind \in {"lidar3d", "radar"}
  /\ AnswersOfThisCall

\* HandleInv holds before the first call.
LEMMA HandleStart == HandleInit => HandleInv
BY DEF HandleInit, HandleInv, AnswersOfThisCall, NoStaleFrame, ErrorAgreesWithCode, TruncationVisible

\* What a frame of n points leaves in the caller's memory.
LEMMA FrameFits ==
  ASSUME NEW n \in Nat, NEW max \in Nat
  PROVE  LET o == [height |-> 1, width |-> n, count |-> Minimum(n, max)]
         IN /\ o.height * o.width = n
            /\ o.count <= max
            /\ o.count < n <=> max < n
BY DEF Minimum

\* No message of a failed scan is empty.
LEMMA MessagesAreErrors ==
  NoError \notin {"invalid_arguments", "sensor_not_created", "scan_error"}
BY Zenon DEF NoError

\* Every call of the C interface keeps HandleInv.
LEMMA HandleStep ==
  ASSUME HandleAssumption, HandleInv, [HandleNext]_handleVars
  PROVE  HandleInv'
<1> USE DEF HandleInv, AnswersOfThisCall, NoStaleFrame, ErrorAgreesWithCode, TruncationVisible
<1>1. CASE CreateNull
  BY <1>1 DEF CreateNull
<1>2. CASE CreateConfigured \/ CreateUnparsable \/ CreateBadField \/ CreateRejected
  BY <1>2 DEF CreateConfigured, CreateUnparsable, CreateBadField, CreateRejected, Open
<1>3. ASSUME NEW max \in Capacities, ScanInvalid(max)  PROVE HandleInv'
  BY <1>3, MessagesAreErrors DEF ScanInvalid, Result
<1>4. ASSUME NEW max \in Capacities, ScanWithoutSensor(max) \/ ScanThrows(max)  PROVE HandleInv'
  BY <1>4, MessagesAreErrors DEF ScanWithoutSensor, ScanThrows, Result
<1>5. ASSUME NEW max \in Capacities, ScanSucceeds(max)  PROVE HandleInv'
  <2>1. PICK n \in FrameSizes : Result(0, NoError, [height |-> 1, width |-> n, count |-> Minimum(n, max)])
    BY <1>5 DEF ScanSucceeds
  <2>2. n \in Nat /\ max \in Nat
    BY <1>5 DEF FrameSizes, HandleAssumption, ScanSucceeds
  <2>3. kind = "lidar3d" => n \in {DefaultGrid, ChosenGrid}
    BY DEF FrameSizes
  <2>4. /\ out'.height * out'.width = n
        /\ out'.count <= max
        /\ out'.count < n <=> max < n
    BY <2>1, <2>2, FrameFits DEF Result
  <2>5. rc' = 0 /\ err' = NoError /\ kind' = kind /\ capacity' = max
    BY <1>5, <2>1 DEF Result, ScanSucceeds
  <2> QED  BY <2>3, <2>4, <2>5
<1>6. CASE ResetHandle
  BY <1>6 DEF ResetHandle
<1>7. CASE Destroy
  BY <1>7 DEF Destroy
<1>8. CASE UNCHANGED handleVars
  BY <1>8 DEF handleVars
<1> QED
  BY <1>1, <1>2, <1>3, <1>4, <1>5, <1>6, <1>7, <1>8 DEF HandleNext, Scan

(***************************************************************************)
(* A caller of the C interface is told of this call: the return code, the  *)
(* message of hako_sensor_last_error and the counts in the frame agree, a  *)
(* failed scan leaves no frame of an earlier one to be taken for its own, and *)
(* a frame cut to the caller's capacity says so.                           *)
(***************************************************************************)
THEOREM CallsAnswered ==
  ASSUME HandleAssumption
  PROVE  HandleSpec => []AnswersOfThisCall
<1>1. HandleInv => AnswersOfThisCall
  BY DEF HandleInv
<1> QED
  BY <1>1, HandleStart, HandleStep, PTL DEF HandleSpec
-----------------------------------------------------------------------------
(***************************************************************************)
(* Settings                                                                *)
(***************************************************************************)
\* A set of numbers that is not empty has a least one.
LEMMA NatHasLeast ==
  ASSUME NEW S \in SUBSET Nat, S # {}
  PROVE  \E x \in S : \A y \in S : x <= y
<1> DEFINE R == {ss \in Nat \X Nat : ss[1] < ss[2]}
<1>1. IsWellFoundedOn(R, Nat)
  BY NatLessThanWellFounded DEF OpToRel
<1>2. PICK x \in S : \A y \in S : <<y, x>> \notin R
  BY <1>1, WFMin
<1>3. \A y \in S : x <= y
  <2> SUFFICES ASSUME NEW y \in S, ~(x <= y)
               PROVE  FALSE
    OBVIOUS
  <2>1. y \in Nat /\ x \in Nat /\ y < x
    OBVIOUS
  <2>2. <<y, x>> \in R
    BY <2>1
  <2> QED  BY <1>2, <2>2
<1> QED
  BY <1>3

\* The last of some positions of a list is one of them.
LEMMA LastIsMember ==
  ASSUME NEW n \in Nat, NEW S \in SUBSET (1..n), S # {}
  PROVE  Max(S) \in S
<1> DEFINE T == {n - i : i \in S}
<1>1. T \in SUBSET Nat /\ T # {}
  <2>1. \A i \in S : n - i \in Nat
    OBVIOUS
  <2>2. T # {}
    OBVIOUS
  <2> QED  BY <2>1, <2>2
<1>2. PICK t \in T : \A u \in T : t <= u
  BY <1>1, NatHasLeast
<1>3. PICK i \in S : t = n - i
  OBVIOUS
<1>4. \A j \in S : i >= j
  <2> SUFFICES ASSUME NEW j \in S PROVE i >= j
    OBVIOUS
  <2>1. n - i <= n - j
    BY <1>2, <1>3
  <2> QED  BY <2>1
<1> QED
  BY <1>4 DEF Max

\* The ways a step can end, and lists of steps that all end in one of them.
Endings == {"no", "refused", "threw"}
EndsSomehow(steps) ==
  \E n \in Nat : DOMAIN steps = 1..n /\ \A i \in 1..n : steps[i].ends \in Endings

\* A load that ends well has taken all of its steps.
LEMMA OkTakesAll ==
  ASSUME NEW steps, EndsSomehow(steps), Verdict(steps) = "ok"
  PROVE  Ending(steps) = {} /\ Written(steps) = UNION {steps[i].writes : i \in DOMAIN steps}
<1>1. Ending(steps) = {}
  <2> SUFFICES ASSUME Ending(steps) # {}  PROVE FALSE
    OBVIOUS
  <2>1. Ending(steps) \in SUBSET Nat
    BY DEF Ending, EndsSomehow
  <2>2. PICK e \in Ending(steps) : \A i \in Ending(steps) : e <= i
    BY <2>1, NatHasLeast
  <2> DEFINE c == CHOOSE x \in Ending(steps) : \A i \in Ending(steps) : x <= i
  <2>3. c \in Ending(steps)
    BY <2>2
  <2>4. Verdict(steps) = steps[c].ends
    BY DEF Verdict
  <2> HIDE DEF c
  <2>5. c \in DOMAIN steps /\ steps[c].ends # "no"
    BY <2>3 DEF Ending
  <2>6. steps[c].ends \in Endings
    BY <2>5 DEF EndsSomehow
  <2> QED  BY <2>4, <2>5, <2>6 DEF Endings
<1> QED
  BY <1>1 DEF Written, Reached

\* Everything is judged before anything is written.
JudgedFirst(steps) ==
  \E n \in Nat : /\ DOMAIN steps = 1..n
                 /\ \A i \in 1..n : i < n => steps[i].writes = {}
                 /\ n > 0 => steps[n].ends = "no"

\* A load that judges first and does not end well has written nothing.
LEMMA RefusedWritesNothing ==
  ASSUME NEW steps, JudgedFirst(steps), Verdict(steps) # "ok"
  PROVE  Written(steps) = {}
<1>1. PICK n \in Nat : /\ DOMAIN steps = 1..n
                       /\ \A i \in 1..n : i < n => steps[i].writes = {}
                       /\ n > 0 => steps[n].ends = "no"
  BY DEF JudgedFirst
<1>2. PICK e \in Ending(steps) : TRUE
  BY DEF Verdict
<1>3. e \in 1..n /\ e < n
  BY <1>1, <1>2 DEF Ending
<1>4. ASSUME NEW i \in Reached(steps) PROVE steps[i].writes = {}
  <2>1. i \in 1..n /\ i < e
    BY <1>1, <1>2, <1>4 DEF Reached, Ending
  <2> QED  BY <1>1, <1>3, <2>1
<1> QED
  BY <1>4 DEF Written

\* Steps that write nothing.
Judgements == [writes : {{}}, ends : Endings]

\* A list of them with one write at its end judges first.
LEMMA JudgementsThenWrite ==
  ASSUME NEW c \in Seq(Judgements), NEW x \in Judgements, NEW P
  PROVE  JudgedFirst(c \o <<x, Write(P)>>) /\ JudgedFirst(c \o <<Write(P)>>)
<1>1. ASSUME NEW i \in 1..Len(c) PROVE c[i].writes = {}
  <2>1. c[i] \in Judgements
    BY ElementOfSeq
  <2> QED  BY <2>1 DEF Judgements
<1>2. x.writes = {} /\ Write(P).ends = "no"
  BY DEF Judgements, Write
<1>3. JudgedFirst(c \o <<x, Write(P)>>)
  <2> DEFINE s == c \o <<x, Write(P)>>
             n == Len(c) + 2
  <2>1. n \in Nat /\ DOMAIN s = 1..n
    OBVIOUS
  <2>2. s[n].ends = "no"
    BY <1>2
  <2>3. \A i \in 1..n : i < n => s[i].writes = {}
    BY <1>1, <1>2
  <2> QED  BY <2>1, <2>2, <2>3 DEF JudgedFirst
<1>4. JudgedFirst(c \o <<Write(P)>>)
  <2> DEFINE s == c \o <<Write(P)>>
             n == Len(c) + 1
  <2>1. n \in Nat /\ DOMAIN s = 1..n
    OBVIOUS
  <2>2. s[n].ends = "no"
    BY <1>2
  <2>3. \A i \in 1..n : i < n => s[i].writes = {}
    BY <1>1, <1>2
  <2> QED  BY <2>1, <2>2, <2>3 DEF JudgedFirst
<1> QED
  BY <1>3, <1>4

\* The parsers the camera loaders share write nothing of the sensor.
LEMMA AreJudgements ==
  ASSUME NEW f
  PROVE  /\ ReadFile(f) \in Seq(Judgements)
         /\ ParseCamera(f) \in Seq(Judgements)
         /\ ParseDepthCamera(f) \in Seq(Judgements)
         /\ ParseRgbd(f) \in Seq(Judgements)
         /\ ParseStereo(f) \in Seq(Judgements)
<1>1. /\ Refuse(f.fault = "file") \in Judgements
      /\ Refuse(f.fault \in {"spec", "field"}) \in Judgements
      /\ Refuse(f.fault \in {"rgb", "depth"}) \in Judgements
      /\ Refuse(f.fault = "field") \in Judgements
      /\ Refuse(f.fault = "cameras") \in Judgements
      /\ Refuse(f.fault = "pose") \in Judgements
      /\ Throw(f.fault = "distortion") \in Judgements
      /\ Throw(f.fault = "artifact") \in Judgements
  BY DEF Refuse, Throw, Judgements, Endings
<1>2. \A x \in Judgements : <<x>> \in Seq(Judgements)
  OBVIOUS
<1>3. \A x, y \in Judgements : <<x, y>> \in Seq(Judgements)
  OBVIOUS
<1>4. \A s, t \in Seq(Judgements) : s \o t \in Seq(Judgements)
  OBVIOUS
<1>5. ReadFile(f) \in Seq(Judgements)
  BY <1>1, <1>2 DEF ReadFile
<1>6. ParseCamera(f) \in Seq(Judgements)
  BY <1>1, <1>3 DEF ParseCamera
<1>7. ParseDepthCamera(f) \in Seq(Judgements)
  BY <1>1, <1>3 DEF ParseDepthCamera
<1> HIDE DEF Judgements
<1>8. ParseRgbd(f) \in Seq(Judgements)
  BY <1>1, <1>2, <1>4, <1>5, <1>6, <1>7 DEF ParseRgbd
<1>9. ParseStereo(f) \in Seq(Judgements)
  BY <1>1, <1>2, <1>4, <1>5, <1>6, <1>7 DEF ParseStereo
<1> QED
  BY <1>5, <1>6, <1>7, <1>8, <1>9

\* The seven loaders that can be repeated after a refusal judge first.
LEMMA TransactionalJudges ==
  ASSUME NEW f, NEW listed, loader \in Transactional
  PROVE  JudgedFirst(Steps(f, listed))
<1>1. /\ Refuse(f.fault = "value") \in Judgements
      /\ Refuse(f.fault \in {"value", "mismatch"}) \in Judgements
  BY DEF Refuse, Judgements, Endings
<1>2. /\ ReadFile(f) \o ParseCamera(f) \in Seq(Judgements)
      /\ ReadFile(f) \o ParseDepthCamera(f) \in Seq(Judgements)
      /\ ParseRgbd(f) \in Seq(Judgements) /\ ParseStereo(f) \in Seq(Judgements)
  <2>1. \A s, t \in Seq(Judgements) : s \o t \in Seq(Judgements)
    OBVIOUS
  <2> QED  BY <2>1, AreJudgements
<1>3. CASE loader = "mono"
  <2>1. Steps(f, listed) = MonoSteps(f)
    BY <1>3 DEF Steps
  <2>2. JudgedFirst(MonoSteps(f))
    BY <1>1, <1>2, JudgementsThenWrite DEF MonoSteps
  <2> QED  BY <2>1, <2>2
<1>4. CASE loader = "depth"
  <2>1. Steps(f, listed) = DepthSteps(f)
    BY <1>4 DEF Steps
  <2>2. JudgedFirst(DepthSteps(f))
    BY <1>1, <1>2, JudgementsThenWrite DEF DepthSteps
  <2> QED  BY <2>1, <2>2
<1>5. CASE loader = "profile"
  <2>1. Steps(f, listed) = ProfileSteps(f)
    BY <1>5 DEF Steps
  <2>2. JudgedFirst(ProfileSteps(f))
    BY <1>1, <1>2, JudgementsThenWrite DEF ProfileSteps
  <2> QED  BY <2>1, <2>2
<1>6. CASE loader = "rgbd"
  <2>1. Steps(f, listed) = RgbdSteps(f)
    BY <1>6 DEF Steps
  <2>2. JudgedFirst(RgbdSteps(f))
    BY <1>1, <1>2, JudgementsThenWrite DEF RgbdSteps
  <2> QED  BY <2>1, <2>2
<1>7. CASE loader = "stereo"
  <2>1. Steps(f, listed) = StereoSteps(f)
    BY <1>7 DEF Steps
  <2>2. JudgedFirst(StereoSteps(f))
    BY <1>1, <1>2, JudgementsThenWrite DEF StereoSteps
  <2> QED  BY <2>1, <2>2
<1>8. CASE loader = "radar"
  <2>1. Steps(f, listed) = RadarSteps(f)
    BY <1>8 DEF Steps
  <2>2. JudgedFirst(RadarSteps(f))
    BY DEF JudgedFirst, RadarSteps, Refuse, Throw, Write
  <2> QED  BY <2>1, <2>2
<1>9. CASE loader = "lidar3d"
  <2>1. Steps(f, listed) = Lidar3DSteps(f)
    BY <1>9 DEF Steps
  <2>2. JudgedFirst(Lidar3DSteps(f))
    BY DEF JudgedFirst, Lidar3DSteps, Throw, Write
  <2> QED  BY <2>1, <2>2
<1> QED
  BY <1>3, <1>4, <1>5, <1>6, <1>7, <1>8, <1>9 DEF Transactional, Cameras2

\* What a load that ends well has written.
LEMMA OkWrites ==
  ASSUME NEW steps, EndsSomehow(steps), Verdict(steps) = "ok", NEW i \in DOMAIN steps
  PROVE  steps[i].writes \subseteq Written(steps)
BY OkTakesAll

\* What is written at the end of a list of judgements is written if all is well.
LEMMA OkCamera ==
  ASSUME NEW c \in Seq(Judgements), NEW x \in Judgements, NEW P
  PROVE  /\ Verdict(c \o <<x, Write(P)>>) = "ok" => P \subseteq Written(c \o <<x, Write(P)>>)
         /\ Verdict(c \o <<Write(P)>>) = "ok" => P \subseteq Written(c \o <<Write(P)>>)
<1>1. ASSUME NEW i \in 1..Len(c) PROVE c[i].ends \in Endings
  <2>1. c[i] \in Judgements
    BY ElementOfSeq
  <2> QED  BY <2>1 DEF Judgements
<1>2. Write(P).writes = P /\ Write(P).ends \in Endings /\ x.ends \in Endings
  BY DEF Write, Judgements, Endings
<1>3. ASSUME Verdict(c \o <<x, Write(P)>>) = "ok"
      PROVE  P \subseteq Written(c \o <<x, Write(P)>>)
  <2> DEFINE s == c \o <<x, Write(P)>>
  <2>1. EndsSomehow(s)
    <3>1. DOMAIN s = 1..(Len(c) + 2) /\ Len(c) + 2 \in Nat
      OBVIOUS
    <3>2. \A i \in 1..(Len(c) + 2) : s[i].ends \in Endings
      BY <1>1, <1>2
    <3> HIDE DEF s
    <3> QED  BY <3>1, <3>2 DEF EndsSomehow
  <2>2. Len(c) + 2 \in DOMAIN s /\ s[Len(c) + 2] = Write(P)
    OBVIOUS
  <2> HIDE DEF s
  <2>3. s[Len(c) + 2].writes \subseteq Written(s)
    BY <1>3, <2>1, <2>2, OkWrites DEF s
  <2> QED  BY <1>2, <2>2, <2>3 DEF s
<1>4. ASSUME Verdict(c \o <<Write(P)>>) = "ok"
      PROVE  P \subseteq Written(c \o <<Write(P)>>)
  <2> DEFINE s == c \o <<Write(P)>>
  <2>1. EndsSomehow(s)
    <3>1. DOMAIN s = 1..(Len(c) + 1) /\ Len(c) + 1 \in Nat
      OBVIOUS
    <3>2. \A i \in 1..(Len(c) + 1) : s[i].ends \in Endings
      BY <1>1, <1>2
    <3> HIDE DEF s
    <3> QED  BY <3>1, <3>2 DEF EndsSomehow
  <2>2. Len(c) + 1 \in DOMAIN s /\ s[Len(c) + 1] = Write(P)
    OBVIOUS
  <2> HIDE DEF s
  <2>3. s[Len(c) + 1].writes \subseteq Written(s)
    BY <1>4, <2>1, <2>2, OkWrites DEF s
  <2> QED  BY <1>2, <2>2, <2>3 DEF s
<1> QED
  BY <1>3, <1>4

\* A camera load that ends well writes every part of the camera.
LEMMA CamerasCompute ==
  ASSUME NEW f, NEW listed, loader \in Cameras2, Verdict(Steps(f, listed)) = "ok"
  PROVE  PartsOf(loader) \subseteq Written(Steps(f, listed))
<1>1. /\ Refuse(f.fault = "value") \in Judgements
      /\ Refuse(f.fault \in {"value", "mismatch"}) \in Judgements
  BY DEF Refuse, Judgements, Endings
<1>2. /\ ReadFile(f) \o ParseCamera(f) \in Seq(Judgements)
      /\ ReadFile(f) \o ParseDepthCamera(f) \in Seq(Judgements)
      /\ ParseRgbd(f) \in Seq(Judgements) /\ ParseStereo(f) \in Seq(Judgements)
  <2>1. \A s, t \in Seq(Judgements) : s \o t \in Seq(Judgements)
    OBVIOUS
  <2> QED  BY <2>1, AreJudgements
<1>4. CASE loader = "mono"
  <2>1. Steps(f, listed) = MonoSteps(f) /\ PartsOf(loader) = {"config", "rng", "schedule"}
    BY <1>4 DEF Steps, PartsOf
  <2>2. Verdict(MonoSteps(f)) = "ok" => {"config", "rng", "schedule"} \subseteq Written(MonoSteps(f))
    BY <1>1, <1>2, OkCamera DEF MonoSteps
  <2> QED  BY <2>1, <2>2
<1>5. CASE loader = "depth"
  <2>1. Steps(f, listed) = DepthSteps(f) /\ PartsOf(loader) = {"config", "rng", "schedule"}
    BY <1>5 DEF Steps, PartsOf
  <2>2. Verdict(DepthSteps(f)) = "ok" => {"config", "rng", "schedule"} \subseteq Written(DepthSteps(f))
    BY <1>1, <1>2, OkCamera DEF DepthSteps
  <2> QED  BY <2>1, <2>2
<1>6. CASE loader = "rgbd"
  <2>1. /\ Steps(f, listed) = RgbdSteps(f)
        /\ PartsOf(loader) = {"config", "rgb_rng", "depth_rng", "artifact_rng", "schedule"}
    BY <1>6 DEF Steps, PartsOf
  <2>2. Verdict(RgbdSteps(f)) = "ok" =>
          {"config", "rgb_rng", "depth_rng", "artifact_rng", "schedule"} \subseteq Written(RgbdSteps(f))
    BY <1>1, <1>2, OkCamera DEF RgbdSteps
  <2> QED  BY <2>1, <2>2
<1>7. CASE loader = "stereo"
  <2>1. Steps(f, listed) = StereoSteps(f) /\ PartsOf(loader) = {"config", "rng", "schedule"}
    BY <1>7 DEF Steps, PartsOf
  <2>2. Verdict(StereoSteps(f)) = "ok" => {"config", "rng", "schedule"} \subseteq Written(StereoSteps(f))
    BY <1>1, <1>2, OkCamera DEF StereoSteps
  <2> QED  BY <2>1, <2>2
<1> QED
  BY <1>4, <1>5, <1>6, <1>7 DEF Cameras2

\* The loaders whose steps are all listed at once.
LEMMA OthersCompute ==
  ASSUME NEW f, NEW listed, Verdict(Steps(f, listed)) = "ok",
         loader \in {"lidar2d", "radar", "lidar3d", "imu", "force", "joint", "tf", "odometry"}
  PROVE  PartsOf(loader) \ {"bodies"} \subseteq Written(Steps(f, listed))
<1> DEFINE s == Steps(f, listed)
<1>1. CASE loader = "lidar2d"
  <2>1. /\ s = Lidar2DSteps(f)
        /\ PartsOf(loader) = {"config", "options", "bodies", "noise", "schedule"}
    BY <1>1 DEF Steps, PartsOf
  <2>2. EndsSomehow(Lidar2DSteps(f))
    BY DEF EndsSomehow, Lidar2DSteps, Refuse, Throw, Write, When, Endings
  <2>3. /\ 2 \in DOMAIN Lidar2DSteps(f) /\ Lidar2DSteps(f)[2].writes = {"config", "options"}
        /\ 5 \in DOMAIN Lidar2DSteps(f) /\ Lidar2DSteps(f)[5].writes = {"schedule", "noise"}
    BY DEF Lidar2DSteps, Write
  <2> HIDE DEF s
  <2>4. {"config", "options"} \subseteq Written(s) /\ {"schedule", "noise"} \subseteq Written(s)
    BY <2>1, <2>2, <2>3, OkWrites DEF s
  <2> QED  BY <2>1, <2>4 DEF s
<1>2. CASE loader = "radar"
  <2>1. /\ s = RadarSteps(f)
        /\ PartsOf(loader) = {"config", "effects_rng", "noise", "rng", "schedule"}
    BY <1>2 DEF Steps, PartsOf
  <2>2. EndsSomehow(RadarSteps(f))
    BY DEF EndsSomehow, RadarSteps, Refuse, Throw, Write, When, Endings
  <2>3. /\ 3 \in DOMAIN RadarSteps(f) /\ RadarSteps(f)[3].writes = {"config", "rng", "effects_rng", "noise", "schedule"}
    BY DEF RadarSteps, Write
  <2> HIDE DEF s
  <2>4. {"config", "rng", "effects_rng", "noise", "schedule"} \subseteq Written(s)
    BY <2>1, <2>2, <2>3, OkWrites DEF s
  <2> QED  BY <2>1, <2>4 DEF s
<1>3. CASE loader = "lidar3d"
  <2>1. /\ s = Lidar3DSteps(f)
        /\ PartsOf(loader) = {"config", "count", "schedule"}
    BY <1>3 DEF Steps, PartsOf
  <2>2. EndsSomehow(Lidar3DSteps(f))
    BY DEF EndsSomehow, Lidar3DSteps, Refuse, Throw, Write, When, Endings
  <2>3. /\ 2 \in DOMAIN Lidar3DSteps(f) /\ Lidar3DSteps(f)[2].writes = {"config", "count", "schedule"}
    BY DEF Lidar3DSteps, Write
  <2> HIDE DEF s
  <2>4. {"config", "count", "schedule"} \subseteq Written(s)
    BY <2>1, <2>2, <2>3, OkWrites DEF s
  <2> QED  BY <2>1, <2>4 DEF s
<1>4. CASE loader = "imu"
  <2>1. /\ s = ImuSteps(f)
        /\ PartsOf(loader) = {"address", "config", "noise", "schedule"}
    BY <1>4 DEF Steps, PartsOf
  <2>2. EndsSomehow(ImuSteps(f))
    BY DEF EndsSomehow, ImuSteps, Refuse, Throw, Write, When, Endings
  <2>3. /\ 2 \in DOMAIN ImuSteps(f) /\ ImuSteps(f)[2].writes = {"config"}
        /\ 4 \in DOMAIN ImuSteps(f) /\ ImuSteps(f)[4].writes = {"schedule", "address"}
        /\ 6 \in DOMAIN ImuSteps(f) /\ ImuSteps(f)[6].writes = {"noise"}
    BY DEF ImuSteps, Write
  <2> HIDE DEF s
  <2>4. /\ {"config"} \subseteq Written(s) /\ {"schedule", "address"} \subseteq Written(s)
        /\ {"noise"} \subseteq Written(s)
    BY <2>1, <2>2, <2>3, OkWrites DEF s
  <2> QED  BY <2>1, <2>4 DEF s
<1>5. CASE loader = "force"
  <2>1. /\ s = ForceSteps(f)
        /\ PartsOf(loader) = {"address", "config", "noise", "schedule"}
    BY <1>5 DEF Steps, PartsOf
  <2>2. EndsSomehow(ForceSteps(f))
    BY DEF EndsSomehow, ForceSteps, Refuse, Throw, Write, When, Endings
  <2>3. /\ 2 \in DOMAIN ForceSteps(f) /\ ForceSteps(f)[2].writes = {"config", "noise", "address", "schedule"}
    BY DEF ForceSteps, Write
  <2> HIDE DEF s
  <2>4. {"config", "noise", "address", "schedule"} \subseteq Written(s)
    BY <2>1, <2>2, <2>3, OkWrites DEF s
  <2> QED  BY <2>1, <2>4 DEF s
<1>6. CASE loader = "joint"
  <2>1. /\ s = JointSteps(f, listed)
        /\ PartsOf(loader) = {"config", "ids", "schedule"}
    BY <1>6 DEF Steps, PartsOf
  <2>2. EndsSomehow(JointSteps(f, listed))
    BY DEF EndsSomehow, JointSteps, Refuse, Throw, Write, When, Endings
  <2>3. /\ 2 \in DOMAIN JointSteps(f, listed) /\ JointSteps(f, listed)[2].writes = {"config"}
        /\ 4 \in DOMAIN JointSteps(f, listed) /\ JointSteps(f, listed)[4].writes = {"ids"}
        /\ 6 \in DOMAIN JointSteps(f, listed) /\ JointSteps(f, listed)[6].writes = {"schedule"}
    BY DEF JointSteps, Write
  <2> HIDE DEF s
  <2>4. /\ {"config"} \subseteq Written(s) /\ {"ids"} \subseteq Written(s)
        /\ {"schedule"} \subseteq Written(s)
    BY <2>1, <2>2, <2>3, OkWrites DEF s
  <2> QED  BY <2>1, <2>4 DEF s
<1>7. CASE loader = "tf"
  <2>1. /\ s = TfSteps(f)
        /\ PartsOf(loader) = {"caches", "config", "schedule"}
    BY <1>7 DEF Steps, PartsOf
  <2>2. EndsSomehow(TfSteps(f))
    BY DEF EndsSomehow, TfSteps, Refuse, Throw, Write, When, Endings
  <2>3. /\ 2 \in DOMAIN TfSteps(f) /\ TfSteps(f)[2].writes = {"config"}
        /\ 4 \in DOMAIN TfSteps(f) /\ TfSteps(f)[4].writes = {"caches"}
        /\ 6 \in DOMAIN TfSteps(f) /\ TfSteps(f)[6].writes = {"schedule"}
    BY DEF TfSteps, Write
  <2> HIDE DEF s
  <2>4. /\ {"config"} \subseteq Written(s) /\ {"caches"} \subseteq Written(s)
        /\ {"schedule"} \subseteq Written(s)
    BY <2>1, <2>2, <2>3, OkWrites DEF s
  <2> QED  BY <2>1, <2>4 DEF s
<1>8. CASE loader = "odometry"
  <2>1. /\ s = OdometrySteps(f)
        /\ PartsOf(loader) = {"body", "config", "schedule"}
    BY <1>8 DEF Steps, PartsOf
  <2>2. EndsSomehow(OdometrySteps(f))
    BY DEF EndsSomehow, OdometrySteps, Refuse, Throw, Write, When, Endings
  <2>3. /\ 2 \in DOMAIN OdometrySteps(f) /\ OdometrySteps(f)[2].writes = {"config"}
        /\ 4 \in DOMAIN OdometrySteps(f) /\ OdometrySteps(f)[4].writes = {"body", "schedule"}
    BY DEF OdometrySteps, Write
  <2> HIDE DEF s
  <2>4. {"config"} \subseteq Written(s) /\ {"body", "schedule"} \subseteq Written(s)
    BY <2>1, <2>2, <2>3, OkWrites DEF s
  <2> QED  BY <2>1, <2>4 DEF s
<1> QED
  BY <1>1, <1>2, <1>3, <1>4, <1>5, <1>6, <1>7, <1>8

\* What a load of the ultrasonic sensor that ends well leaves of an older one.
Left(f) ==
  (IF "DetectionDistance" \in f.has THEN {} ELSE {"range"})
    \cup (IF "Cone" \in f.has THEN {} ELSE {"cone"})
    \cup (IF "binding" \in f.has THEN {} ELSE {"binding"})

\* The steps of the ultrasonic loader are thirteen that read and four more.
ThirteenThenFour(c, a, b) ==
  /\ DOMAIN c = 1..17
  /\ \A i \in 1..13 : c[i] = a[i]
  /\ \A i \in 1..4 : c[13 + i] = b[i]

\* Two lists put together are both still there.
LEMMA ThirteenAndFour ==
  ASSUME NEW S, NEW a \in Seq(S), NEW b \in Seq(S), Len(a) = 13, Len(b) = 4
  PROVE  ThirteenThenFour(a \o b, a, b)
<1>0. Len(a) + Len(b) = 17
  OBVIOUS
<1>1. a \o b \in Seq(S) /\ Len(a \o b) = Len(a) + Len(b)
      /\ \A i \in 1..Len(a) + Len(b) : (a \o b)[i] = IF i <= Len(a) THEN a[i] ELSE b[i - Len(a)]
  BY ConcatProperties
<1>2. DOMAIN (a \o b) = 1..Len(a \o b)
  BY <1>1, LenProperties
<1>3. \A i \in 1..4 : 13 + i \in 1..17 /\ (13 + i) - 13 = i /\ ~(13 + i <= 13)
  OBVIOUS
<1>4. \A i \in 1..13 : i \in 1..17 /\ i <= 13
  OBVIOUS
<1>5. \A i \in 1..17 : (a \o b)[i] = IF i <= 13 THEN a[i] ELSE b[i - 13]
  BY <1>0, <1>1
<1>6. \A i \in 1..4 : (a \o b)[13 + i] = b[i]
  BY <1>3, <1>5
<1> QED
  BY <1>0, <1>1, <1>2, <1>4, <1>5, <1>6 DEF ThirteenThenFour

\* An ultrasonic load that ends well writes everything but what its file leaves out.
LEMMA UltrasonicComputes ==
  ASSUME NEW f, NEW listed, loader = "ultrasonic", Verdict(Steps(f, listed)) = "ok"
  PROVE  PartsOf(loader) \ Left(f) \subseteq Written(Steps(f, listed))
<1> DEFINE reads == UltrasonicReads(f)
           rest  == << Refuse(~RangeFrom(f) \/ f.fault = "rate"), Write({"frame"}),
                       Refuse(f.fault = "site"), Write({"exclude", "rays", "noise", "schedule"}) >>
           s     == reads \o rest
           E     == {reads[i] : i \in 1..13} \cup {rest[i] : i \in 1..4}
<1>1. Steps(f, listed) = s
  BY DEF Steps, UltrasonicSteps
<1>2. /\ Len(reads) = 13 /\ Len(rest) = 4 /\ DOMAIN reads = 1..13 /\ DOMAIN rest = 1..4
      /\ reads \in Seq({reads[i] : i \in 1..13}) /\ rest \in Seq({rest[i] : i \in 1..4})
  BY DEF UltrasonicReads
<1>3. /\ \A i \in 1..13 : reads[i].ends \in Endings
      /\ reads[2].writes = {"frame_id"} /\ reads[4].writes = {"radiation"}
      /\ reads[6].writes = (IF "DetectionDistance" \in f.has THEN {"range"} ELSE {})
      /\ reads[8].writes = (IF "Cone" \in f.has THEN {"cone"} ELSE {})
      /\ reads[10].writes = {"rate", "accuracy"}
      /\ reads[12].writes = (IF "binding" \in f.has THEN {"binding"} ELSE {})
  BY DEF UltrasonicReads, Refuse, Write, When, Endings
<1>4. /\ \A i \in 1..4 : rest[i].ends \in Endings
      /\ rest[2].writes = {"frame"} /\ rest[4].writes = {"exclude", "rays", "noise", "schedule"}
  BY DEF Refuse, Write, Endings
<1> HIDE DEF reads, rest
<1>5. /\ DOMAIN s = 1..17
      /\ \A i \in 1..13 : s[i] = reads[i]
      /\ \A i \in 1..4 : s[13 + i] = rest[i]
  <2>1. reads \in Seq(E) /\ rest \in Seq(E)
    BY <1>2
  <2>2. Len(reads) = 13 /\ Len(rest) = 4
    BY <1>2
  <2> HIDE DEF E
  <2>3. ThirteenThenFour(reads \o rest, reads, rest)
    BY <2>1, <2>2, ThirteenAndFour
  <2> QED  BY <2>3 DEF ThirteenThenFour
<1>6. EndsSomehow(s)
  <2>1. ASSUME NEW i \in 1..17 PROVE s[i].ends \in Endings
    <3>1. CASE i \in 1..13
      BY <1>3, <1>5, <3>1
    <3>2. CASE i \notin 1..13
      <4>1. i - 13 \in 1..4 /\ 13 + (i - 13) = i
        BY <3>2
      <4> QED  BY <1>4, <1>5, <4>1
    <3> QED  BY <3>1, <3>2
  <2> QED  BY <1>5, <2>1 DEF EndsSomehow
<1>7. s[15] = rest[2] /\ s[17] = rest[4]
  <2>1. 13 + 2 = 15 /\ 13 + 4 = 17
    OBVIOUS
  <2> QED  BY <1>5, <2>1, SMTT(20)
<1>8. /\ s[2] = reads[2] /\ s[4] = reads[4] /\ s[6] = reads[6]
      /\ s[8] = reads[8] /\ s[10] = reads[10] /\ s[12] = reads[12]
  <2>1. 2 \in 1..13 /\ 4 \in 1..13 /\ 6 \in 1..13 /\ 8 \in 1..13 /\ 10 \in 1..13 /\ 12 \in 1..13
    OBVIOUS
  <2> HIDE DEF s
  <2> QED  BY <1>5, <2>1
<1> HIDE DEF s
<1>9. \A i \in 1..17 : s[i].writes \subseteq Written(s)
  BY <1>1, <1>5, <1>6, OkWrites
<1>10. /\ reads[2].writes \subseteq Written(s) /\ reads[4].writes \subseteq Written(s)
       /\ reads[6].writes \subseteq Written(s) /\ reads[8].writes \subseteq Written(s)
       /\ reads[10].writes \subseteq Written(s) /\ reads[12].writes \subseteq Written(s)
       /\ rest[2].writes \subseteq Written(s) /\ rest[4].writes \subseteq Written(s)
  BY <1>7, <1>8, <1>9
<1>11. PartsOf(loader) = {"frame_id", "radiation", "range", "cone", "rate", "accuracy", "binding",
                          "frame", "exclude", "rays", "noise", "schedule"}
  BY DEF PartsOf, UltrasonicConfig
<1>12. PartsOf(loader) \ Left(f) \subseteq Written(s)
  <2> HIDE DEF UltrasonicReads
  <2> QED  BY <1>3, <1>4, <1>10, <1>11 DEF Left
<1> QED
  BY <1>1, <1>12

\* Each part that is computed is one that every load that ends well computes.
LEMMA FromParts ==
  ASSUME SettingsAssumption, loader \in Loaders, NEW d \in From(loader)
  PROVE  /\ d[1] \in PartsOf(loader) /\ d[2] \in PartsOf(loader)
         /\ d[1] \notin {"config", "bodies", "options", "range", "cone", "binding"}
         /\ d[2] # "options"
<1>1. CASE loader = "ultrasonic"
  BY <1>1 DEF From, PartsOf, UltrasonicConfig
<1>2. CASE loader # "ultrasonic"
  <2>1. PICK p \in PartsOf(loader) \ {"config", "bodies", "options"} : d = <<p, "config">>
    BY <1>2 DEF From
  <2>2. "config" \in PartsOf(loader)
    BY <1>2, SettingsAssumption DEF PartsOf
  <2>3. p \notin {"range", "cone", "binding"}
    BY <1>2, SettingsAssumption, <2>1 DEF PartsOf
  <2> QED  BY <2>1, <2>2, <2>3
<1> QED
  BY <1>1, <1>2

\* A load that ends well computes what depends on a setting.
LEMMA OkComputes ==
  ASSUME SettingsAssumption, loader \in Loaders, NEW f, NEW listed,
         Verdict(Steps(f, listed)) = "ok", NEW d \in From(loader)
  PROVE  d[1] \in Written(Steps(f, listed))
<1>1. d[1] \in PartsOf(loader) /\ d[1] \notin {"bodies", "range", "cone", "binding"}
  BY FromParts
<1>2. CASE loader = "ultrasonic"
  BY <1>1, <1>2, UltrasonicComputes DEF Left
<1>3. CASE loader \in Cameras2
  BY <1>1, <1>3, CamerasCompute
<1>4. CASE loader \in {"lidar2d", "radar", "lidar3d", "imu", "force", "joint", "tf", "odometry"}
  BY <1>1, <1>4, OthersCompute
<1>5. CASE loader = "profile"
  BY <1>5 DEF From, PartsOf
<1> QED
  BY <1>2, <1>3, <1>4, <1>5 DEF SettingsAssumption, Cameras2
-----------------------------------------------------------------------------
\* What the parts of the sensor come from.
KeptInv ==
  /\ loader \in Loaders
  /\ DOMAIN kept = PartsOf(loader)
  /\ files \in Seq(FilesOf(loader)) /\ loads = Len(files)
  /\ \A p \in DOMAIN kept : kept[p] \in 0..loads
  /\ RefusalKeepsSensor
  /\ result = "ok" => \A d \in From(loader) : kept[d[1]] >= kept[d[2]]
  /\ result = "ok" /\ files # << >> /\ loader = "ultrasonic" =>
       \A p \in DOMAIN kept : kept[p] = Len(files) \/ p \in Left(files[Len(files)])

\* Ids that came with the joints are theirs.
JointsInv ==
  /\ loader = "joint" /\ kept["config"] = kept["ids"] =>
       \A i \in DOMAIN joints \cap DOMAIN jointIds : jointIds[i] = joints[i].mjcf
  /\ loader = "joint" => JointsNamed

\* The last entry of each child frame is one of the file's, if it has transforms.
TransformsInv ==
  \/ ToSet(transforms) = {}
  \/ /\ DOMAIN childToBody = {t.child : t \in ToSet(transforms)}
     /\ \A c \in DOMAIN childToBody :
          \E t \in ToSet(transforms) : t.child = c /\ childToBody[c] = t.body

\* What every step of a sensor's settings keeps.
SettingsInv == KeptInv /\ JointsInv /\ TransformsInv

\* SettingsInv holds before the first load.
LEMMA SettingsStart == SettingsAssumption /\ SettingsInit => SettingsInv
<1> SUFFICES ASSUME SettingsAssumption, SettingsInit PROVE SettingsInv
  OBVIOUS
<1>1. KeptInv
  <2>1. \A d \in From(loader) : kept[d[1]] = 0 /\ kept[d[2]] = 0
    BY FromParts DEF SettingsInit
  <2> QED  BY <2>1 DEF SettingsInit, KeptInv, RefusalKeepsSensor
<1>2. JointsInv
  BY DEF SettingsInit, JointsInv, JointsNamed
<1>3. TransformsInv
  BY DEF SettingsInit, TransformsInv, ToSet
<1> QED
  BY <1>1, <1>2, <1>3 DEF SettingsInv

\* A load writes what its steps reach.
LEMMA LoadKeeps ==
  ASSUME SettingsAssumption, KeptInv, NEW f \in FilesOf(loader), NEW listed,
         loads' = loads + 1, files' = Append(files, f),
         result' = Verdict(Steps(f, listed)), loader' = loader,
         kept' = [p \in DOMAIN kept |-> IF p \in Written(Steps(f, listed)) THEN loads' ELSE kept[p]]
  PROVE  KeptInv'
<1> DEFINE W == Written(Steps(f, listed))
<1>1. /\ files' \in Seq(FilesOf(loader)) /\ Len(files') = Len(files) + 1
      /\ files'[Len(files')] = f /\ loads' = Len(files')
  BY DEF KeptInv
<1>2. DOMAIN kept' = DOMAIN kept /\ DOMAIN kept = PartsOf(loader) /\ loads \in Nat
  BY DEF KeptInv
<1>3. \A p \in DOMAIN kept : kept'[p] \in 0..loads' /\ kept'[p] = (IF p \in W THEN loads' ELSE kept[p])
  <2>1. \A p \in DOMAIN kept : kept[p] \in 0..loads
    BY DEF KeptInv
  <2> HIDE DEF W
  <2> QED  BY <1>2, <2>1 DEF W
<1>4. ASSUME loader \in Transactional, result' # "ok"
      PROVE  \A p \in DOMAIN kept : kept'[p] < Len(files')
  <2>1. W = {}
    BY <1>4, TransactionalJudges, RefusedWritesNothing
  <2>2. \A p \in DOMAIN kept : kept'[p] = kept[p] /\ kept[p] \in 0..loads
    BY <1>3, <2>1 DEF KeptInv
  <2> QED  BY <1>1, <1>2, <2>2
<1>5. ASSUME result' = "ok", NEW d \in From(loader)
      PROVE  kept'[d[1]] >= kept'[d[2]]
  <2>1. d[1] \in W
    BY <1>5, OkComputes DEF KeptInv
  <2>2. d[1] \in DOMAIN kept /\ d[2] \in DOMAIN kept
    BY <1>2, FromParts DEF KeptInv
  <2>3. kept'[d[1]] = loads' /\ kept'[d[2]] \in 0..loads'
    BY <1>3, <2>1, <2>2
  <2> QED  BY <1>2, <2>3
<1>6. ASSUME result' = "ok", loader = "ultrasonic", NEW p \in DOMAIN kept
      PROVE  kept'[p] = Len(files') \/ p \in Left(f)
  <2>1. PartsOf(loader) \ Left(f) \subseteq W
    BY <1>6, UltrasonicComputes
  <2> QED  BY <1>1, <1>2, <1>3, <2>1
<1>7. RefusalKeepsSensor'
  BY <1>2, <1>4 DEF RefusalKeepsSensor
<1>8. (loader \in Loaders)'
  BY DEF KeptInv
<1> HIDE DEF W
<1> QED
  BY <1>1, <1>2, <1>3, <1>5, <1>6, <1>7, <1>8 DEF KeptInv

\* The last of several entries is one of the list.
LastEntry(listed, c) == Max({j \in DOMAIN listed : listed[j].child = c})

\* The last entry of a child frame is an entry of that frame.
LEMMA LastOfChild ==
  ASSUME NEW S, NEW m \in Nat, NEW listed \in BoundedSeq(S, m),
         NEW c \in {t.child : t \in ToSet(listed)}
  PROVE  LastEntry(listed, c) \in DOMAIN listed /\ listed[LastEntry(listed, c)].child = c
<1> DEFINE own == {j \in DOMAIN listed : listed[j].child = c}
<1>1. PICK n \in 0..m : listed \in [1..n -> S]
  BY DEF BoundedSeq, SeqOf
<1>2. n \in Nat /\ own \in SUBSET (1..n) /\ own # {}
  BY <1>1 DEF ToSet
<1>3. Max(own) \in own
  <2> HIDE DEF own
  <2> QED  BY <1>2, LastIsMember
<1> QED
  BY <1>3 DEF LastEntry

\* A joint file that is not read changes nothing; one with a value that cannot be
\* read changes the names and not the ids.
LEMMA JointsWritten ==
  ASSUME NEW f, NEW listed
  PROVE  /\ f.fault = "file" => Written(JointSteps(f, listed)) = {}
         /\ f.fault = "type" => /\ "config" \in Written(JointSteps(f, listed))
                                /\ "ids" \notin Written(JointSteps(f, listed))
<1> DEFINE s == JointSteps(f, listed)
<1>1. /\ DOMAIN s = 1..7
      /\ s[1].ends = (IF f.fault = "file" THEN "refused" ELSE "no") /\ s[1].writes = {}
      /\ s[2].ends = "no" /\ s[2].writes = {"config"}
      /\ s[3].ends = (IF f.fault = "type" THEN "threw" ELSE "no") /\ s[3].writes = {}
  BY DEF JointSteps, Refuse, Throw, Write
<1> HIDE DEF s
<1>2. ASSUME f.fault = "file" PROVE Written(s) = {}
  <2>1. 1 \in Ending(s)
    BY <1>1, <1>2 DEF Ending
  <2>2. Reached(s) = {}
    BY <1>1, <2>1 DEF Reached, Ending
  <2> QED  BY <2>2 DEF Written
<1>3. ASSUME f.fault = "type" PROVE "config" \in Written(s) /\ "ids" \notin Written(s)
  <2>1. 3 \in Ending(s) /\ \A e \in Ending(s) : e \in 3..7
    BY <1>1, <1>3 DEF Ending
  <2>2. Reached(s) = {1, 2}
    BY <1>1, <2>1 DEF Reached
  <2> QED  BY <1>1, <2>2 DEF Written
<1> QED
  BY <1>2, <1>3 DEF s

\* Every load, and every step that builds a frame, keeps SettingsInv.
LEMMA SettingsStep ==
  ASSUME SettingsAssumption, SettingsInv, [SettingsNext]_settingsVars
  PROVE  SettingsInv'
<1>1. CASE Load
  <2>1. PICK f \in FilesOf(loader) :
          \E listed \in (CASE loader = "joint" -> BoundedSeq(Joints, MaxListed)
                           [] loader = "tf" -> BoundedSeq(Transforms, MaxListed)
                           [] OTHER -> {<< >>}) :
            /\ files' = Append(files, f)
            /\ result' = Verdict(Steps(f, listed))
            /\ kept' = [p \in DOMAIN kept |-> IF p \in Written(Steps(f, listed)) THEN loads' ELSE kept[p]]
            /\ IF loader = "joint" /\ f.fault # "file" THEN LoadJoints(f, listed)
               ELSE UNCHANGED <<joints, jointIds>>
            /\ CASE loader # "tf" \/ f.fault = "file" -> UNCHANGED <<transforms, childToBody, bodyCache>>
                 [] loader = "tf" /\ f.fault = "type" -> GivesUpOnTransforms
                 [] OTHER -> LoadTransforms(listed)
    BY <1>1 DEF Load
  <2>2. PICK listed \in (CASE loader = "joint" -> BoundedSeq(Joints, MaxListed)
                           [] loader = "tf" -> BoundedSeq(Transforms, MaxListed)
                           [] OTHER -> {<< >>}) :
            /\ files' = Append(files, f)
            /\ result' = Verdict(Steps(f, listed))
            /\ kept' = [p \in DOMAIN kept |-> IF p \in Written(Steps(f, listed)) THEN loads' ELSE kept[p]]
            /\ IF loader = "joint" /\ f.fault # "file" THEN LoadJoints(f, listed)
               ELSE UNCHANGED <<joints, jointIds>>
            /\ CASE loader # "tf" \/ f.fault = "file" -> UNCHANGED <<transforms, childToBody, bodyCache>>
                 [] loader = "tf" /\ f.fault = "type" -> GivesUpOnTransforms
                 [] OTHER -> LoadTransforms(listed)
    BY <2>1
  <2>3. loads' = loads + 1 /\ loader' = loader /\ built' = built
    BY <1>1 DEF Load
  <2>4. KeptInv'
    BY <2>2, <2>3, LoadKeeps DEF SettingsInv
  <2>5. JointsInv'
    <3>1. CASE loader = "joint" /\ f.fault \notin {"file", "type"}
      <4>1. joints' = listed /\ jointIds' = ResolveJointIds(listed)
        BY <2>2, <3>1 DEF LoadJoints
      <4>2. \A i \in DOMAIN ResolveJointIds(listed) : ResolveJointIds(listed)[i] = listed[i].mjcf
        BY DEF ResolveJointIds
      <4> QED  BY <2>3, <4>1, <4>2 DEF SettingsInv, JointsInv, JointsNamed
    <3>2. CASE loader = "joint" /\ f.fault = "file"
      <4>1. kept'["config"] = kept["config"] /\ kept'["ids"] = kept["ids"]
        BY <2>2, <3>2, JointsWritten DEF SettingsInv, KeptInv, PartsOf, Steps
      <4> QED  BY <2>2, <2>3, <3>2, <4>1 DEF SettingsInv, JointsInv, JointsNamed
    <3>3. CASE loader = "joint" /\ f.fault = "type"
      <4>1. kept'["config"] = loads + 1 /\ kept'["ids"] = kept["ids"]
        BY <2>2, <2>3, <3>3, JointsWritten DEF SettingsInv, KeptInv, PartsOf, Steps
      <4>2. kept["ids"] \in 0..loads /\ loads \in Nat
        BY <3>3 DEF SettingsInv, KeptInv, PartsOf
      <4>3. kept'["config"] # kept'["ids"]
        BY <4>1, <4>2
      <4> QED  BY <2>3, <4>3 DEF SettingsInv, JointsInv, JointsNamed
    <3>4. CASE loader # "joint"
      BY <2>3, <3>4 DEF JointsInv
    <3> QED  BY <3>1, <3>2, <3>3, <3>4
  <2>6. TransformsInv'
    <3>1. CASE loader = "tf" /\ f.fault \notin {"file", "type"}
      <4>1. /\ transforms' = listed
            /\ childToBody' = [c \in {t.child : t \in ToSet(listed)} |->
                 listed[Max({i \in DOMAIN listed : listed[i].child = c})].body]
        BY <2>2, <3>1 DEF LoadTransforms
      <4>2. listed \in BoundedSeq(Transforms, MaxListed) /\ MaxListed \in Nat
        BY <3>1 DEF SettingsAssumption
      <4>3. ASSUME NEW c \in {t.child : t \in ToSet(listed)}
            PROVE  \E t \in ToSet(listed) : t.child = c /\ childToBody'[c] = t.body
        <5> DEFINE i == LastEntry(listed, c)
        <5>1. i \in DOMAIN listed /\ listed[i].child = c
          BY <4>2, LastOfChild
        <5>2. childToBody'[c] = listed[i].body
          BY <4>1 DEF LastEntry
        <5> HIDE DEF i
        <5>3. listed[i] \in ToSet(listed)
          BY <5>1 DEF ToSet
        <5> QED  BY <5>1, <5>2, <5>3
      <4> QED  BY <4>1, <4>3 DEF TransformsInv
    <3>2. CASE loader # "tf" \/ f.fault = "file"
      <4>1. UNCHANGED <<transforms, childToBody>>
        BY <2>2, <3>2
      <4> QED  BY <4>1 DEF SettingsInv, TransformsInv
    <3>3. CASE loader = "tf" /\ f.fault = "type"
      <4>1. transforms' = << >>
        BY <2>2, <3>3 DEF GivesUpOnTransforms
      <4> QED  BY <4>1 DEF TransformsInv, ToSet
    <3> QED  BY <3>1, <3>2, <3>3
  <2> QED  BY <2>4, <2>5, <2>6 DEF SettingsInv
<1>2. CASE SetRuntimeOptions
  <2>1. /\ loader = "lidar2d" /\ loader' = loader /\ loads' = loads + 1 /\ result' = result
        /\ kept' = [kept EXCEPT !["options"] = loads']
        /\ files' = Append(files, [has |-> {}, fault |-> "none"])
    BY <1>2 DEF SetRuntimeOptions
  <2>2. [has |-> {}, fault |-> "none"] \in FilesOf(loader)
    BY DEF FilesOf
  <2>3. /\ files' \in Seq(FilesOf(loader)) /\ Len(files') = Len(files) + 1
        /\ loads' = Len(files') /\ loads \in Nat
    BY <2>1, <2>2 DEF SettingsInv, KeptInv
  <2>4. DOMAIN kept' = DOMAIN kept /\ \A p \in DOMAIN kept : kept'[p] \in 0..loads'
    BY <2>1, <2>3 DEF SettingsInv, KeptInv
  <2>5. ASSUME result' = "ok", NEW d \in From(loader)
        PROVE  kept'[d[1]] >= kept'[d[2]]
    <3>1. /\ d[1] \in DOMAIN kept /\ d[2] \in DOMAIN kept
          /\ d[1] # "options" /\ d[2] # "options"
      BY FromParts DEF SettingsInv, KeptInv
    <3>2. kept[d[1]] >= kept[d[2]]
      BY <2>1, <2>5 DEF SettingsInv, KeptInv
    <3> QED  BY <2>1, <3>1, <3>2
  <2>6. loader \notin Transactional /\ loader # "ultrasonic"
    BY <2>1 DEF Transactional, Cameras2
  <2>7. KeptInv'
    <3>1. (loader \in Loaders)' /\ (DOMAIN kept = PartsOf(loader))'
      BY <2>1, <2>4 DEF SettingsInv, KeptInv
    <3>2. RefusalKeepsSensor'
      BY <2>1, <2>6 DEF RefusalKeepsSensor
    <3> QED  BY <2>1, <2>3, <2>4, <2>5, <2>6, <3>1, <3>2 DEF KeptInv
  <2>8. JointsInv' /\ TransformsInv'
    BY <1>2 DEF SetRuntimeOptions, SettingsInv, JointsInv, JointsNamed, TransformsInv
  <2> QED  BY <2>7, <2>8 DEF SettingsInv
<1>3. CASE BuildJoints
  <2>1. KeptInv' /\ TransformsInv'
    BY <1>3 DEF BuildJoints, SettingsInv, KeptInv, RefusalKeepsSensor, TransformsInv
  <2>2. /\ built' = [i \in DOMAIN joints \cap DOMAIN jointIds |->
                       [of |-> joints[i], id |-> jointIds[i], torn |-> kept["config"] # kept["ids"]]]
        /\ loader = "joint" /\ UNCHANGED <<loader, kept, joints, jointIds>>
    BY <1>3 DEF BuildJoints
  <2>3. JointsNamed'
    BY <2>2 DEF SettingsInv, JointsInv, JointsNamed
  <2>4. JointsInv'
    BY <2>2, <2>3 DEF SettingsInv, JointsInv
  <2> QED  BY <2>1, <2>4 DEF SettingsInv
<1>4. CASE BuildTransforms
  <2>1. /\ loader = "tf"
        /\ UNCHANGED <<loader, loads, kept, files, result, joints, jointIds, transforms,
                        childToBody, bodyCache>>
    BY <1>4 DEF BuildTransforms
  <2> QED  BY <2>1 DEF SettingsInv, KeptInv, RefusalKeepsSensor, JointsInv, TransformsInv
<1>5. CASE UNCHANGED settingsVars
  BY <1>5 DEF settingsVars, SettingsInv, KeptInv, RefusalKeepsSensor, JointsInv, JointsNamed,
              TransformsInv
<1> QED
  BY <1>1, <1>2, <1>3, <1>4, <1>5 DEF SettingsNext

(***************************************************************************)
(* The loaders of the cameras, of the radar and of the 3D LiDAR judge the  *)
(* whole file before they write: after a load that was refused or threw, the *)
(* sensor is what it was.                                                  *)
(***************************************************************************)
THEOREM RefusalsKeepSensors ==
  ASSUME SettingsAssumption
  PROVE  SettingsSpec => []RefusalKeepsSensor
<1>1. SettingsInv => RefusalKeepsSensor
  BY DEF SettingsInv, KeptInv
<1> QED
  BY <1>1, SettingsStart, SettingsStep, PTL DEF SettingsSpec

(***************************************************************************)
(* After a load that ends well no part of a sensor computed from its settings *)
(* is older than the settings it is computed from; the ultrasonic sensor keeps *)
(* only what its file leaves out.                                          *)
(***************************************************************************)
THEOREM LoadsAreWhole ==
  ASSUME SettingsAssumption
  PROVE  SettingsSpec => []LoadedAsOne
<1>1. SettingsInv => LoadedAsOne
  <2> SUFFICES ASSUME SettingsInv, result = "ok", files # << >> PROVE LoadedAsOne
    BY DEF LoadedAsOne
  <2>1. \A d \in From(loader) : kept[d[1]] >= kept[d[2]]
    BY DEF SettingsInv, KeptInv
  <2>2. loader = "ultrasonic" =>
          \A p \in DOMAIN kept : kept[p] = Len(files) \/ p \in Left(files[Len(files)])
    BY DEF SettingsInv, KeptInv
  <2> QED  BY <2>1, <2>2 DEF LoadedAsOne, Left
<1> QED
  BY <1>1, SettingsStart, SettingsStep, PTL DEF SettingsSpec

(***************************************************************************)
(* The joints of a frame are named as in the file they were resolved from, and *)
(* every transform is relative to the body of its parent frame in the same *)
(* file, or to the world.                                                  *)
(***************************************************************************)
THEOREM FramesAreOfFile ==
  ASSUME SettingsAssumption
  PROVE  SettingsSpec => []FramesOfFile
<1>1. SettingsInv => FramesOfFile
  <2> SUFFICES ASSUME SettingsInv PROVE FramesOfFile
    OBVIOUS
  <2>1. loader = "joint" => JointsNamed
    BY DEF SettingsInv, JointsInv
  <2>2. TransformsNamed
    <3> SUFFICES ASSUME NEW t \in ToSet(transforms)
                 PROVE  LET own == {u \in ToSet(transforms) : u.child = t.parent}
                        IN IF own = {} \/ t.parent \in {"odom", Unnamed} THEN Relative(t) = "world"
                           ELSE Relative(t) \in {u.body : u \in own}
      BY DEF TransformsNamed
    <3> DEFINE own == {u \in ToSet(transforms) : u.child = t.parent}
    <3>0. ToSet(transforms) # {}
      OBVIOUS
    <3>1. own = {} <=> t.parent \notin DOMAIN childToBody
      BY <3>0 DEF SettingsInv, TransformsInv
    <3>2. t.parent \in DOMAIN childToBody => childToBody[t.parent] \in {u.body : u \in own}
      BY <3>0 DEF SettingsInv, TransformsInv
    <3> HIDE DEF own
    <3>3. IF own = {} \/ t.parent \in {"odom", Unnamed} THEN Relative(t) = "world"
          ELSE Relative(t) \in {u.body : u \in own}
      BY <3>1, <3>2 DEF Relative
    <3> QED  BY <3>3 DEF own
  <2> QED  BY <2>1, <2>2 DEF FramesOfFile
<1> QED
  BY <1>1, SettingsStart, SettingsStep, PTL DEF SettingsSpec
=============================================================================
