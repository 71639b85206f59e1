---------------------------- MODULE ChannelWiring ----------------------------
(***************************************************************************)
(* How a sensor and its reader come to use the same shared-memory channel: *)
(*   - add_sensor_channel.py declares a name in a pdudef file;             *)
(*   - sensor_bridge_multi.cpp loads the manifest (SensorRuntime,          *)
(*     SensorFactory) and resolves each name over three layers: built-in   *)
(*     defaults, the pdudef, A2_PDU_MAP;                                   *)
(*   - radar_fit of daa_common.py finds the same two files by its own way, *)
(*     resolves the radars of a robot and keeps the answer for ever.       *)
(* The tool may edit a file at any time, before and after either reads it. *)
(*                                                                         *)
(* An entry of a pdudef is a name, a channel and a width; a file holds,    *)
(* for each robot it knows, a list of readers and one of writers.          *)
(***************************************************************************)
EXTENDS Integers, Sequences, FiniteSets

CONSTANTS
  Robots,       \* the aircraft
  Names,        \* the org_names the tool is called with
  Launched,     \* the files it is called for and A2_PDUDEF may name
  Channels,     \* the ids the tool chooses from
  ToolSize,     \* --pdu-size
  ChanSize,     \* the width of a channel that declares none
  LidarChannel, RadarChannel,  \* the built-in wiring
  SomeFiles,    \* the pdudef files there may be: path -> robot -> lists
  Manifests,    \* path -> sequence of components
  Environments, \* what the reader's process finds in its environment
  Overrides,    \* values of A2_PDU_MAP: name -> channel
  Lengths,      \* the sizes of converted frames; not positive is a failure
  None,         \* an absent field, file or process
  MaxEdits      \* bound: runs of the tool

\* Channels and widths are numbers, manifests are finite, and the files the
\* programs start with are as ChannelsStayDistinct has them: a file may come
\* from elsewhere.  A path that may be named but is not there has None.
ASSUME WiringAssumption ==
  /\ Channels \subseteq Nat
  /\ ToolSize \in Int /\ ChanSize \in Nat /\ Lengths \subseteq Int
  /\ \A m \in DOMAIN Manifests : IsFiniteSet(DOMAIN Manifests[m])
  /\ \A start \in SomeFiles : Launched \subseteq DOMAIN start
  /\ \A start \in SomeFiles : \A p \in DOMAIN start : start[p] # None =>
       \A r \in DOMAIN start[p] :
         LET readers == start[p][r].readers
             writers == start[p][r].writers
         IN /\ readers \in Seq({readers[i] : i \in DOMAIN readers})
            /\ writers \in Seq({writers[i] : i \in DOMAIN writers})
            /\ \A d, e \in {readers[i] : i \in DOMAIN readers} \cup
                          {writers[i] : i \in DOMAIN writers} :
                 /\ d.size \in Int
                 /\ d.ch = e.ch => d.name = e.name

VARIABLES
  files,   \* the pdudef files
  edits,   \* how often the tool has been run
  bridge,  \* the running bridge, or None
  last,    \* what became of the bridge's latest frame
  env,     \* the reader's environment
  fit      \* _fit_cache: for each robot its units and what they were read from

wiringVars == <<files, edits, bridge, last, env, fit>>

Elements(s) == {s[i] : i \in DOMAIN s}
Least(S) == CHOOSE n \in S : \A m \in S : n <= m
Greatest(S) == CHOOSE n \in S : \A m \in S : m <= n
Over(g, f) == [n \in DOMAIN g \cup DOMAIN f |-> IF n \in DOMAIN g THEN g[n] ELSE f[n]]
Only(n, v) == [m \in {n} |-> v]
NoEntries == [n \in {} |-> None]

Lists == {"readers", "writers"}
EntriesOf(robot) == robot.readers \o robot.writers
-----------------------------------------------------------------------------
(***************************************************************************)
(* add_sensor_channel.py                                                   *)
(***************************************************************************)
Used(robot) == {e.ch : e \in Elements(EntriesOf(robot))}

\* find_existing: the channel of the first entry with this name, if any.
Existing(robot, name) ==
  LET at == {i \in DOMAIN EntriesOf(robot) : EntriesOf(robot)[i].name = name}
  IN IF at = {} THEN None ELSE EntriesOf(robot)[Least(at)].ch

\* A variant that only compares with the readers.
ClashesReaders(doc, targets, name, ch) ==
  \E r \in targets : /\ ch \in {e.ch : e \in Elements(doc[r].readers)}
                     /\ Existing(doc[r], name) # ch

\* --channel asks for an id that another name has.
Clashes(doc, targets, name, ch) ==
  \E r \in targets : ch \in Used(doc[r]) /\ Existing(doc[r], name) # ch

\* The lowest id that is free on every selected robot.
FreeIds(doc, targets) == Channels \ UNION {Used(doc[r]) : r \in targets}

\* One list of one robot: the first entry of that name is retargeted, with the
\* new width, and without one an entry is appended.
Declare(list, name, ch) ==
  LET at == {i \in DOMAIN list : list[i].name = name}
      entry == [name |-> name, ch |-> ch, size |-> ToolSize]
  IN CASE at = {}                  -> Append(list, entry)
       [] at # {} /\ list[Least(at)].ch # ch -> [list EXCEPT ![Least(at)] = entry]
       [] OTHER                    -> list

\* main: robots it does not select and, when every target has the name and no
\* channel is asked for, the whole file are left alone.
AddChannel(path, targets, name, asked) ==
  LET doc == files[path]
      ch  == IF asked # None THEN asked ELSE Least(FreeIds(doc, targets))
  IN /\ edits < MaxEdits
     /\ doc # None /\ targets # {} /\ targets \subseteq DOMAIN doc
     /\ asked = None => /\ \E r \in targets : Existing(doc[r], name) = None
                        /\ FreeIds(doc, targets) # {}
     /\ asked # None => ~Clashes(doc, targets, name, asked)
     /\ files' = [files EXCEPT ![path] = [r \in DOMAIN doc |->
          IF r \in targets THEN [l \in Lists |-> Declare(doc[r][l], name, ch)] ELSE doc[r]]]
     /\ edits' = edits + 1
     /\ UNCHANGED <<bridge, last, env, fit>>
-----------------------------------------------------------------------------
(***************************************************************************)
(* What both readers do with a pdudef                                      *)
(***************************************************************************)
\* A variant that reads the writers first.
DeclaredReadersWin(doc, r) ==
  IF doc = None \/ r \notin DOMAIN doc THEN NoEntries
  ELSE LET all == doc[r].writers \o doc[r].readers
       IN [n \in {e.name : e \in Elements(all)} |->
             all[Greatest({i \in DOMAIN all : all[i].name = n})]]

\* LoadPduDefChannels: readers first, then writers, and a later entry of a name
\* replaces an earlier one.  No file and no such robot give an empty map.
Declared(doc, r) ==
  IF doc = None \/ r \notin DOMAIN doc THEN NoEntries
  ELSE LET all == EntriesOf(doc[r])
       IN [n \in {e.name : e \in Elements(all)} |->
             all[Greatest({i \in DOMAIN all : all[i].name = n})]]

\* The primary radar goes by two names.
WithAlias(declared) ==
  IF "radar_points" \in DOMAIN declared /\ "radar_scan" \notin DOMAIN declared
  THEN Over(Only("radar_scan", declared["radar_points"]), declared)
  ELSE declared

WidthOf(spec) == IF spec.size > 0 THEN spec.size ELSE ChanSize
-----------------------------------------------------------------------------
(***************************************************************************)
(* The bridge                                                              *)
(***************************************************************************)
\* The sensors of a manifest this runtime provides.
Provided(c) == c.kind = "sensor" /\ c.type \in {"lidar_3d", "lidar_2d", "radar"}

\* capability::Geometric: the one that differs by type.
Geometric(type) ==
  {<<"multiple_returns", FALSE>>, <<"motion_distortion", FALSE>>, <<"doppler", type = "radar">>}

\* SensorFactory::Create: a component's name defaults to its id.
PublishedAs(c) == IF c.pdu_name = None THEN c.id ELSE c.pdu_name

\* LoadManifest throws in the middle when a required capability is not there.
Loads(manifest) ==
  \A c \in Elements(manifest) : Provided(c) => c.requires \subseteq Geometric(c.type)

BuiltIn ==
  [n \in {"lidar_points", "radar_scan", "radar_points"} |->
     [name |-> n, size |-> ChanSize,
      ch   |-> IF n = "lidar_points" THEN LidarChannel ELSE RadarChannel]]

\* An override says which channel, and keeps a width that is known.
Overridden(known, override) ==
  [n \in DOMAIN override |->
     [name |-> n, ch |-> override[n],
      size |-> IF n \in DOMAIN known /\ known[n].size > 0 THEN known[n].size ELSE ChanSize]]

\* name2ch, weakest layer first.
Wiring(doc, robot, override) ==
  LET known == Over(WithAlias(Declared(doc, robot)), BuiltIn)
  IN Over(Overridden(known, override), known)

\* outbuf: as wide as the widest channel of a sensor that is mapped.
Room(sensors, name2ch) ==
  Greatest({ChanSize} \cup {name2ch[n].size : n \in Elements(sensors) \cap DOMAIN name2ch})

\* Start-up to the loop; a manifest that throws ends the process.
StartBridge(robot, path, manifest, override) ==
  /\ bridge = None
  /\ LET loaded  == Manifests[manifest]
         doc     == IF path = None THEN None ELSE files[path]
         name2ch == Wiring(doc, robot, override)
         sensors == [i \in {j \in DOMAIN loaded : Provided(loaded[j])} |-> PublishedAs(loaded[i])]
     IN bridge' = IF Loads(loaded)
                  THEN [robot |-> robot, doc |-> doc, manifest |-> manifest,
                        override |-> override, sensors |-> sensors, name2ch |-> name2ch,
                        room |-> Room(sensors, name2ch)]
                  ELSE None
  /\ last' = None
  /\ UNCHANGED <<files, edits, env, fit>>

StopBridge ==
  /\ bridge # None
  /\ bridge' = None /\ last' = None
  /\ UNCHANGED <<files, edits, env, fit>>

\* SensorRuntime::Step and the sink: a frame of this many bytes, if it could be
\* converted, goes to its channel with the channel's width, or nowhere.
Publish(i, len) ==
  /\ bridge # None
  /\ i \in DOMAIN bridge.sensors
  /\ LET name == bridge.sensors[i]
         spec == bridge.name2ch[name]
         outcome == CASE len <= 0                          -> "unconverted"
                      [] len > 0 /\ name \notin DOMAIN bridge.name2ch -> "unmapped"
                      [] OTHER -> IF len > WidthOf(spec) THEN "too_long"
                                  ELSE IF WidthOf(spec) > bridge.room THEN "no_room"
                                  ELSE "written"
     IN last' = [outcome |-> outcome, name |-> name,
                 ch    |-> IF outcome = "written" THEN spec.ch ELSE None,
                 width |-> IF outcome = "written" THEN WidthOf(spec) ELSE 0]
  /\ UNCHANGED <<files, edits, bridge, env, fit>>
-----------------------------------------------------------------------------
(***************************************************************************)
(* radar_fit                                                               *)
(***************************************************************************)
\* The first candidate that is set and exists.
FirstExisting(candidates, existing, default) ==
  LET at == {i \in DOMAIN candidates : candidates[i] \in existing}
  IN IF at = {} THEN default ELSE candidates[Least(at)]

PdudefPath ==
  FirstExisting(<<env.pdudef, env.stackPdudef>>, {p \in DOMAIN files : files[p] # None}, "cfg")

ManifestPath(robot) ==
  FirstExisting(<<env.manifestOf[robot], env.manifest, env.stackManifest>>,
                DOMAIN Manifests, "default")

\* _manifest_radars: whatever its kind, and named radar_scan by default.
IsRadar(c) == c.type = "radar"
Unit(c) ==
  [id |-> c.id, name |-> IF c.pdu_name = None THEN "radar_scan" ELSE c.pdu_name]

DefaultUnit == [id |-> "front_radar", name |-> "radar_points", ch |-> RadarChannel]

\* A variant without the second name of the primary radar.
ResolvedNoAlias(doc, robot, manifest) ==
  LET declared == Declared(doc, robot)
      radars   == {Unit(c) : c \in {d \in Elements(manifest) : IsRadar(d)}}
  IN {[id |-> u.id, name |-> u.name, ch |-> declared[u.name].ch] :
        u \in {v \in radars : v.name \in DOMAIN declared}}

\* A radar without a channel in the pdudef is left out.
Resolved(doc, robot, manifest) ==
  LET declared == WithAlias(Declared(doc, robot))
      radars   == {Unit(c) : c \in {d \in Elements(manifest) : IsRadar(d)}}
  IN {[id |-> u.id, name |-> u.name, ch |-> declared[u.name].ch] :
        u \in {v \in radars : v.name \in DOMAIN declared}}

\* Asked for the first time; the answer is kept for the life of the process.
RadarFit(robot) ==
  /\ fit[robot] = None
  /\ LET doc      == files[PdudefPath]
         manifest == ManifestPath(robot)
         found    == Resolved(doc, robot, Manifests[manifest])
         given    == {[id |-> "given", name |-> "radar_points", ch |-> c] : c \in env.channels}
     IN fit' = [fit EXCEPT ![robot] =
          [units |-> CASE given # {}               -> given
                       [] given = {} /\ found # {} -> found
                       [] OTHER                    -> {DefaultUnit},
           doc |-> doc, manifest |-> manifest]]
  /\ UNCHANGED <<files, edits, bridge, last, env>>
-----------------------------------------------------------------------------
WiringInit ==
  /\ files \in SomeFiles
  /\ env \in Environments
  /\ edits = 0 /\ bridge = None /\ last = None
  /\ fit = [r \in Robots |-> None]

WiringNext ==
  \/ \E p \in Launched, t \in SUBSET Robots, n \in Names, c \in Channels \cup {None} :
       AddChannel(p, t, n, c)
  \/ \E r \in Robots, p \in Launched \cup {None}, m \in DOMAIN Manifests, o \in Overrides :
       StartBridge(r, p, m, o)
  \/ StopBridge
  \/ \E i \in 1..3, n \in Lengths : Publish(i, n)
  \/ \E r \in Robots : RadarFit(r)

WiringSpec == WiringInit /\ [][WiringNext]_wiringVars
-----------------------------------------------------------------------------
(***************************************************************************)
(* No run of add_sensor_channel.py, whatever robots and channel it is      *)
(* given, puts two names of one robot on one channel.                      *)
(***************************************************************************)
ChannelsStayDistinct ==
  \A p \in DOMAIN files : files[p] # None =>
    \A r \in DOMAIN files[p] : \A d, e \in Elements(EntriesOf(files[p][r])) :
      d.ch = e.ch => d.name = e.name

\* The entry of a name among the writers of a robot that a later one does not
\* replace, if there is one.
LastWriter(doc, robot, name) ==
  IF doc = None \/ robot \notin DOMAIN doc THEN {}
  ELSE LET writers == doc[robot].writers
           at == {i \in DOMAIN writers : writers[i].name = name}
       IN {writers[i] : i \in {j \in at : \A k \in at : k <= j}}

(***************************************************************************)
(* "Each write sends exactly the bytes its own channel declares": the      *)
(* bridge has room for every channel of a sensor that is mapped, and what  *)
(* it writes has the width of the last writer's entry of that name.        *)
(***************************************************************************)
FramesFitTheirChannel ==
  last # None =>
    /\ last.outcome # "no_room"
    /\ last.outcome = "written" =>
         \A e \in LastWriter(bridge.doc, bridge.robot, last.name) : last.width = WidthOf(e)

\* Bridge and reader have read the same, and nobody has overridden it.
Comparable(robot) ==
  /\ bridge # None /\ fit[robot] # None
  /\ bridge.robot = robot
  /\ bridge.doc = fit[robot].doc /\ bridge.manifest = fit[robot].manifest
  /\ DOMAIN bridge.override = {} /\ env.channels = {}

\* The radars of the bridge's manifest whose channel the file says.
DeclaredRadars(doc, robot, manifest) ==
  {c \in Elements(Manifests[manifest]) :
     /\ Provided(c) /\ IsRadar(c) /\ c.pdu_name # None
     /\ \/ c.pdu_name \in DOMAIN Declared(doc, robot)
        \/ c.pdu_name = "radar_scan" /\ "radar_points" \in DOMAIN Declared(doc, robot)}

(***************************************************************************)
(* "The Python twin of runtime/pdudef_channels.hpp": with the same files   *)
(* as the bridge and nothing overridden, the radars of a fit are the ones  *)
(* the manifest names and the pdudef declares, each on the channel the     *)
(* bridge publishes it on.                                                 *)
(***************************************************************************)
FitAgreesWithBridge ==
  \A r \in Robots : Comparable(r) =>
    \A c \in DeclaredRadars(bridge.doc, r, bridge.manifest) : \E u \in fit[r].units :
      u.id = c.id /\ u.ch = bridge.name2ch[PublishedAs(c)].ch

(***************************************************************************)
(* radar_fit says of a radar without a channel in the pdudef: "it is       *)
(* exactly the sensor the bridge refuses to publish".  A radar that is     *)
(* left out of the fit has no channel in the bridge either.                *)
(***************************************************************************)
DroppedIsUnpublished ==
  \A r \in Robots : Comparable(r) =>
    \A c \in {d \in Elements(Manifests[bridge.manifest]) : Provided(d) /\ IsRadar(d)} :
      c.pdu_name # None /\ ~(\E u \in fit[r].units : u.name = c.pdu_name)
        => PublishedAs(c) \notin DOMAIN bridge.name2ch
=============================================================================
