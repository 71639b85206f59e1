------------------------- MODULE ChannelWiringProofs -------------------------
(***************************************************************************)
(* Proofs about ChannelWiring for any files, robots, names and ids, any    *)
(* number of runs of add_sensor_channel.py and any order of reads:         *)
(*   - no two names of a robot come to share a channel;                    *)
(*   - every frame the bridge writes has its channel's own width;          *)
(*   - bridge and radar_fit agree on the channel of every radar.           *)
(***************************************************************************)
EXTENDS ChannelWiring, SequenceTheorems, WellFoundedInduction, FiniteSetTheorems, TLAPS

IsList(l) == l \in Seq(Elements(l))

\* A robot as a file has it: two lists whose channels tell their names apart.
Distinct(robot) ==
  /\ IsList(robot.readers) /\ IsList(robot.writers)
  /\ \A d, e \in Elements(robot.readers) \cup Elements(robot.writers) :
       d.size \in Int /\ (d.ch = e.ch => d.name = e.name)

FilesInv ==
  /\ Launched \subseteq DOMAIN files
  /\ \A p \in DOMAIN files : files[p] # None => \A r \in DOMAIN files[p] : Distinct(files[p][r])

\* min of a set of ids that is not empty.
LEMMA LeastIsMember ==
  ASSUME NEW S \in SUBSET Nat, S # {}
  PROVE  Least(S) \in S /\ \A m \in S : Least(S) <= m
<1> DEFINE R == {ss \in Nat \X Nat : ss[1] < ss[2]}
<1>1. IsWellFoundedOn(R, Nat)
  BY NatLessThanWellFounded DEF OpToRel
<1>2. PICK x \in S : \A y \in S : <<y, x>> \notin R
  BY <1>1, WFMin
<1>3. \A y \in S : x <= y
  <2> SUFFICES ASSUME NEW y \in S, ~(x <= y)
               PROVE  FALSE
    OBVIOUS
  <2>1. y \in Nat /\ x \in Nat /\ y < x
    OBVIOUS
  <2>2. <<y, x>> \in R
    BY <2>1
  <2> QED  BY <1>2, <2>2
<1> QED
  BY <1>3 DEF Least

\* Two lists, one after the other.
LEMMA ConcatElements ==
  ASSUME NEW a, NEW b, IsList(a), IsList(b)
  PROVE  IsList(a \o b) /\ Elements(a \o b) = Elements(a) \cup Elements(b)
<1> DEFINE S == Elements(a) \cup Elements(b)
<1>1. a \in Seq(S) /\ b \in Seq(S)
  BY SeqMonotonic DEF IsList
<1> HIDE DEF S
<1>2. /\ DOMAIN a = 1..Len(a) /\ DOMAIN b = 1..Len(b)
      /\ Len(a) \in Nat /\ Len(b) \in Nat
  BY <1>1, LenProperties
<1>3. /\ a \o b \in Seq(S)
      /\ DOMAIN (a \o b) = 1..(Len(a) + Len(b))
      /\ \A i \in 1..(Len(a) + Len(b)) :
           (a \o b)[i] = IF i <= Len(a) THEN a[i] ELSE b[i - Len(a)]
  <2>1. /\ a \o b \in Seq(S) /\ Len(a \o b) = Len(a) + Len(b)
        /\ \A i \in 1..(Len(a) + Len(b)) :
             (a \o b)[i] = IF i <= Len(a) THEN a[i] ELSE b[i - Len(a)]
    BY <1>1, ConcatProperties
  <2> QED  BY <2>1, LenProperties
<1>4. \A i \in DOMAIN a : i \in DOMAIN (a \o b) /\ (a \o b)[i] = a[i]
  BY <1>2, <1>3
<1>5. \A i \in DOMAIN b : Len(a) + i \in DOMAIN (a \o b) /\ (a \o b)[Len(a) + i] = b[i]
  BY <1>2, <1>3
<1>6. \A i \in DOMAIN (a \o b) : (a \o b)[i] \in S
  BY <1>3, LenProperties, ElementOfSeq
<1>7. Elements(a \o b) = S
  <2>1. \A e \in Elements(a) : e \in Elements(a \o b)
    BY <1>4, Zenon DEF Elements
  <2>2. \A e \in Elements(b) : e \in Elements(a \o b)
    BY <1>5 DEF Elements
  <2>3. \A e \in Elements(a \o b) : e \in S
    BY <1>6 DEF Elements
  <2> QED  BY <2>1, <2>2, <2>3 DEF S
<1> QED
  BY <1>3, <1>7 DEF IsList, S

\* One list of one robot: what it had, and the entry that is declared.
LEMMA DeclareAddsOne ==
  ASSUME NEW list, IsList(list), NEW name, NEW ch
  PROVE  /\ IsList(Declare(list, name, ch))
         /\ \A e \in Elements(Declare(list, name, ch)) :
              e \in Elements(list) \/ (e.name = name /\ e.ch = ch /\ e.size = ToolSize)
<1> DEFINE entry == [name |-> name, ch |-> ch, size |-> ToolSize]
           at == {i \in DOMAIN list : list[i].name = name}
           S == Elements(list) \cup {entry}
           new == Declare(list, name, ch)
<1>1. list \in Seq(S) /\ DOMAIN list = 1..Len(list) /\ Len(list) \in Nat
  BY SeqMonotonic, LenProperties DEF IsList
<1>2. at # {} => Least(at) \in 1..Len(list)
  <2>1. at \in SUBSET Nat /\ at \subseteq 1..Len(list)
    BY <1>1
  <2> HIDE DEF at
  <2> QED  BY <2>1, LeastIsMember
<1>3. \/ new = list
      \/ new = Append(list, entry)
      \/ at # {} /\ new = [list EXCEPT ![Least(at)] = entry]
  BY DEF Declare
<1> HIDE DEF new, S, at
<1>4. new \in Seq(S)
  <2>1. CASE new = list
    BY <2>1, <1>1
  <2>2. CASE new = Append(list, entry)
    BY <2>2, <1>1, AppendProperties DEF S
  <2>3. CASE at # {} /\ new = [list EXCEPT ![Least(at)] = entry]
    BY <2>3, <1>1, <1>2, ExceptSeq DEF S
  <2> QED  BY <1>3, <2>1, <2>2, <2>3
<1>5. \A e \in Elements(new) : e \in S
  BY <1>4, LenProperties, ElementOfSeq DEF Elements
<1>6. new \in Seq(Elements(new))
  <2>1. new \in [1..Len(new) -> Elements(new)] /\ Len(new) \in Nat
    BY <1>4, LenProperties DEF Elements
  <2> QED  BY <2>1, SeqDef
<1> QED
  BY <1>5, <1>6 DEF IsList, new, S


\* What main declares on one robot: an id that no entry has, or one that the
\* first entry of that name has.
LEMMA DeclareKeepsDistinct ==
  ASSUME NEW robot, Distinct(robot), NEW name, NEW ch,
         ch \in Used(robot) => ch # None /\ Existing(robot, name) = ch
  PROVE  Distinct([l \in Lists |-> Declare(robot[l], name, ch)])
<1> DEFINE new == [l \in Lists |-> Declare(robot[l], name, ch)]
           old == Elements(robot.readers) \cup Elements(robot.writers)
<1>1. /\ new.readers = Declare(robot.readers, name, ch)
      /\ new.writers = Declare(robot.writers, name, ch)
  BY DEF Lists
<1>2. IsList(new.readers) /\ IsList(new.writers)
  BY <1>1, DeclareAddsOne DEF Distinct
<1>3. \A e \in Elements(new.readers) \cup Elements(new.writers) :
        e \in old \/ (e.name = name /\ e.ch = ch /\ e.size = ToolSize)
  BY <1>1, DeclareAddsOne DEF Distinct
<1>4. ASSUME NEW e \in old, e.ch = ch
      PROVE  e.name = name
  <2>1. Elements(EntriesOf(robot)) = old /\ IsList(EntriesOf(robot))
    BY ConcatElements DEF EntriesOf, Distinct
  <2>2. ch # None /\ Existing(robot, name) = ch
    BY <1>4, <2>1 DEF Used
  <2> DEFINE at == {i \in DOMAIN EntriesOf(robot) : EntriesOf(robot)[i].name = name}
  <2>3. at # {} /\ EntriesOf(robot)[Least(at)].ch = ch
    BY <2>2 DEF Existing
  <2>4. at \in SUBSET Nat
    BY <2>1, LenProperties DEF IsList
  <2>5. Least(at) \in at
    <3> HIDE DEF at
    <3> QED  BY <2>3, <2>4, LeastIsMember
  <2>6. PICK d \in old : d.ch = ch /\ d.name = name
    BY <2>1, <2>3, <2>5 DEF Elements
  <2> QED  BY <1>4, <2>6 DEF Distinct
<1> HIDE DEF new
<1>5. \A d, e \in Elements(new.readers) \cup Elements(new.writers) :
        d.size \in Int /\ (d.ch = e.ch => d.name = e.name)
  BY <1>3, <1>4, WiringAssumption DEF Distinct
<1> QED
  BY <1>2, <1>5 DEF Distinct, new

\* The programs start with files that have it ...
LEMMA FilesInit == WiringInit => FilesInv
<1> SUFFICES ASSUME files \in SomeFiles, NEW p \in DOMAIN files, files[p] # None,
                    NEW r \in DOMAIN files[p]
             PROVE  Distinct(files[p][r])
  BY WiringAssumption DEF WiringInit, FilesInv
<1> DEFINE readers == files[p][r].readers
           writers == files[p][r].writers
<1>1. /\ readers \in Seq({readers[i] : i \in DOMAIN readers})
      /\ writers \in Seq({writers[i] : i \in DOMAIN writers})
      /\ \A d, e \in {readers[i] : i \in DOMAIN readers} \cup
                    {writers[i] : i \in DOMAIN writers} :
           d.size \in Int /\ (d.ch = e.ch => d.name = e.name)
  BY WiringAssumption
<1> QED
  BY <1>1, Zenon DEF Distinct, IsList, Elements

\* ... and the tool, the one that edits them, keeps it.
LEMMA FilesStep ==
  ASSUME FilesInv, [WiringNext]_wiringVars
  PROVE  FilesInv'
<1>1. ASSUME NEW path \in Launched, NEW targets \in SUBSET Robots, NEW name \in Names,
             NEW asked \in Channels \cup {None}, AddChannel(path, targets, name, asked)
      PROVE  FilesInv'
  <2> DEFINE doc == files[path]
             ch  == IF asked # None THEN asked ELSE Least(FreeIds(doc, targets))
  <2>1. /\ doc # None /\ targets \subseteq DOMAIN doc
        /\ files' = [files EXCEPT ![path] = [r \in DOMAIN doc |->
             IF r \in targets THEN [l \in Lists |-> Declare(doc[r][l], name, ch)] ELSE doc[r]]]
    BY <1>1 DEF AddChannel
  <2>2. ASSUME NEW r \in targets, ch \in Used(doc[r])
        PROVE  ch # None /\ Existing(doc[r], name) = ch
    <3>1. CASE asked # None
      BY <3>1, <1>1, <2>2 DEF AddChannel, Clashes
    <3>2. CASE asked = None
      <4>1. FreeIds(doc, targets) \in SUBSET Nat /\ FreeIds(doc, targets) # {}
        BY <3>2, <1>1, WiringAssumption DEF AddChannel, FreeIds
      <4>2. ch \in FreeIds(doc, targets)
        BY <3>2, <4>1, LeastIsMember
      <4> QED  BY <2>2, <4>2 DEF FreeIds
    <3> QED  BY <3>1, <3>2
  <2> HIDE DEF ch
  <2>3. ASSUME NEW p \in DOMAIN files', files'[p] # None, NEW r \in DOMAIN files'[p]
        PROVE  Distinct(files'[p][r])
    <3>1. p \in DOMAIN files
      BY <2>1, <2>3
    <3>2. CASE p # path
      BY <3>1, <3>2, <2>1, <2>3 DEF FilesInv
    <3>3. CASE p = path
      <4>1. /\ r \in DOMAIN doc
            /\ files'[p][r] = IF r \in targets THEN [l \in Lists |-> Declare(doc[r][l], name, ch)]
                              ELSE doc[r]
        BY <3>1, <3>3, <2>1, <2>3
      <4>2. Distinct(doc[r])
        BY <3>1, <3>3, <4>1, <2>1 DEF FilesInv
      <4> QED  BY <4>1, <4>2, <2>2, DeclareKeepsDistinct
    <3> QED  BY <3>2, <3>3
  <2>4. DOMAIN files' = DOMAIN files
    BY <2>1
  <2> QED  BY <2>3, <2>4 DEF FilesInv
<1>2. ASSUME UNCHANGED files
      PROVE  FilesInv'
  BY <1>2 DEF FilesInv
<1>3. ASSUME NEW r \in Robots, NEW p \in Launched \cup {None}, NEW m \in DOMAIN Manifests,
             NEW o \in Overrides, StartBridge(r, p, m, o)
      PROVE  FilesInv'
  BY <1>2, <1>3 DEF StartBridge
<1>4. CASE StopBridge
  BY <1>2, <1>4 DEF StopBridge
<1>5. ASSUME NEW i \in 1..3, NEW n \in Lengths, Publish(i, n)
      PROVE  FilesInv'
  BY <1>2, <1>5 DEF Publish
<1>6. ASSUME NEW r \in Robots, RadarFit(r)
      PROVE  FilesInv'
  BY <1>2, <1>6 DEF RadarFit
<1>7. CASE UNCHANGED wiringVars
  BY <1>2, <1>7 DEF wiringVars
<1> QED
  BY <1>1, <1>3, <1>4, <1>5, <1>6, <1>7 DEF WiringNext

\* add_sensor_channel.py: whatever robots, names and ids it is called with, and
\* however often, no two names of a robot come to share a channel.
THEOREM ToolKeepsChannelsDistinct == WiringSpec => []ChannelsStayDistinct
<1>1. FilesInv => ChannelsStayDistinct
  BY ConcatElements DEF FilesInv, Distinct, ChannelsStayDistinct, EntriesOf
<1> QED
  BY <1>1, FilesInit, FilesStep, PTL DEF WiringSpec
-----------------------------------------------------------------------------
(***************************************************************************)
(* What the bridge has read, and what it makes of it                       *)
(***************************************************************************)
\* A finite set of widths or indices has a greatest element.
LEMMA GreatestIsMember ==
  ASSUME NEW S \in SUBSET Int, IsFiniteSet(S), S # {}
  PROVE  Greatest(S) \in S /\ \A m \in S : m <= Greatest(S)
<1> DEFINE Top(T) == \E n \in T : \A m \in T : m <= n
           Bad == {k \in Nat : \E T \in SUBSET S : T # {} /\ Cardinality(T) = k /\ ~Top(T)}
<1>1. Bad = {}
  <2> SUFFICES ASSUME Bad # {}  PROVE FALSE
    OBVIOUS
  <2> DEFINE k == Least(Bad)
  <2>1. k \in Bad /\ \A j \in Bad : k <= j
    <3> HIDE DEF Bad
    <3>1. Bad \in SUBSET Nat
      BY DEF Bad
    <3> QED  BY <3>1, LeastIsMember
  <2>2. PICK T \in SUBSET S : T # {} /\ Cardinality(T) = k /\ ~Top(T)
    BY <2>1
  <2>3. PICK x \in T : TRUE
    BY <2>2
  <2>4. IsFiniteSet(T)
    BY FS_Subset
  <2>5. Cardinality(T \ {x}) = k - 1 /\ Cardinality(T \ {x}) \in Nat
    BY <2>2, <2>4, FS_RemoveElement, FS_CardinalityType
  <2>6. PICK n \in T : \A m \in T \ {x} : m <= n
    <3>1. CASE T \ {x} = {}
      BY <3>1
    <3>2. CASE T \ {x} # {} /\ Top(T \ {x})
      BY <3>2
    <3>3. CASE T \ {x} # {} /\ ~Top(T \ {x})
      <4>1. k - 1 \in Bad
        BY <2>5, <3>3
      <4> QED  BY <2>1, <4>1
    <3> QED  BY <3>1, <3>2, <3>3
  <2>7. x \in Int /\ n \in Int
    OBVIOUS
  <2>8. (\A m \in T : m <= n) \/ (\A m \in T : m <= x)
    BY <2>6, <2>7
  <2> QED  BY <2>2, <2>8
<1>2. Top(S)
  <2>1. Cardinality(S) \in Nat
    BY FS_CardinalityType
  <2> QED  BY <1>1, <2>1
<1> QED
  BY <1>2 DEF Greatest

\* A finite family has finitely many members.
LEMMA FiniteElements ==
  ASSUME NEW f, IsFiniteSet(DOMAIN f)
  PROVE  IsFiniteSet({f[x] : x \in DOMAIN f})
<1> DEFINE T == {f[x] : x \in DOMAIN f}
           g == [x \in DOMAIN f |-> f[x]]
<1>1. g \in Surjection(DOMAIN f, T)
  BY DEF Surjection
<1> QED
  BY <1>1, FS_Surjection

\* LoadPduDefChannels has the entry of a name that no later one replaces.
LEMMA DeclaredEntry ==
  ASSUME NEW doc, NEW r, doc # None, r \in DOMAIN doc, Distinct(doc[r]), NEW n
  PROVE  /\ n \in DOMAIN Declared(doc, r) =>
              Declared(doc, r)[n] \in Elements(doc[r].readers) \cup Elements(doc[r].writers)
         /\ \A e \in LastWriter(doc, r, n) :
              n \in DOMAIN Declared(doc, r) /\ Declared(doc, r)[n] = e
<1> DEFINE readers == doc[r].readers
           writers == doc[r].writers
           all == EntriesOf(doc[r])
           at == {i \in DOMAIN all : all[i].name = n}
<1>1. /\ IsList(all) /\ Elements(all) = Elements(readers) \cup Elements(writers)
      /\ all = readers \o writers /\ IsList(readers) /\ IsList(writers)
  BY ConcatElements DEF Distinct, EntriesOf
<1>7. all = EntriesOf(doc[r]) /\ readers = doc[r].readers /\ writers = doc[r].writers
  OBVIOUS
<1> HIDE DEF all, readers, writers
<1>2. /\ DOMAIN all = 1..Len(all) /\ DOMAIN writers = 1..Len(writers)
      /\ Len(readers) \in Nat /\ Len(writers) \in Nat /\ Len(all) = Len(readers) + Len(writers)
      /\ \A i \in 1..Len(all) :
           all[i] = IF i <= Len(readers) THEN readers[i] ELSE writers[i - Len(readers)]
  <2> DEFINE S == Elements(readers) \cup Elements(writers)
  <2>1. readers \in Seq(S) /\ writers \in Seq(S)
    BY <1>1, SeqMonotonic DEF IsList
  <2> HIDE DEF S
  <2>2. /\ Len(all) = Len(readers) + Len(writers)
        /\ \A i \in 1..(Len(readers) + Len(writers)) :
             all[i] = IF i <= Len(readers) THEN readers[i] ELSE writers[i - Len(readers)]
    BY <1>1, <2>1, ConcatProperties
  <2>3. DOMAIN all = 1..Len(all) /\ DOMAIN writers = 1..Len(writers)
    BY <1>1, LenProperties DEF IsList
  <2>4. Len(readers) \in Nat /\ Len(writers) \in Nat
    BY <2>1, LenProperties
  <2> QED  BY <2>2, <2>3, <2>4
<1>3. at # {} => Greatest(at) \in at /\ \A i \in at : i <= Greatest(at)
  <2>1. at \in SUBSET Int /\ at \in SUBSET (1..Len(all)) /\ Len(all) \in Int
    BY <1>2
  <2>2. IsFiniteSet(at)
    <3> HIDE DEF at
    <3>1. IsFiniteSet(1..Len(all))
      BY <2>1, FS_Interval
    <3> QED  BY <2>1, <3>1, FS_Subset
  <2> HIDE DEF at
  <2> QED  BY <2>1, <2>2, GreatestIsMember
<1>4. /\ n \in DOMAIN Declared(doc, r) <=> at # {}
      /\ n \in DOMAIN Declared(doc, r) => Declared(doc, r)[n] = all[Greatest(at)]
  <2>1. DOMAIN Declared(doc, r) = {e.name : e \in Elements(all)}
    BY <1>7 DEF Declared
  <2>2. n \in {e.name : e \in Elements(all)} <=> at # {}
    BY DEF Elements
  <2> QED  BY <1>7, <2>1, <2>2 DEF Declared
<1>5. ASSUME n \in DOMAIN Declared(doc, r)
      PROVE  Declared(doc, r)[n] \in Elements(readers) \cup Elements(writers)
  BY <1>1, <1>3, <1>4, <1>5 DEF Elements
<1>6. ASSUME NEW e \in LastWriter(doc, r, n)
      PROVE  n \in DOMAIN Declared(doc, r) /\ Declared(doc, r)[n] = e
  <2>1. PICK j \in DOMAIN writers :
          /\ writers[j].name = n /\ writers[j] = e
          /\ \A k \in DOMAIN writers : writers[k].name = n => k <= j
    BY <1>6, <1>7 DEF LastWriter
  <2>2. Len(readers) + j \in at /\ all[Len(readers) + j] = e
    BY <1>2, <2>1
  <2>3. \A i \in at : i <= Len(readers) + j
    BY <1>2, <2>1
  <2>4. Greatest(at) = Len(readers) + j
    <3>1. at \subseteq Int
      BY <1>2
    <3>3. Len(readers) + j \in Int
      BY <1>2, <2>1
    <3> HIDE DEF at
    <3>2. /\ Greatest(at) \in at /\ Len(readers) + j <= Greatest(at)
          /\ Greatest(at) <= Len(readers) + j
      BY <1>3, <2>2, <2>3
    <3>4. Greatest(at) \in Int
      BY <3>1, <3>2
    <3> QED  BY <3>2, <3>3, <3>4
  <2> QED  BY <1>4, <2>2, <2>4
<1> QED
  BY <1>5, <1>6, <1>7
\* The layers under A2_PDU_MAP.
Known(doc, robot) == Over(WithAlias(Declared(doc, robot)), BuiltIn)

\* Every channel of the wiring has a width; one that no lower layer overrides
\* has that of the declaration.
LEMMA WiringWidths ==
  ASSUME NEW doc, NEW r, NEW override, NEW n \in DOMAIN Wiring(doc, r, override),
         doc # None => \A q \in DOMAIN doc : Distinct(doc[q])
  PROVE  /\ Wiring(doc, r, override)[n].size \in Int
         /\ \A e \in LastWriter(doc, r, n) : WidthOf(Wiring(doc, r, override)[n]) = WidthOf(e)
<1> DEFINE declared == Declared(doc, r)
           known == Known(doc, r)
           name2ch == Wiring(doc, r, override)
<1>1. \A m \in DOMAIN declared : declared[m].size \in Int
  <2>1. CASE doc = None \/ r \notin DOMAIN doc
    BY <2>1 DEF Declared, NoEntries
  <2>2. CASE doc # None /\ r \in DOMAIN doc
    BY <2>2, DeclaredEntry DEF Distinct
  <2> QED  BY <2>1, <2>2
<1>2. \A e \in LastWriter(doc, r, n) : n \in DOMAIN declared /\ declared[n] = e
  <2>1. CASE doc = None \/ r \notin DOMAIN doc
    BY <2>1 DEF LastWriter
  <2>2. CASE doc # None /\ r \in DOMAIN doc
    BY <2>2, DeclaredEntry
  <2> QED  BY <2>1, <2>2
<1> HIDE DEF declared
<1>3. \A m \in DOMAIN WithAlias(declared) : WithAlias(declared)[m].size \in Int
  BY <1>1 DEF WithAlias, Over, Only
<1>4. n \in DOMAIN declared => n \in DOMAIN WithAlias(declared) /\ WithAlias(declared)[n] = declared[n]
  BY DEF WithAlias, Over, Only
<1>5. known = Over(WithAlias(declared), BuiltIn)
  BY DEF Known, declared
<1>6. \A m \in DOMAIN known : known[m].size \in Int
  BY <1>3, <1>5, WiringAssumption DEF Over, BuiltIn
<1>7. n \in DOMAIN declared => n \in DOMAIN known /\ known[n] = declared[n]
  BY <1>4, <1>5 DEF Over
<1>8. name2ch = Over(Overridden(known, override), known)
  BY DEF Wiring, Known
<1> HIDE DEF known, name2ch
<1>9. CASE n \in DOMAIN override
  <2>1. name2ch[n] = Overridden(known, override)[n] /\ n \in DOMAIN Overridden(known, override)
    BY <1>8, <1>9 DEF Over, Overridden
  <2>2. name2ch[n].size = IF n \in DOMAIN known /\ known[n].size > 0 THEN known[n].size ELSE ChanSize
    BY <1>9, <2>1 DEF Overridden
  <2>3. name2ch[n].size \in Int
    BY <1>6, <2>2, WiringAssumption
  <2>4. n \in DOMAIN known => WidthOf(name2ch[n]) = WidthOf(known[n])
    BY <1>6, <2>2, WiringAssumption DEF WidthOf
  <2> QED  BY <1>2, <1>7, <2>3, <2>4 DEF name2ch
<1>10. CASE n \notin DOMAIN override
  <2>1. n \in DOMAIN known /\ name2ch[n] = known[n]
    BY <1>8, <1>10 DEF Over, Overridden, name2ch
  <2> QED  BY <1>2, <1>6, <1>7, <2>1 DEF name2ch
<1> QED
  BY <1>9, <1>10

\* outbuf has room for every sensor that is mapped.
LEMMA RoomForAll ==
  ASSUME NEW sensors, NEW name2ch, IsFiniteSet(DOMAIN sensors),
         \A n \in DOMAIN name2ch : name2ch[n].size \in Int,
         NEW n \in Elements(sensors) \cap DOMAIN name2ch
  PROVE  ~(WidthOf(name2ch[n]) > Room(sensors, name2ch))
<1> DEFINE mapped == Elements(sensors) \cap DOMAIN name2ch
           width == [m \in mapped |-> name2ch[m].size]
           S == {ChanSize} \cup {name2ch[m].size : m \in mapped}
<1>1. IsFiniteSet(mapped)
  <2>1. IsFiniteSet(Elements(sensors))
    BY FiniteElements DEF Elements
  <2> QED  BY <2>1, FS_Subset
<1>2. IsFiniteSet({width[m] : m \in DOMAIN width})
  <2>1. DOMAIN width = mapped
    OBVIOUS
  <2> HIDE DEF width
  <2> QED  BY <1>1, <2>1, FiniteElements
<1>3. {width[m] : m \in DOMAIN width} = {name2ch[m].size : m \in mapped}
  OBVIOUS
<1>4. IsFiniteSet(S)
  <2> HIDE DEF mapped, width
  <2>1. IsFiniteSet({name2ch[m].size : m \in mapped} \cup {ChanSize})
    BY <1>2, <1>3, FS_AddElement
  <2>2. S = {name2ch[m].size : m \in mapped} \cup {ChanSize}
    OBVIOUS
  <2> QED  BY <2>1, <2>2
<1>5. S \in SUBSET Int /\ S # {} /\ ChanSize \in S /\ name2ch[n].size \in S
  BY WiringAssumption
<1>6. Room(sensors, name2ch) = Greatest(S)
  BY DEF Room
<1> HIDE DEF S
<1>7. Greatest(S) \in Int /\ ChanSize <= Greatest(S) /\ name2ch[n].size <= Greatest(S)
  BY <1>4, <1>5, GreatestIsMember
<1> QED
  BY <1>6, <1>7, WiringAssumption DEF WidthOf

-----------------------------------------------------------------------------
\* A bridge keeps what it has read when it started.
Started(b) ==
  /\ b.doc # None => \A r \in DOMAIN b.doc : Distinct(b.doc[r])
  /\ b.name2ch = Wiring(b.doc, b.robot, b.override)
  /\ IsFiniteSet(DOMAIN b.sensors)
  /\ b.room = Room(b.sensors, b.name2ch)

BridgeInv ==
  /\ FilesInv
  /\ bridge # None => Started(bridge)
  /\ last # None => bridge # None
  /\ FramesFitTheirChannel

\* Before the bridge runs, nothing is published.
LEMMA BridgeInit == WiringInit => BridgeInv
BY FilesInit DEF WiringInit, BridgeInv, FramesFitTheirChannel

\* A frame a running bridge publishes fits the channel the asset created for it.
LEMMA PublishFits ==
  ASSUME BridgeInv, NEW i, NEW len \in Lengths, Publish(i, len)
  PROVE  FramesFitTheirChannel'
<1> DEFINE name == bridge.sensors[i]
           spec == bridge.name2ch[name]
<1>1. /\ bridge # None /\ Started(bridge) /\ bridge' = bridge /\ i \in DOMAIN bridge.sensors
      /\ last'.name = name
      /\ last'.outcome \in {"written", "no_room"} => name \in DOMAIN bridge.name2ch
      /\ last'.outcome = "no_room" => WidthOf(spec) > bridge.room
      /\ last'.outcome = "written" => last'.width = WidthOf(spec)
  <2> DEFINE outcome == CASE len <= 0 -> "unconverted"
                          [] len > 0 /\ name \notin DOMAIN bridge.name2ch -> "unmapped"
                          [] OTHER -> IF len > WidthOf(spec) THEN "too_long"
                                      ELSE IF WidthOf(spec) > bridge.room THEN "no_room"
                                      ELSE "written"
  <2>1. /\ bridge # None /\ bridge' = bridge /\ i \in DOMAIN bridge.sensors
        /\ last' = [outcome |-> outcome, name |-> name,
                    ch    |-> IF outcome = "written" THEN spec.ch ELSE None,
                    width |-> IF outcome = "written" THEN WidthOf(spec) ELSE 0]
    BY DEF Publish
  <2>2. /\ outcome \in {"written", "no_room"} => name \in DOMAIN bridge.name2ch
        /\ outcome = "no_room" => WidthOf(spec) > bridge.room
    <3>1. len \in Int
      BY WiringAssumption
    <3>2. CASE len <= 0
      BY <3>1, <3>2
    <3>3. CASE len > 0 /\ name \notin DOMAIN bridge.name2ch
      BY <3>1, <3>3
    <3>4. CASE len > 0 /\ name \in DOMAIN bridge.name2ch
      <4>1. outcome = IF len > WidthOf(spec) THEN "too_long"
                      ELSE IF WidthOf(spec) > bridge.room THEN "no_room" ELSE "written"
        BY <3>1, <3>4
      <4> HIDE DEF outcome
      <4> QED  BY <3>4, <4>1
    <3> QED  BY <3>1, <3>2, <3>3, <3>4
  <2> HIDE DEF outcome
  <2> QED  BY <2>1, <2>2 DEF BridgeInv
<1>2. ASSUME name \in DOMAIN bridge.name2ch
      PROVE  ~(WidthOf(spec) > bridge.room)
  <2>1. \A n \in DOMAIN bridge.name2ch : bridge.name2ch[n].size \in Int
    BY <1>1, WiringWidths DEF Started
  <2>2. name \in Elements(bridge.sensors) \cap DOMAIN bridge.name2ch
    BY <1>1, <1>2 DEF Elements
  <2> QED  BY <1>1, <2>1, <2>2, RoomForAll DEF Started
<1>3. ASSUME name \in DOMAIN bridge.name2ch
      PROVE  \A e \in LastWriter(bridge.doc, bridge.robot, name) : WidthOf(spec) = WidthOf(e)
  BY <1>1, <1>3, WiringWidths DEF Started
<1> QED
  BY <1>1, <1>2, <1>3 DEF FramesFitTheirChannel

\* A bridge that starts holds the channels of the file it read.
LEMMA StartReads ==
  ASSUME FilesInv, NEW r, NEW p \in Launched \cup {None}, NEW m \in DOMAIN Manifests, NEW o,
         StartBridge(r, p, m, o)
  PROVE  bridge' # None => Started(bridge')
<1> DEFINE loaded == Manifests[m]
           doc == IF p = None THEN None ELSE files[p]
           sensors == [i \in {j \in DOMAIN loaded : Provided(loaded[j])} |-> PublishedAs(loaded[i])]
           name2ch == Wiring(doc, r, o)
<1>1. bridge' # None =>
        bridge' = [robot |-> r, doc |-> doc, manifest |-> m, override |-> o, sensors |-> sensors,
                   name2ch |-> name2ch, room |-> Room(sensors, name2ch)]
  BY DEF StartBridge
<1>2. IsFiniteSet(DOMAIN sensors)
  BY WiringAssumption, FS_Subset
<1>3. doc # None => \A q \in DOMAIN doc : Distinct(doc[q])
  BY DEF FilesInv
<1> HIDE DEF doc, sensors, name2ch
<1> QED
  BY <1>1, <1>2, <1>3 DEF Started, name2ch

\* Every step of the wiring keeps the bridge's invariant.
LEMMA BridgeStep ==
  ASSUME BridgeInv, [WiringNext]_wiringVars
  PROVE  BridgeInv'
<1>1. FilesInv'
  BY FilesStep DEF BridgeInv
<1>2. ASSUME UNCHANGED <<bridge, last>>
      PROVE  BridgeInv'
  BY <1>1, <1>2 DEF BridgeInv, FramesFitTheirChannel
<1>3. ASSUME NEW r \in Robots, NEW p \in Launched \cup {None}, NEW m \in DOMAIN Manifests,
             NEW o \in Overrides, StartBridge(r, p, m, o)
      PROVE  BridgeInv'
  <2>1. last' = None
    BY <1>3 DEF StartBridge
  <2>2. bridge' # None => Started(bridge')
    BY <1>3, StartReads DEF BridgeInv
  <2> QED  BY <1>1, <2>1, <2>2 DEF BridgeInv, FramesFitTheirChannel, Started
<1>4. CASE StopBridge
  BY <1>1, <1>4 DEF StopBridge, BridgeInv, FramesFitTheirChannel
<1>5. ASSUME NEW i \in 1..3, NEW n \in Lengths, Publish(i, n)
      PROVE  BridgeInv'
  <2>1. bridge # None /\ bridge' = bridge
    BY <1>5 DEF Publish
  <2> QED  BY <1>1, <1>5, <2>1, PublishFits DEF BridgeInv, Started
<1>6. ASSUME NEW t, NEW p, NEW n, NEW c, AddChannel(p, t, n, c)
      PROVE  BridgeInv'
  BY <1>2, <1>6 DEF AddChannel
<1>7. ASSUME NEW r \in Robots, RadarFit(r)
      PROVE  BridgeInv'
  BY <1>2, <1>7 DEF RadarFit
<1>8. CASE UNCHANGED wiringVars
  BY <1>2, <1>8 DEF wiringVars
<1> QED
  BY <1>3, <1>4, <1>5, <1>6, <1>7, <1>8 DEF WiringNext

\* "Each write sends exactly the bytes its own channel declares": outbuf is wide
\* enough for every sensor of every manifest, and a frame is as wide as the last
\* writer's entry, whatever the overrides and the aliases.
THEOREM FramesFit == WiringSpec => []FramesFitTheirChannel
<1>1. BridgeInv => FramesFitTheirChannel
  BY DEF BridgeInv
<1> QED
  BY <1>1, BridgeInit, BridgeStep, PTL DEF WiringSpec
-----------------------------------------------------------------------------
(***************************************************************************)
(* What radar_fit keeps                                                    *)
(***************************************************************************)
\* The units of a fit are those of the files it was read from.
FitInv ==
  /\ DOMAIN fit = Robots
  /\ \A r \in Robots : fit[r] # None /\ env.channels = {} =>
       LET found == Resolved(fit[r].doc, r, Manifests[fit[r].manifest])
       IN found # {} => fit[r].units = found

\* No answer of the fit check is out when the robots are launched.
LEMMA FitInit == WiringInit => FitInv
BY DEF WiringInit, FitInv

\* Every step of the wiring keeps the fit's answers.
LEMMA FitStep ==
  ASSUME FitInv, [WiringNext]_wiringVars
  PROVE  FitInv'
<1>1. ASSUME UNCHANGED <<fit, env>>
      PROVE  FitInv'
  BY <1>1 DEF FitInv
<1>2. ASSUME NEW robot \in Robots, RadarFit(robot)
      PROVE  FitInv'
  <2> DEFINE doc == files[PdudefPath]
             manifest == ManifestPath(robot)
             found == Resolved(doc, robot, Manifests[manifest])
             given == {[id |-> "given", name |-> "radar_points", ch |-> c] : c \in env.channels}
             chosen == CASE given # {} -> given
                         [] given = {} /\ found # {} -> found
                         [] OTHER -> {DefaultUnit}
             new == [units |-> chosen, doc |-> doc, manifest |-> manifest]
  <2>1. fit' = [fit EXCEPT ![robot] = new] /\ env' = env
    BY <1>2 DEF RadarFit
  <2>2. env.channels = {} /\ found # {} => chosen = found
    OBVIOUS
  <2> HIDE DEF doc, manifest, found, chosen
  <2>3. /\ new.doc = doc /\ new.manifest = manifest /\ new.units = chosen
        /\ found = Resolved(doc, robot, Manifests[manifest])
    BY DEF found
  <2> HIDE DEF new
  <2> QED  BY <2>1, <2>2, <2>3 DEF FitInv
<1>3. ASSUME NEW r \in Robots, NEW p \in Launched \cup {None}, NEW m \in DOMAIN Manifests,
             NEW o \in Overrides, StartBridge(r, p, m, o)
      PROVE  FitInv'
  BY <1>1, <1>3 DEF StartBridge
<1>4. CASE StopBridge
  BY <1>1, <1>4 DEF StopBridge
<1>5. ASSUME NEW i, NEW n, Publish(i, n)
      PROVE  FitInv'
  BY <1>1, <1>5 DEF Publish
<1>6. ASSUME NEW t, NEW p, NEW n, NEW c, AddChannel(p, t, n, c)
      PROVE  FitInv'
  BY <1>1, <1>6 DEF AddChannel
<1>7. CASE UNCHANGED wiringVars
  BY <1>1, <1>7 DEF wiringVars
<1> QED
  BY <1>2, <1>3, <1>4, <1>5, <1>6, <1>7 DEF WiringNext

\* The unit of a radar is on the channel the bridge publishes the radar on.
AgreesOn(doc, r, override, manifest, c) ==
  \E u \in Resolved(doc, r, Manifests[manifest]) :
    u.id = c.id /\ u.ch = Wiring(doc, r, override)[PublishedAs(c)].ch

\* What the bridge does with a radar, from the same files.
LEMMA SameResolution ==
  ASSUME NEW doc, NEW r, NEW override, NEW manifest, NEW c,
         c \in DeclaredRadars(doc, r, manifest), DOMAIN override = {}
  PROVE  AgreesOn(doc, r, override, manifest, c)
<1> DEFINE declared == Declared(doc, r)
           aliased == WithAlias(declared)
           name2ch == Wiring(doc, r, override)
           n == c.pdu_name
           u == [id |-> c.id, name |-> n, ch |-> aliased[n].ch]
<1>1. /\ c \in Elements(Manifests[manifest]) /\ IsRadar(c) /\ n # None
      /\ \/ n \in DOMAIN declared
         \/ n = "radar_scan" /\ "radar_points" \in DOMAIN declared
  BY DEF DeclaredRadars
<1>2. n \in DOMAIN aliased
  <2> HIDE DEF declared
  <2> QED  BY <1>1 DEF WithAlias, Over, Only
<1>3. PublishedAs(c) = n /\ Unit(c) = [id |-> c.id, name |-> n]
  BY <1>1 DEF PublishedAs, Unit
<1>4. u \in Resolved(doc, r, Manifests[manifest])
  <2> DEFINE radars == {Unit(d) : d \in {e \in Elements(Manifests[manifest]) : IsRadar(e)}}
             v == [id |-> c.id, name |-> n]
  <2>1. v \in radars /\ v.id = c.id /\ v.name = n
    BY <1>1, <1>3
  <2>2. Resolved(doc, r, Manifests[manifest]) =
          {[id |-> w.id, name |-> w.name, ch |-> aliased[w.name].ch] :
             w \in {x \in radars : x.name \in DOMAIN aliased}}
    BY DEF Resolved
  <2> HIDE DEF aliased, radars, v
  <2> QED  BY <1>2, <2>1, <2>2
<1>5. name2ch[n] = aliased[n]
  <2>1. name2ch = Over(Overridden(Over(aliased, BuiltIn), override), Over(aliased, BuiltIn))
    BY DEF Wiring, declared
  <2> HIDE DEF aliased, name2ch
  <2> QED  BY <1>2, <2>1 DEF Over, Overridden
<1> QED
  BY <1>3, <1>4, <1>5 DEF AgreesOn

\* "The Python twin of runtime/pdudef_channels.hpp": for any files and manifests
\* and however they are edited meanwhile, bridge and reader that have read the
\* same files agree on the channel of every radar.
THEOREM FitMatchesBridge == WiringSpec => []FitAgreesWithBridge
<1>1. BridgeInv /\ FitInv => FitAgreesWithBridge
  <2> SUFFICES ASSUME BridgeInv, FitInv, NEW r \in Robots, Comparable(r),
                      NEW c \in DeclaredRadars(bridge.doc, r, bridge.manifest)
               PROVE  \E u \in fit[r].units :
                        u.id = c.id /\ u.ch = bridge.name2ch[PublishedAs(c)].ch
    BY DEF FitAgreesWithBridge
  <2>1. /\ bridge # None /\ fit[r] # None /\ bridge.robot = r /\ bridge.doc = fit[r].doc
        /\ bridge.manifest = fit[r].manifest
        /\ DOMAIN bridge.override = {} /\ env.channels = {}
    BY DEF Comparable
  <2>2. bridge.name2ch = Wiring(bridge.doc, r, bridge.override)
    BY <2>1 DEF BridgeInv, Started
  <2>3. PICK u \in Resolved(bridge.doc, r, Manifests[bridge.manifest]) :
          u.id = c.id /\ u.ch = bridge.name2ch[PublishedAs(c)].ch
    <3>1. c \in DeclaredRadars(bridge.doc, r, bridge.manifest) /\ DOMAIN bridge.override = {}
      BY <2>1
    <3>2. AgreesOn(bridge.doc, r, bridge.override, bridge.manifest, c)
      BY <3>1, SameResolution
    <3> QED  BY <2>2, <3>2, Zenon DEF AgreesOn
  <2>4. fit[r].units = Resolved(bridge.doc, r, Manifests[bridge.manifest])
    BY <2>1, <2>3 DEF FitInv
  <2> QED  BY <2>3, <2>4
<1> QED
  BY <1>1, BridgeInit, BridgeStep, FitInit, FitStep, PTL DEF WiringSpec
=============================================================================
