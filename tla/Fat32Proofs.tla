---------------------------- MODULE Fat32Proofs ----------------------------
(***************************************************************************)
(* Theorems about the FAT32 driver, for every number of clusters, cluster  *)
(* size, set of names and combination of faults.                           *)
(***************************************************************************)
EXTENDS Fat32Props, TLAPS

-----------------------------------------------------------------------------
(* Type correctness.  TypeOK is not inductive: first' of FoundBy needs that *)
(* entries point to clusters, fpos' of WriteData that what is written and   *)
(* what is left never exceed the bound, hops' that links are left to follow *)
(* whenever a file's chain is extended.                                     *)

EntriesTyped == \A c \in Cluster, s \in Slots :
                   disk[c][s].kind = "entry" => disk[c][s].first \in Cluster
WriteBounded == fpos + len <= MaxLen /\ (pc \in {"idle", "find"} => fpos = 0)
HopsLeft     == pc = "filelink" \/ (pc \in {"alloc", "zero"} /\ ret = "filelink") => hops > 0

\* What is on the device, and what is in memory.
DeviceTyped ==
    /\ fat \in [Cluster -> Cluster \cup {FREE, EOC}]
    /\ disk \in [Cluster -> [Slots -> Unit]]
    /\ EntriesTyped

LocalsTyped ==
    /\ pc \in PCs /\ op \in Ops /\ nm \in Names \cup {NoName}
    /\ dir \in Cluster /\ up \in Cluster /\ cur \in Cluster
    /\ new \in Cluster /\ first \in Cluster
    /\ ent \in Location /\ ret \in Rets
    /\ hops \in Nat /\ fpos \in 0 .. MaxLen /\ size \in 0 .. MaxLen
    /\ len \in 0 .. MaxLen
    /\ out \in {"none", "ok", "failed"}
    /\ WriteBounded /\ HopsLeft

TypeInv == DeviceTyped /\ LocalsTyped

LEMMA TypeInvStronger == TypeInv => TypeOK
BY DEF TypeInv, TypeOK, DeviceTyped, LocalsTyped

LEMMA LayoutFacts ==
    /\ Root \in Cluster /\ TestCluster \in Cluster
    /\ FREE \notin Cluster /\ EOC \notin Cluster /\ FREE # EOC
    /\ 0 \in Slots /\ NoLoc \in Location
BY LayoutAssumption DEF Cluster, Slots, Root, TestCluster, FREE, NoLoc, Location

LEMMA UnitTypes ==
    /\ Zero \in Unit /\ Deleted \in Unit /\ Dot \in Unit
    /\ \A n \in Names \cup {NoName} : Data(n) \in Unit
    /\ \A n \in Names \cup {NoName}, c \in Cluster, d \in BOOLEAN : Entry(n, c, d) \in Unit
    /\ ZeroSector \in [Slots -> Unit] /\ DotSector \in [Slots -> Unit]
<1>1. Zero \in Unit /\ Deleted \in Unit /\ Dot \in Unit
  BY DataAssumption DEF Unit, Zero, Deleted, Dot, Mark
<1>2. \A n \in Names \cup {NoName} : Data(n) \in Unit
  BY DataAssumption DEF Unit, Data, Mark
<1>3. \A n \in Names \cup {NoName}, c \in Cluster, d \in BOOLEAN : Entry(n, c, d) \in Unit
  BY DataAssumption DEF Unit, Entry
<1>4. QED  BY <1>1, <1>2, <1>3 DEF ZeroSector, DotSector

LEMMA Resizing ==
    ASSUME NEW x \in Unit, NEW z \in 0 .. MaxLen
    PROVE  /\ Resized(x, z) \in Unit
           /\ Resized(x, z).kind = x.kind /\ Resized(x, z).name = x.name
           /\ Resized(x, z).first = x.first /\ Resized(x, z).isDir = x.isDir
           /\ Resized(x, z).size = z
BY Zenon DEF Resized, Unit

LEMMA TypeInit == Init => TypeInv
<1> SUFFICES ASSUME Init PROVE TypeInv
  OBVIOUS
<1>1. disk \in [Cluster -> [Slots -> Unit]] /\ EntriesTyped
  <2> DEFINE e == Entry(TestName, TestCluster, FALSE)
             test == Resized(e, 1)
             root == [ZeroSector EXCEPT ![0] = test]
             data == [ZeroSector EXCEPT ![0] = Data(TestName)]
  <2>1. e \in Unit /\ 1 \in 0 .. MaxLen /\ Data(TestName) \in Unit
    <3>1. FALSE \in BOOLEAN /\ TestName \in Names \cup {NoName}
      BY DataAssumption
    <3>2. e \in Unit /\ Data(TestName) \in Unit
      BY <3>1, UnitTypes, LayoutFacts, Zenon
    <3>3. 1 \in 0 .. MaxLen
      BY DataAssumption
    <3> QED  BY <3>2, <3>3
  <2>2. test \in Unit /\ test.first = TestCluster
    BY <2>1, Resizing DEF Entry
  <2>3. disk = [c \in Cluster |-> IF c = Root THEN root
                               ELSE IF c = TestCluster THEN data ELSE ZeroSector]
    BY DEF Init
  <2>4. \A s \in Slots : ZeroSector[s].kind # "entry" /\ Data(TestName).kind # "entry"
    BY DEF ZeroSector, Zero, Data, Mark
  <2>5. root \in [Slots -> Unit] /\ data \in [Slots -> Unit]
    BY <2>1, <2>2, UnitTypes
  <2>6. \A s \in Slots : root[s].kind = "entry" => root[s].first = TestCluster
    BY <2>2, <2>4, UnitTypes, LayoutFacts
  <2>7. \A s \in Slots : data[s].kind # "entry"
    BY <2>4, UnitTypes, LayoutFacts
  <2> HIDE DEF root, data, test, e
  <2>8. \A c \in Cluster : disk[c] = root \/ disk[c] = data \/ disk[c] = ZeroSector
    BY <2>3, LayoutFacts
  <2>9. disk \in [Cluster -> [Slots -> Unit]]
    BY <2>3, <2>5, UnitTypes
  <2> QED  BY <2>4, <2>6, <2>7, <2>8, <2>9, LayoutFacts DEF EntriesTyped
<1>2. fat \in [Cluster -> Cluster \cup {FREE, EOC}]
  BY DEF Init
<1>3. {dir, up, cur, new, first} \subseteq Cluster /\ ent \in Location
  BY LayoutFacts DEF Init
<1>4. /\ pc \in PCs /\ op \in Ops /\ ret \in Rets /\ hops \in Nat
      /\ nm \in Names \cup {NoName} /\ out \in {"none", "ok", "failed"}
      /\ {fpos, size, len} \subseteq 0 .. MaxLen
      /\ WriteBounded /\ HopsLeft
  BY DataAssumption DEF Init, WriteBounded, HopsLeft, PCs, Rets, Ops
<1> QED  BY <1>1, <1>2, <1>3, <1>4 DEF TypeInv, DeviceTyped, LocalsTyped

-----------------------------------------------------------------------------
(* How the device keeps its type, and how Return gives the locals theirs. *)

LEMMA SameDeviceTyped == DeviceTyped /\ UNCHANGED device => DeviceTyped'
BY DEF DeviceTyped, EntriesTyped, device

LEMMA FatTyped ==
    ASSUME DeviceTyped, NEW w, NEW c \in Cluster,
           NEW v \in Cluster \cup {FREE, EOC}, WriteFat(w, c, v)
    PROVE  DeviceTyped'
BY DEF DeviceTyped, EntriesTyped, WriteFat, FatAfter

\* A sector whose entries point to clusters.
GoodSector(x) == /\ x \in [Slots -> Unit]
                 /\ \A s \in Slots : x[s].kind = "entry" => x[s].first \in Cluster

LEMMA SectorTyped ==
    ASSUME DeviceTyped, NEW w, NEW c \in Cluster, NEW x, GoodSector(x),
           WriteSector(w, c, x)
    PROVE  DeviceTyped'
<1>1. disk' \in [Cluster -> [Slots -> Unit]]
  BY DEF DeviceTyped, WriteSector, DiskAfter, GoodSector
<1>2. \A d \in Cluster : disk'[d] = disk[d] \/ disk'[d] = x
  BY DEF DeviceTyped, WriteSector, DiskAfter
<1>3. EntriesTyped'
  BY <1>2 DEF EntriesTyped, GoodSector, DeviceTyped
<1> QED  BY <1>1, <1>3 DEF DeviceTyped, WriteSector

LEMMA GoodSectors ==
    /\ GoodSector(ZeroSector) /\ GoodSector(DotSector)
    /\ DeviceTyped => \A c \in Cluster : GoodSector(disk[c])
    /\ \A x, s, u : GoodSector(x) /\ s \in Slots /\ u \in Unit
                      /\ (u.kind = "entry" => u.first \in Cluster)
                    => GoodSector([x EXCEPT ![s] = u])
<1>1. GoodSector(ZeroSector) /\ GoodSector(DotSector)
  BY UnitTypes DEF GoodSector, ZeroSector, DotSector, Zero, Dot, Mark
<1>2. DeviceTyped => \A c \in Cluster : GoodSector(disk[c])
  BY DEF DeviceTyped, EntriesTyped, GoodSector
<1>3. \A x, s, u : GoodSector(x) /\ s \in Slots /\ u \in Unit
                      /\ (u.kind = "entry" => u.first \in Cluster)
                    => GoodSector([x EXCEPT ![s] = u])
  BY DEF GoodSector
<1> QED  BY <1>1, <1>2, <1>3

LEMMA ReturnTyped ==
    ASSUME NEW o \in {"none", "ok", "failed"}, Return(o)
    PROVE  LocalsTyped'
BY LayoutFacts, DataAssumption
   DEF Return, LocalsTyped, WriteBounded, HopsLeft, PCs, Ops, Rets

LEMMA LocationParts ==
    ASSUME ent \in Location
    PROVE  ent[1] \in Cluster /\ ent[2] \in Slots
BY DEF Location

LEMMA Positions ==
    ASSUME NEW n \in Nat
    PROVE  /\ n \div SlotsPerCluster \in Nat
           /\ n % SlotsPerCluster \in 0 .. SlotsPerCluster - 1
BY LayoutAssumption

-----------------------------------------------------------------------------
(* Each action keeps the type.                                              *)

LEMMA TypeStart == TypeInv /\ Start => TypeInv'
<1> SUFFICES ASSUME DeviceTyped, LocalsTyped, Start PROVE LocalsTyped' /\ UNCHANGED device
  BY SameDeviceTyped DEF TypeInv
<1> USE LayoutFacts, DataAssumption
    DEF LocalsTyped, WriteBounded, HopsLeft, PCs, Ops, Rets, command, walk, scan, claim, file
<1>1. ASSUME NEW n \in Names, WalkInto(n) PROVE LocalsTyped' /\ UNCHANGED device
  BY <1>1 DEF WalkInto
<1>2. CASE WalkUp
  BY <1>2 DEF WalkUp
<1>3. ASSUME NEW n \in Names, NEW o \in Ops, NEW l \in 0 .. MaxLen, Command(o, n, l)
      PROVE  LocalsTyped' /\ UNCHANGED device
  BY <1>3 DEF Command
<1>4. CASE List
  BY <1>4 DEF List
<1> QED  BY <1>1, <1>2, <1>3, <1>4 DEF Start

LEMMA TypeFind == TypeInv /\ (FindHit \/ FindNext \/ FindMiss) => TypeInv'
<1> SUFFICES ASSUME DeviceTyped, LocalsTyped, FindHit \/ FindNext \/ FindMiss
             PROVE  LocalsTyped' /\ UNCHANGED device
  BY SameDeviceTyped DEF TypeInv
<1> USE LayoutFacts, DataAssumption, ReturnTyped
    DEF LocalsTyped, WriteBounded, HopsLeft, PCs, Ops, Rets, command, walk, scan, claim, file
<1>1. CASE FindHit
  <2>1. PICK s \in Slots : FoundBy(disk[cur][s], s) /\ disk[cur][s].kind = "entry"
    BY <1>1 DEF FindHit, Least, Hits, Named, Read
  <2>2. /\ disk[cur][s].first \in Cluster /\ disk[cur][s].size \in 0 .. MaxLen
        /\ <<cur, s>> \in Location /\ UNCHANGED device /\ pc = "find"
    BY <1>1, <2>1 DEF FindHit, DeviceTyped, EntriesTyped, Unit, Location
  <2>3. LocalsTyped'
    BY <2>1, <2>2 DEF FoundBy
  <2> QED  BY <2>2, <2>3
<1>2. CASE FindNext
  BY <1>2 DEF FindNext, ScanGoesOn, Chained
<1>3. CASE FindMiss
  BY <1>3 DEF FindMiss
<1> QED  BY <1>1, <1>2, <1>3

LEMMA TypeText == TypeInv /\ (FindText \/ DeleteText) => TypeInv'
<1> SUFFICES ASSUME DeviceTyped, LocalsTyped, FindText \/ DeleteText
             PROVE  LocalsTyped' /\ DeviceTyped'
  BY DEF TypeInv
<1>1. CASE FindText
  <2>1. PICK x : TextFoundBy(x) /\ UNCHANGED device /\ pc = "find"
    BY <1>1 DEF FindText
  <2>2. LocalsTyped'
    BY <2>1, LayoutFacts, DataAssumption, ReturnTyped
       DEF TextFoundBy, LocalsTyped, WriteBounded, HopsLeft, PCs, Ops, Rets, claim, file
  <2> QED  BY <2>1, <2>2, SameDeviceTyped
<1>2. CASE DeleteText
  <2>1. PICK s \in Slots, w \in SectorWrites(cur) :
          /\ WriteSector(w, cur, [disk[cur] EXCEPT ![s] = Deleted])
          /\ Return(IF w.ok THEN "ok" ELSE "failed")
    BY <1>2 DEF DeleteText
  <2>2. cur \in Cluster /\ Deleted \in Unit /\ Deleted.kind # "entry"
    BY UnitTypes DEF LocalsTyped, Deleted, Mark
  <2>3. GoodSector([disk[cur] EXCEPT ![s] = Deleted])
    BY <2>2, GoodSectors
  <2>4. DeviceTyped'
    BY <2>1, <2>2, <2>3, SectorTyped
  <2> QED  BY <2>1, <2>4, ReturnTyped
<1> QED  BY <1>1, <1>2

LEMMA TypeFindFree ==
    TypeInv /\ (FreeSlot \/ FreeNext \/ FreeExtend \/ FreeError \/ DirLink) => TypeInv'
<1> SUFFICES ASSUME DeviceTyped, LocalsTyped,
                    FreeSlot \/ FreeNext \/ FreeExtend \/ FreeError \/ DirLink
             PROVE  LocalsTyped' /\ DeviceTyped'
  BY DEF TypeInv
<1> USE LayoutFacts, DataAssumption, ReturnTyped, SameDeviceTyped
    DEF LocalsTyped, WriteBounded, HopsLeft, PCs, Ops, Rets, command, walk, scan, claim, file
<1>1. CASE FreeSlot
  <2>1. PICK s \in Slots : ent' = <<cur, s>>
    BY <1>1 DEF FreeSlot
  <2> QED  BY <1>1, <2>1 DEF FreeSlot, Location
<1>2. CASE FreeNext
  BY <1>2 DEF FreeNext, Chained
<1>3. CASE FreeExtend
  BY <1>3 DEF FreeExtend
<1>4. CASE FreeError
  BY <1>4 DEF FreeError
<1>5. CASE DirLink
  <2>1. PICK w \in FatWrites :
          /\ WriteFat(w, cur, new)
          /\ \/ /\ ent' = <<new, 0>> /\ pc' = "alloc" /\ ret' = "dirent"
                /\ UNCHANGED <<command, walk, cur, new, file, out>>
             \/ Return("failed")
    BY <1>5 DEF DirLink
  <2>2. DeviceTyped'
    BY <2>1, FatTyped
  <2>3. LocalsTyped'
    BY <2>1 DEF Location
  <2> QED  BY <2>2, <2>3
<1> QED  BY <1>1, <1>2, <1>3, <1>4, <1>5

LEMMA TypeAlloc == TypeInv /\ (AllocFull \/ AllocTake \/ AllocZero) => TypeInv'
<1> SUFFICES ASSUME DeviceTyped, LocalsTyped, AllocFull \/ AllocTake \/ AllocZero
             PROVE  LocalsTyped' /\ DeviceTyped'
  BY DEF TypeInv
<1> USE LayoutFacts, DataAssumption, ReturnTyped, SameDeviceTyped
    DEF LocalsTyped, WriteBounded, HopsLeft, PCs, Ops, Rets, command, walk, scan, claim, file
<1>1. AllocFailed => LocalsTyped'
  BY DEF AllocFailed
<1>2. CASE AllocFull
  BY <1>1, <1>2 DEF AllocFull
<1>3. CASE AllocTake
  <2>1. PICK c \in Cluster, w \in FatWrites :
          /\ WriteFat(w, c, EOC)
          /\ \/ /\ pc' = "zero" /\ new' = c
                /\ UNCHANGED <<command, walk, scan, ret, file, out>>
             \/ AllocFailed
    BY <1>3 DEF AllocTake
  <2>2. DeviceTyped'
    BY <2>1, FatTyped
  <2>3. LocalsTyped'
    BY <1>1, <1>3, <2>1 DEF AllocTake
  <2> QED  BY <2>2, <2>3
<1>4. CASE AllocZero
  <2>1. DeviceTyped'
    BY <1>4, SectorTyped, GoodSectors DEF AllocZero
  <2>2. LocalsTyped'
    BY <1>4 DEF AllocZero
  <2> QED  BY <2>1, <2>2
<1> QED  BY <1>2, <1>3, <1>4

LEMMA TypeCreate == TypeInv /\ (Dirent \/ Dots) => TypeInv'
<1> SUFFICES ASSUME DeviceTyped, LocalsTyped, Dirent \/ Dots
             PROVE  LocalsTyped' /\ DeviceTyped'
  BY DEF TypeInv
<1> USE LayoutFacts, DataAssumption, ReturnTyped, GoodSectors
    DEF LocalsTyped, WriteBounded, HopsLeft, PCs, Ops, Rets, command, walk, scan, claim, file
<1>1. CASE Dirent
  <2> DEFINE e == Entry(nm, new, op = "mkdir")
             x == [disk[ent[1]] EXCEPT ![ent[2]] = e]
  <2>1. ent[1] \in Cluster /\ ent[2] \in Slots
    BY LocationParts
  <2>2. e \in Unit /\ e.first = new
    BY UnitTypes DEF Entry
  <2>3. GoodSector(x)
    <3> HIDE DEF e
    <3> QED  BY <2>1, <2>2
  <2>4. DeviceTyped'
    <3> HIDE DEF x
    <3>1. PICK w \in SectorWrites(ent[1]) : WriteSector(w, ent[1], x)
      BY <1>1 DEF Dirent, x
    <3> QED  BY <2>1, <2>3, <3>1, SectorTyped
  <2>5. LocalsTyped'
    BY <1>1 DEF Dirent
  <2> QED  BY <2>4, <2>5
<1>2. CASE Dots
  <2>1. PICK w \in SectorWrites(new) : /\ WriteSector(w, new, DotSector)
                                       /\ Return(IF w.ok THEN "ok" ELSE "failed")
    BY <1>2 DEF Dots
  <2> QED  BY <2>1, SectorTyped
<1> QED  BY <1>1, <1>2

LEMMA Taking ==
    ASSUME LocalsTyped
    PROVE  Take \in Nat /\ Take <= len
BY LayoutAssumption, Positions DEF Take, Room, LocalsTyped

LEMMA TypeWrite ==
    TypeInv /\ (\/ LoopHead \/ SeekHop \/ SeekExtend \/ FileLink \/ WriteData \/ Finish
                \/ ReadData)
      => TypeInv'
<1> SUFFICES ASSUME DeviceTyped, LocalsTyped,
                    \/ LoopHead \/ SeekHop \/ SeekExtend \/ FileLink \/ WriteData \/ Finish
                    \/ ReadData
             PROVE  LocalsTyped' /\ DeviceTyped'
  BY DEF TypeInv
<1> USE LayoutFacts, DataAssumption, ReturnTyped, GoodSectors, SameDeviceTyped
    DEF LocalsTyped, WriteBounded, HopsLeft, PCs, Ops, Rets, command, walk, scan, claim, file
<1>1. CASE LoopHead
  <2>1. fpos \div SlotsPerCluster \in Nat
    BY Positions
  <2> QED  BY <1>1, <2>1 DEF LoopHead
<1>2. CASE SeekHop
  BY <1>2 DEF SeekHop, Chained
<1>3. CASE SeekExtend
  BY <1>3 DEF SeekExtend
<1>4. CASE FileLink
  <2>1. PICK w \in FatWrites : WriteFat(w, cur, new)
    BY <1>4 DEF FileLink
  <2>2. DeviceTyped'
    BY <2>1, FatTyped
  <2>3. LocalsTyped'
    BY <1>4 DEF FileLink
  <2> QED  BY <2>2, <2>3
<1>5. CASE WriteData
  <2>1. GoodSector(Filled(cur))
    <3>1. Data(nm) \in Unit /\ Data(nm).kind # "entry"
      BY UnitTypes DEF Data, Mark
    <3>2. \A s \in Slots : Filled(cur)[s] = Data(nm) \/ Filled(cur)[s] = disk[cur][s]
      BY DEF Filled
    <3>3. Filled(cur) \in [Slots -> Unit]
      BY <3>1 DEF Filled, DeviceTyped
    <3> QED  BY <3>1, <3>2, <3>3 DEF GoodSector
  <2>2. PICK w \in SectorWrites(cur) : WriteSector(w, cur, Filled(cur))
    BY <1>5 DEF WriteData
  <2>3. DeviceTyped'
    BY <2>1, <2>2, SectorTyped
  <2>4. LocalsTyped'
    BY <1>5, Taking DEF WriteData
  <2> QED  BY <2>3, <2>4
<1>6. CASE Finish
  <2> DEFINE u == Resized(disk[ent[1]][ent[2]], fpos)
             x == [disk[ent[1]] EXCEPT ![ent[2]] = u]
  <2>1. ent[1] \in Cluster /\ ent[2] \in Slots
    BY LocationParts
  <2>2. u \in Unit /\ (u.kind = "entry" => u.first \in Cluster)
    <3>1. disk[ent[1]][ent[2]] \in Unit /\ fpos \in 0 .. MaxLen
      BY <2>1 DEF DeviceTyped
    <3>2. /\ u \in Unit
          /\ u.kind = disk[ent[1]][ent[2]].kind /\ u.first = disk[ent[1]][ent[2]].first
      BY <3>1, Resizing
    <3> QED  BY <2>1, <3>2 DEF DeviceTyped, EntriesTyped
  <2>3. GoodSector(x)
    <3> HIDE DEF u
    <3> QED  BY <2>1, <2>2
  <2>4. DeviceTyped'
    <3>1. CASE UNCHANGED device
      BY <3>1
    <3>2. CASE \E w \in SectorWrites(ent[1]) : WriteSector(w, ent[1], x)
      <4> HIDE DEF x
      <4> QED  BY <2>1, <2>3, <3>2, SectorTyped
    <3> QED  BY <1>6, <3>1, <3>2 DEF Finish
  <2>5. LocalsTyped'
    BY <1>6 DEF Finish
  <2> QED  BY <2>4, <2>5
<1>7. CASE ReadData /\ hops = 0 /\ cur \in Backed
  BY <1>7, Taking DEF ReadData
<1>8. CASE ReadData /\ ~(hops = 0 /\ cur \in Backed)
  BY <1>8 DEF ReadData
<1> QED  BY <1>1, <1>2, <1>3, <1>4, <1>5, <1>6, <1>7, <1>8

LEMMA TypeList == TypeInv /\ (ListNext \/ ListEnd) => TypeInv'
<1> SUFFICES ASSUME DeviceTyped, LocalsTyped, ListNext \/ ListEnd
             PROVE  LocalsTyped' /\ UNCHANGED device
  BY SameDeviceTyped DEF TypeInv
<1>1. CASE ListNext
  BY <1>1 DEF ListNext, ScanGoesOn, Chained, LocalsTyped, WriteBounded, HopsLeft,
     command, walk, claim, file
<1>2. CASE ListEnd
  <2>1. PICK r \in {"ok", "failed"} : Return(r)
    BY <1>2 DEF ListEnd
  <2> QED  BY <1>2, <2>1, ReturnTyped DEF ListEnd
<1> QED  BY <1>1, <1>2

LEMMA TypeUnlink ==
    TypeInv /\ (NotEmpty \/ EmptyNext \/ EmptyYes \/ Delete \/ Free) => TypeInv'
<1> SUFFICES ASSUME DeviceTyped, LocalsTyped,
                    NotEmpty \/ EmptyNext \/ EmptyYes \/ Delete \/ Free
             PROVE  LocalsTyped' /\ DeviceTyped'
  BY DEF TypeInv
<1> USE LayoutFacts, DataAssumption, ReturnTyped, GoodSectors, SameDeviceTyped
    DEF LocalsTyped, WriteBounded, HopsLeft, PCs, Ops, Rets, command, walk, scan, claim, file
<1>1. CASE NotEmpty
  BY <1>1 DEF NotEmpty
<1>2. CASE EmptyNext
  BY <1>2 DEF EmptyNext, ScanGoesOn, Chained
<1>3. CASE EmptyYes
  BY <1>3 DEF EmptyYes
<1>4. CASE Delete
  <2> DEFINE x == [disk[ent[1]] EXCEPT ![ent[2]] = Deleted]
  <2>1. ent[1] \in Cluster /\ ent[2] \in Slots
    BY LocationParts
  <2>2. Deleted \in Unit /\ Deleted.kind # "entry"
    BY UnitTypes DEF Deleted, Mark
  <2>3. GoodSector(x)
    BY <2>1, <2>2
  <2>4. DeviceTyped'
    <3> HIDE DEF x
    <3>1. PICK w \in SectorWrites(ent[1]) : WriteSector(w, ent[1], x)
      BY <1>4 DEF Delete, x
    <3> QED  BY <2>1, <2>3, <3>1, SectorTyped
  <2>5. LocalsTyped'
    BY <1>4 DEF Delete
  <2> QED  BY <2>4, <2>5
<1>5. CASE Free
  <2>1. PICK w \in FatWrites : WriteFat(w, cur, FREE)
    BY <1>5 DEF Free
  <2>2. DeviceTyped'
    BY <2>1, FatTyped
  <2>3. LocalsTyped'
    BY <1>5 DEF Free, Chained, DeviceTyped
  <2> QED  BY <2>2, <2>3
<1> QED  BY <1>1, <1>2, <1>3, <1>4, <1>5

LEMMA TypeStep == TypeInv /\ [Next]_vars => TypeInv'
<1> SUFFICES ASSUME TypeInv, [Next]_vars PROVE TypeInv'
  OBVIOUS
<1>1. CASE Start
  BY <1>1, TypeStart
<1>2. CASE Step
  BY <1>2, TypeFind, TypeText, TypeFindFree, TypeAlloc, TypeCreate, TypeWrite, TypeList,
     TypeUnlink DEF Step
<1>3. CASE Crash
  BY <1>3, ReturnTyped, SameDeviceTyped DEF Crash, TypeInv
<1>4. CASE UNCHANGED vars
  <2> USE <1>4 DEF vars, device, command, walk, scan, claim, file
  <2>1. DeviceTyped'
    BY SameDeviceTyped DEF TypeInv
  <2>2. LocalsTyped'
    BY DEF TypeInv, LocalsTyped, WriteBounded, HopsLeft
  <2> QED  BY <2>1, <2>2 DEF TypeInv
<1> QED  BY <1>1, <1>2, <1>3, <1>4 DEF Next

\* In every state of every behaviour the device and the driver's variables
\* have the types the code gives them, whatever faults occur.
THEOREM TypeCorrect == Spec => []TypeOK
<1>1. Spec => []TypeInv
  BY TypeInit, TypeStep, PTL DEF Spec
<1> QED  BY <1>1, TypeInvStronger, PTL

-----------------------------------------------------------------------------
(* ChainsSound.  Chains are least closed sets, which no step changes in an  *)
(* obvious way, so the inductive invariant speaks of single links instead.  *)
(* It says that clusters can be labelled: o[c] is the first cluster of the  *)
(* file or directory c belongs to, 0 when c is free or lost, and p[c] grows *)
(* along every link.  The labelling is no part of the program: each step    *)
(* shows one for its next state.                                            *)

Labels == [Cluster -> Cluster \cup {0}]
Ranks  == [Cluster -> Nat]

\* c belongs to a file or directory whose first cluster is still its own.
Live(o, c) == o[c] # 0 /\ o[o[c]] = o[c]

IsEntry(c, s) == disk[c][s].kind = "entry"
First(c, s)   == disk[c][s].first

\* The root and what every entry points to are first clusters, ...
Rooted(o) ==
    /\ o[Root] = Root
    /\ \A c \in Cluster, s \in Slots :
         IsEntry(c, s) => o[First(c, s)] = First(c, s) /\ First(c, s) # Root

\* ... of one entry each.
FirstsDistinct ==
    \A c, d \in Cluster, s, t \in Slots :
        IsEntry(c, s) /\ IsEntry(d, t) /\ First(c, s) = First(d, t) => c = d /\ s = t

\* A labelled cluster is allocated; its link stays within the label, goes up
\* in position, never back to the first cluster, ...
Linked(o, p) ==
    \A c \in Cluster : o[c] # 0 =>
        /\ fat[c] # FREE
        /\ fat[c] \in Cluster =>
             o[fat[c]] = o[c] /\ p[c] < p[fat[c]] /\ fat[c] # o[c]

\* ... and is no other labelled cluster's link.
Unshared(o) ==
    \A c, d \in Cluster :
        o[c] # 0 /\ o[d] # 0 /\ fat[c] \in Cluster /\ fat[c] = fat[d] => c = d

Sound(o, p) == Rooted(o) /\ FirstsDistinct /\ Linked(o, p) /\ Unshared(o)

\* The allocation under way is to extend the chain that ends in cur.
Extending == \/ pc \in {"dirlink", "filelink"}
             \/ pc \in {"alloc", "zero"} /\ ret \in {"dirlink", "filelink"}
Writing   == \/ pc \in {"loop", "seek", "filelink"}
             \/ pc \in {"alloc", "zero"} /\ ret = "filelink"

\* While a chain is freed from its first cluster on, what is left of it is
\* reached neither by an entry nor by a link.
Dying(o) ==
    /\ o[cur] # 0 /\ o[cur] # Root
    /\ \A c \in Cluster, s \in Slots : IsEntry(c, s) => First(c, s) # o[cur]
    /\ \A c \in Cluster : o[c] # 0 => fat[c] # cur

\* What the running command knows of the clusters it holds.
Holds(o) ==
    /\ pc \in {"idle", "find"} => Live(o, dir) /\ Live(o, up)
    /\ pc \in {"find", "findfree", "seek"} => Live(o, cur)
    /\ Extending => Live(o, cur) /\ fat[cur] = EOC
    /\ pc \in {"zero", "dirlink", "dirent", "filelink"} => o[new] = 0 /\ fat[new] = EOC
    /\ Writing => o[first] = first
    /\ pc \in {"empty", "delete"} => IsEntry(ent[1], ent[2]) /\ First(ent[1], ent[2]) = first
    /\ pc = "free" => Dying(o)

ChainInv == \E o \in Labels, p \in Ranks : Sound(o, p) /\ Holds(o)

IInv == TypeInv /\ ChainInv

-----------------------------------------------------------------------------
(* The invariant implies the property.                                      *)

\* A closed set that holds the first cluster holds the chain.
LEMMA ChainWithin ==
    ASSUME NEW f, NEW h \in Cluster, NEW S \in SUBSET Cluster, h \in S, Closed(f, S)
    PROVE  ChainIn(f, h) \subseteq S
BY DEF ChainIn

LEMMA ChainLabelled ==
    ASSUME TypeInv, NEW o \in Labels, NEW p \in Ranks, Sound(o, p),
           NEW h \in Cluster, o[h] = h
    PROVE  \A c \in Chain(h) : c \in Cluster /\ o[c] = h
<1> DEFINE S == {c \in Cluster : o[c] = h}
<1>1. S \in SUBSET Cluster /\ h \in S
  OBVIOUS
<1>2. Closed(fat, S)
  BY LayoutFacts DEF Closed, Sound, Linked, Cluster
<1>3. Chain(h) \subseteq S
  <2> HIDE DEF S
  <2> QED  BY <1>1, <1>2, ChainWithin DEF Chain
<1> QED  BY <1>3

LEMMA ChainUpward ==
    ASSUME TypeInv, NEW o \in Labels, NEW p \in Ranks, Sound(o, p),
           NEW c \in Cluster, o[c] # 0, fat[c] \in Cluster
    PROVE  c \notin Chain(fat[c])
<1> DEFINE S == {d \in Cluster : o[d] = o[c] /\ p[c] < p[d]}
<1>1. S \in SUBSET Cluster /\ fat[c] \in S /\ c \notin S
  BY DEF Sound, Linked, Labels, Ranks
<1>2. Closed(fat, S)
  BY DEF Closed, Sound, Linked, Labels, Ranks
<1>3. Chain(fat[c]) \subseteq S
  <2> HIDE DEF S
  <2> QED  BY <1>1, <1>2, ChainWithin DEF Chain
<1> QED  BY <1>1, <1>3

LEMMA ChainInvSound == IInv => ChainsSound
<1> SUFFICES ASSUME TypeInv, NEW o \in Labels, NEW p \in Ranks, Sound(o, p)
             PROVE  ChainsSound
  BY DEF IInv, ChainInv
<1>1. \A l \in Entries(disk) : /\ l[1] \in Cluster /\ l[2] \in Slots /\ l = <<l[1], l[2]>>
                               /\ IsEntry(l[1], l[2]) /\ Content(l).first = First(l[1], l[2])
                               /\ First(l[1], l[2]) \in Cluster
  BY DEF Entries, Location, IsEntry, Content, First, TypeInv, DeviceTyped, EntriesTyped
<1>2. \A h \in Heads : h \in Cluster /\ o[h] = h
  BY <1>1, LayoutFacts DEF Heads, Sound, Rooted
<1>3. \A l \in Entries(disk) : Content(l).first # Root
  BY <1>1 DEF Sound, Rooted
<1>4. \A k, l \in Entries(disk) : Content(k).first = Content(l).first => k = l
  BY <1>1 DEF Sound, FirstsDistinct
<1>5. ASSUME NEW h \in Heads, NEW c \in Chain(h)
      PROVE  fat[c] # FREE /\ (fat[c] \in Cluster => c \notin Chain(fat[c]))
  <2>1. c \in Cluster /\ o[c] # 0
    BY <1>2, ChainLabelled DEF Cluster
  <2> QED  BY <2>1, ChainUpward DEF Sound, Linked
<1>6. ASSUME NEW g \in Heads, NEW h \in Heads, g # h PROVE Chain(g) \cap Chain(h) = {}
  BY <1>2, <1>6, ChainLabelled
<1> QED  BY <1>3, <1>4, <1>5, <1>6 DEF ChainsSound

-----------------------------------------------------------------------------
(* The initial state: the root and the file TEST, one cluster each.         *)

LEMMA ChainInit == Init => ChainInv
<1> SUFFICES ASSUME Init PROVE ChainInv
  OBVIOUS
<1> DEFINE o == [c \in Cluster |-> IF c \in {Root, TestCluster} THEN c ELSE 0]
           p == [c \in Cluster |-> 0]
           test == Resized(Entry(TestName, TestCluster, FALSE), 1)
<1>1. o \in Labels /\ p \in Ranks /\ Root # TestCluster /\ Root # 0
  BY LayoutFacts DEF Labels, Ranks, Root, TestCluster
<1>2. \A c \in Cluster, s \in Slots :
        IsEntry(c, s) => c = Root /\ s = 0 /\ First(c, s) = TestCluster
  <2> DEFINE root == [ZeroSector EXCEPT ![0] = test]
             data == [ZeroSector EXCEPT ![0] = Data(TestName)]
  <2>1. test.first = TestCluster
    <3>1. Entry(TestName, TestCluster, FALSE) \in Unit
      <4>1. FALSE \in BOOLEAN /\ TestName \in Names \cup {NoName}
        BY DataAssumption
      <4> QED  BY <4>1, UnitTypes, LayoutFacts, Zenon
    <3>2. 1 \in 0 .. MaxLen
      BY DataAssumption
    <3>3. Entry(TestName, TestCluster, FALSE).first = TestCluster
      BY DEF Entry
    <3> QED  BY <3>1, <3>2, <3>3, Resizing
  <2> HIDE DEF test
  <2>2. \A c \in Cluster : \/ c = Root /\ disk[c] = root
                           \/ disk[c] = data \/ disk[c] = ZeroSector
    BY LayoutFacts DEF Init, test
  <2>3. \A s \in Slots : ZeroSector[s].kind # "entry" /\ Data(TestName).kind # "entry"
    BY DEF ZeroSector, Zero, Data, Mark
  <2>4. \A s \in Slots : root[s].kind = "entry" => s = 0 /\ root[s].first = TestCluster
    BY <2>1, <2>3, UnitTypes, LayoutFacts
  <2>5. \A s \in Slots : data[s].kind # "entry"
    BY <2>3, UnitTypes, LayoutFacts
  <2> HIDE DEF root, data
  <2> QED  BY <2>2, <2>3, <2>4, <2>5 DEF IsEntry, First
<1>3. Rooted(o) /\ FirstsDistinct
  BY <1>1, <1>2, LayoutFacts DEF Rooted, FirstsDistinct
<1>4. \A c \in Cluster : o[c] # 0 => fat[c] = EOC
  BY DEF Init
<1>5. Linked(o, p) /\ Unshared(o)
  BY <1>4, LayoutFacts DEF Linked, Unshared
<1>6. Holds(o)
  <2>1. pc = "idle" /\ dir = Root /\ up = Root
    BY DEF Init
  <2>2. Live(o, Root)
    BY <1>1, <1>3 DEF Live, Rooted
  <2> HIDE DEF o
  <2> QED  BY <2>1, <2>2 DEF Holds, Extending, Writing
<1> QED
  <2> HIDE DEF o, p
  <2> QED  BY <1>1, <1>3, <1>5, <1>6 DEF ChainInv, Sound

-----------------------------------------------------------------------------
(* What a step does to a labelling.                                         *)

\* A step brings no entry that was not there, and moves none elsewhere.
EntriesKept == \A c \in Cluster, s \in Slots :
                  IsEntry(c, s)' => IsEntry(c, s) /\ First(c, s)' = First(c, s)

LEMMA SoundKept ==
    ASSUME NEW o \in Labels, NEW p \in Ranks, Sound(o, p),
           fat' = fat, EntriesKept
    PROVE  Sound(o, p)'
<1>1. Rooted(o)' /\ FirstsDistinct'
  BY DEF Sound, Rooted, FirstsDistinct, EntriesKept
<1>2. Linked(o, p)' /\ Unshared(o)'
  BY DEF Sound, Linked, Unshared
<1> QED  BY <1>1, <1>2 DEF Sound

LEMMA SoundSame ==
    ASSUME NEW o \in Labels, NEW p \in Ranks, Sound(o, p), UNCHANGED device
    PROVE  Sound(o, p)'
BY SoundKept DEF device, EntriesKept, IsEntry, First

LEMMA SectorKeeps ==
    ASSUME TypeInv, NEW w, NEW c \in Cluster, NEW x, WriteSector(w, c, x),
           \A s \in Slots : x[s].kind = "entry" => IsEntry(c, s) /\ x[s].first = First(c, s)
    PROVE  fat' = fat /\ EntriesKept
<1>1. \A d \in Cluster : disk'[d] = disk[d] \/ (d = c /\ disk'[d] = x)
  BY DEF WriteSector, DiskAfter, TypeInv, DeviceTyped
<1> QED  BY <1>1 DEF EntriesKept, IsEntry, First, WriteSector

\* A command that returns holds nothing but the root.
LEMMA ReturnHolds ==
    ASSUME NEW o \in Labels, o[Root] = Root, NEW r, Return(r)
    PROVE  Holds(o)'
BY LayoutFacts DEF Return, Holds, Live, Extending, Writing, Root

\* The entry of a free cluster is set: nothing labelled is touched.
LEMMA ClaimSound ==
    ASSUME TypeInv, NEW o \in Labels, NEW p \in Ranks, Sound(o, p),
           NEW c \in Cluster, fat[c] = FREE, NEW w, WriteFat(w, c, EOC)
    PROVE  /\ Sound(o, p)' /\ o[c] = 0
           /\ \A d \in Cluster : d # c => fat'[d] = fat[d]
<1>1. o[c] = 0
  BY DEF Sound, Linked
<1>2. \A d \in Cluster : d # c => fat'[d] = fat[d]
  BY DEF WriteFat, FatAfter, TypeInv, DeviceTyped
<1>3. disk' = disk
  BY DEF WriteFat
<1>4. Rooted(o)' /\ FirstsDistinct'
  BY <1>3 DEF Sound, Rooted, FirstsDistinct, IsEntry, First
<1>5. Linked(o, p)'
  BY <1>1, <1>2 DEF Sound, Linked
<1>6. Unshared(o)'
  BY <1>1, <1>2 DEF Sound, Unshared
<1> QED  BY <1>1, <1>2, <1>4, <1>5, <1>6 DEF Sound

\* The last cluster of a chain is linked to a claimed one, which takes its
\* label and the next position; a write that stores nothing changes nothing.
LEMMA LinkSound ==
    ASSUME TypeInv, NEW o \in Labels, NEW p \in Ranks, Sound(o, p),
           NEW c \in Cluster, NEW n \in Cluster, Live(o, c), fat[c] = EOC,
           o[n] = 0, fat[n] = EOC, NEW w \in FatWrites, WriteFat(w, c, n)
    PROVE  \E q \in Labels, r \in Ranks :
             /\ Sound(q, r)'
             /\ \A d \in Cluster : o[d] # 0 => q[d] = o[d]
             /\ w.ok => q[n] = o[c]
<1>1. CASE ~w.done
  <2>1. UNCHANGED device
    BY <1>1 DEF WriteFat, FatAfter, device
  <2>2. ~w.ok
    BY <1>1 DEF FatWrites, Stored, Unsure, Refused
  <2> QED  BY <2>1, <2>2, SoundSame
<1>2. CASE w.done
  <2> DEFINE q == [o EXCEPT ![n] = o[c]]
             r == [p EXCEPT ![n] = p[c] + 1]
  <2>1. q \in Labels /\ r \in Ranks /\ q[n] = o[c] /\ r[n] = p[c] + 1
    BY DEF Labels, Ranks
  <2>2. \A d \in Cluster : d # n => q[d] = o[d] /\ r[d] = p[d]
    BY DEF Labels, Ranks
  <2>3. n # c /\ n # o[c] /\ o[c] \in Cluster
    BY DEF Live, Labels
  <2>4. fat'[c] = n /\ (\A d \in Cluster : d # c => fat'[d] = fat[d]) /\ disk' = disk
    BY <1>2 DEF WriteFat, FatAfter, TypeInv, DeviceTyped
  <2> HIDE DEF q, r
  <2>5. Rooted(q)' /\ FirstsDistinct'
    BY <2>2, <2>4, LayoutFacts DEF Sound, Rooted, FirstsDistinct, IsEntry, First,
       TypeInv, DeviceTyped, EntriesTyped, Cluster, Root
  <2>6. Linked(q, r)'
    <3> SUFFICES ASSUME NEW d \in Cluster, q[d] # 0
                 PROVE  /\ fat'[d] # FREE
                        /\ fat'[d] \in Cluster =>
                             /\ q[fat'[d]] = q[d] /\ r[d] < r[fat'[d]]
                             /\ fat'[d] # q[d]
      BY DEF Linked
    <3>1. CASE d = c
      BY <2>1, <2>2, <2>3, <2>4, <3>1, LayoutFacts DEF Ranks
    <3>2. CASE d = n
      BY <2>3, <2>4, <3>2, LayoutFacts
    <3>3. CASE d # c /\ d # n
      BY <2>2, <2>4, <3>3 DEF Sound, Linked
    <3> QED  BY <3>1, <3>2, <3>3
  <2>7. Unshared(q)'
    <3> SUFFICES ASSUME NEW d \in Cluster, NEW e \in Cluster, q[d] # 0, q[e] # 0,
                        fat'[d] \in Cluster, fat'[d] = fat'[e]
                 PROVE  d = e
      BY DEF Unshared
    <3>1. d # n /\ e # n
      BY <2>3, <2>4, LayoutFacts
    <3>2. \A x \in Cluster : x # c /\ o[x] # 0 => fat[x] # n
      BY DEF Sound, Linked
    <3> QED  BY <2>2, <2>4, <3>1, <3>2 DEF Sound, Unshared
  <2> QED  BY <2>1, <2>2, <2>5, <2>6, <2>7 DEF Sound
<1> QED  BY <1>1, <1>2

-----------------------------------------------------------------------------
(* Each action finds a labelling for the next state.                        *)

LEMMA ChainStart == TypeInv /\ ChainInv /\ Start => ChainInv'
<1> SUFFICES ASSUME TypeInv, NEW o \in Labels, NEW p \in Ranks, Sound(o, p), Holds(o), Start
             PROVE  Sound(o, p)' /\ Holds(o)'
  BY DEF ChainInv
<1>1. pc = "idle" /\ Live(o, dir) /\ Live(o, up) /\ Live(o, Root)
  BY DEF Start, List, WalkInto, WalkUp, Command, Holds, Live, Sound, Rooted, Root
<1>2. ASSUME NEW n \in Names, WalkInto(n) PROVE UNCHANGED device /\ Holds(o)'
  BY <1>1, <1>2 DEF WalkInto, Holds, Live, Extending, Writing, walk
<1>3. ASSUME WalkUp PROVE Holds(o)'
  BY <1>1, <1>3 DEF WalkUp, Holds, Live, Extending, Writing
<1>4. ASSUME NEW n, NEW c, NEW l, Command(c, n, l) PROVE UNCHANGED device /\ Holds(o)'
  BY <1>1, <1>4 DEF Command, Holds, Live, Extending, Writing, walk
<1>5. ASSUME List PROVE Holds(o)'
  BY <1>5 DEF List, Holds, Extending, Writing
<1>6. UNCHANGED device
  BY <1>2, <1>4 DEF Start, WalkUp, List
<1> QED  BY <1>2, <1>3, <1>4, <1>5, <1>6, SoundSame DEF Start

LEMMA ChainFind == TypeInv /\ ChainInv /\ (FindHit \/ FindNext \/ FindMiss) => ChainInv'
<1> SUFFICES ASSUME TypeInv, NEW o \in Labels, NEW p \in Ranks, Sound(o, p), Holds(o),
                    FindHit \/ FindNext \/ FindMiss
             PROVE  Sound(o, p)' /\ Holds(o)'
  BY DEF ChainInv
<1>1. pc = "find" /\ Live(o, dir) /\ Live(o, up) /\ Live(o, cur) /\ UNCHANGED device
  BY DEF FindHit, FindNext, FindMiss, Holds, device
<1>2. SUFFICES Holds(o)'
  BY <1>1, SoundSame
<1>3. \A r : Return(r) => Holds(o)'
  BY ReturnHolds DEF Sound, Rooted
<1>4. CASE FindHit
  <2>1. PICK s \in Slots : FoundBy(disk[cur][s], s) /\ IsEntry(cur, s)
    BY <1>4 DEF FindHit, Least, Hits, Named, Read, IsEntry
  <2> DEFINE x == disk[cur][s]
  <2>2. x.first \in Cluster /\ o[x.first] = x.first /\ cur \in Cluster /\ x.first # 0
    BY <2>1 DEF Sound, Rooted, First, IsEntry, TypeInv, DeviceTyped, LocalsTyped,
       EntriesTyped, Cluster
  <2>3. CASE op = "walk" /\ x.isDir
    <3>1. pc' = "idle" /\ dir' = x.first /\ up' = dir
      BY <2>1, <2>3, <1>1 DEF FoundBy
    <3> HIDE DEF x
    <3> QED  BY <1>1, <2>2, <3>1 DEF Holds, Live, Extending, Writing
  <2>4. CASE op \in {"write", "cat"} /\ ~x.isDir
    <3>1. pc' = "loop" /\ first' = x.first
      BY <2>1, <2>4, <1>1 DEF FoundBy
    <3> HIDE DEF x
    <3> QED  BY <2>2, <3>1 DEF Holds, Extending, Writing
  <2>5. CASE op = "rm"
    <3>1. /\ pc' \in {"empty", "delete"} /\ first' = x.first
          /\ ent' = <<cur, s>> /\ disk' = disk
      BY <2>1, <2>5, <1>1 DEF FoundBy, device
    <3>2. ent'[1] = cur /\ ent'[2] = s
      BY <3>1
    <3> QED  BY <2>1, <3>1, <3>2 DEF Holds, Extending, Writing, IsEntry, First
  <2>6. CASE Return("failed") \/ Return("ok")
    BY <1>3, <2>6
  <2> QED  BY <2>1, <2>3, <2>4, <2>5, <2>6 DEF FoundBy
<1>5. CASE FindNext
  <2>1. cur \in Cluster /\ fat[cur] \in Cluster /\ Live(o, fat[cur])
    BY <1>1, <1>5 DEF FindNext, ScanGoesOn, Chained, Sound, Linked, Live,
       TypeInv, LocalsTyped
  <2> QED  BY <1>1, <1>5, <2>1 DEF FindNext, Holds, Live, Extending, Writing, walk
<1>6. CASE FindMiss
  <2>1. CASE pc' = "findfree" /\ cur' = dir
    BY <1>1, <2>1 DEF Holds, Live, Extending, Writing
  <2> QED  BY <1>3, <1>6, <2>1 DEF FindMiss
<1> QED  BY <1>4, <1>5, <1>6

LEMMA ChainText == TypeInv /\ ChainInv /\ (FindText \/ DeleteText) => ChainInv'
<1> SUFFICES ASSUME TypeInv, NEW o \in Labels, NEW p \in Ranks, Sound(o, p), Holds(o),
                    FindText \/ DeleteText
             PROVE  Sound(o, p)' /\ Holds(o)'
  BY DEF ChainInv
<1>1. \A r : Return(r) => Holds(o)'
  BY ReturnHolds DEF Sound, Rooted
<1>2. CASE FindText
  <2>1. PICK x : TextFoundBy(x) /\ UNCHANGED device /\ pc = "find"
    BY <1>2 DEF FindText
  <2>2. ASSUME pc' = "idle", dir' = dir, up' = Root PROVE Holds(o)'
    BY <2>1, <2>2 DEF Holds, Live, Extending, Writing, Sound, Rooted, Root
  <2>3. Holds(o)'
    BY <1>1, <2>1, <2>2 DEF TextFoundBy
  <2> QED  BY <2>1, <2>3, SoundSame
<1>3. CASE DeleteText
  <2>1. PICK s \in Slots, w \in SectorWrites(cur) :
          /\ WriteSector(w, cur, [disk[cur] EXCEPT ![s] = Deleted])
          /\ Return(IF w.ok THEN "ok" ELSE "failed")
    BY <1>3 DEF DeleteText
  <2>2. cur \in Cluster /\ disk[cur] \in [Slots -> Unit] /\ Deleted.kind # "entry"
    BY DEF TypeInv, DeviceTyped, LocalsTyped, Deleted, Mark
  <2> DEFINE x == [disk[cur] EXCEPT ![s] = Deleted]
  <2>3. \A t \in Slots : x[t].kind = "entry" => IsEntry(cur, t) /\ x[t].first = First(cur, t)
    BY <2>2 DEF IsEntry, First
  <2>4. WriteSector(w, cur, x)
    BY <2>1
  <2> HIDE DEF x
  <2>5. fat' = fat /\ EntriesKept
    BY <2>2, <2>3, <2>4, SectorKeeps
  <2> QED  BY <1>1, <2>1, <2>5, SoundKept
<1> QED  BY <1>2, <1>3

LEMMA ChainFindFree ==
    TypeInv /\ ChainInv /\ (FreeSlot \/ FreeNext \/ FreeExtend \/ FreeError) => ChainInv'
<1> SUFFICES ASSUME TypeInv, NEW o \in Labels, NEW p \in Ranks, Sound(o, p), Holds(o),
                    FreeSlot \/ FreeNext \/ FreeExtend \/ FreeError
             PROVE  Sound(o, p)' /\ Holds(o)'
  BY DEF ChainInv
<1>1. pc = "findfree" /\ Live(o, cur) /\ cur \in Cluster /\ UNCHANGED device
  BY DEF FreeSlot, FreeNext, FreeExtend, FreeError, Holds, device, TypeInv, LocalsTyped
<1>2. SUFFICES Holds(o)'
  BY <1>1, SoundSame
<1>3. CASE FreeSlot
  BY <1>3 DEF FreeSlot, Holds, Extending, Writing
<1>4. CASE FreeNext
  <2>1. fat[cur] \in Cluster /\ Live(o, fat[cur])
    BY <1>1, <1>4 DEF FreeNext, Chained, Sound, Linked, Live
  <2> QED  BY <1>1, <1>4, <2>1 DEF FreeNext, Holds, Live, Extending, Writing
<1>5. CASE FreeExtend
  <2>1. fat[cur] = EOC
    BY <1>1, <1>5 DEF FreeExtend, Chained, Sound, Linked, Live, TypeInv, DeviceTyped
  <2> QED  BY <1>1, <1>5, <2>1 DEF FreeExtend, Holds, Live, Extending, Writing, scan, device
<1>6. CASE FreeError
  BY <1>6, ReturnHolds DEF FreeError, Sound, Rooted
<1> QED  BY <1>3, <1>4, <1>5, <1>6

\* DirLink and FileLink.
LEMMA ChainLink == TypeInv /\ ChainInv /\ (DirLink \/ FileLink) => ChainInv'
<1> SUFFICES ASSUME TypeInv, NEW o \in Labels, NEW p \in Ranks, Sound(o, p), Holds(o),
                    DirLink \/ FileLink
             PROVE  \E q \in Labels, r \in Ranks : Sound(q, r)' /\ Holds(q)'
  BY DEF ChainInv
<1>1. /\ pc \in {"dirlink", "filelink"} /\ cur \in Cluster /\ new \in Cluster
      /\ first \in Cluster
      /\ Live(o, cur) /\ fat[cur] = EOC /\ o[new] = 0 /\ fat[new] = EOC
  BY DEF DirLink, FileLink, Holds, Extending, TypeInv, LocalsTyped
<1>2. PICK w \in FatWrites :
        /\ WriteFat(w, cur, new)
        /\ \/ pc = "dirlink" /\ pc' = "alloc" /\ ret' = "dirent"
           \/ pc = "dirlink" /\ Return("failed")
           \/ pc = "filelink" /\ w.ok /\ pc' = "seek" /\ cur' = new /\ first' = first
           \/ pc = "filelink" /\ pc' = "finish"
  BY DEF DirLink, FileLink
<1>3. PICK q \in Labels, r \in Ranks :
        Sound(q, r)' /\ (\A d \in Cluster : o[d] # 0 => q[d] = o[d]) /\ (w.ok => q[new] = o[cur])
  BY <1>1, <1>2, LinkSound
<1>4. q[Root] = Root
  BY <1>3 DEF Sound, Rooted
<1>5. CASE pc = "filelink" /\ w.ok /\ pc' = "seek" /\ cur' = new /\ first' = first
  <2>1. o[first] = first /\ q[first] = first
    BY <1>1, <1>3, <1>5 DEF Holds, Writing, Cluster
  <2>2. q[new] = o[cur] /\ o[cur] \in Cluster /\ q[o[cur]] = o[cur] /\ o[cur] # 0
    BY <1>1, <1>3, <1>5 DEF Live, Labels
  <2>3. Live(q, cur)'
    BY <1>5, <2>2 DEF Live
  <2>4. Holds(q)'
    BY <1>5, <2>1, <2>3 DEF Holds, Extending, Writing
  <2> QED  BY <1>3, <2>4
<1>6. CASE Return("failed")
  BY <1>3, <1>4, <1>6, ReturnHolds
<1>7. CASE pc' = "alloc" /\ ret' = "dirent"
  BY <1>3, <1>7 DEF Holds, Extending, Writing
<1>8. CASE pc' = "finish"
  BY <1>3, <1>8 DEF Holds, Extending, Writing
<1> QED  BY <1>2, <1>5, <1>6, <1>7, <1>8

LEMMA ChainAlloc == TypeInv /\ ChainInv /\ (AllocFull \/ AllocTake \/ AllocZero) => ChainInv'
<1> SUFFICES ASSUME TypeInv, NEW o \in Labels, NEW p \in Ranks, Sound(o, p), Holds(o),
                    AllocFull \/ AllocTake \/ AllocZero
             PROVE  Sound(o, p)' /\ Holds(o)'
  BY DEF ChainInv
<1>1. AllocFailed => Holds(o)'
  <2>1. \A r : Return(r) => Holds(o)'
    BY ReturnHolds DEF Sound, Rooted
  <2>2. pc' = "finish" => Holds(o)'
    BY DEF Holds, Extending, Writing
  <2> QED  BY <2>1, <2>2 DEF AllocFailed
<1>2. CASE AllocFull
  BY <1>1, <1>2, SoundSame DEF AllocFull
<1>3. CASE AllocTake
  <2>1. PICK c \in Cluster, w \in FatWrites :
          /\ fat[c] = FREE /\ WriteFat(w, c, EOC)
          /\ \/ /\ w.ok /\ pc' = "zero" /\ new' = c
                /\ UNCHANGED <<command, walk, scan, ret, file, out>>
             \/ AllocFailed
    BY <1>3 DEF AllocTake, Least, FreeClusters
  <2>2. Sound(o, p)' /\ o[c] = 0 /\ \A d \in Cluster : d # c => fat'[d] = fat[d]
    BY <2>1, ClaimSound
  <2>3. CASE w.ok /\ pc' = "zero" /\ new' = c /\ UNCHANGED <<command, walk, scan, ret, file, out>>
    <3>1. w.done
      BY <2>3 DEF FatWrites, Stored, Unsure, Refused
    <3>2. fat'[c] = EOC
      BY <2>1, <3>1 DEF WriteFat, FatAfter, TypeInv, DeviceTyped
    <3>3. pc = "alloc" /\ cur' = cur /\ ret' = ret /\ first' = first /\ cur \in Cluster
      BY <1>3, <2>3 DEF AllocTake, scan, file, TypeInv, LocalsTyped
    <3>4. Extending => Live(o, cur) /\ fat'[cur] = EOC
      BY <2>1, <2>2, <3>3, LayoutFacts DEF Holds
    <3>5. Extending' => Extending
      BY <2>3, <3>3 DEF Extending
    <3>6. Writing' => Writing
      BY <2>3, <3>3 DEF Writing
    <3> QED  BY <2>2, <2>3, <3>2, <3>3, <3>4, <3>5, <3>6 DEF Holds, Live
  <2> QED  BY <1>1, <2>1, <2>2, <2>3
<1>4. CASE AllocZero
  <2>1. PICK w \in SectorWrites(new) : WriteSector(w, new, ZeroSector)
    BY <1>4 DEF AllocZero
  <2>2. fat' = fat /\ EntriesKept
    <3>1. \A s \in Slots : ZeroSector[s].kind # "entry"
      BY DEF ZeroSector, Zero, Mark
    <3>2. new \in Cluster
      BY DEF TypeInv, LocalsTyped
    <3> QED  BY <2>1, <3>1, <3>2, SectorKeeps
  <2>3. Sound(o, p)'
    BY <2>2, SoundKept
  <2>4. /\ pc = "zero" /\ pc' = ret /\ ret \in Rets
        /\ cur' = cur /\ ret' = ret /\ new' = new /\ first' = first
    BY <1>4 DEF AllocZero, scan, claim, file, TypeInv, LocalsTyped
  <2>5. Extending' => Extending
    BY <2>4 DEF Extending, Rets
  <2>6. Writing' => Writing
    BY <2>4 DEF Writing, Rets
  <2> QED  BY <2>2, <2>3, <2>4, <2>5, <2>6 DEF Holds, Live, Rets
<1> QED  BY <1>2, <1>3, <1>4

\* The entry that points to a claimed cluster makes it a first cluster.
LEMMA EntrySound ==
    ASSUME TypeInv, NEW o \in Labels, NEW p \in Ranks, Sound(o, p),
           NEW n \in Cluster, o[n] = 0, fat[n] = EOC,
           NEW b \in Cluster, NEW t \in Slots, NEW x, fat' = fat,
           disk' = [disk EXCEPT ![b] = [disk[b] EXCEPT ![t] = x]],
           x.kind = "entry", x.first = n
    PROVE  \E q \in Labels : Sound(q, p)' /\ q[n] = n
<1> DEFINE q == [o EXCEPT ![n] = n]
<1>1. q \in Labels /\ q[n] = n /\ n # 0 /\ n # Root
  BY LayoutFacts DEF Labels, Sound, Rooted, Cluster, Root
<1>2. \A d \in Cluster : d # n => q[d] = o[d]
  BY DEF Labels
<1> HIDE DEF q
<1>3. \A c \in Cluster, s \in Slots :
        \/ c = b /\ s = t /\ First(c, s)' = n
        \/ ~(c = b /\ s = t) /\ disk'[c][s] = disk[c][s]
  BY DEF First, TypeInv, DeviceTyped
<1>4. \A c \in Cluster, s \in Slots : IsEntry(c, s) =>
        First(c, s) \in Cluster /\ o[First(c, s)] = First(c, s) /\ First(c, s) # Root /\ First(c, s) # n
  BY <1>1 DEF Sound, Rooted, IsEntry, First, TypeInv, DeviceTyped, EntriesTyped
<1>5. Rooted(q)'
  BY <1>1, <1>2, <1>3, <1>4, LayoutFacts DEF Rooted, Sound, IsEntry, First
<1>6. FirstsDistinct'
  BY <1>3, <1>4 DEF FirstsDistinct, Sound, IsEntry, First
<1>7. Linked(q, p)'
  BY <1>1, <1>2, LayoutFacts DEF Linked, Sound
<1>8. Unshared(q)'
  BY <1>1, <1>2, LayoutFacts DEF Unshared, Sound
<1> QED  BY <1>1, <1>5, <1>6, <1>7, <1>8 DEF Sound

LEMMA ChainCreate == TypeInv /\ ChainInv /\ (Dirent \/ Dots) => ChainInv'
<1> SUFFICES ASSUME TypeInv, NEW o \in Labels, NEW p \in Ranks, Sound(o, p), Holds(o),
                    Dirent \/ Dots
             PROVE  \E q \in Labels, r \in Ranks : Sound(q, r)' /\ Holds(q)'
  BY DEF ChainInv
<1>1. CASE Dirent
  <2> DEFINE e == Entry(nm, new, op = "mkdir")
             x == [disk[ent[1]] EXCEPT ![ent[2]] = e]
  <2>1. /\ ent[1] \in Cluster /\ ent[2] \in Slots /\ new \in Cluster
        /\ o[new] = 0 /\ fat[new] = EOC
    BY <1>1, LocationParts DEF Dirent, Holds, TypeInv, LocalsTyped
  <2>2. PICK w \in SectorWrites(ent[1]) :
          /\ WriteSector(w, ent[1], x)
          /\ \/ w.ok /\ pc' = "loop" /\ first' = new
             \/ w.ok /\ pc' = "dots"
             \/ ~w.ok /\ Return("failed")
    BY <1>1 DEF Dirent
  <2>3. CASE w.done
    <3>1. fat' = fat /\ disk' = [disk EXCEPT ![ent[1]] = x]
      BY <2>2, <2>3 DEF WriteSector, DiskAfter
    <3>2. e.kind = "entry" /\ e.first = new
      BY DEF Entry
    <3> HIDE DEF e
    <3>3. PICK q \in Labels : Sound(q, p)' /\ q[new] = new
      BY <2>1, <3>1, <3>2, EntrySound
    <3>4. Return("failed") => Holds(q)'
      BY <3>3, ReturnHolds DEF Sound, Rooted
    <3>5. pc' = "loop" /\ first' = new => Holds(q)'
      BY <3>3 DEF Holds, Extending, Writing
    <3>6. pc' = "dots" => Holds(q)'
      BY DEF Holds, Extending, Writing
    <3> HIDE DEF x
    <3> QED  BY <2>2, <3>3, <3>4, <3>5, <3>6
  <2>4. CASE ~w.done
    <3>1. UNCHANGED device /\ ~w.ok
      BY <2>2, <2>4 DEF WriteSector, DiskAfter, device, SectorWrites, FatWrites,
         Stored, Unsure, Refused
    <3> HIDE DEF x
    <3> QED  BY <2>2, <3>1, SoundSame, ReturnHolds DEF Sound, Rooted
  <2> QED  BY <2>3, <2>4
<1>2. CASE Dots
  <2>1. PICK w \in SectorWrites(new), r \in {"ok", "failed"} :
          WriteSector(w, new, DotSector) /\ Return(r)
    BY <1>2 DEF Dots
  <2>2. \A s \in Slots : DotSector[s].kind # "entry"
    BY DEF DotSector, Zero, Dot, Mark
  <2>3. fat' = fat /\ EntriesKept
    BY <2>1, <2>2, SectorKeeps DEF TypeInv, LocalsTyped
  <2> QED  BY <2>1, <2>3, SoundKept, ReturnHolds DEF Sound, Rooted
<1> QED  BY <1>1, <1>2

LEMMA ChainWrite ==
    TypeInv /\ ChainInv /\ (\/ LoopHead \/ SeekHop \/ SeekExtend \/ WriteData \/ Finish
                            \/ ReadData)
      => ChainInv'
<1> SUFFICES ASSUME TypeInv, NEW o \in Labels, NEW p \in Ranks, Sound(o, p), Holds(o),
                    \/ LoopHead \/ SeekHop \/ SeekExtend \/ WriteData \/ Finish
                    \/ ReadData
             PROVE  Sound(o, p)' /\ Holds(o)'
  BY DEF ChainInv
<1>1. first \in Cluster /\ cur \in Cluster
  BY DEF TypeInv, LocalsTyped
<1>2. CASE LoopHead
  <2>1. o[first] = first
    BY <1>2 DEF LoopHead, Holds, Writing
  <2>2. Live(o, first)
    BY <1>1, <2>1 DEF Live, Cluster
  <2>3. Holds(o)'
    BY <1>2, <2>1, <2>2, ReturnHolds DEF LoopHead, Holds, Live, Extending, Writing, Sound, Rooted
  <2> QED  BY <1>2, <2>3, SoundSame DEF LoopHead
<1>3. CASE SeekHop
  <2>1. fat[cur] \in Cluster /\ Live(o, fat[cur])
    BY <1>1, <1>3 DEF SeekHop, Chained, Sound, Linked, Live, Holds
  <2>2. Holds(o)'
    BY <1>3, <2>1 DEF SeekHop, Holds, Live, Extending, Writing
  <2> QED  BY <1>3, <2>2, SoundSame DEF SeekHop, device
<1>4. CASE SeekExtend
  <2>1. Holds(o)'
    BY <1>4 DEF SeekExtend, Holds, Live, Extending, Writing, device, scan, file
  <2> QED  BY <1>4, <2>1, SoundSame DEF SeekExtend, device
<1>5. CASE WriteData
  <2>1. PICK w \in SectorWrites(cur) : WriteSector(w, cur, Filled(cur))
    BY <1>5 DEF WriteData
  <2>2. \A s \in Slots : Filled(cur)[s].kind = "entry" => Filled(cur)[s] = disk[cur][s]
    BY DEF Filled, Data, Mark
  <2>3. fat' = fat /\ EntriesKept
    BY <1>1, <2>1, <2>2, SectorKeeps DEF IsEntry, First
  <2>4. Holds(o)'
    BY <1>5 DEF WriteData, Holds, Extending, Writing, file, claim
  <2> QED  BY <2>3, <2>4, SoundKept
<1>6. CASE Finish
  <2> DEFINE u == Resized(disk[ent[1]][ent[2]], fpos)
             x == [disk[ent[1]] EXCEPT ![ent[2]] = u]
  <2>1. ent[1] \in Cluster /\ ent[2] \in Slots
    BY LocationParts DEF TypeInv, LocalsTyped
  <2>2. u.kind = disk[ent[1]][ent[2]].kind /\ u.first = disk[ent[1]][ent[2]].first
    <3>1. disk[ent[1]][ent[2]] \in Unit /\ fpos \in 0 .. MaxLen
      BY <2>1 DEF TypeInv, DeviceTyped, LocalsTyped
    <3> QED  BY <3>1, Resizing
  <2>3. \A s \in Slots : x[s].kind = "entry" =>
          IsEntry(ent[1], s) /\ x[s].first = First(ent[1], s)
    <3> HIDE DEF u
    <3> QED  BY <2>1, <2>2 DEF IsEntry, First, TypeInv, DeviceTyped
  <2>4. fat' = fat /\ EntriesKept
    <3>1. CASE UNCHANGED device
      BY <3>1 DEF device, EntriesKept, IsEntry, First
    <3>2. CASE \E w \in SectorWrites(ent[1]) : WriteSector(w, ent[1], x)
      <4> HIDE DEF x
      <4> QED  BY <2>1, <2>3, <3>2, SectorKeeps
    <3> QED  BY <1>6, <3>1, <3>2 DEF Finish
  <2>5. Holds(o)'
    BY <1>6, ReturnHolds DEF Finish, Sound, Rooted
  <2> QED  BY <2>4, <2>5, SoundKept
<1>7. CASE ReadData /\ hops = 0 /\ cur \in Backed
  <2>1. o[first] = first
    BY <1>7 DEF ReadData, Holds, Writing
  <2>2. Holds(o)'
    BY <1>7, <2>1 DEF ReadData, Holds, Extending, Writing
  <2> QED  BY <1>7, <2>2, SoundSame DEF ReadData, device
<1>8. CASE ReadData /\ ~(hops = 0 /\ cur \in Backed)
  BY <1>8, SoundSame, ReturnHolds DEF ReadData, Sound, Rooted
<1> QED  BY <1>2, <1>3, <1>4, <1>5, <1>6, <1>7, <1>8

\* ls holds nothing.
LEMMA ChainList == TypeInv /\ ChainInv /\ (ListNext \/ ListEnd) => ChainInv'
<1> SUFFICES ASSUME NEW o \in Labels, NEW p \in Ranks, Sound(o, p), ListNext \/ ListEnd
             PROVE  Sound(o, p)' /\ Holds(o)'
  BY DEF ChainInv
<1>1. UNCHANGED device
  BY DEF ListNext, ListEnd, device
<1>2. ListNext => Holds(o)'
  BY DEF ListNext, Holds, Extending, Writing
<1>3. ListEnd => Holds(o)'
  BY ReturnHolds DEF ListEnd, Sound, Rooted
<1>4. Holds(o)'
  BY <1>2, <1>3
<1> QED  BY <1>1, <1>4, SoundSame

LEMMA ChainEmpty == TypeInv /\ ChainInv /\ (NotEmpty \/ EmptyNext \/ EmptyYes) => ChainInv'
<1> SUFFICES ASSUME TypeInv, NEW o \in Labels, NEW p \in Ranks, Sound(o, p), Holds(o),
                    NotEmpty \/ EmptyNext \/ EmptyYes
             PROVE  Sound(o, p)' /\ Holds(o)'
  BY DEF ChainInv
<1>1. SUFFICES Holds(o)'
  BY SoundSame DEF NotEmpty, EmptyNext, EmptyYes, device
<1>2. CASE NotEmpty
  BY <1>2, ReturnHolds DEF NotEmpty, Sound, Rooted
<1>3. CASE EmptyNext \/ EmptyYes
  <2>1. /\ pc = "empty" /\ pc' \in {"empty", "delete"} /\ disk' = disk
        /\ ent' = ent /\ first' = first
    BY <1>3 DEF EmptyNext, EmptyYes, device, scan, file
  <2> QED  BY <2>1 DEF Holds, Extending, Writing, IsEntry, First
<1> QED  BY <1>2, <1>3

LEMMA ChainDelete == TypeInv /\ ChainInv /\ Delete => ChainInv'
<1> SUFFICES ASSUME TypeInv, NEW o \in Labels, NEW p \in Ranks, Sound(o, p), Holds(o), Delete
             PROVE  Sound(o, p)' /\ Holds(o)'
  BY DEF ChainInv
<1> DEFINE x == [disk[ent[1]] EXCEPT ![ent[2]] = Deleted]
<1>1. /\ ent[1] \in Cluster /\ ent[2] \in Slots /\ first \in Cluster
      /\ IsEntry(ent[1], ent[2]) /\ First(ent[1], ent[2]) = first
  BY LocationParts DEF Delete, Holds, TypeInv, LocalsTyped
<1>2. \A s \in Slots : x[s].kind = "entry" => s # ent[2] /\ x[s] = disk[ent[1]][s]
  BY <1>1 DEF Deleted, Mark, TypeInv, DeviceTyped
<1>3. PICK w \in SectorWrites(ent[1]) :
        /\ WriteSector(w, ent[1], x)
        /\ \/ w.ok /\ pc' = "free" /\ cur' = first
           \/ ~w.ok /\ Return("failed")
  BY DEF Delete
<1>4. fat' = fat /\ EntriesKept
  <2> HIDE DEF x
  <2> QED  BY <1>1, <1>2, <1>3, SectorKeeps DEF IsEntry, First
<1>5. Sound(o, p)'
  BY <1>4, SoundKept
<1>6. CASE w.ok /\ pc' = "free" /\ cur' = first
  <2>1. w.done
    BY <1>6 DEF SectorWrites, FatWrites, Stored, Unsure, Refused
  <2>2. \A b \in Cluster, t \in Slots :
          IsEntry(b, t)' => ~(b = ent[1] /\ t = ent[2]) /\ IsEntry(b, t) /\ First(b, t)' = First(b, t)
    <3>1. disk'[ent[1]] = x
      <4> HIDE DEF x
      <4> QED  BY <1>1, <1>3, <2>1 DEF WriteSector, DiskAfter, TypeInv, DeviceTyped
    <3>2. \A b \in Cluster, t \in Slots :
            b = ent[1] /\ t = ent[2] => disk'[b][t].kind # "entry"
      BY <1>1, <1>2, <3>1
    <3> QED  BY <1>4, <3>2 DEF EntriesKept, IsEntry
  <2>3. o[first] = first /\ first # Root /\ first # 0
    BY <1>1 DEF Sound, Rooted, Cluster
  <2>4. \A b \in Cluster, t \in Slots : IsEntry(b, t)' => First(b, t)' # first
    BY <1>1, <2>2 DEF Sound, FirstsDistinct
  <2>5. \A c \in Cluster : o[c] # 0 => fat[c] # first
    BY <1>1, <2>3 DEF Sound, Linked
  <2>6. Dying(o)'
    BY <1>4, <1>6, <2>3, <2>4, <2>5 DEF Dying
  <2>7. Holds(o)'
    BY <1>6, <2>6 DEF Holds, Extending, Writing
  <2> QED  BY <1>5, <2>7
<1> QED  BY <1>3, <1>5, <1>6, ReturnHolds DEF Sound, Rooted

\* The cluster loses its label; its link, if any, is the next to go.
LEMMA ChainFree == TypeInv /\ ChainInv /\ Free => ChainInv'
<1> SUFFICES ASSUME TypeInv, NEW o \in Labels, NEW p \in Ranks, Sound(o, p), Holds(o), Free
             PROVE  \E q \in Labels, r \in Ranks : Sound(q, r)' /\ Holds(q)'
  BY DEF ChainInv
<1>1. cur \in Cluster /\ Dying(o)
  BY DEF Free, Holds, TypeInv, LocalsTyped
<1>2. PICK q \in Labels : q[cur] = 0 /\ \A c \in Cluster : c # cur => q[c] = o[c]
  <2>1. [o EXCEPT ![cur] = 0] \in Labels
    BY <1>1 DEF Labels
  <2> QED  BY <1>1, <2>1 DEF Labels
<1>3. disk' = disk /\ \A c \in Cluster : c # cur => fat'[c] = fat[c]
  BY <1>1 DEF Free, WriteFat, FatAfter, TypeInv, DeviceTyped
<1>4. Rooted(q)' /\ FirstsDistinct'
  <2>1. \A c \in Cluster, s \in Slots : IsEntry(c, s) => First(c, s) \in Cluster
    BY DEF IsEntry, First, TypeInv, DeviceTyped, EntriesTyped
  <2> QED  BY <1>1, <1>2, <1>3, <2>1, LayoutFacts
           DEF Sound, Rooted, FirstsDistinct, Dying, IsEntry, First, Root, Cluster
<1>5. Linked(q, p)' /\ Unshared(q)'
  BY <1>1, <1>2, <1>3 DEF Sound, Linked, Unshared, Dying
<1>6. Sound(q, p)'
  BY <1>4, <1>5 DEF Sound
<1>7. CASE Chained(cur) /\ cur' = fat[cur] /\ pc' = pc
  <2>1. fat[cur] \in Cluster /\ fat[cur] # cur /\ o[fat[cur]] = o[cur]
    BY <1>1, <1>7 DEF Chained, Sound, Linked, Dying, Ranks
  <2>2. q[cur'] = o[cur]
    BY <1>2, <1>7, <2>1
  <2>3. \A c \in Cluster : q[c] # 0 => fat'[c] # cur'
    BY <1>1, <1>2, <1>3, <1>7, <2>1 DEF Sound, Unshared, Dying
  <2>4. Dying(q)'
    BY <1>1, <1>3, <2>2, <2>3 DEF Dying, IsEntry, First
  <2>5. pc' = "free"
    BY <1>7 DEF Free
  <2>6. Holds(q)'
    BY <2>4, <2>5 DEF Holds, Extending, Writing
  <2> QED  BY <1>2, <1>6, <2>6
<1>8. CASE Return("ok")
  <2>1. q[Root] = Root
    BY <1>6 DEF Sound, Rooted
  <2> QED  BY <1>2, <1>6, <1>8, <2>1, ReturnHolds
<1> QED  BY <1>7, <1>8 DEF Free

-----------------------------------------------------------------------------
LEMMA ChainStep == TypeInv /\ ChainInv /\ [Next]_vars => ChainInv'
<1> SUFFICES ASSUME TypeInv, ChainInv, [Next]_vars PROVE ChainInv'
  OBVIOUS
<1>1. CASE Start
  BY <1>1, ChainStart
<1>2. CASE Step
  BY <1>2, ChainFind, ChainText, ChainFindFree, ChainLink, ChainAlloc, ChainCreate, ChainWrite,
     ChainList, ChainEmpty, ChainDelete, ChainFree DEF Step
<1>3. CASE Crash
  BY <1>3, SoundSame, ReturnHolds DEF Crash, ChainInv, Sound, Rooted
<1>4. CASE UNCHANGED vars
  <2> SUFFICES ASSUME NEW o \in Labels, NEW p \in Ranks, Sound(o, p), Holds(o)
               PROVE  Sound(o, p)' /\ Holds(o)'
    BY DEF ChainInv
  <2>1. Holds(o)'
    BY <1>4 DEF vars, device, walk, scan, claim, file, Holds, Live, Extending, Writing,
       Dying, IsEntry, First
  <2> QED  BY <1>4, <2>1, SoundSame DEF vars
<1> QED  BY <1>1, <1>2, <1>3, <1>4 DEF Next

\* No chain that starts at the root or at an entry is broken by a free
\* cluster, runs in a circle or shares a cluster with another one, after any
\* sequence of commands, power failures and failed writes.
THEOREM ChainsAlwaysSound == Spec => []ChainsSound
<1>1. Init => IInv
  BY TypeInit, ChainInit DEF IInv
<1>2. IInv /\ [Next]_vars => IInv'
  BY TypeStep, ChainStep DEF IInv
<1> QED  BY <1>1, <1>2, ChainInvSound, PTL DEF Spec
=============================================================================
