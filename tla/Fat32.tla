------------------------------- MODULE Fat32 -------------------------------
(***************************************************************************)
(* The FAT32 driver of RealNetOS (fs/fat32.c) below the VFS calls the      *)
(* kernel shell makes (kernel/ksh.c, fs/vfs.c) and above the block device  *)
(* (block/sd_qemu.c, block/sd_rpi.c).                                      *)
(*                                                                         *)
(* One sector access that writes is one step, so that a power failure may  *)
(* fall between any two of them; a loop over the clusters of a chain takes *)
(* one step per cluster.  The machine is single threaded here (the shell   *)
(* runs every command to its end), so steps of two commands never mix.     *)
(*                                                                         *)
(* A cluster is one sector of SlotsPerCluster units of 32 bytes: one unit  *)
(* holds one directory entry, or that much of a file's data.  Lengths,     *)
(* sizes and file positions are counted in units.                          *)
(*                                                                         *)
(* Nothing marks a sector as one of a directory: whatever it holds is read *)
(* as entries.  A cluster that was handed out without being cleared may    *)
(* hold text, and a unit of text is then found, skipped or counted as the  *)
(* bytes of that text come to be read (Look).                              *)
(*                                                                         *)
(* A definition introduced as "Mutant of X" is X with a plausible mistake; *)
(* nothing uses it.  It takes the place of X to show that a property can   *)
(* fail.                                                                   *)
(***************************************************************************)
EXTENDS Integers, FiniteSets

CONSTANTS
    LastCluster,      \* clusters 2 .. LastCluster have an entry in the FAT
    Backed,           \* those whose sector lies on the device
    SlotsPerCluster,  \* units in a cluster
    Names, NoName,    \* valid 8.3 names, and the absence of one
    TestName,         \* the file the formatted image holds (sd_qemu.c: TEST)
    MaxLen, Lengths,  \* bounds: the units a write command may carry
    Look,             \* what unit s of the text of a file n reads as, taken
                      \* for a unit of a directory: Look[n][s]
    Faults            \* what may go wrong, a subset of FaultKinds

FaultKinds == {"crash", "write"}

Cluster == 2 .. LastCluster
Slots   == 0 .. SlotsPerCluster - 1
FREE    == 0                \* a FAT entry of 0: the cluster is free
EOC     == 2^28 - 1         \* 0x0FFFFFFF: the last cluster of a chain
Root        == 2            \* root_cluster of the boot sector
TestCluster == 3            \* the cluster of /TEST in the formatted image

ASSUME LayoutAssumption ==
    /\ EOC \in Nat
    /\ LastCluster \in 3 .. EOC - 8
    /\ SlotsPerCluster \in Nat \ {0, 1}
    /\ Backed \subseteq Cluster
    /\ {Root, TestCluster} \subseteq Backed

ASSUME DataAssumption ==
    /\ TestName \in Names
    /\ NoName \notin Names
    /\ MaxLen \in Nat \ {0}
    /\ Lengths \subseteq 1 .. MaxLen
    /\ Faults \subseteq FaultKinds

-----------------------------------------------------------------------------
(* What a unit of a cluster can hold. *)

Unit == [kind : {"zero", "deleted", "dot", "data", "entry"},
         name : Names \cup {NoName}, first : Cluster \cup {0},
         size : 0 .. MaxLen, isDir : BOOLEAN]

Mark(k, n) == [kind |-> k, name |-> n, first |-> 0, size |-> 0, isDir |-> FALSE]
Zero      == Mark("zero", NoName)     \* first byte 0x00: never used
\* Mutant of Deleted: unlink writes 0x00 over the first byte.
DeletedAsZero == Mark("zero", NoName)
Deleted   == Mark("deleted", NoName)  \* first byte 0xE5
Dot       == Mark("dot", NoName)      \* the "." and ".." entries of a directory
Data(n)   == Mark("data", n)         \* bytes written to a file n

\* Mutant of Entry: the directory attribute is forgotten.
EntryAsFile(n, c, d) == [kind |-> "entry", name |-> n, first |-> c, size |-> 0,
                         isDir |-> FALSE]
Entry(n, c, d) == [kind |-> "entry", name |-> n, first |-> c, size |-> 0,
                   isDir |-> d]

Resized(x, z) == [x EXCEPT !.size = z]

\* What text can read as: an entry that was removed (0xE5), one that every loop
\* passes over (attribute 0x08), or an entry of any name.  It has no NUL bytes,
\* and where an entry has its first cluster it names none of the volume.
TextLooks == {x \in Unit : x.kind \in {"deleted", "dot", "entry"} /\ x.first = 0}

ASSUME TextAssumption == Look \in [Names -> [Slots -> TextLooks]]

ZeroSector == [s \in Slots |-> Zero]
DotSector  == [s \in Slots |-> IF s < 2 THEN Dot ELSE Zero]

Location == Cluster \X Slots
NoLoc    == <<Root, 0>>     \* the value of ent while it means nothing

-----------------------------------------------------------------------------
VARIABLES
    fat,     \* the FAT on the device
    disk,    \* the data clusters on the device
    pc,      \* the point the running command has reached
    op,      \* the running command
    nm,      \* the name it is about
    dir,     \* first cluster of the directory vfs_walk has reached
    up,      \* its vnode's parent_cluster
    cur,     \* the cluster a chain loop has reached
    ent,     \* dirent_lba, dirent_offset: where the entry is
    new,     \* the cluster fat_alloc_cluster is handing out
    ret,     \* where fat_alloc_cluster returns to
    first,   \* the node's first_cluster
    hops,    \* links fat_get_cluster_by_index still has to follow
    fpos,    \* f_pos
    size,    \* the node's size
    len,     \* units the write or the read has left (remaining)
    out      \* what the shell reported last

device  == <<fat, disk>>
command == <<op, nm>>
walk    == <<dir, up>>
scan    == <<cur, ent>>
claim   == <<new, ret>>
file    == <<first, hops, fpos, size, len>>
vars    == <<device, pc, command, walk, scan, claim, file, out>>

Ops  == {"none", "walk", "write", "mkdir", "rm", "cat", "ls"}
Rets == {"dirlink", "dirent", "filelink"}
PCs  == {"idle", "find", "findfree", "alloc", "zero", "dots", "loop", "seek",
         "finish", "empty", "delete", "free", "list"} \cup Rets

TypeOK ==
    /\ fat \in [Cluster -> Cluster \cup {FREE, EOC}]
    /\ disk \in [Cluster -> [Slots -> Unit]]
    /\ pc \in PCs
    /\ op \in Ops
    /\ nm \in Names \cup {NoName}
    /\ {dir, up, cur, new, first} \subseteq Cluster
    /\ ent \in Location
    /\ ret \in Rets
    /\ hops \in Nat
    /\ {fpos, size, len} \subseteq 0 .. MaxLen
    /\ out \in {"none", "ok", "failed"}

\* fat32_format_fake_sd: the root directory with the one file TEST in it.
Init ==
    /\ fat = [c \in Cluster |-> IF c \in {Root, TestCluster} THEN EOC ELSE FREE]
    /\ disk = [c \in Cluster |->
                 IF c = Root
                 THEN [ZeroSector EXCEPT
                         ![0] = Resized(Entry(TestName, TestCluster, FALSE), 1)]
                 ELSE IF c = TestCluster
                 THEN [ZeroSector EXCEPT ![0] = Data(TestName)]
                 ELSE ZeroSector]
    /\ pc = "idle" /\ op = "none" /\ nm = NoName
    /\ dir = Root /\ up = Root
    /\ cur = Root /\ ent = NoLoc
    /\ new = Root /\ ret = "dirent"
    /\ first = Root /\ hops = 0 /\ fpos = 0 /\ size = 0 /\ len = 0
    /\ out = "none"

-----------------------------------------------------------------------------
(* Returning, and the outcomes of a sector write. *)

\* The command is over, and with it the life of every local variable.
Return(o) ==
    /\ pc' = "idle" /\ op' = "none" /\ nm' = NoName
    /\ dir' = Root /\ up' = Root
    /\ cur' = Root /\ ent' = NoLoc
    /\ new' = Root /\ ret' = "dirent"
    /\ first' = Root /\ hops' = 0 /\ fpos' = 0 /\ size' = 0 /\ len' = 0
    /\ out' = o

\* sd_write_block returns 0 and the sector is stored, or it returns -1: after
\* a timeout on the bus the card may or may not have stored the sector, and
\* past the end of the device nothing is stored.
Stored  == [ok |-> TRUE, done |-> TRUE]
Unsure  == [ok |-> FALSE, done |-> TRUE]
Refused == [ok |-> FALSE, done |-> FALSE]

FatWrites == {Stored} \cup (IF "write" \in Faults THEN {Unsure, Refused} ELSE {})
SectorWrites(c) == IF c \in Backed THEN FatWrites ELSE {Refused}

FatAfter(w, c, v)  == IF w.done THEN [fat EXCEPT ![c] = v] ELSE fat
DiskAfter(w, c, x) == IF w.done THEN [disk EXCEPT ![c] = x] ELSE disk

\* fat_write_entry and the block device, for a file's or directory's sector.
WriteFat(w, c, v) ==
    /\ w \in FatWrites
    /\ fat' = FatAfter(w, c, v)
    /\ UNCHANGED disk

WriteSector(w, c, x) ==
    /\ w \in SectorWrites(c)
    /\ disk' = DiskAfter(w, c, x)
    /\ UNCHANGED fat

-----------------------------------------------------------------------------
(* Scanning one cluster of a directory. *)

\* Mutant of Chained: the end-of-chain mark is not told from a link.
ChainedOrLast(c) == fat[c] # FREE
Chained(c)   == fat[c] \in Cluster
SawZero(c)   == \E s \in Slots : disk[c][s].kind = "zero"
\* The units a loop looks at before the first 0x00 byte stops it.
Scanned(c)   == {s \in Slots : \A t \in 0 .. s : disk[c][t].kind # "zero"}
\* The unit as it is read: text passes for whatever its bytes say.
IsText(c, s) == disk[c][s].kind = "data"
Read(c, s)   == IF IsText(c, s) THEN Look[disk[c][s].name][s] ELSE disk[c][s]
Named(c, s, n) == Read(c, s).kind = "entry" /\ Read(c, s).name = n
\* Mutant of Hits: directories do not count as found.
HitsFilesOnly(c, n) == {s \in Scanned(c) : Named(c, s, n) /\ ~Read(c, s).isDir}
Hits(c, n)   == {s \in Scanned(c) : Named(c, s, n)}
Unused(c)    == {s \in Slots : Read(c, s).kind \in {"zero", "deleted"}}
Occupants(c) == {s \in Scanned(c) : Read(c, s).kind = "entry"}
Least(s, S)  == s \in S /\ \A t \in S : s <= t
\* The loop goes on to the next cluster: no 0x00 byte, and the chain goes on.
ScanGoesOn(c) == c \in Backed /\ ~SawZero(c) /\ Chained(c)

-----------------------------------------------------------------------------
(* The shell starts a command; vfs_walk resolves its path. *)

\* vfs_walk, a component that is not the last: lookup in the current vnode.
WalkInto(n) ==
    /\ pc = "idle"
    /\ pc' = "find" /\ op' = "walk" /\ nm' = n
    /\ cur' = dir
    /\ out' = "none"
    /\ UNCHANGED <<device, walk, ent, claim, file>>

\* The component "..": the node fat32_lookup makes from parent_cluster, whose
\* own parent is always taken to be the root.
WalkUp ==
    /\ pc = "idle"
    /\ dir' = up /\ up' = Root
    /\ out' = "none"
    /\ UNCHANGED <<device, pc, command, scan, claim, file>>

\* The last component: write with l units of text, mkdir, rm, or cat.
Command(o, n, l) ==
    /\ pc = "idle"
    /\ pc' = "find" /\ op' = o /\ nm' = n /\ len' = l
    /\ cur' = dir
    /\ out' = "none"
    /\ UNCHANGED <<device, walk, ent, claim, first, hops, fpos, size>>

\* ls of the directory that was reached (fat32_readdir).
List ==
    /\ pc = "idle"
    /\ pc' = "list" /\ op' = "ls" /\ cur' = dir
    /\ out' = "none"
    /\ UNCHANGED <<device, nm, walk, ent, claim, file>>

-----------------------------------------------------------------------------
(* fat_dir_find: the entry called nm in the directory dir. *)

\* What the caller does with the entry x it found at unit s.
FoundBy(x, s) ==
    \/ /\ op = "walk" /\ x.isDir
       /\ pc' = "idle" /\ op' = "none" /\ nm' = NoName
       /\ dir' = x.first /\ up' = dir
       /\ cur' = Root
       /\ UNCHANGED <<ent, claim, file, out>>
    \/ /\ op \in {"write", "cat"} /\ ~x.isDir          \* vfs_open
       /\ pc' = "loop"
       /\ ent' = <<cur, s>> /\ first' = x.first /\ size' = x.size /\ fpos' = 0
       /\ len' = IF op = "cat" THEN x.size ELSE len
       /\ UNCHANGED <<command, walk, cur, claim, hops, out>>
    \/ /\ op = "rm"
       /\ ent' = <<cur, s>> /\ first' = x.first /\ cur' = x.first
       /\ pc' = IF x.isDir THEN "empty" ELSE "delete"
       /\ UNCHANGED <<command, walk, claim, hops, fpos, size, len, out>>
    \/ /\ \/ op = "walk" /\ ~x.isDir        \* no lookup in a file
          \/ op = "write" /\ x.isDir        \* no write in a directory
          \/ op = "mkdir"                   \* the name is taken
       /\ Return("failed")
    \/ op = "cat" /\ x.isDir /\ Return("ok")  \* an empty line

FindHit ==
    /\ pc = "find" /\ cur \in Backed
    /\ \E s \in Slots : /\ Least(s, Hits(cur, nm)) /\ ~IsText(cur, s)
                        /\ FoundBy(disk[cur][s], s)
    /\ UNCHANGED device

\* What was found is text that passes for x.  Its first cluster is not on the
\* volume: a loop over that chain has nothing to look at (it is 0, or no less
\* than the end mark) or cannot read what it names.
TextFoundBy(x) ==
    \/ /\ op = "walk" /\ x.isDir                 \* the next component is ".."
       /\ pc' = "idle" /\ op' = "none" /\ nm' = NoName
       /\ up' = Root
       /\ cur' = Root
       /\ UNCHANGED <<dir, ent, claim, file, out>>
    \/ /\ \/ op = "walk"
          \/ op = "rm" /\ x.isDir                \* fat_dir_is_empty says no
          \/ op = "write" /\ x.isDir
          \/ op = "mkdir"
       /\ Return("failed")
    \/ /\ \/ op = "walk" /\ x.isDir              \* ls of it
          \/ op = "write" /\ ~x.isDir            \* after 0 bytes
          \/ op = "cat"
       /\ Return("ok")

FindText ==
    /\ pc = "find" /\ cur \in Backed
    /\ \E s \in Slots : /\ Least(s, Hits(cur, nm)) /\ IsText(cur, s)
                        /\ TextFoundBy(Read(cur, s))
    /\ UNCHANGED device

\* rm of such a file, or of a directory that fat_dir_is_empty finds empty: the
\* unit is marked, and fat_free_chain frees nothing.
DeleteText ==
    /\ pc = "find" /\ cur \in Backed /\ op = "rm"
    /\ \E s \in Slots, w \in SectorWrites(cur) :
         /\ Least(s, Hits(cur, nm)) /\ IsText(cur, s)
         /\ WriteSector(w, cur, [disk[cur] EXCEPT ![s] = Deleted])
         /\ Return(IF w.ok THEN "ok" ELSE "failed")

FindNext ==
    /\ pc = "find" /\ ScanGoesOn(cur) /\ Hits(cur, nm) = {}
    /\ cur' = fat[cur]
    /\ UNCHANGED <<device, pc, command, walk, ent, claim, file, out>>

\* Also the answer when a sector cannot be read.  write goes on to vfs_create,
\* whose own walk and fat_dir_find come to the same answer.
FindMiss ==
    /\ pc = "find" /\ ~ScanGoesOn(cur)
    /\ cur \in Backed => Hits(cur, nm) = {}
    /\ \/ /\ op \in {"walk", "rm", "cat"} /\ Return("failed")
       \/ /\ op \in {"write", "mkdir"}
          /\ pc' = "findfree" /\ cur' = dir
          /\ UNCHANGED <<command, walk, ent, claim, file, out>>
    /\ UNCHANGED device

-----------------------------------------------------------------------------
(* fat_dir_find_free: a place for the new entry, extending the directory. *)

FreeSlot ==
    /\ pc = "findfree" /\ cur \in Backed
    /\ \E s \in Slots : Least(s, Unused(cur)) /\ ent' = <<cur, s>>
    /\ pc' = "alloc" /\ ret' = "dirent"
    /\ UNCHANGED <<device, command, walk, cur, new, file, out>>

\* Mutant of FreeNext: the loop starts over with the first cluster.
FreeNextRestart ==
    /\ pc = "findfree" /\ cur \in Backed /\ Unused(cur) = {} /\ Chained(cur)
    /\ cur' = dir
    /\ UNCHANGED <<device, pc, command, walk, ent, claim, file, out>>

FreeNext ==
    /\ pc = "findfree" /\ cur \in Backed /\ Unused(cur) = {} /\ Chained(cur)
    /\ cur' = fat[cur]
    /\ UNCHANGED <<device, pc, command, walk, ent, claim, file, out>>

FreeExtend ==
    /\ pc = "findfree" /\ cur \in Backed /\ Unused(cur) = {} /\ ~Chained(cur)
    /\ pc' = "alloc" /\ ret' = "dirlink"
    /\ UNCHANGED <<device, command, walk, scan, new, file, out>>

FreeError ==
    /\ pc = "findfree" /\ cur \notin Backed
    /\ Return("failed")
    /\ UNCHANGED device

\* The new cluster is linked behind the last one and read back.
DirLink ==
    /\ pc = "dirlink"
    /\ \E w \in FatWrites :
         /\ WriteFat(w, cur, new)
         /\ \/ /\ w.ok /\ new \in Backed
               /\ ent' = <<new, 0>> /\ pc' = "alloc" /\ ret' = "dirent"
               /\ UNCHANGED <<command, walk, cur, new, file, out>>
            \/ ~(w.ok /\ new \in Backed) /\ Return("failed")

-----------------------------------------------------------------------------
(* fat_alloc_cluster. *)

\* Mutant of FreeClusters: a cluster that is linked on passes for free.
NotLastClusters == {c \in Cluster : fat[c] # EOC}
FreeClusters == {c \in Cluster : fat[c] = FREE}

\* It returns 0: a write breaks off, create and mkdir fail.
AllocFailed ==
    \/ /\ ret = "filelink"
       /\ pc' = "finish"
       /\ UNCHANGED <<command, walk, scan, claim, file, out>>
    \/ ret # "filelink" /\ Return("failed")

AllocFull ==
    /\ pc = "alloc" /\ FreeClusters = {}
    /\ AllocFailed
    /\ UNCHANGED device

AllocTake ==
    /\ pc = "alloc"
    /\ \E c \in Cluster, w \in FatWrites :
         /\ Least(c, FreeClusters)
         /\ WriteFat(w, c, EOC)
         /\ \/ /\ w.ok
               /\ pc' = "zero" /\ new' = c
               /\ UNCHANGED <<command, walk, scan, ret, file, out>>
            \/ ~w.ok /\ AllocFailed

\* Mutant of AllocZero: the cluster is handed out as it was left.
AllocUncleared ==
    /\ pc = "zero"
    /\ pc' = ret
    /\ UNCHANGED <<device, command, walk, scan, claim, file, out>>

\* The result of the write that clears the sector is not looked at.
AllocZero ==
    /\ pc = "zero"
    /\ \E w \in SectorWrites(new) : WriteSector(w, new, ZeroSector)
    /\ pc' = ret
    /\ UNCHANGED <<command, walk, scan, claim, file, out>>

-----------------------------------------------------------------------------
(* fat32_create and fat32_mkdir, once the new cluster is there. *)

Dirent ==
    /\ pc = "dirent"
    /\ \E w \in SectorWrites(ent[1]) :
         /\ WriteSector(w, ent[1],
                [disk[ent[1]] EXCEPT ![ent[2]] = Entry(nm, new, op = "mkdir")])
         /\ \/ /\ w.ok /\ op = "write"
               /\ pc' = "loop" /\ first' = new /\ size' = 0 /\ fpos' = 0
               /\ UNCHANGED <<command, walk, scan, claim, hops, len, out>>
            \/ /\ w.ok /\ op = "mkdir"
               /\ pc' = "dots"
               /\ UNCHANGED <<command, walk, scan, claim, file, out>>
            \/ ~w.ok /\ Return("failed")

\* mkdir writes "." and ".." last, when the entry is already in place.
Dots ==
    /\ pc = "dots"
    /\ \E w \in SectorWrites(new) :
         /\ WriteSector(w, new, DotSector)
         /\ Return(IF w.ok THEN "ok" ELSE "failed")

-----------------------------------------------------------------------------
(* fat32_write, and fat32_read, which cat calls until the file is at its end. *)

LoopHead ==
    /\ pc = "loop"
    /\ \/ /\ len > 0
          /\ pc' = "seek" /\ cur' = first /\ hops' = fpos \div SlotsPerCluster
          /\ UNCHANGED <<command, walk, ent, claim, first, fpos, size, len, out>>
       \/ len = 0 /\ op = "cat" /\ Return("ok")
       \/ /\ len = 0 /\ op = "write"
          /\ pc' = "finish"
          /\ UNCHANGED <<command, walk, scan, claim, file, out>>
    /\ UNCHANGED device

\* fat_get_cluster_by_index follows one link ...
SeekHop ==
    /\ pc = "seek" /\ hops > 0 /\ Chained(cur)
    /\ cur' = fat[cur] /\ hops' = hops - 1
    /\ UNCHANGED <<device, pc, command, walk, ent, claim, first, fpos, size, len, out>>

\* ... or extends the chain: allocate, then link.
SeekExtend ==
    /\ pc = "seek" /\ hops > 0 /\ fat[cur] = EOC /\ op = "write"
    /\ pc' = "alloc" /\ ret' = "filelink"
    /\ UNCHANGED <<device, command, walk, scan, new, file, out>>

FileLink ==
    /\ pc = "filelink"
    /\ \E w \in FatWrites :
         /\ WriteFat(w, cur, new)
         /\ \/ /\ w.ok
               /\ pc' = "seek" /\ cur' = new /\ hops' = hops - 1
               /\ UNCHANGED <<command, walk, ent, claim, first, fpos, size, len, out>>
            \/ /\ ~w.ok
               /\ pc' = "finish"
               /\ UNCHANGED <<command, walk, scan, claim, file, out>>

\* Units the cluster at f_pos still takes, and its content with them in.
Room == SlotsPerCluster - (fpos % SlotsPerCluster)
Take == IF len < Room THEN len ELSE Room
Filled(c) == LET off == fpos % SlotsPerCluster
             IN  [s \in Slots |-> IF s \in off .. off + Take - 1 THEN Data(nm)
                                  ELSE disk[c][s]]

WriteData ==
    /\ pc = "seek" /\ hops = 0 /\ op = "write"
    /\ \E w \in SectorWrites(cur) :
         /\ WriteSector(w, cur, Filled(cur))
         /\ \/ /\ w.ok
               /\ pc' = "loop" /\ fpos' = fpos + Take /\ len' = len - Take
               /\ UNCHANGED <<command, walk, scan, claim, first, hops, size, out>>
            \/ /\ ~w.ok
               /\ pc' = "finish"
               /\ UNCHANGED <<command, walk, scan, claim, file, out>>

\* The next piece of the file, as far as the cluster goes.  If the chain is at its
\* end, or the sector cannot be read, cat takes what it has got for the whole file.
ReadData ==
    /\ pc = "seek" /\ op = "cat"
    /\ hops > 0 => fat[cur] = EOC
    /\ IF hops = 0 /\ cur \in Backed
       THEN /\ pc' = "loop" /\ fpos' = fpos + Take /\ len' = len - Take
            /\ UNCHANGED <<command, walk, scan, claim, first, hops, size, out>>
       ELSE Return("ok")
    /\ UNCHANGED device

\* Mutant of Finish: the size counts what the write was asked to store.
FinishAsAsked ==
    /\ pc = "finish"
    /\ \E w \in SectorWrites(ent[1]) :
         WriteSector(w, ent[1], [disk[ent[1]] EXCEPT ![ent[2]] = Resized(@, fpos + len)])
    /\ Return("ok")

\* The entry's size is written last, its result not looked at; the shell says
\* "write: ok" however many units were written.
Finish ==
    /\ pc = "finish"
    /\ \/ /\ fpos > size
          /\ \E w \in SectorWrites(ent[1]) :
               WriteSector(w, ent[1], [disk[ent[1]] EXCEPT ![ent[2]] = Resized(@, fpos)])
       \/ fpos <= size /\ UNCHANGED device
    /\ Return("ok")

-----------------------------------------------------------------------------
(* fat32_unlink. *)

\* fat_dir_is_empty: something found, or a sector that cannot be read.
NotEmpty ==
    /\ pc = "empty"
    /\ cur \in Backed => Occupants(cur) # {}
    /\ Return("failed")
    /\ UNCHANGED device

EmptyNext ==
    /\ pc = "empty" /\ Occupants(cur) = {} /\ ScanGoesOn(cur)
    /\ cur' = fat[cur]
    /\ UNCHANGED <<device, pc, command, walk, ent, claim, file, out>>

EmptyYes ==
    /\ pc = "empty" /\ cur \in Backed /\ Occupants(cur) = {} /\ ~ScanGoesOn(cur)
    /\ pc' = "delete"
    /\ UNCHANGED <<device, command, walk, scan, claim, file, out>>

\* Mutant of Delete: a failed write does not stop the unlink.
DeleteRegardless ==
    /\ pc = "delete"
    /\ \E w \in SectorWrites(ent[1]) :
         WriteSector(w, ent[1], [disk[ent[1]] EXCEPT ![ent[2]] = Deleted])
    /\ pc' = "free" /\ cur' = first
    /\ UNCHANGED <<command, walk, ent, claim, file, out>>

\* The entry goes first ...
Delete ==
    /\ pc = "delete"
    /\ \E w \in SectorWrites(ent[1]) :
         /\ WriteSector(w, ent[1], [disk[ent[1]] EXCEPT ![ent[2]] = Deleted])
         /\ \/ /\ w.ok
               /\ pc' = "free" /\ cur' = first
               /\ UNCHANGED <<command, walk, ent, claim, file, out>>
            \/ ~w.ok /\ Return("failed")

\* Mutant of Free: only the first cluster of the chain is freed.
FreeFirst ==
    /\ pc = "free"
    /\ \E w \in FatWrites : WriteFat(w, cur, FREE)
    /\ Return("ok")

\* ... then fat_free_chain, which reads a link before it clears it and goes on
\* whatever the write returned.
Free ==
    /\ pc = "free"
    /\ \E w \in FatWrites : WriteFat(w, cur, FREE)
    /\ \/ /\ Chained(cur)
          /\ cur' = fat[cur]
          /\ UNCHANGED <<pc, command, walk, ent, claim, file, out>>
       \/ ~Chained(cur) /\ Return("ok")

-----------------------------------------------------------------------------
(* fat32_readdir. *)

ListNext ==
    /\ pc = "list" /\ ScanGoesOn(cur)
    /\ cur' = fat[cur]
    /\ UNCHANGED <<device, pc, command, walk, ent, claim, file, out>>

ListEnd ==
    /\ pc = "list" /\ ~ScanGoesOn(cur)
    /\ Return(IF cur \in Backed THEN "ok" ELSE "failed")
    /\ UNCHANGED device

-----------------------------------------------------------------------------
\* Power fails and the card is mounted again: only the device survives.
Crash ==
    /\ "crash" \in Faults /\ pc # "idle"
    /\ Return("none")
    /\ UNCHANGED device

Start == \/ \E n \in Names : WalkInto(n)
         \/ WalkUp
         \/ \E n \in Names, l \in Lengths : Command("write", n, l)
         \/ \E n \in Names, o \in {"mkdir", "rm", "cat"} : Command(o, n, 0)
         \/ List

\* The running command goes on.
Step == \/ FindHit \/ FindText \/ DeleteText \/ FindNext \/ FindMiss
        \/ FreeSlot \/ FreeNext \/ FreeExtend \/ FreeError \/ DirLink
        \/ AllocFull \/ AllocTake \/ AllocZero
        \/ Dirent \/ Dots
        \/ LoopHead \/ SeekHop \/ SeekExtend \/ FileLink \/ WriteData \/ Finish
        \/ ReadData
        \/ NotEmpty \/ EmptyNext \/ EmptyYes \/ Delete \/ Free
        \/ ListNext \/ ListEnd

Next == Start \/ Step \/ Crash

Spec == Init /\ [][Next]_vars

\* The processor goes on with the command it runs.
FairSpec == Spec /\ WF_vars(Step)

=============================================================================
