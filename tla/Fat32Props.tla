----------------------------- MODULE Fat32Props -----------------------------
(***************************************************************************)
(* What must be true of the volume the driver of module Fat32 keeps.       *)
(***************************************************************************)
EXTENDS Fat32

\* The clusters on the chain that starts at c in the table f: those in every set
\* that holds c and is closed under following links.
Closed(f, S)  == \A x \in S : f[x] \in Cluster => f[x] \in S
ChainIn(f, c) ==
    {d \in Cluster : \A S \in SUBSET (Cluster \ {d}) : c \in S => ~Closed(f, S)}
Chain(c)      == ChainIn(fat, c)

\* Entries are those the driver wrote; text that passes for one is none.
Entries(d)  == {l \in Location : d[l[1]][l[2]].kind = "entry"}
Content(l)  == disk[l[1]][l[2]]
Heads       == {Root} \cup {Content(l).first : l \in Entries(disk)}
DirHeads    == {Root} \cup {Content(l).first : l \in {k \in Entries(disk) : Content(k).isDir}}
\* What the directory h shows: the entries in it, and the text that passes for one.
Seen(h)      == {l \in Chain(h) \X Slots : Read(l[1], l[2]).kind = "entry"}
HoldsText(h) == \E c \in Chain(h), s \in Slots : IsText(c, s)
EntriesOf(h) == LET ch == Chain(h) IN {l \in Entries(disk) : l[1] \in ch}
\* Clusters on the chain of h before c.
Before(h, c) == {b \in Chain(h) : b # c /\ c \in Chain(b)}

-----------------------------------------------------------------------------
\* The FAT is sound at every moment, so also for the mount after a power
\* failure: no chain of a directory or file reaches a free cluster, none runs
\* in a circle, and no cluster is on two chains (fat_alloc_cluster, the links
\* of fat_get_cluster_by_index and fat_dir_find_free, fat_free_chain).
ChainsSound ==
    LET ch == [h \in Heads |-> Chain(h)]
    IN  /\ \A l \in Entries(disk) : Content(l).first # Root
        /\ \A k, l \in Entries(disk) : Content(k).first = Content(l).first => k = l
        /\ \A h \in Heads : \A c \in ch[h] :
             /\ fat[c] # FREE
             /\ fat[c] \in Cluster => c \notin Chain(fat[c])
        /\ \A g, h \in Heads : g # h => ch[g] \cap ch[h] = {}

\* A name stands for one entry of a directory: fat32_create and fat32_mkdir
\* refuse a name fat_dir_find finds.  Only where a write may fail, and a cluster
\* be handed out with text in it, may there be two, and one of them is text then.
UniqueNames ==
    \A h \in DirHeads : \A k, l \in Seen(h) :
        Read(k[1], k[2]).name = Read(l[1], l[2]).name
        => \/ k = l
           \/ "write" \in Faults /\ (IsText(k[1], k[2]) \/ IsText(l[1], l[2]))

\* Every entry the driver wrote can be reached: it is in a directory that exists,
\* and no 0x00 byte, where fat_dir_find stops, comes before it in that directory.
EntriesVisible ==
    \A l \in Entries(disk) : \E h \in DirHeads :
        /\ l[1] \in Chain(h)
        /\ l[2] \in Scanned(l[1])
        /\ \A b \in Before(h, l[1]) : ~SawZero(b)

\* The size in an entry is never ahead of the data (fat32_write writes it
\* last): each unit below it was written by a write to that file.
SizeWritten ==
    \A l \in Entries(disk) :
        LET x == Content(l)
            ch == Chain(x.first)
            position(c, s) == Cardinality(Before(x.first, c)) * SlotsPerCluster + s
        IN  ~x.isDir =>
              /\ x.size <= Cardinality(ch) * SlotsPerCluster
              /\ \A c \in ch, s \in Slots :
                   position(c, s) < x.size => disk[c][s] = Data(x.name)

\* What a step stores touches no file but the one the running write opened:
\* the data and the chain of every other file that stays are as they were.
FilesIsolated ==
    [][\A l \in Entries(disk) \cap Entries(disk') :
         LET x == Content(l)
         IN  ~x.isDir /\ disk'[l[1]][l[2]].first = x.first /\ ~(op = "write" /\ ent = l)
             => \A c \in Chain(x.first) : disk'[c] = disk[c] /\ fat'[c] = fat[c]]_vars

\* Nothing is lost without a fault: between commands every allocated cluster
\* belongs to an entry (each error return of create, mkdir and write).
NoLeak == pc = "idle" => \A c \in Cluster : fat[c] # FREE => \E h \in Heads : c \in Chain(h)

\* "mkdir: ok" and "write: ok" are said when the directory holds the entry,
\* "rm: ok" when it does not (the results ksh.c reports), in a directory without
\* text: in others the command may be about what the text passes for.
OkMeansDone ==
    [][/\ out' = "ok" /\ op \in {"write", "mkdir", "rm"}
       /\ ~HoldsText(dir)
       => LET named == {l \in Entries(disk') : /\ l[1] \in ChainIn(fat', dir)
                                               /\ disk'[l[1]][l[2]].name = nm}
          IN  IF op = "rm" THEN named = {}
              ELSE \E l \in named : disk'[l[1]][l[2]].isDir <=> op = "mkdir"]_vars

\* cat shows a file as it was written: each piece it reads was written to that
\* file, and it never runs out of chain, or of device, before the size in the
\* entry says so (fat32_read, and what earlier commands left of the volume).
CatShowsFile ==
    [][op = "cat" =>
         /\ fpos' > fpos => \A s \in 0 .. fpos' - fpos - 1 :
                              disk[cur][(fpos % SlotsPerCluster) + s] = Data(nm)
         /\ out' = "ok" /\ pc = "seek" => fpos = size]_vars

\* Every command comes to its end: no loop over a chain runs for ever.
CommandEnds == pc # "idle" ~> pc = "idle"

-----------------------------------------------------------------------------
\* The entries the driver wrote are a FileTree, and every step, a power failure
\* or a failed write included, changes it by one whole entry or not at all.
\* What else fat_dir_find and fat_dir_is_empty see is text in a cluster that
\* fat_alloc_cluster could not clear, and no step gives it to two directories.
treeOnDisk ==
    UNION {{[parent |-> h, name |-> Content(l).name, node |-> Content(l).first,
             isDir |-> Content(l).isDir, size |-> Content(l).size] :
              l \in EntriesOf(h)} : h \in DirHeads}

spoiltOnDisk == {h \in DirHeads : HoldsText(h)}

Abstract == INSTANCE FileTree WITH
    tree <- treeOnDisk, spoilt <- spoiltOnDisk, Failing <- "write" \in Faults,
    Nodes <- Cluster, RootNode <- Root, TestNode <- TestCluster

ImplementsFileTree == Abstract!Spec

=============================================================================
