-------------------------- MODULE Fat32TreeProofs --------------------------
(***************************************************************************)
(* What the directories and files of the volume hold, for every layout and *)
(* set of faults.                                                          *)
(*                                                                         *)
(* The definitions here take the table f and the clusters d as parameters, *)
(* so that the lemmas speak of any two volumes, before and after a step.   *)
(* From ChainsSound, which Fat32Proofs proves, it follows that each        *)
(* chain is a line of clusters; the rest stands on that.                   *)
(***************************************************************************)
EXTENDS Fat32Proofs, FiniteSetTheorems

Table == [Cluster -> Cluster \cup {FREE, EOC}]

\* Clusters on the chain of h before c, in the table f.
BeforeIn(f, h, c) == {b \in ChainIn(f, h) : b # c /\ c \in ChainIn(f, b)}

\* The chain of h comes to an end.
Acyclic(f, h) == \A c \in ChainIn(f, h) : f[c] \in Cluster => c \notin ChainIn(f, f[c])

-----------------------------------------------------------------------------
(* A chain is a line.                                                       *)

LEMMA ChainBasic ==
    ASSUME NEW f, NEW h \in Cluster
    PROVE  /\ h \in ChainIn(f, h)
           /\ ChainIn(f, h) \in SUBSET Cluster
           /\ Closed(f, ChainIn(f, h))
<1>1. h \in ChainIn(f, h) /\ ChainIn(f, h) \in SUBSET Cluster
  BY DEF ChainIn
<1>2. ASSUME NEW x \in ChainIn(f, h), f[x] \in Cluster PROVE f[x] \in ChainIn(f, h)
  BY <1>2 DEF ChainIn, Closed
<1> QED  BY <1>1, <1>2 DEF Closed

LEMMA ChainInside ==
    ASSUME NEW f, NEW h \in Cluster, NEW c \in ChainIn(f, h)
    PROVE  /\ c \in Cluster /\ ChainIn(f, c) \subseteq ChainIn(f, h)
           /\ f[c] \in Cluster => f[c] \in ChainIn(f, h)
<1>1. c \in Cluster /\ ChainIn(f, h) \in SUBSET Cluster /\ Closed(f, ChainIn(f, h))
  BY ChainBasic
<1>2. ChainIn(f, c) \subseteq ChainIn(f, h)
  BY <1>1, ChainWithin
<1>3. f[c] \in Cluster => f[c] \in ChainIn(f, h)
  BY <1>1 DEF Closed
<1> QED  BY <1>1, <1>2, <1>3

\* A chain is its first cluster and the chain of the next.
LEMMA ChainUnfold ==
    ASSUME NEW f, NEW h \in Cluster
    PROVE  /\ f[h] \in Cluster => ChainIn(f, h) = {h} \cup ChainIn(f, f[h])
           /\ f[h] \notin Cluster => ChainIn(f, h) = {h}
<1>1. ASSUME f[h] \in Cluster PROVE ChainIn(f, h) = {h} \cup ChainIn(f, f[h])
  <2> DEFINE S == {h} \cup ChainIn(f, f[h])
  <2>1. /\ f[h] \in ChainIn(f, f[h]) /\ ChainIn(f, f[h]) \in SUBSET Cluster
        /\ Closed(f, ChainIn(f, f[h]))
    BY <1>1, ChainBasic
  <2>2. S \in SUBSET Cluster /\ h \in S /\ Closed(f, S)
    BY <2>1 DEF Closed
  <2>3. ChainIn(f, h) \subseteq S
    <3> HIDE DEF S
    <3> QED  BY <2>2, ChainWithin
  <2>4. h \in ChainIn(f, h)
    BY ChainBasic
  <2>5. f[h] \in ChainIn(f, h)
    BY <1>1, <2>4, ChainInside
  <2>6. ChainIn(f, f[h]) \subseteq ChainIn(f, h)
    BY <2>5, ChainInside
  <2> QED  BY <2>3, <2>4, <2>6
<1>2. ASSUME f[h] \notin Cluster PROVE ChainIn(f, h) = {h}
  <2>1. {h} \in SUBSET Cluster /\ h \in {h} /\ Closed(f, {h})
    BY <1>2 DEF Closed
  <2>2. ChainIn(f, h) \subseteq {h}
    BY <2>1, ChainWithin
  <2> QED  BY <2>2, ChainBasic
<1> QED  BY <1>1, <1>2

\* Of two clusters of a chain one comes after the other.
LEMMA ChainLinear ==
    ASSUME NEW f, NEW h \in Cluster, NEW c \in ChainIn(f, h), NEW d \in ChainIn(f, h)
    PROVE  d \in ChainIn(f, c) \/ c \in ChainIn(f, d)
<1> DEFINE S == {x \in ChainIn(f, h) : d \in ChainIn(f, x) \/ x \in ChainIn(f, d)}
<1>1. h \in S /\ S \in SUBSET Cluster
  BY ChainBasic
<1>2. ASSUME NEW x \in S, f[x] \in Cluster PROVE f[x] \in S
  <2>1. x \in Cluster /\ f[x] \in ChainIn(f, h) /\ d \in Cluster
    BY <1>2, ChainInside
  <2>2. CASE x \in ChainIn(f, d)
    <3>1. f[x] \in ChainIn(f, d)
      BY <1>2, <2>1, <2>2, ChainInside
    <3> QED  BY <2>1, <3>1
  <2>3. CASE d \in ChainIn(f, x) /\ x \notin ChainIn(f, d)
    <3>1. d # x
      BY <2>1, <2>3, ChainBasic
    <3>2. d \in ChainIn(f, f[x])
      BY <1>2, <2>1, <2>3, <3>1, ChainUnfold
    <3> QED  BY <2>1, <3>2
  <2> QED  BY <1>2, <2>2, <2>3
<1>3. Closed(f, S)
  BY <1>2 DEF Closed
<1>4. ChainIn(f, h) \subseteq S
  <2> HIDE DEF S
  <2> QED  BY <1>1, <1>3, ChainWithin
<1> QED  BY <1>4

LEMMA ChainOrder ==
    ASSUME NEW f, NEW h \in Cluster, Acyclic(f, h), NEW c \in ChainIn(f, h),
           NEW d \in ChainIn(f, h), d \in ChainIn(f, c), c \in ChainIn(f, d)
    PROVE  c = d
<1> SUFFICES ASSUME c # d PROVE FALSE
  OBVIOUS
<1>1. c \in Cluster /\ d \in Cluster
  BY ChainInside
<1>2. f[c] \in Cluster /\ d \in ChainIn(f, f[c])
  BY <1>1, ChainUnfold
<1>3. ChainIn(f, d) \subseteq ChainIn(f, f[c])
  BY <1>2, ChainInside
<1> QED  BY <1>2, <1>3 DEF Acyclic

LEMMA BeforeFirst ==
    ASSUME NEW f, NEW h \in Cluster, Acyclic(f, h)
    PROVE  BeforeIn(f, h, h) = {}
<1>1. h \in ChainIn(f, h)
  BY ChainBasic
<1>2. ASSUME NEW b \in ChainIn(f, h), h \in ChainIn(f, b) PROVE b = h
  BY <1>1, <1>2, ChainOrder
<1> QED  BY <1>2 DEF BeforeIn

LEMMA BeforeNext ==
    ASSUME NEW f, NEW h \in Cluster, Acyclic(f, h), NEW c \in ChainIn(f, h), f[c] \in Cluster
    PROVE  /\ f[c] \in ChainIn(f, h) /\ c \notin BeforeIn(f, h, c)
           /\ BeforeIn(f, h, f[c]) = BeforeIn(f, h, c) \cup {c}
<1> DEFINE n == f[c]
<1>1. /\ c \in Cluster /\ n \in ChainIn(f, h) /\ n \in ChainIn(f, n)
      /\ ChainIn(f, c) = {c} \cup ChainIn(f, n) /\ c \notin ChainIn(f, n)
  BY ChainInside, ChainBasic, ChainUnfold DEF Acyclic
<1>2. n \in ChainIn(f, c) /\ n # c
  BY <1>1
<1>3. ASSUME NEW b \in BeforeIn(f, h, c) PROVE b \in BeforeIn(f, h, n)
  <2>1. b \in ChainIn(f, h) /\ b \in Cluster /\ c \in ChainIn(f, b)
    BY ChainInside DEF BeforeIn
  <2>2. n \in ChainIn(f, b)
    BY <2>1, ChainInside
  <2>3. b # n
    BY <1>1, <2>1
  <2> QED  BY <2>1, <2>2, <2>3 DEF BeforeIn
<1>4. ASSUME NEW b \in BeforeIn(f, h, n) PROVE b \in BeforeIn(f, h, c) \cup {c}
  <2>1. b \in ChainIn(f, h) /\ b \in Cluster /\ n \in ChainIn(f, b) /\ b # n
    BY ChainInside DEF BeforeIn
  <2>2. b \in ChainIn(f, c) \/ c \in ChainIn(f, b)
    BY <2>1, ChainLinear
  <2>3. b \notin ChainIn(f, n)
    BY <1>1, <2>1, ChainOrder
  <2> QED  BY <1>1, <2>1, <2>2, <2>3 DEF BeforeIn
<1> HIDE DEF n
<1>5. BeforeIn(f, h, n) = BeforeIn(f, h, c) \cup {c}
  BY <1>1, <1>2, <1>3, <1>4 DEF BeforeIn
<1> QED  BY <1>1, <1>5 DEF BeforeIn, n

\* The last cluster of a chain comes after all others.
LEMMA BeforeLast ==
    ASSUME NEW f, NEW h \in Cluster, NEW c \in ChainIn(f, h), f[c] \notin Cluster
    PROVE  ChainIn(f, h) = BeforeIn(f, h, c) \cup {c} /\ c \notin BeforeIn(f, h, c)
<1>1. c \in Cluster /\ ChainIn(f, c) = {c}
  BY ChainInside, ChainUnfold
<1>2. \A b \in ChainIn(f, h) : b = c \/ c \in ChainIn(f, b)
  BY <1>1, ChainLinear
<1> QED  BY <1>2 DEF BeforeIn

-----------------------------------------------------------------------------
(* How chains change with the table.                                        *)

LEMMA ChainSame ==
    ASSUME NEW f, NEW g, NEW h \in Cluster, \A c \in ChainIn(f, h) : g[c] = f[c]
    PROVE  ChainIn(g, h) = ChainIn(f, h)
<1>1. /\ h \in ChainIn(f, h) /\ ChainIn(f, h) \in SUBSET Cluster
      /\ Closed(g, ChainIn(f, h))
  BY ChainBasic DEF Closed
<1>2. ChainIn(g, h) \subseteq ChainIn(f, h)
  BY <1>1, ChainWithin
<1>3. /\ h \in ChainIn(g, h) /\ ChainIn(g, h) \in SUBSET Cluster
      /\ Closed(f, ChainIn(g, h))
  BY <1>2, ChainBasic DEF Closed
<1>4. ChainIn(f, h) \subseteq ChainIn(g, h)
  BY <1>3, ChainWithin
<1> QED  BY <1>2, <1>4

LEMMA BeforeSame ==
    ASSUME NEW f, NEW g, NEW h \in Cluster, \A c \in ChainIn(f, h) : g[c] = f[c]
    PROVE  /\ ChainIn(g, h) = ChainIn(f, h)
           /\ \A c \in ChainIn(f, h) : ChainIn(g, c) = ChainIn(f, c)
           /\ \A c : BeforeIn(g, h, c) = BeforeIn(f, h, c)
<1>1. ChainIn(g, h) = ChainIn(f, h)
  BY ChainSame
<1>2. ASSUME NEW b \in ChainIn(f, h) PROVE ChainIn(g, b) = ChainIn(f, b)
  <2>1. b \in Cluster /\ \A c \in ChainIn(f, b) : g[c] = f[c]
    BY ChainInside
  <2> QED  BY <2>1, ChainSame
<1> QED  BY <1>1, <1>2 DEF BeforeIn

\* The last cluster c of the chain of h is linked to a cluster n, which is the
\* new end.
LEMMA ChainAppend ==
    ASSUME NEW f, NEW g, NEW h \in Cluster, NEW c \in ChainIn(f, h), NEW n \in Cluster,
           f[c] \notin Cluster, g[c] = n, g[n] \notin Cluster, n \notin ChainIn(f, h),
           \A b \in ChainIn(f, h) : b # c => g[b] = f[b]
    PROVE  \A b \in ChainIn(f, h) : ChainIn(g, b) = ChainIn(f, b) \cup {n}
<1> SUFFICES ASSUME NEW b \in ChainIn(f, h)
             PROVE  ChainIn(g, b) = ChainIn(f, b) \cup {n}
  OBVIOUS
<1>1. /\ b \in Cluster /\ c \in Cluster /\ ChainIn(f, b) \subseteq ChainIn(f, h)
      /\ ChainIn(f, c) = {c}
  BY ChainInside, ChainUnfold
<1>2. b \in ChainIn(f, b) /\ ChainIn(f, b) \in SUBSET Cluster /\ Closed(f, ChainIn(f, b))
  BY <1>1, ChainBasic
<1>3. c \in ChainIn(f, b)
  <2>1. b \in ChainIn(f, c) \/ c \in ChainIn(f, b)
    BY ChainLinear
  <2> QED  BY <1>1, <1>2, <2>1
<1> DEFINE S == ChainIn(f, b) \cup {n}
           T == ChainIn(g, b) \cap ChainIn(f, b)
<1>4. b \in S /\ S \in SUBSET Cluster /\ Closed(g, S)
  BY <1>1, <1>2, <1>3 DEF Closed
<1>5. ChainIn(g, b) \subseteq S
  <2> HIDE DEF S
  <2> QED  BY <1>1, <1>4, ChainWithin
<1>6. b \in ChainIn(g, b) /\ Closed(g, ChainIn(g, b))
  BY <1>1, ChainBasic
<1>7. b \in T /\ T \in SUBSET Cluster /\ Closed(f, T)
  BY <1>1, <1>2, <1>6 DEF Closed
<1>8. ChainIn(f, b) \subseteq T
  <2> HIDE DEF T
  <2> QED  BY <1>1, <1>7, ChainWithin
<1>9. n \in ChainIn(g, b)
  BY <1>3, <1>6, <1>8 DEF Closed
<1> QED  BY <1>5, <1>8, <1>9

LEMMA BeforeAppend ==
    ASSUME NEW f, NEW g, NEW h \in Cluster, NEW c \in ChainIn(f, h), NEW n \in Cluster,
           f[c] \notin Cluster, g[c] = n, g[n] \notin Cluster, n \notin ChainIn(f, h),
           \A b \in ChainIn(f, h) : b # c => g[b] = f[b]
    PROVE  /\ ChainIn(g, h) = ChainIn(f, h) \cup {n}
           /\ \A b \in ChainIn(f, h) : BeforeIn(g, h, b) = BeforeIn(f, h, b)
           /\ BeforeIn(g, h, n) = ChainIn(f, h)
<1>1. \A b \in ChainIn(f, h) : ChainIn(g, b) = ChainIn(f, b) \cup {n}
  BY ChainAppend
<1>2. h \in ChainIn(f, h) /\ ChainIn(g, n) = {n}
  BY ChainBasic, ChainUnfold
<1>3. ChainIn(g, h) = ChainIn(f, h) \cup {n}
  BY <1>1, <1>2
<1>4. \A b \in ChainIn(f, h) : BeforeIn(g, h, b) = BeforeIn(f, h, b)
  BY <1>1, <1>2, <1>3 DEF BeforeIn
<1>5. BeforeIn(g, h, n) = ChainIn(f, h)
  BY <1>1, <1>2, <1>3 DEF BeforeIn
<1> QED  BY <1>3, <1>4, <1>5

-----------------------------------------------------------------------------
(* Places on a chain.                                                       *)

LEMMA ChainFinite ==
    ASSUME NEW f, NEW h \in Cluster, NEW T \in SUBSET ChainIn(f, h)
    PROVE  IsFiniteSet(T) /\ Cardinality(T) \in Nat
<1>1. 2 \in Int /\ LastCluster \in Int
  BY LayoutAssumption
<1>2. IsFiniteSet(Cluster)
  BY <1>1, FS_Interval DEF Cluster
<1>3. T \in SUBSET Cluster
  BY ChainBasic
<1>4. IsFiniteSet(T)
  BY <1>2, <1>3, FS_Subset
<1> QED  BY <1>4, FS_CardinalityType

\* How many clusters come before c.
Place(f, h, c) == Cardinality(BeforeIn(f, h, c))

LEMMA PlaceType ==
    ASSUME NEW f, NEW h \in Cluster, NEW c
    PROVE  /\ IsFiniteSet(BeforeIn(f, h, c)) /\ Place(f, h, c) \in Nat
           /\ IsFiniteSet(ChainIn(f, h)) /\ Cardinality(ChainIn(f, h)) \in Nat
<1>1. BeforeIn(f, h, c) \in SUBSET ChainIn(f, h) /\ ChainIn(f, h) \in SUBSET ChainIn(f, h)
  BY DEF BeforeIn
<1> QED  BY <1>1, ChainFinite DEF Place

LEMMA PlaceFirst ==
    ASSUME NEW f, NEW h \in Cluster, Acyclic(f, h)
    PROVE  Place(f, h, h) = 0
BY BeforeFirst, FS_EmptySet DEF Place

LEMMA PlaceNext ==
    ASSUME NEW f, NEW h \in Cluster, Acyclic(f, h), NEW c \in ChainIn(f, h), f[c] \in Cluster
    PROVE  Place(f, h, f[c]) = Place(f, h, c) + 1
<1>1. BeforeIn(f, h, f[c]) = BeforeIn(f, h, c) \cup {c} /\ c \notin BeforeIn(f, h, c)
  BY BeforeNext
<1> QED  BY <1>1, PlaceType, FS_AddElement DEF Place

LEMMA PlaceLast ==
    ASSUME NEW f, NEW h \in Cluster, NEW c \in ChainIn(f, h), f[c] \notin Cluster
    PROVE  Cardinality(ChainIn(f, h)) = Place(f, h, c) + 1
<1>1. ChainIn(f, h) = BeforeIn(f, h, c) \cup {c} /\ c \notin BeforeIn(f, h, c)
  BY BeforeLast
<1> QED  BY <1>1, PlaceType, FS_AddElement DEF Place

LEMMA PlaceBelow ==
    ASSUME NEW f, NEW h \in Cluster, NEW c \in ChainIn(f, h)
    PROVE  Place(f, h, c) + 1 <= Cardinality(ChainIn(f, h))
<1> DEFINE T == BeforeIn(f, h, c) \cup {c}
<1>1. Cardinality(T) = Place(f, h, c) + 1
  <2>1. c \notin BeforeIn(f, h, c)
    BY DEF BeforeIn
  <2> QED  BY <2>1, PlaceType, FS_AddElement DEF Place
<1>2. T \in SUBSET ChainIn(f, h)
  BY DEF BeforeIn
<1> HIDE DEF T
<1>3. Cardinality(T) <= Cardinality(ChainIn(f, h))
  BY <1>2, PlaceType, FS_Subset
<1> QED  BY <1>1, <1>3

LEMMA PlaceAfter ==
    ASSUME NEW f, NEW h \in Cluster, Acyclic(f, h), NEW c \in ChainIn(f, h),
           NEW d \in ChainIn(f, h), c # d, d \in ChainIn(f, c)
    PROVE  Place(f, h, c) < Place(f, h, d)
<1> DEFINE T == BeforeIn(f, h, c) \cup {c}
<1>1. Cardinality(T) = Place(f, h, c) + 1
  <2>1. c \notin BeforeIn(f, h, c)
    BY DEF BeforeIn
  <2> QED  BY <2>1, PlaceType, FS_AddElement DEF Place
<1>2. ASSUME NEW b \in BeforeIn(f, h, c) PROVE b \in BeforeIn(f, h, d)
  <2>1. b \in ChainIn(f, h) /\ b \in Cluster /\ c \in ChainIn(f, b)
    BY ChainInside DEF BeforeIn
  <2>2. d \in ChainIn(f, b)
    BY <2>1, ChainInside
  <2>3. b # d
    BY <2>1, ChainOrder
  <2> QED  BY <2>1, <2>2, <2>3 DEF BeforeIn
<1>3. T \in SUBSET BeforeIn(f, h, d)
  BY <1>2 DEF BeforeIn
<1> HIDE DEF T
<1>4. Cardinality(T) <= Place(f, h, d)
  BY <1>3, PlaceType, FS_Subset DEF Place
<1> QED  BY <1>1, <1>4, PlaceType

LEMMA PlaceUnique ==
    ASSUME NEW f, NEW h \in Cluster, Acyclic(f, h), NEW c \in ChainIn(f, h),
           NEW d \in ChainIn(f, h), Place(f, h, c) = Place(f, h, d)
    PROVE  c = d
<1>1. Place(f, h, c) \in Nat
  BY PlaceType
<1>2. d \in ChainIn(f, c) \/ c \in ChainIn(f, d)
  BY ChainLinear
<1> QED  BY <1>1, <1>2, PlaceAfter
-----------------------------------------------------------------------------
(* What a volume holds.  d is the content of the clusters.                  *)

At(d, l)         == d[l[1]][l[2]]
HeadsIn(d)       == {Root} \cup {At(d, l).first : l \in Entries(d)}
DirHeadsIn(d)    == {Root} \cup {At(d, l).first : l \in {k \in Entries(d) : At(d, k).isDir}}
HeldBy(f, d, h)  == {l \in Entries(d) : l[1] \in ChainIn(f, h)}
Unclaimed(f, d, c) == \A h \in HeadsIn(d) : c \notin ChainIn(f, h)

\* Of one sector: it has a 0x00 byte; the units before that; no entries.
Zeroed(x)  == \E s \in Slots : x[s].kind = "zero"
Shown(x)   == {s \in Slots : \A t \in 0 .. s : x[t].kind # "zero"}
NoEntry(x) == \A s \in Slots : x[s].kind # "entry"
Texted(x)  == \E s \in Slots : x[s].kind = "data"

\* There is text in the directory h.
TextOn(f, d, h) == \E c \in ChainIn(f, h) : Texted(d[c])

\* The volume has its types, and its chains are sound.
VolumeTyped(f, d) ==
    /\ f \in Table /\ d \in [Cluster -> [Slots -> Unit]]
    /\ \A l \in Entries(d) : At(d, l).first \in Cluster

VolumeSound(f, d) ==
    /\ \A l \in Entries(d) : At(d, l).first # Root
    /\ \A k, l \in Entries(d) : At(d, k).first = At(d, l).first => k = l
    /\ \A h \in HeadsIn(d) : Acyclic(f, h) /\ \A c \in ChainIn(f, h) : f[c] # FREE
    /\ \A g, h \in HeadsIn(d) : g # h => ChainIn(f, g) \cap ChainIn(f, h) = {}

Good(f, d) == VolumeTyped(f, d) /\ VolumeSound(f, d)

\* fat_dir_find comes to the entry at l when it looks through the directory h.
Found(f, d, h, l) ==
    /\ l[1] \in ChainIn(f, h) /\ l[2] \in Shown(d[l[1]])
    /\ \A b \in BeforeIn(f, h, l[1]) : ~Zeroed(d[b])

\* The first z units on the chain of h were written to the file n.
Written(f, d, h, n, z) ==
    /\ z <= Cardinality(ChainIn(f, h)) * SlotsPerCluster
    /\ \A c \in ChainIn(f, h), s \in Slots :
         Place(f, h, c) * SlotsPerCluster + s < z => d[c][s] = Data(n)

AllVisible(f, d) == \A l \in Entries(d) : \E h \in DirHeadsIn(d) : Found(f, d, h, l)
AllUnique(f, d)  == \A h \in DirHeadsIn(d) : \A k, l \in HeldBy(f, d, h) :
                        At(d, k).name = At(d, l).name => k = l
AllWritten(f, d) == \A l \in Entries(d) : ~At(d, l).isDir =>
                        Written(f, d, At(d, l).first, At(d, l).name, At(d, l).size)
Plain(d)         == /\ \A c \in Cluster \ Backed : d[c] = ZeroSector
                    /\ \A l \in Entries(d) : At(d, l).name \in Names

Contents(f, d) == AllVisible(f, d) /\ AllUnique(f, d) /\ AllWritten(f, d) /\ Plain(d)

LEMMA EntryAt ==
    ASSUME NEW d
    PROVE  /\ \A c \in Cluster, s \in Slots :
                <<c, s>> \in Entries(d) <=> d[c][s].kind = "entry"
           /\ \A l \in Entries(d) :
                /\ l[1] \in Cluster /\ l[2] \in Slots /\ l = <<l[1], l[2]>>
                /\ At(d, l).kind = "entry"
BY DEF Entries, Location, At

LEMMA HeadTypes ==
    ASSUME NEW f, NEW d, Good(f, d)
    PROVE  /\ \A h \in HeadsIn(d) : h \in Cluster /\ Acyclic(f, h)
           /\ \A h \in DirHeadsIn(d) : h \in HeadsIn(d)
           /\ \A l \in Entries(d) : /\ At(d, l).first \in HeadsIn(d)
                                    /\ At(d, l).isDir => At(d, l).first \in DirHeadsIn(d)
           /\ Root \in DirHeadsIn(d)
BY LayoutFacts DEF HeadsIn, DirHeadsIn, Good, VolumeTyped, VolumeSound

\* A cluster lies on one chain.
LEMMA OneHead ==
    ASSUME NEW f, NEW d, Good(f, d), NEW g \in HeadsIn(d), NEW h \in HeadsIn(d),
           NEW c \in ChainIn(f, g), c \in ChainIn(f, h)
    PROVE  g = h
BY DEF Good, VolumeSound

\* What an entry of a file points to is no directory.
LEMMA FileHead ==
    ASSUME NEW f, NEW d, Good(f, d), NEW l \in Entries(d), ~At(d, l).isDir
    PROVE  At(d, l).first \notin DirHeadsIn(d)
BY DEF Good, VolumeSound, DirHeadsIn

\* Entries lie on the chains of directories only.
LEMMA EntriesInDirs ==
    ASSUME NEW f, NEW d, Good(f, d), AllVisible(f, d), NEW h \in HeadsIn(d),
           NEW l \in Entries(d), l[1] \in ChainIn(f, h)
    PROVE  h \in DirHeadsIn(d) /\ Found(f, d, h, l)
<1>1. PICK g \in DirHeadsIn(d) : Found(f, d, g, l)
  BY DEF AllVisible
<1>2. g = h
  BY <1>1, HeadTypes, OneHead DEF Found
<1> QED  BY <1>1, <1>2

LEMMA UnclaimedBare ==
    ASSUME NEW f, NEW d, Good(f, d), AllVisible(f, d), NEW c \in Cluster, Unclaimed(f, d, c)
    PROVE  NoEntry(d[c])
<1> SUFFICES ASSUME NEW s \in Slots, d[c][s].kind = "entry" PROVE FALSE
  BY DEF NoEntry
<1>1. <<c, s>> \in Entries(d)
  BY EntryAt
<1>2. PICK h \in DirHeadsIn(d) : Found(f, d, h, <<c, s>>)
  BY <1>1 DEF AllVisible
<1> QED  BY <1>2, HeadTypes DEF Found, Unclaimed

LEMMA FileBare ==
    ASSUME NEW f, NEW d, Good(f, d), AllVisible(f, d), NEW l \in Entries(d), ~At(d, l).isDir,
           NEW c \in ChainIn(f, At(d, l).first)
    PROVE  c \in Cluster /\ NoEntry(d[c])
<1>1. At(d, l).first \in HeadsIn(d) /\ At(d, l).first \in Cluster
  BY HeadTypes
<1>2. c \in Cluster
  BY <1>1, ChainInside
<1> SUFFICES ASSUME NEW s \in Slots, d[c][s].kind = "entry" PROVE FALSE
  BY <1>2 DEF NoEntry
<1>3. <<c, s>> \in Entries(d)
  BY <1>2, EntryAt
<1>4. At(d, l).first \in DirHeadsIn(d)
  BY <1>1, <1>3, EntriesInDirs
<1> QED  BY <1>4, FileHead

-----------------------------------------------------------------------------
(* The volume of a state, and the properties in these terms.                *)

LEMMA HereDefs ==
    /\ Heads = HeadsIn(disk) /\ DirHeads = DirHeadsIn(disk)
    /\ \A h : Chain(h) = ChainIn(fat, h) /\ EntriesOf(h) = HeldBy(fat, disk, h)
    /\ \A h, c : Before(h, c) = BeforeIn(fat, h, c)
    /\ \A l : Content(l) = At(disk, l)
    /\ \A c : SawZero(c) <=> Zeroed(disk[c])
    /\ \A c : Scanned(c) = Shown(disk[c])
    /\ \A h : HoldsText(h) <=> TextOn(fat, disk, h)
BY DEF Heads, HeadsIn, DirHeads, DirHeadsIn, Chain, EntriesOf, HeldBy, Before, BeforeIn,
   Content, At, SawZero, Zeroed, Scanned, Shown, HoldsText, TextOn, Texted, IsText

LEMMA GoodHere == TypeInv /\ ChainsSound => Good(fat, disk)
<1> SUFFICES ASSUME TypeInv, ChainsSound PROVE Good(fat, disk)
  OBVIOUS
<1>1. VolumeTyped(fat, disk)
  BY EntryAt DEF TypeInv, DeviceTyped, EntriesTyped, VolumeTyped, Table, At
<1>2. \A h \in HeadsIn(disk) : [g \in HeadsIn(disk) |-> ChainIn(fat, g)][h] = ChainIn(fat, h)
  OBVIOUS
<1>3. /\ \A l \in Entries(disk) : At(disk, l).first # Root
      /\ \A k, l \in Entries(disk) : At(disk, k).first = At(disk, l).first => k = l
  BY HereDefs DEF ChainsSound
<1>4. \A h \in HeadsIn(disk) : \A c \in ChainIn(fat, h) :
        /\ fat[c] # FREE
        /\ fat[c] \in Cluster => c \notin ChainIn(fat, fat[c])
  BY HereDefs, <1>2 DEF ChainsSound
<1>5. \A g, h \in HeadsIn(disk) : g # h => ChainIn(fat, g) \cap ChainIn(fat, h) = {}
  BY HereDefs, <1>2 DEF ChainsSound
<1> QED  BY <1>1, <1>3, <1>4, <1>5 DEF Good, VolumeSound, Acyclic

LEMMA PropertiesHere ==
    /\ AllVisible(fat, disk) => EntriesVisible
    /\ AllWritten(fat, disk) => SizeWritten
<1>1. AllVisible(fat, disk) => EntriesVisible
  BY HereDefs DEF AllVisible, EntriesVisible, Found
<1>2. AllWritten(fat, disk) => SizeWritten
  BY HereDefs DEF AllWritten, SizeWritten, Written, Place
<1> QED  BY <1>1, <1>2

\* Of what a directory shows, no two that are no text have one name.
LEMMA UniqueHere ==
    ASSUME Good(fat, disk), AllUnique(fat, disk),
           "write" \in Faults \/ \A h \in DirHeadsIn(disk) : ~TextOn(fat, disk, h)
    PROVE  UniqueNames
<1> SUFFICES ASSUME NEW h \in DirHeadsIn(disk), NEW k \in Seen(h), NEW l \in Seen(h),
                    Read(k[1], k[2]).name = Read(l[1], l[2]).name, k # l,
                    "write" \in Faults => ~IsText(k[1], k[2]) /\ ~IsText(l[1], l[2])
             PROVE  FALSE
  BY HereDefs DEF UniqueNames
<1>1. h \in Cluster
  BY HeadTypes
<1>2. ASSUME NEW m \in Seen(h), "write" \in Faults => ~IsText(m[1], m[2])
      PROVE  m \in HeldBy(fat, disk, h) /\ At(disk, m) = Read(m[1], m[2])
  <2>1. /\ m \in ChainIn(fat, h) \X Slots /\ Read(m[1], m[2]).kind = "entry"
    BY HereDefs DEF Seen
  <2>2. m[1] \in ChainIn(fat, h) /\ m[1] \in Cluster /\ m[2] \in Slots /\ m \in Location
    BY <1>1, <2>1, ChainInside DEF Location
  <2>3. ~IsText(m[1], m[2])
    BY <1>2, <2>2 DEF TextOn, Texted, IsText
  <2>4. At(disk, m) = Read(m[1], m[2])
    BY <2>3 DEF At, Read
  <2> QED  BY <2>1, <2>2, <2>4 DEF HeldBy, Entries, At
<1> QED  BY <1>2 DEF AllUnique
-----------------------------------------------------------------------------
(* Steps beside all chains: an allocation, or the freeing of clusters.      *)

Beside(f, d, g, e) ==
    /\ \A h \in HeadsIn(d) : \A c \in ChainIn(f, h) : g[c] = f[c] /\ e[c] = d[c]
    /\ \A c \in Cluster : Unclaimed(f, d, c) => NoEntry(e[c])
    /\ \A c \in Cluster \ Backed : e[c] = ZeroSector

\* The entries are the same, and where they stand.
LEMMA BesideEntries ==
    ASSUME NEW f, NEW d, NEW g, NEW e, Good(f, d), AllVisible(f, d), Beside(f, d, g, e)
    PROVE  /\ Entries(e) = Entries(d)
           /\ \A l \in Entries(d) : At(e, l) = At(d, l)
           /\ HeadsIn(e) = HeadsIn(d) /\ DirHeadsIn(e) = DirHeadsIn(d)
<1>1. ASSUME NEW c \in Cluster, NEW s \in Slots
      PROVE  /\ e[c][s].kind = "entry" <=> d[c][s].kind = "entry"
             /\ d[c][s].kind = "entry" => e[c][s] = d[c][s]
  <2>1. CASE Unclaimed(f, d, c)
    BY <2>1, UnclaimedBare DEF Beside, NoEntry
  <2>2. CASE ~Unclaimed(f, d, c)
    BY <2>2 DEF Beside, Unclaimed
  <2> QED  BY <2>1, <2>2
<1>2. Entries(e) = Entries(d)
  BY <1>1 DEF Entries, Location
<1>3. \A l \in Entries(d) : At(e, l) = At(d, l)
  BY <1>1, EntryAt DEF At
<1>4. HeadsIn(e) = HeadsIn(d)
  BY <1>2, <1>3 DEF HeadsIn
<1>5. DirHeadsIn(e) = DirHeadsIn(d)
  BY <1>2, <1>3 DEF DirHeadsIn
<1> QED  BY <1>2, <1>3, <1>4, <1>5

LEMMA BesideChains ==
    ASSUME NEW f, NEW d, NEW g, NEW e, Good(f, d), Beside(f, d, g, e), NEW h \in HeadsIn(d)
    PROVE  /\ ChainIn(g, h) = ChainIn(f, h)
           /\ \A c : BeforeIn(g, h, c) = BeforeIn(f, h, c) /\ Place(g, h, c) = Place(f, h, c)
           /\ \A c \in ChainIn(f, h) : e[c] = d[c] /\ g[c] = f[c]
<1>1. h \in Cluster /\ \A c \in ChainIn(f, h) : g[c] = f[c] /\ e[c] = d[c]
  BY HeadTypes DEF Beside
<1> QED  BY <1>1, BeforeSame DEF Place

LEMMA BesideHeld ==
    ASSUME NEW f, NEW d, NEW g, NEW e, Good(f, d), AllVisible(f, d), Beside(f, d, g, e),
           NEW h \in HeadsIn(d)
    PROVE  /\ HeldBy(g, e, h) = HeldBy(f, d, h)
           /\ \A n, z : Written(f, d, h, n, z) => Written(g, e, h, n, z)
           /\ \A l : Found(f, d, h, l) => Found(g, e, h, l)
<1>1. HeldBy(g, e, h) = HeldBy(f, d, h)
  BY BesideEntries, BesideChains DEF HeldBy
<1>2. \A n, z : Written(f, d, h, n, z) => Written(g, e, h, n, z)
  BY BesideChains DEF Written
<1>3. \A l : Found(f, d, h, l) => Found(g, e, h, l)
  BY BesideChains DEF Found, BeforeIn
<1> QED  BY <1>1, <1>2, <1>3

LEMMA BesideContents ==
    ASSUME NEW f, NEW d, NEW g, NEW e, Good(f, d), Contents(f, d), Beside(f, d, g, e)
    PROVE  Contents(g, e)
<1>1. /\ Entries(e) = Entries(d) /\ DirHeadsIn(e) = DirHeadsIn(d)
      /\ \A l \in Entries(d) : At(e, l) = At(d, l)
  BY BesideEntries DEF Contents
<1>2. \A h \in DirHeadsIn(d) : h \in HeadsIn(d)
  BY HeadTypes
<1>3. ASSUME NEW h \in HeadsIn(d)
      PROVE  /\ HeldBy(g, e, h) = HeldBy(f, d, h)
             /\ \A n, z : Written(f, d, h, n, z) => Written(g, e, h, n, z)
             /\ \A l : Found(f, d, h, l) => Found(g, e, h, l)
  BY BesideHeld DEF Contents
<1>4. AllVisible(g, e)
  BY <1>1, <1>2, <1>3 DEF Contents, AllVisible
<1>5. AllUnique(g, e)
  BY <1>1, <1>2, <1>3 DEF Contents, AllUnique, HeldBy
<1>6. AllWritten(g, e)
  <2>1. \A l \in Entries(d) : At(d, l).first \in HeadsIn(d)
    BY HeadTypes
  <2> QED  BY <1>1, <1>3, <2>1 DEF Contents, AllWritten
<1>7. Plain(e)
  BY <1>1 DEF Contents, Plain, Beside
<1> QED  BY <1>4, <1>5, <1>6, <1>7 DEF Contents

-----------------------------------------------------------------------------
(* A chain is extended by a cluster that is on none.                        *)

Extended(f, d, g, c, n) ==
    /\ c \in Cluster /\ n \in Cluster /\ f[c] = EOC /\ f[n] = EOC
    /\ \E h \in HeadsIn(d) : c \in ChainIn(f, h)
    /\ Unclaimed(f, d, n)
    /\ g[c] = n /\ \A b \in Cluster : b # c => g[b] = f[b]

LEMMA ExtendedChain ==
    ASSUME NEW f, NEW d, NEW g, NEW c, NEW n, Good(f, d), Extended(f, d, g, c, n),
           NEW h \in HeadsIn(d), c \in ChainIn(f, h)
    PROVE  /\ ChainIn(g, h) = ChainIn(f, h) \cup {n}
           /\ \A b \in ChainIn(f, h) : BeforeIn(g, h, b) = BeforeIn(f, h, b)
           /\ BeforeIn(g, h, n) = ChainIn(f, h)
<1>1. h \in Cluster /\ n \in Cluster /\ n \notin ChainIn(f, h)
  BY HeadTypes DEF Extended, Unclaimed
<1>2. f[c] \notin Cluster /\ g[c] = n /\ f[n] \notin Cluster
  BY LayoutFacts DEF Extended
<1>3. n # c /\ g[n] = f[n]
  BY <1>1 DEF Extended
<1>4. \A b \in ChainIn(f, h) : b # c => g[b] = f[b]
  BY <1>1, ChainInside DEF Extended
<1>5. g[n] \notin Cluster
  BY <1>2, <1>3
<1> QED  BY <1>1, <1>2, <1>4, <1>5, BeforeAppend

LEMMA ExtendedOther ==
    ASSUME NEW f, NEW d, NEW g, NEW c, NEW n, Good(f, d), Extended(f, d, g, c, n),
           NEW h \in HeadsIn(d), c \notin ChainIn(f, h)
    PROVE  /\ ChainIn(g, h) = ChainIn(f, h)
           /\ \A b : BeforeIn(g, h, b) = BeforeIn(f, h, b)
<1>1. h \in Cluster
  BY HeadTypes
<1>2. \A b \in ChainIn(f, h) : g[b] = f[b]
  BY <1>1, ChainInside DEF Extended
<1> QED  BY <1>1, <1>2, BeforeSame

\* For every chain: what was on it keeps its place, what comes comes last.
LEMMA ExtendedAll ==
    ASSUME NEW f, NEW d, NEW g, NEW c, NEW n, Good(f, d), Extended(f, d, g, c, n),
           NEW h \in HeadsIn(d)
    PROVE  /\ ChainIn(f, h) \subseteq ChainIn(g, h)
           /\ \A b \in ChainIn(g, h) : b \notin ChainIn(f, h) =>
                b = n /\ c \in ChainIn(f, h) /\ BeforeIn(g, h, b) = ChainIn(f, h)
           /\ \A b \in ChainIn(f, h) : BeforeIn(g, h, b) = BeforeIn(f, h, b)
           /\ Cardinality(ChainIn(f, h)) <= Cardinality(ChainIn(g, h))
<1>1. /\ ChainIn(f, h) \subseteq ChainIn(g, h)
      /\ \A b \in ChainIn(g, h) : b \notin ChainIn(f, h) =>
           b = n /\ c \in ChainIn(f, h) /\ BeforeIn(g, h, b) = ChainIn(f, h)
      /\ \A b \in ChainIn(f, h) : BeforeIn(g, h, b) = BeforeIn(f, h, b)
  BY ExtendedChain, ExtendedOther
<1>2. Cardinality(ChainIn(f, h)) <= Cardinality(ChainIn(g, h))
  <2>1. h \in Cluster
    BY HeadTypes
  <2>2. IsFiniteSet(ChainIn(g, h))
    BY <2>1, PlaceType
  <2> QED  BY <1>1, <2>2, FS_Subset
<1> QED  BY <1>1, <1>2

LEMMA ExtendedHeld ==
    ASSUME NEW f, NEW d, NEW g, NEW c, NEW n, Good(f, d), AllVisible(f, d),
           Extended(f, d, g, c, n), NEW h \in HeadsIn(d)
    PROVE  /\ HeldBy(g, d, h) = HeldBy(f, d, h)
           /\ \A m, z : z \in Nat /\ Written(f, d, h, m, z) => Written(g, d, h, m, z)
           /\ \A l : Found(f, d, h, l) => Found(g, d, h, l)
<1>1. NoEntry(d[n])
  BY UnclaimedBare DEF Extended
<1>2. HeldBy(g, d, h) = HeldBy(f, d, h)
  <2>1. \A l \in Entries(d) : l[1] # n
    BY <1>1, EntryAt DEF NoEntry, At
  <2> QED  BY <2>1, ExtendedAll DEF HeldBy
<1>3. ASSUME NEW m, NEW z \in Nat, Written(f, d, h, m, z) PROVE Written(g, d, h, m, z)
  <2> DEFINE k == Cardinality(ChainIn(f, h))
             j == Cardinality(ChainIn(g, h))
  <2>1. h \in Cluster
    BY HeadTypes
  <2>2. k \in Nat /\ j \in Nat /\ k <= j /\ SlotsPerCluster \in Nat
    BY <2>1, PlaceType, ExtendedAll, LayoutAssumption
  <2>3. z <= k * SlotsPerCluster
    BY <1>3 DEF Written
  <2>4. k * SlotsPerCluster <= j * SlotsPerCluster
    <3> HIDE DEF k, j
    <3> QED  BY <2>2
  <2>5. k * SlotsPerCluster \in Nat /\ j * SlotsPerCluster \in Nat
    <3> HIDE DEF k, j
    <3> QED  BY <2>2
  <2>6. z <= j * SlotsPerCluster
    <3> HIDE DEF k, j
    <3> QED  BY <2>3, <2>4, <2>5
  <2>7. ASSUME NEW b \in ChainIn(g, h), NEW s \in Slots,
               Place(g, h, b) * SlotsPerCluster + s < z
        PROVE  d[b][s] = Data(m)
    <3>1. CASE b \in ChainIn(f, h)
      <4>1. Place(g, h, b) = Place(f, h, b)
        BY <3>1, ExtendedAll DEF Place
      <4> QED  BY <1>3, <2>7, <3>1, <4>1 DEF Written
    <3>2. CASE b \notin ChainIn(f, h)
      <4>1. Place(g, h, b) = k
        BY <3>2, ExtendedAll DEF Place
      <4>2. s \in Nat
        BY DEF Slots
      <4> HIDE DEF k, j
      <4> QED  BY <2>3, <2>5, <2>7, <4>1, <4>2
    <3> QED  BY <3>1, <3>2
  <2> QED  BY <2>6, <2>7 DEF Written
<1>4. \A l : Found(f, d, h, l) => Found(g, d, h, l)
  BY ExtendedAll DEF Found
<1> QED  BY <1>2, <1>3, <1>4

LEMMA ExtendedContents ==
    ASSUME NEW f, NEW d, NEW g, NEW c, NEW n, Good(f, d), Contents(f, d),
           Extended(f, d, g, c, n)
    PROVE  Contents(g, d)
<1>1. \A h \in DirHeadsIn(d) : h \in HeadsIn(d)
  BY HeadTypes
<1>2. ASSUME NEW h \in HeadsIn(d)
      PROVE  /\ HeldBy(g, d, h) = HeldBy(f, d, h)
             /\ \A m, z : z \in Nat /\ Written(f, d, h, m, z) => Written(g, d, h, m, z)
             /\ \A l : Found(f, d, h, l) => Found(g, d, h, l)
  BY ExtendedHeld DEF Contents
<1>3. AllVisible(g, d)
  BY <1>1, <1>2 DEF Contents, AllVisible
<1>4. AllUnique(g, d)
  BY <1>1, <1>2 DEF Contents, AllUnique
<1>5. AllWritten(g, d)
  <2>1. ASSUME NEW l \in Entries(d) PROVE At(d, l).first \in HeadsIn(d) /\ At(d, l).size \in Nat
    <3>1. At(d, l) \in Unit
      BY EntryAt DEF Good, VolumeTyped, At
    <3> QED  BY <3>1, HeadTypes DEF Unit
  <2> QED  BY <1>2, <2>1 DEF Contents, AllWritten
<1> QED  BY <1>3, <1>4, <1>5 DEF Contents
-----------------------------------------------------------------------------
(* One unit of a directory is written.                                      *)

UnitSet(d, e, l, u) ==
    /\ l \in Location /\ l[1] \in Backed
    /\ \A b \in Cluster : b # l[1] => e[b] = d[b]
    /\ \A s \in Slots : e[l[1]][s] = IF s = l[2] THEN u ELSE d[l[1]][s]

LEMMA UnitSetAt ==
    ASSUME NEW d, NEW e, NEW l, NEW u, UnitSet(d, e, l, u)
    PROVE  /\ At(e, l) = u
           /\ \A k \in Location : k # l => At(e, k) = At(d, k)
           /\ u.kind = "entry" => Entries(e) = Entries(d) \cup {l}
           /\ u.kind # "entry" => Entries(e) = Entries(d) \ {l}
<1>1. l[1] \in Cluster /\ l[2] \in Slots
  BY DEF UnitSet, Location
<1>2. At(e, l) = u
  BY <1>1 DEF UnitSet, At
<1>3. \A k \in Location : k # l => At(e, k) = At(d, k)
  <2> SUFFICES ASSUME NEW k \in Location, k # l PROVE At(e, k) = At(d, k)
    OBVIOUS
  <2>1. k[1] \in Cluster /\ k[2] \in Slots /\ (k[1] # l[1] \/ k[2] # l[2])
    BY DEF Location, UnitSet
  <2> QED  BY <1>1, <2>1 DEF UnitSet, At
<1>4. l \in Location
  BY DEF UnitSet
<1>5. Entries(d) = {k \in Location : At(d, k).kind = "entry"}
      /\ Entries(e) = {k \in Location : At(e, k).kind = "entry"}
  BY DEF Entries, At
<1>6. u.kind = "entry" => Entries(e) = Entries(d) \cup {l}
  BY <1>2, <1>3, <1>4, <1>5
<1>7. u.kind # "entry" => Entries(e) = Entries(d) \ {l}
  BY <1>2, <1>3, <1>4, <1>5
<1> QED  BY <1>2, <1>3, <1>6, <1>7

\* What could be found still can: no 0x00 byte is written.
LEMMA UnitSetFound ==
    ASSUME NEW f, NEW d, NEW e, NEW l, NEW u, UnitSet(d, e, l, u), u.kind # "zero",
           NEW h \in Cluster, NEW k, Found(f, d, h, k)
    PROVE  Found(f, e, h, k)
<1>1. l[1] \in Cluster /\ l[2] \in Slots
  BY DEF UnitSet, Location
<1>2. ASSUME NEW b \in Cluster
      PROVE  /\ Zeroed(e[b]) => Zeroed(d[b])
             /\ Shown(d[b]) \subseteq Shown(e[b])
  <2>1. CASE b = l[1]
    <3>1. \A s \in Slots : e[b][s].kind = "zero" => d[b][s].kind = "zero"
      BY <2>1 DEF UnitSet
    <3>2. \A s \in Slots : \A t \in 0 .. s : t \in Slots
      BY LayoutAssumption DEF Slots
    <3> QED  BY <3>1, <3>2 DEF Zeroed, Shown
  <2>2. CASE b # l[1]
    BY <2>2 DEF UnitSet
  <2> QED  BY <2>1, <2>2
<1>3. \A b \in ChainIn(f, h) : b \in Cluster
  BY ChainInside
<1> QED  BY <1>2, <1>3 DEF Found, BeforeIn

\* What was written to a chain the unit is not on is as it was.
LEMMA UnitSetWritten ==
    ASSUME NEW f, NEW d, NEW e, NEW l, NEW u, UnitSet(d, e, l, u), NEW h \in Cluster,
           l[1] \notin ChainIn(f, h), NEW n, NEW z, Written(f, d, h, n, z)
    PROVE  Written(f, e, h, n, z)
<1>1. \A b \in ChainIn(f, h) : e[b] = d[b]
  BY ChainInside DEF UnitSet
<1> QED  BY <1>1 DEF Written

LEMMA UnitSetPlain ==
    ASSUME NEW d, NEW e, NEW l, NEW u, UnitSet(d, e, l, u), Plain(d),
           u.kind = "entry" => u.name \in Names
    PROVE  Plain(e)
<1>1. \A c \in Cluster \ Backed : e[c] = ZeroSector
  BY DEF UnitSet, Plain
<1>2. ASSUME NEW k \in Entries(e) PROVE At(e, k).name \in Names
  <2>1. CASE k = l
    BY <1>2, <2>1, UnitSetAt, EntryAt
  <2>2. CASE k # l
    <3>1. k \in Location /\ k \in Entries(d)
      BY <1>2, <2>2, UnitSetAt DEF Entries
    <3> QED  BY <2>2, <3>1, UnitSetAt DEF Plain
  <2> QED  BY <2>1, <2>2
<1> QED  BY <1>1, <1>2 DEF Plain

\* The chain of a file does not pass through a directory.
LEMMA FileApart ==
    ASSUME NEW f, NEW d, Good(f, d), NEW h \in DirHeadsIn(d), NEW b \in ChainIn(f, h),
           NEW k \in Entries(d), ~At(d, k).isDir
    PROVE  b \notin ChainIn(f, At(d, k).first)
<1>1. /\ h \in HeadsIn(d) /\ At(d, k).first \in HeadsIn(d)
      /\ At(d, k).first # h
  BY HeadTypes, FileHead
<1> QED  BY <1>1, OneHead

-----------------------------------------------------------------------------
(* A new entry.                                                             *)

Absent(f, d, h, n) == \A l \in HeldBy(f, d, h) : At(d, l).name # n

\* A unit of the directory h that holds no entry, and that fat_dir_find comes to.
Spot(f, d, h, l) ==
    /\ l \in Location /\ l[1] \in ChainIn(f, h) /\ At(d, l).kind # "entry"
    /\ \A s \in 0 .. l[2] - 1 : d[l[1]][s].kind # "zero"
    /\ \A b \in BeforeIn(f, h, l[1]) : ~Zeroed(d[b])

Added(f, d, e, h, l, u) ==
    /\ h \in DirHeadsIn(d) /\ Spot(f, d, h, l) /\ Absent(f, d, h, u.name)
    /\ UnitSet(d, e, l, u)
    /\ u.kind = "entry" /\ u.name \in Names /\ u.size = 0
    /\ u.first \in Cluster /\ Unclaimed(f, d, u.first) /\ f[u.first] = EOC

LEMMA AddedEntries ==
    ASSUME NEW f, NEW d, NEW e, NEW h, NEW l, NEW u, Good(f, d), Added(f, d, e, h, l, u)
    PROVE  /\ l \notin Entries(d) /\ Entries(e) = Entries(d) \cup {l} /\ At(e, l) = u
           /\ \A k \in Entries(d) : At(e, k) = At(d, k)
           /\ \A g \in DirHeadsIn(d) : g \in DirHeadsIn(e)
           /\ \A g \in DirHeadsIn(e) : g \in DirHeadsIn(d) \/ (u.isDir /\ g = u.first)
           /\ u.isDir => u.first \in DirHeadsIn(e)
<1>1. l \in Location /\ l \notin Entries(d)
  BY DEF Added, Spot, Entries, At
<1>2. Entries(e) = Entries(d) \cup {l} /\ At(e, l) = u
  BY UnitSetAt DEF Added
<1>3. \A k \in Entries(d) : At(e, k) = At(d, k)
  <2>1. \A k \in Entries(d) : k \in Location /\ k # l
    BY <1>1 DEF Entries
  <2> QED  BY <2>1, UnitSetAt DEF Added
<1>4. \A g \in DirHeadsIn(d) : g \in DirHeadsIn(e)
  BY <1>2, <1>3 DEF DirHeadsIn
<1>5. \A g \in DirHeadsIn(e) : g \in DirHeadsIn(d) \/ (u.isDir /\ g = u.first)
  BY <1>2, <1>3 DEF DirHeadsIn
<1>6. u.isDir => u.first \in DirHeadsIn(e)
  BY <1>2 DEF DirHeadsIn
<1> QED  BY <1>1, <1>2, <1>3, <1>4, <1>5, <1>6

\* What the directories hold then: h the new entry too, the new one nothing.
LEMMA AddedHeld ==
    ASSUME NEW f, NEW d, NEW e, NEW h, NEW l, NEW u, Good(f, d), AllVisible(f, d),
           Added(f, d, e, h, l, u)
    PROVE  /\ HeldBy(f, e, h) = HeldBy(f, d, h) \cup {l}
           /\ \A g \in DirHeadsIn(d) : g # h => HeldBy(f, e, g) = HeldBy(f, d, g)
           /\ HeldBy(f, e, u.first) = {}
<1>a. Entries(e) = Entries(d) \cup {l}
  BY AddedEntries
<1>1. Entries(e) = Entries(d) \cup {l} /\ h \in DirHeadsIn(d) /\ l[1] \in ChainIn(f, h)
  BY <1>a DEF Added, Spot
<1>2. HeldBy(f, e, h) = HeldBy(f, d, h) \cup {l}
  BY <1>1 DEF HeldBy
<1>3. ASSUME NEW g \in DirHeadsIn(d), g # h PROVE HeldBy(f, e, g) = HeldBy(f, d, g)
  <2>1. l[1] \notin ChainIn(f, g)
    BY <1>1, <1>3, HeadTypes, OneHead
  <2> QED  BY <1>1, <2>1 DEF HeldBy
<1>4. HeldBy(f, e, u.first) = {}
  <2>1. u.first \in Cluster /\ f[u.first] \notin Cluster
    BY LayoutFacts DEF Added
  <2>2. ChainIn(f, u.first) = {u.first}
    BY <2>1, ChainUnfold
  <2>3. l[1] # u.first
    BY <1>1, HeadTypes DEF Added, Unclaimed
  <2>4. NoEntry(d[u.first])
    BY <2>1, UnclaimedBare DEF Added
  <2>5. \A k \in Entries(d) : k[1] # u.first
    BY <2>4, EntryAt DEF NoEntry, At
  <2> QED  BY <1>1, <2>2, <2>3, <2>5 DEF HeldBy
<1> QED  BY <1>2, <1>3, <1>4

LEMMA AddedContents ==
    ASSUME NEW f, NEW d, NEW e, NEW h, NEW l, NEW u, Good(f, d), Contents(f, d),
           Added(f, d, e, h, l, u)
    PROVE  Contents(f, e)
<1>1. /\ Entries(e) = Entries(d) \cup {l} /\ At(e, l) = u /\ l \notin Entries(d)
      /\ \A k \in Entries(d) : At(e, k) = At(d, k)
      /\ \A g \in DirHeadsIn(d) : g \in DirHeadsIn(e) /\ g \in Cluster
      /\ \A g \in DirHeadsIn(e) : g \in DirHeadsIn(d) \/ g = u.first
      /\ h \in DirHeadsIn(d) /\ UnitSet(d, e, l, u) /\ u.kind = "entry" /\ u.kind # "zero"
  BY AddedEntries, HeadTypes DEF Added
<1>2. AllVisible(f, e)
  <2>1. Found(f, e, h, l)
    <3>1. /\ l[1] \in ChainIn(f, h) /\ l[2] \in Slots /\ l[1] \in Cluster
          /\ \A s \in 0 .. l[2] - 1 : d[l[1]][s].kind # "zero"
          /\ \A b \in BeforeIn(f, h, l[1]) : ~Zeroed(d[b]) /\ b # l[1] /\ b \in Cluster
      BY <1>1, ChainInside DEF Added, Spot, Location, BeforeIn
    <3>2. \A b \in BeforeIn(f, h, l[1]) : ~Zeroed(e[b])
      BY <1>1, <3>1 DEF UnitSet
    <3>3. \A s \in 0 .. l[2] : s \in Slots /\ (s = l[2] \/ s \in 0 .. l[2] - 1)
      BY <3>1, LayoutAssumption DEF Slots
    <3>4. \A s \in 0 .. l[2] : e[l[1]][s].kind # "zero"
      BY <1>1, <3>1, <3>3 DEF UnitSet
    <3> QED  BY <3>1, <3>2, <3>4 DEF Found, Shown
  <2>2. ASSUME NEW k \in Entries(d) PROVE \E g \in DirHeadsIn(e) : Found(f, e, g, k)
    <3>1. PICK g \in DirHeadsIn(d) : Found(f, d, g, k)
      BY DEF Contents, AllVisible
    <3>2. Found(f, e, g, k)
      BY <1>1, <3>1, UnitSetFound
    <3> QED  BY <1>1, <3>2
  <2> QED  BY <1>1, <2>1, <2>2 DEF AllVisible
<1>3. AllUnique(f, e)
  <2> SUFFICES ASSUME NEW g \in DirHeadsIn(e), NEW j \in HeldBy(f, e, g),
                      NEW k \in HeldBy(f, e, g), At(e, j).name = At(e, k).name
               PROVE  j = k
    BY DEF AllUnique
  <2>1. g # u.first
    BY AddedHeld DEF Contents
  <2>2. g \in DirHeadsIn(d)
    BY <1>1, <2>1
  <2>3. CASE g # h
    <3>1. j \in HeldBy(f, d, g) /\ k \in HeldBy(f, d, g)
      BY <2>2, <2>3, AddedHeld DEF Contents
    <3> QED  BY <1>1, <2>2, <3>1 DEF Contents, AllUnique, HeldBy
  <2>4. CASE g = h
    <3>1. j \in HeldBy(f, d, h) \cup {l} /\ k \in HeldBy(f, d, h) \cup {l}
      BY <2>4, AddedHeld DEF Contents
    <3>2. \A i \in HeldBy(f, d, h) : At(e, i) = At(d, i) /\ At(d, i).name # u.name
      BY <1>1 DEF HeldBy, Added, Absent
    <3> QED  BY <1>1, <2>2, <2>4, <3>1, <3>2 DEF Contents, AllUnique
  <2> QED  BY <2>3, <2>4
<1>4. AllWritten(f, e)
  <2>1. ASSUME NEW k \in Entries(d), ~At(d, k).isDir
        PROVE  Written(f, e, At(d, k).first, At(d, k).name, At(d, k).size)
    <3>1. l[1] \notin ChainIn(f, At(d, k).first)
      BY <2>1, FileApart DEF Added, Spot
    <3>2. Written(f, d, At(d, k).first, At(d, k).name, At(d, k).size)
      BY <2>1 DEF Contents, AllWritten
    <3>3. At(d, k).first \in Cluster
      BY DEF Good, VolumeTyped
    <3> QED  BY <1>1, <3>1, <3>2, <3>3, UnitSetWritten
  <2>2. Written(f, e, u.first, u.name, u.size)
    <3>1. u.first \in Cluster /\ u.size = 0
      BY DEF Added
    <3>2. /\ Cardinality(ChainIn(f, u.first)) \in Nat
          /\ \A c : Place(f, u.first, c) \in Nat
      BY <3>1, PlaceType
    <3>3. SlotsPerCluster \in Nat /\ Slots = 0 .. SlotsPerCluster - 1
      BY LayoutAssumption DEF Slots
    <3>4. \A i, j \in Nat : i * SlotsPerCluster + j \in Nat
      BY <3>3
    <3>5. 0 <= Cardinality(ChainIn(f, u.first)) * SlotsPerCluster
      BY <3>2, <3>3
    <3>6. \A c, s : s \in Slots => Place(f, u.first, c) * SlotsPerCluster + s >= 0
      BY <3>2, <3>3, <3>4
    <3> QED  BY <3>1, <3>5, <3>6, <3>2, <3>3, <3>4 DEF Written
  <2> QED  BY <1>1, <2>1, <2>2 DEF AllWritten
<1>5. Plain(e)
  BY UnitSetPlain DEF Added, Contents
<1> QED  BY <1>2, <1>3, <1>4, <1>5 DEF Contents
-----------------------------------------------------------------------------
(* An entry is deleted.                                                     *)

Removed(f, d, e, h, l, u) ==
    /\ h \in DirHeadsIn(d) /\ l \in HeldBy(f, d, h) /\ UnitSet(d, e, l, u)
    /\ u.kind = "deleted"
    /\ At(d, l).isDir => \A c \in ChainIn(f, At(d, l).first) : NoEntry(d[c])

LEMMA RemovedEntries ==
    ASSUME NEW f, NEW d, NEW e, NEW h, NEW l, NEW u, Good(f, d), Removed(f, d, e, h, l, u)
    PROVE  /\ l \in Entries(d) /\ Entries(e) = Entries(d) \ {l}
           /\ \A k \in Entries(e) : At(e, k) = At(d, k)
           /\ \A g \in DirHeadsIn(e) : g \in DirHeadsIn(d)
           /\ \A g \in DirHeadsIn(d) :
                g \in DirHeadsIn(e) \/ (At(d, l).isDir /\ g = At(d, l).first)
           /\ \A g : HeldBy(f, e, g) = HeldBy(f, d, g) \ {l}
<1>1. l \in Entries(d)
  BY DEF Removed, HeldBy
<1>a. UnitSet(d, e, l, u) /\ u.kind # "entry"
  BY DEF Removed
<1>2. Entries(e) = Entries(d) \ {l}
  BY <1>a, UnitSetAt
<1>3. \A k \in Entries(e) : At(e, k) = At(d, k)
  <2>1. \A k \in Entries(e) : k \in Location /\ k # l
    BY <1>2 DEF Entries
  <2> QED  BY <1>a, <2>1, UnitSetAt
<1>4. \A g \in DirHeadsIn(e) : g \in DirHeadsIn(d)
  BY <1>2, <1>3 DEF DirHeadsIn
<1>5. \A g \in DirHeadsIn(d) :
         g \in DirHeadsIn(e) \/ (At(d, l).isDir /\ g = At(d, l).first)
  BY <1>1, <1>2, <1>3 DEF DirHeadsIn
<1>6. \A g : HeldBy(f, e, g) = HeldBy(f, d, g) \ {l}
  BY <1>2 DEF HeldBy
<1> QED  BY <1>1, <1>2, <1>3, <1>4, <1>5, <1>6

LEMMA RemovedContents ==
    ASSUME NEW f, NEW d, NEW e, NEW h, NEW l, NEW u, Good(f, d), Contents(f, d),
           Removed(f, d, e, h, l, u)
    PROVE  Contents(f, e)
<1>1. /\ l \in Entries(d) /\ Entries(e) = Entries(d) \ {l}
      /\ \A k \in Entries(e) : At(e, k) = At(d, k)
      /\ \A g \in DirHeadsIn(e) : g \in DirHeadsIn(d)
      /\ \A g \in DirHeadsIn(d) :
           g \in DirHeadsIn(e) \/ (At(d, l).isDir /\ g = At(d, l).first)
      /\ \A g : HeldBy(f, e, g) = HeldBy(f, d, g) \ {l}
  BY RemovedEntries
<1>2. UnitSet(d, e, l, u) /\ u.kind # "zero" /\ u.kind # "entry"
  BY DEF Removed
<1>3. AllVisible(f, e)
  <2> SUFFICES ASSUME NEW k \in Entries(e)
               PROVE  \E g \in DirHeadsIn(e) : Found(f, e, g, k)
    BY DEF AllVisible
  <2>1. k \in Entries(d)
    BY <1>1
  <2>2. PICK g \in DirHeadsIn(d) : Found(f, d, g, k)
    BY <2>1 DEF Contents, AllVisible
  <2>3. g \in DirHeadsIn(e)
    <3> SUFFICES ASSUME At(d, l).isDir, g = At(d, l).first PROVE FALSE
      BY <1>1
    <3>1. NoEntry(d[k[1]])
      BY <2>2 DEF Removed, Found
    <3> QED  BY <2>1, <3>1, EntryAt DEF NoEntry, At
  <2>4. g \in Cluster
    BY HeadTypes
  <2> QED  BY <1>2, <2>2, <2>3, <2>4, UnitSetFound
<1>4. AllUnique(f, e)
  BY <1>1 DEF AllUnique, Contents, HeldBy
<1>5. AllWritten(f, e)
  <2> SUFFICES ASSUME NEW k \in Entries(e), ~At(e, k).isDir
               PROVE  Written(f, e, At(e, k).first, At(e, k).name, At(e, k).size)
    BY DEF AllWritten
  <2>1. k \in Entries(d) /\ At(e, k) = At(d, k)
    BY <1>1
  <2>2. l[1] \notin ChainIn(f, At(d, k).first)
    BY <2>1, FileApart DEF Removed, HeldBy
  <2>3. Written(f, d, At(d, k).first, At(d, k).name, At(d, k).size)
    BY <2>1 DEF Contents, AllWritten
  <2>4. At(d, k).first \in Cluster
    BY <2>1 DEF Good, VolumeTyped
  <2> QED  BY <1>2, <2>1, <2>2, <2>3, <2>4, UnitSetWritten
<1>6. Plain(e)
  BY <1>2, UnitSetPlain DEF Contents
<1> QED  BY <1>3, <1>4, <1>5, <1>6 DEF Contents

-----------------------------------------------------------------------------
(* Text in a directory is deleted, which passed for an entry.               *)

Wiped(f, d, e, h, l) ==
    /\ h \in DirHeadsIn(d) /\ l[1] \in ChainIn(f, h) /\ At(d, l).kind = "data"
    /\ UnitSet(d, e, l, Deleted)

LEMMA WipedEntries ==
    ASSUME NEW f, NEW d, NEW e, NEW h, NEW l, Wiped(f, d, e, h, l)
    PROVE  /\ Entries(e) = Entries(d) /\ \A k \in Entries(d) : At(e, k) = At(d, k)
           /\ HeadsIn(e) = HeadsIn(d) /\ DirHeadsIn(e) = DirHeadsIn(d)
           /\ \A g : HeldBy(f, e, g) = HeldBy(f, d, g)
<1>1. UnitSet(d, e, l, Deleted) /\ Deleted.kind # "entry" /\ l \notin Entries(d)
  BY EntryAt DEF Wiped, Deleted, Mark
<1>2. Entries(e) = Entries(d)
  BY <1>1, UnitSetAt
<1>3. \A k \in Entries(d) : At(e, k) = At(d, k)
  <2>1. \A k \in Entries(d) : k \in Location /\ k # l
    BY <1>1 DEF Entries
  <2> QED  BY <1>1, <2>1, UnitSetAt
<1>4. HeadsIn(e) = HeadsIn(d) /\ DirHeadsIn(e) = DirHeadsIn(d)
  BY <1>2, <1>3 DEF HeadsIn, DirHeadsIn
<1>5. \A g : HeldBy(f, e, g) = HeldBy(f, d, g)
  BY <1>2 DEF HeldBy
<1> QED  BY <1>2, <1>3, <1>4, <1>5

LEMMA WipedContents ==
    ASSUME NEW f, NEW d, NEW e, NEW h, NEW l, Good(f, d), Contents(f, d),
           Wiped(f, d, e, h, l)
    PROVE  Contents(f, e)
<1>1. /\ Entries(e) = Entries(d) /\ \A k \in Entries(d) : At(e, k) = At(d, k)
      /\ DirHeadsIn(e) = DirHeadsIn(d) /\ \A g : HeldBy(f, e, g) = HeldBy(f, d, g)
  BY WipedEntries
<1>2. /\ UnitSet(d, e, l, Deleted) /\ Deleted.kind = "deleted"
      /\ h \in DirHeadsIn(d) /\ l[1] \in ChainIn(f, h)
  BY DEF Wiped, Deleted, Mark
<1>3. AllVisible(f, e)
  <2> SUFFICES ASSUME NEW k \in Entries(d)
               PROVE  \E g \in DirHeadsIn(d) : Found(f, e, g, k)
    BY <1>1 DEF AllVisible
  <2>1. PICK g \in DirHeadsIn(d) : Found(f, d, g, k)
    BY DEF Contents, AllVisible
  <2>2. g \in Cluster /\ Deleted.kind # "zero"
    BY <1>2, HeadTypes
  <2> QED  BY <1>2, <2>1, <2>2, UnitSetFound
<1>4. AllUnique(f, e)
  BY <1>1 DEF AllUnique, Contents, HeldBy
<1>5. AllWritten(f, e)
  <2> SUFFICES ASSUME NEW k \in Entries(d), ~At(d, k).isDir
               PROVE  Written(f, e, At(d, k).first, At(d, k).name, At(d, k).size)
    BY <1>1 DEF AllWritten
  <2>1. l[1] \notin ChainIn(f, At(d, k).first)
    BY <1>2, FileApart
  <2>2. Written(f, d, At(d, k).first, At(d, k).name, At(d, k).size)
    BY DEF Contents, AllWritten
  <2>3. At(d, k).first \in Cluster
    BY DEF Good, VolumeTyped
  <2> QED  BY <1>2, <2>1, <2>2, <2>3, UnitSetWritten
<1>6. Plain(e)
  BY <1>2, UnitSetPlain DEF Contents
<1> QED  BY <1>3, <1>4, <1>5, <1>6 DEF Contents

-----------------------------------------------------------------------------
(* The size in an entry is set to what has been written.                    *)

Grown(f, d, e, h, l, z) ==
    /\ h \in DirHeadsIn(d) /\ l \in HeldBy(f, d, h) /\ ~At(d, l).isDir
    /\ z \in 0 .. MaxLen
    /\ UnitSet(d, e, l, Resized(At(d, l), z))
    /\ Written(f, d, At(d, l).first, At(d, l).name, z)

LEMMA GrownEntries ==
    ASSUME NEW f, NEW d, NEW e, NEW h, NEW l, NEW z, Good(f, d), Grown(f, d, e, h, l, z)
    PROVE  /\ l \in Entries(d) /\ Entries(e) = Entries(d)
           /\ \A k \in Entries(d) :
                /\ At(e, k).first = At(d, k).first /\ At(e, k).name = At(d, k).name
                /\ At(e, k).isDir = At(d, k).isDir /\ At(e, k).kind = "entry"
                /\ At(e, k).size = IF k = l THEN z ELSE At(d, k).size
                /\ k # l => At(e, k) = At(d, k)
           /\ DirHeadsIn(e) = DirHeadsIn(d) /\ HeadsIn(e) = HeadsIn(d)
           /\ \A g : HeldBy(f, e, g) = HeldBy(f, d, g)
<1> DEFINE x == At(d, l)
           u == Resized(x, z)
<1>1. l \in Entries(d) /\ l \in Location
  BY DEF Grown, HeldBy, Entries
<1>2. x \in Unit /\ z \in 0 .. MaxLen /\ x.kind = "entry"
  BY <1>1, EntryAt DEF Grown, Good, VolumeTyped, At
<1>3. /\ u.kind = "entry" /\ u.name = x.name /\ u.first = x.first /\ u.isDir = x.isDir
      /\ u.size = z
  BY <1>2, Resizing
<1>4. UnitSet(d, e, l, u)
  BY DEF Grown
<1> HIDE DEF u
<1>5. /\ Entries(e) = Entries(d) \cup {l} /\ At(e, l) = u
      /\ \A k \in Location : k # l => At(e, k) = At(d, k)
  BY <1>3, <1>4, UnitSetAt
<1>6. Entries(e) = Entries(d) /\ \A k \in Entries(d) : k \in Location /\ At(d, k).kind = "entry"
  BY <1>1, <1>5, EntryAt DEF Entries
<1>7. \A k \in Entries(d) :
        /\ At(e, k).first = At(d, k).first /\ At(e, k).name = At(d, k).name
        /\ At(e, k).isDir = At(d, k).isDir /\ At(e, k).kind = "entry"
        /\ At(e, k).size = IF k = l THEN z ELSE At(d, k).size
        /\ k # l => At(e, k) = At(d, k)
  BY <1>3, <1>5, <1>6
<1>8. DirHeadsIn(e) = DirHeadsIn(d) /\ HeadsIn(e) = HeadsIn(d)
  BY <1>6, <1>7 DEF DirHeadsIn, HeadsIn
<1>9. \A g : HeldBy(f, e, g) = HeldBy(f, d, g)
  BY <1>6 DEF HeldBy
<1> QED  BY <1>1, <1>6, <1>7, <1>8, <1>9

LEMMA GrownContents ==
    ASSUME NEW f, NEW d, NEW e, NEW h, NEW l, NEW z, Good(f, d), Contents(f, d),
           Grown(f, d, e, h, l, z)
    PROVE  Contents(f, e)
<1> DEFINE u == Resized(At(d, l), z)
<1>1. /\ l \in Entries(d) /\ Entries(e) = Entries(d)
      /\ \A k \in Entries(d) :
           /\ At(e, k).first = At(d, k).first /\ At(e, k).name = At(d, k).name
           /\ At(e, k).isDir = At(d, k).isDir /\ At(e, k).kind = "entry"
           /\ At(e, k).size = IF k = l THEN z ELSE At(d, k).size
           /\ k # l => At(e, k) = At(d, k)
      /\ DirHeadsIn(e) = DirHeadsIn(d)
      /\ \A g : HeldBy(f, e, g) = HeldBy(f, d, g)
  BY GrownEntries
<1>2. UnitSet(d, e, l, u)
  BY DEF Grown
<1> HIDE DEF u
<1>3. u = At(e, l)
  BY <1>2, UnitSetAt
<1>4. u.kind # "zero" /\ u.name \in Names
  BY <1>1, <1>3 DEF Contents, Plain
<1>5. AllVisible(f, e)
  <2>1. \A h1 \in DirHeadsIn(d) : h1 \in Cluster
    BY HeadTypes
  <2>2. \A h1 \in DirHeadsIn(d), k \in Entries(d) : Found(f, d, h1, k) => Found(f, e, h1, k)
    BY <1>2, <1>4, <2>1, UnitSetFound
  <2> QED  BY <1>1, <2>2 DEF Contents, AllVisible
<1>6. AllUnique(f, e)
  BY <1>1 DEF AllUnique, Contents, HeldBy
<1>7. AllWritten(f, e)
  <2> SUFFICES ASSUME NEW k \in Entries(d), ~At(d, k).isDir
               PROVE  Written(f, e, At(d, k).first, At(d, k).name, At(e, k).size)
    BY <1>1 DEF AllWritten
  <2>1. Written(f, d, At(d, k).first, At(d, k).name, At(e, k).size)
    BY <1>1 DEF Contents, AllWritten, Grown
  <2>2. l[1] \notin ChainIn(f, At(d, k).first)
    BY FileApart DEF Grown, HeldBy
  <2>3. At(d, k).first \in Cluster
    BY DEF Good, VolumeTyped
  <2> QED  BY <1>2, <2>1, <2>2, <2>3, UnitSetWritten
<1>8. Plain(e)
  BY <1>2, <1>4, UnitSetPlain DEF Contents
<1> QED  BY <1>5, <1>6, <1>7, <1>8 DEF Contents

-----------------------------------------------------------------------------
(* A sector without entries is written, and holds none afterwards.          *)

Swapped(f, d, e, c) ==
    /\ c \in Cluster /\ c \in Backed /\ NoEntry(d[c]) /\ NoEntry(e[c])
    /\ \A b \in Cluster : b # c => e[b] = d[b]
    /\ \A h \in DirHeadsIn(d) : c \in ChainIn(f, h) => HeldBy(f, d, h) = {}

LEMMA SwappedEntries ==
    ASSUME NEW f, NEW d, NEW e, NEW c, Swapped(f, d, e, c)
    PROVE  /\ Entries(e) = Entries(d) /\ \A l \in Entries(d) : At(e, l) = At(d, l)
           /\ HeadsIn(e) = HeadsIn(d) /\ DirHeadsIn(e) = DirHeadsIn(d)
           /\ \A h : HeldBy(f, e, h) = HeldBy(f, d, h)
<1>1. Entries(e) = Entries(d) /\ \A l \in Entries(d) : l[1] # c /\ l[1] \in Cluster
  BY DEF Entries, Location, Swapped, NoEntry
<1>2. \A l \in Entries(d) : At(e, l) = At(d, l)
  BY <1>1 DEF At, Swapped
<1>3. HeadsIn(e) = HeadsIn(d) /\ DirHeadsIn(e) = DirHeadsIn(d)
  BY <1>1, <1>2 DEF HeadsIn, DirHeadsIn
<1>4. \A h : HeldBy(f, e, h) = HeldBy(f, d, h)
  BY <1>1 DEF HeldBy
<1> QED  BY <1>1, <1>2, <1>3, <1>4

LEMMA SwappedContents ==
    ASSUME NEW f, NEW d, NEW e, NEW c, Good(f, d), Contents(f, d), Swapped(f, d, e, c),
           AllWritten(f, e)
    PROVE  Contents(f, e)
<1>1. /\ Entries(e) = Entries(d) /\ \A l \in Entries(d) : At(e, l) = At(d, l)
      /\ HeadsIn(e) = HeadsIn(d) /\ DirHeadsIn(e) = DirHeadsIn(d)
      /\ \A h : HeldBy(f, e, h) = HeldBy(f, d, h)
  BY SwappedEntries
<1>2. ASSUME NEW h \in DirHeadsIn(d), NEW l \in Entries(d), Found(f, d, h, l)
      PROVE  Found(f, e, h, l)
  <2>1. l \in HeldBy(f, d, h) /\ h \in Cluster
    BY <1>2, HeadTypes DEF Found, HeldBy
  <2>2. c \notin ChainIn(f, h)
    BY <2>1 DEF Swapped
  <2>3. \A b \in ChainIn(f, h) : e[b] = d[b]
    BY <2>1, <2>2, ChainInside DEF Swapped
  <2> QED  BY <1>2, <2>3 DEF Found, BeforeIn
<1>3. AllVisible(f, e)
  BY <1>1, <1>2 DEF AllVisible, Contents
<1>4. AllUnique(f, e)
  BY <1>1 DEF AllUnique, Contents, HeldBy
<1>5. Plain(e)
  BY <1>1 DEF Plain, Contents, Swapped
<1> QED  BY <1>3, <1>4, <1>5 DEF Contents

\* Text is put into a cluster of a file.
Poured(f, d, e, l, c) ==
    /\ l \in Entries(d) /\ ~At(d, l).isDir /\ c \in ChainIn(f, At(d, l).first)
    /\ c \in Backed
    /\ \A b \in Cluster : b # c => e[b] = d[b]
    /\ \A s \in Slots : e[c][s] = Data(At(d, l).name) \/ e[c][s] = d[c][s]

LEMMA PouredSwapped ==
    ASSUME NEW f, NEW d, NEW e, NEW l, NEW c, Good(f, d), AllVisible(f, d),
           Poured(f, d, e, l, c)
    PROVE  /\ Swapped(f, d, e, c)
           /\ \A n, z : n = At(d, l).name /\ Written(f, d, At(d, l).first, n, z)
                          => Written(f, e, At(d, l).first, n, z)
<1>1. l \in Entries(d) /\ ~At(d, l).isDir /\ c \in ChainIn(f, At(d, l).first)
  BY DEF Poured
<1>2. c \in Cluster /\ NoEntry(d[c])
  BY <1>1, FileBare
<1>3. NoEntry(e[c])
  BY <1>2 DEF Poured, NoEntry, Data, Mark
<1>4. \A h \in DirHeadsIn(d) : c \notin ChainIn(f, h)
  BY <1>1, FileApart
<1>5. Swapped(f, d, e, c)
  BY <1>2, <1>3, <1>4 DEF Swapped, Poured
<1>6. \A b \in ChainIn(f, At(d, l).first) : b \in Cluster
  BY <1>1, HeadTypes, ChainInside
<1>7. \A b \in ChainIn(f, At(d, l).first), s \in Slots :
        d[b][s] = Data(At(d, l).name) => e[b][s] = Data(At(d, l).name)
  BY <1>6 DEF Poured
<1> QED  BY <1>5, <1>7 DEF Written

LEMMA PouredContents ==
    ASSUME NEW f, NEW d, NEW e, NEW l, NEW c, Good(f, d), Contents(f, d),
           Poured(f, d, e, l, c)
    PROVE  Contents(f, e)
<1>1. /\ Swapped(f, d, e, c)
      /\ \A n, z : n = At(d, l).name /\ Written(f, d, At(d, l).first, n, z)
                     => Written(f, e, At(d, l).first, n, z)
  BY PouredSwapped DEF Contents
<1>2. Entries(e) = Entries(d) /\ \A k \in Entries(d) : At(e, k) = At(d, k)
  BY <1>1, SwappedEntries
<1>3. l \in Entries(d) /\ c \in ChainIn(f, At(d, l).first)
  BY DEF Poured
<1>4. AllWritten(f, e)
  <2> SUFFICES ASSUME NEW k \in Entries(d), ~At(d, k).isDir
               PROVE  Written(f, e, At(d, k).first, At(d, k).name, At(d, k).size)
    BY <1>2 DEF AllWritten
  <2>1. Written(f, d, At(d, k).first, At(d, k).name, At(d, k).size)
    BY DEF Contents, AllWritten
  <2>2. CASE k = l
    BY <1>1, <2>1, <2>2
  <2>3. CASE k # l
    <3>1. /\ At(d, k).first # At(d, l).first /\ At(d, k).first \in HeadsIn(d)
          /\ At(d, l).first \in HeadsIn(d)
      BY <1>3, <2>3, HeadTypes DEF Good, VolumeSound
    <3>2. c \notin ChainIn(f, At(d, k).first)
      BY <1>3, <3>1, OneHead
    <3>3. \A b \in ChainIn(f, At(d, k).first) : e[b] = d[b]
      BY <3>1, <3>2, HeadTypes, ChainInside DEF Poured
    <3> QED  BY <2>1, <3>3 DEF Written
  <2> QED  BY <2>2, <2>3
<1> QED  BY <1>1, <1>4, SwappedContents

\* The "." and ".." of a new directory.
Dotted(f, d, e, c) ==
    /\ c \in DirHeadsIn(d) /\ c \in Backed /\ f[c] = EOC /\ NoEntry(d[c])
    /\ e[c] = DotSector /\ \A b \in Cluster : b # c => e[b] = d[b]

LEMMA DottedSwapped ==
    ASSUME NEW f, NEW d, NEW e, NEW c, Good(f, d), Dotted(f, d, e, c)
    PROVE  Swapped(f, d, e, c)
<1>1. c \in HeadsIn(d) /\ c \in Cluster /\ c \in DirHeadsIn(d)
  BY HeadTypes DEF Dotted
<1>2. ChainIn(f, c) = {c}
  BY <1>1, ChainUnfold, LayoutFacts DEF Dotted
<1>3. HeldBy(f, d, c) = {}
  BY <1>2, EntryAt DEF HeldBy, Dotted, NoEntry, At
<1>4. \A h \in DirHeadsIn(d) : c \in ChainIn(f, h) => h = c
  BY <1>1, <1>2, HeadTypes, OneHead
<1>5. NoEntry(e[c])
  BY DEF Dotted, NoEntry, DotSector, Dot, Zero, Mark
<1> QED  BY <1>1, <1>3, <1>4, <1>5 DEF Swapped, Dotted

LEMMA DottedContents ==
    ASSUME NEW f, NEW d, NEW e, NEW c, Good(f, d), Contents(f, d), Dotted(f, d, e, c)
    PROVE  Contents(f, e)
<1>1. Swapped(f, d, e, c)
  BY DottedSwapped
<1>2. Entries(e) = Entries(d) /\ \A k \in Entries(d) : At(e, k) = At(d, k)
  BY <1>1, SwappedEntries
<1>3. c \in DirHeadsIn(d) /\ c \in ChainIn(f, c)
  BY HeadTypes, ChainBasic DEF Dotted
<1>4. AllWritten(f, e)
  <2> SUFFICES ASSUME NEW k \in Entries(d), ~At(d, k).isDir
               PROVE  Written(f, e, At(d, k).first, At(d, k).name, At(d, k).size)
    BY <1>2 DEF AllWritten
  <2>1. Written(f, d, At(d, k).first, At(d, k).name, At(d, k).size)
    BY DEF Contents, AllWritten
  <2>2. c \notin ChainIn(f, At(d, k).first)
    BY <1>3, FileApart
  <2>3. \A b \in ChainIn(f, At(d, k).first) : e[b] = d[b]
    BY <2>2, HeadTypes, ChainInside DEF Dotted
  <2> QED  BY <2>1, <2>3 DEF Written
<1> QED  BY <1>1, <1>4, SwappedContents
-----------------------------------------------------------------------------
(* What the running command has found out.                                  *)

\* Where fat_dir_find stands in the directory h: no n so far, and no 0x00.
Unnamed(x, n) == \A s \in Shown(x) : x[s].kind = "entry" => x[s].name # n
SearchedTo(f, d, h, c, n) ==
    /\ c \in ChainIn(f, h)
    /\ \A b \in BeforeIn(f, h, c) : ~Zeroed(d[b]) /\ Unnamed(d[b], n)

\* Where fat_dir_find_free stands: nothing free so far.
Packed(x) == \A s \in Slots : x[s].kind \notin {"zero", "deleted"}
FullTo(f, d, h, c) == c \in ChainIn(f, h) /\ \A b \in BeforeIn(f, h, c) : Packed(d[b])

\* Where fat_dir_is_empty stands.
Vacant(x) == ~Zeroed(x) /\ \A s \in Shown(x) : x[s].kind # "entry"
VacantTo(f, d, h, c) == c \in ChainIn(f, h) /\ \A b \in BeforeIn(f, h, c) : Vacant(d[b])

\* The chain of c is apart from all that entries point to.
Apart(f, d, c) == \A h \in HeadsIn(d) : ChainIn(f, h) \cap ChainIn(f, c) = {}

\* At l the directory h holds what n stands for.
Holding(f, d, h, l, n) == l \in HeldBy(f, d, h) /\ At(d, l).name = n

Allocating(r) == pc = r \/ (pc \in {"alloc", "zero"} /\ ret = r)
Making        == pc = "findfree" \/ Allocating("dirlink") \/ Allocating("dirent")
FileOpen      == pc \in {"loop", "seek", "finish"} \/ Allocating("filelink")
Seeking       == pc = "seek" \/ Allocating("filelink")

CommandKnown ==
    /\ pc = "idle" => op = "none"
    /\ pc # "idle" => out = "none"
    /\ pc \notin {"idle", "list"} => nm \in Names
    /\ pc = "find" => op \in {"walk", "write", "mkdir", "rm", "cat"}
    /\ Making => op \in {"write", "mkdir"}
    /\ pc = "dots" => op = "mkdir"
    /\ pc \in {"loop", "seek"} => op \in {"write", "cat"}
    /\ pc = "finish" \/ Allocating("filelink") => op = "write"
    /\ pc \in {"empty", "delete", "free"} => op = "rm"
    /\ pc = "list" => op = "ls"

Walked == dir \in DirHeadsIn(disk) /\ (pc = "idle" => up \in DirHeadsIn(disk))

Searching == pc = "find" => SearchedTo(fat, disk, dir, cur, nm)

Placing ==
    /\ Making => Absent(fat, disk, dir, nm)
    /\ pc = "findfree" \/ Allocating("dirlink") => FullTo(fat, disk, dir, cur)
    /\ Allocating("dirlink") => Packed(disk[cur]) /\ fat[cur] = EOC
    /\ Allocating("dirent") => Spot(fat, disk, dir, ent)

Claimed ==
    /\ pc \in {"zero", "dirlink", "dirent", "filelink"} =>
         Unclaimed(fat, disk, new) /\ fat[new] = EOC
    /\ pc = "dots" => /\ Holding(fat, disk, dir, ent, nm)
                      /\ At(disk, ent).isDir /\ At(disk, ent).first = new
                      /\ fat[new] = EOC /\ NoEntry(disk[new])

Opened ==
    /\ FileOpen =>
         /\ Holding(fat, disk, dir, ent, nm) /\ ~At(disk, ent).isDir
         /\ At(disk, ent).first = first /\ At(disk, ent).size = size
         /\ Written(fat, disk, first, nm, fpos)
         /\ op = "cat" => fpos + len = size
    /\ Seeking => /\ len > 0 /\ cur \in ChainIn(fat, first)
                  /\ Place(fat, first, cur) + hops = fpos \div SlotsPerCluster
    /\ Allocating("filelink") => fat[cur] = EOC

Removing ==
    /\ pc \in {"empty", "delete"} =>
         Holding(fat, disk, dir, ent, nm) /\ At(disk, ent).first = first
    /\ pc = "empty" => At(disk, ent).isDir /\ VacantTo(fat, disk, first, cur)
    /\ pc = "delete" /\ At(disk, ent).isDir =>
         \A c \in ChainIn(fat, first) : NoEntry(disk[c])
    /\ pc = "free" => Absent(fat, disk, dir, nm) /\ Apart(fat, disk, cur)

Running == CommandKnown /\ Walked /\ Searching /\ Placing /\ Claimed /\ Opened /\ Removing

TreeInv == Contents(fat, disk) /\ Running

-----------------------------------------------------------------------------
(* The next cluster of a scan.                                              *)

LEMMA SearchFirst ==
    ASSUME NEW f, NEW d, NEW h \in Cluster, Acyclic(f, h)
    PROVE  /\ \A n : SearchedTo(f, d, h, h, n)
           /\ FullTo(f, d, h, h) /\ VacantTo(f, d, h, h)
BY ChainBasic, BeforeFirst DEF SearchedTo, FullTo, VacantTo

LEMMA SearchNext ==
    ASSUME NEW f, NEW d, NEW h \in Cluster, Acyclic(f, h), NEW c, f[c] \in Cluster
    PROVE  /\ \A n : SearchedTo(f, d, h, c, n) /\ ~Zeroed(d[c]) /\ Unnamed(d[c], n)
                       => SearchedTo(f, d, h, f[c], n)
           /\ FullTo(f, d, h, c) /\ Packed(d[c]) => FullTo(f, d, h, f[c])
           /\ VacantTo(f, d, h, c) /\ Vacant(d[c]) => VacantTo(f, d, h, f[c])
<1>1. c \in ChainIn(f, h) => /\ f[c] \in ChainIn(f, h)
                             /\ BeforeIn(f, h, f[c]) = BeforeIn(f, h, c) \cup {c}
  BY BeforeNext
<1> QED  BY <1>1 DEF SearchedTo, FullTo, VacantTo

\* A scan that ends without n has seen all that can be found.
LEMMA SearchOver ==
    ASSUME NEW f, NEW d, NEW h, NEW c, NEW n, Good(f, d), Contents(f, d),
           h \in DirHeadsIn(d), SearchedTo(f, d, h, c, n),
           ~(c \in Backed /\ ~Zeroed(d[c]) /\ f[c] \in Cluster),
           c \in Backed => Unnamed(d[c], n)
    PROVE  Absent(f, d, h, n)
<1> SUFFICES ASSUME NEW l \in HeldBy(f, d, h), At(d, l).name = n PROVE FALSE
  BY DEF Absent
<1>1. /\ l \in Entries(d) /\ l[1] \in ChainIn(f, h) /\ l[1] \in Cluster /\ l[2] \in Slots
      /\ d[l[1]][l[2]].kind = "entry" /\ d[l[1]][l[2]].name = n
  BY EntryAt DEF HeldBy, At
<1>2. h \in HeadsIn(d) /\ h \in Cluster /\ Acyclic(f, h)
  BY HeadTypes
<1>3. l[2] \in Shown(d[l[1]]) /\ \A b \in BeforeIn(f, h, l[1]) : ~Zeroed(d[b])
  BY <1>1, <1>2, EntriesInDirs DEF Contents, Found
<1>4. ~Unnamed(d[l[1]], n)
  BY <1>1, <1>3 DEF Unnamed
<1>5. l[1] \notin BeforeIn(f, h, c) /\ c \in ChainIn(f, h) /\ c \in Cluster
  BY <1>2, <1>4, ChainInside DEF SearchedTo
<1>6. \A b \in Cluster : b \notin Backed => Zeroed(d[b]) /\ NoEntry(d[b])
  <2>1. ZeroSector[0].kind = "zero" /\ \A s \in Slots : ZeroSector[s].kind # "entry"
    BY LayoutFacts DEF ZeroSector, Zero, Mark
  <2> QED  BY <2>1, LayoutFacts DEF Contents, Plain, Zeroed, NoEntry
<1>7. l[1] # c
  BY <1>1, <1>4, <1>6 DEF NoEntry
<1>8. c \in ChainIn(f, l[1]) \/ l[1] \in ChainIn(f, c)
  BY <1>1, <1>2, <1>5, ChainLinear
<1>9. c \in BeforeIn(f, h, l[1])
  BY <1>1, <1>5, <1>7, <1>8 DEF BeforeIn
<1>10. c \in Backed /\ ~Zeroed(d[c]) /\ f[c] \notin Cluster
  BY <1>3, <1>5, <1>6, <1>9
<1>11. ChainIn(f, c) = {c}
  BY <1>5, <1>10, ChainUnfold
<1> QED  BY <1>7, <1>9, <1>11 DEF BeforeIn

\* A directory in which fat_dir_is_empty finds nothing holds no entry at all.
LEMMA VacantOver ==
    ASSUME NEW f, NEW d, NEW h, NEW c, Good(f, d), Contents(f, d),
           h \in DirHeadsIn(d), VacantTo(f, d, h, c),
           \A s \in Shown(d[c]) : d[c][s].kind # "entry",
           ~(c \in Backed /\ ~Zeroed(d[c]) /\ f[c] \in Cluster)
    PROVE  \A b \in ChainIn(f, h) : NoEntry(d[b])
<1> SUFFICES ASSUME NEW b \in ChainIn(f, h), NEW s \in Slots, d[b][s].kind = "entry"
             PROVE  FALSE
  BY DEF NoEntry
<1>1. h \in Cluster /\ b \in Cluster
  BY HeadTypes, ChainInside
<1>2. <<b, s>> \in HeldBy(f, d, h)
  BY <1>1, EntryAt DEF HeldBy
<1> DEFINE n == d[b][s].name
<1>3. Absent(f, d, h, n)
  <2>1. SearchedTo(f, d, h, c, n) /\ Unnamed(d[c], n)
    BY DEF SearchedTo, VacantTo, Vacant, Unnamed
  <2> HIDE DEF n
  <2> QED  BY <2>1, SearchOver
<1> QED  BY <1>2, <1>3 DEF Absent, At

\* Nothing is written of a file that has just been opened.
LEMMA WrittenNone ==
    ASSUME NEW f, NEW d, NEW h \in Cluster, NEW n
    PROVE  Written(f, d, h, n, 0)
<1>1. Cardinality(ChainIn(f, h)) \in Nat /\ \A c : Place(f, h, c) \in Nat
  BY PlaceType
<1>a. SlotsPerCluster \in Nat /\ \A s \in Slots : s \in Nat
  BY LayoutAssumption DEF Slots
<1>2. \A i \in Nat : i * SlotsPerCluster \in Nat
  BY <1>a
<1>3. 0 <= Cardinality(ChainIn(f, h)) * SlotsPerCluster
  BY <1>1, <1>2
<1>4. \A c, s : s \in Slots => ~(Place(f, h, c) * SlotsPerCluster + s < 0)
  <2> SUFFICES ASSUME NEW c, NEW s \in Slots
               PROVE  ~(Place(f, h, c) * SlotsPerCluster + s < 0)
    OBVIOUS
  <2>1. Place(f, h, c) * SlotsPerCluster \in Nat /\ s \in Nat
    BY <1>1, <1>a, <1>2
  <2> QED  BY <2>1
<1> QED  BY <1>3, <1>4 DEF Written

\* What stays as it is when the step is beside all chains.
LEMMA BesideRest ==
    ASSUME NEW f, NEW d, NEW g, NEW e, Good(f, d), AllVisible(f, d), Beside(f, d, g, e),
           NEW h \in HeadsIn(d)
    PROVE  /\ \A n : Absent(f, d, h, n) => Absent(g, e, h, n)
           /\ \A c : FullTo(f, d, h, c) => FullTo(g, e, h, c)
           /\ \A l : Spot(f, d, h, l) => Spot(g, e, h, l)
           /\ \A l, n : Holding(f, d, h, l, n) => Holding(g, e, h, l, n) /\ At(e, l) = At(d, l)
<1>1. /\ ChainIn(g, h) = ChainIn(f, h)
      /\ \A c : BeforeIn(g, h, c) = BeforeIn(f, h, c)
      /\ \A c \in ChainIn(f, h) : e[c] = d[c]
  BY BesideChains
<1>2. HeldBy(g, e, h) = HeldBy(f, d, h) /\ \A l \in HeldBy(f, d, h) : At(e, l) = At(d, l)
  BY BesideHeld, BesideEntries DEF HeldBy
<1>3. \A n : Absent(f, d, h, n) => Absent(g, e, h, n)
  BY <1>2 DEF Absent
<1>4. \A c : FullTo(f, d, h, c) => FullTo(g, e, h, c)
  BY <1>1 DEF FullTo, BeforeIn
<1>5. \A l : Spot(f, d, h, l) => Spot(g, e, h, l)
  BY <1>1 DEF Spot, BeforeIn, At
<1>6. \A l, n : Holding(f, d, h, l, n) => Holding(g, e, h, l, n) /\ At(e, l) = At(d, l)
  BY <1>2 DEF Holding
<1> QED  BY <1>3, <1>4, <1>5, <1>6

LEMMA BesideUnclaimed ==
    ASSUME NEW f, NEW d, NEW g, NEW e, Good(f, d), AllVisible(f, d), Beside(f, d, g, e),
           NEW c, Unclaimed(f, d, c)
    PROVE  Unclaimed(g, e, c)
BY BesideEntries, BesideChains DEF Unclaimed

-----------------------------------------------------------------------------
(* Each action keeps the invariant.  HereAndNext is what is known of the    *)
(* volumes before and after it.                                             *)

HereAndNext == TypeInv /\ Good(fat, disk) /\ Good(fat', disk') /\ TreeInv

\* What a step does to the device, at each point where it does something.
Change ==
    \/ UNCHANGED device
    \/ pc \in {"alloc", "zero", "free"} /\ Beside(fat, disk, fat', disk')
    \/ /\ disk' = disk /\ Extended(fat, disk, fat', cur, new)
       /\ \/ pc = "dirlink" /\ cur \in ChainIn(fat, dir)
          \/ pc = "filelink" /\ op = "write" /\ cur \in ChainIn(fat, first)
    \/ fat' = fat /\ \/ pc = "dirent" /\ Added(fat, disk, disk', dir, ent, Entry(nm, new, op = "mkdir"))
                     \/ pc = "dots" /\ Dotted(fat, disk, disk', new)
                     \/ pc = "seek" /\ op = "write" /\ Poured(fat, disk, disk', ent, cur)
                     \/ pc = "finish" /\ fpos > size /\ Grown(fat, disk, disk', dir, ent, fpos)
                     \/ pc = "delete" /\ Removed(fat, disk, disk', dir, ent, Deleted)
                     \/ pc = "find" /\ op = "rm" /\ \E l : Wiped(fat, disk, disk', dir, l)

LEMMA ReturnRuns ==
    ASSUME NEW o \in {"ok", "failed", "none"}, Return(o)
    PROVE  Running'
<1>1. CommandKnown' /\ Searching' /\ Placing' /\ Claimed' /\ Opened' /\ Removing'
  BY DEF Return, CommandKnown, Searching, Placing, Claimed, Opened, Removing, Making, Allocating,
     FileOpen, Seeking
<1>2. Walked'
  BY DEF Return, Walked, DirHeadsIn
<1> QED  BY <1>1, <1>2 DEF Running

\* A unit of a cluster is written, or not.
LEMMA UnitWritten ==
    ASSUME Good(fat, disk), NEW l \in Location, NEW u, NEW w \in SectorWrites(l[1]),
           WriteSector(w, l[1], [disk[l[1]] EXCEPT ![l[2]] = u])
    PROVE  /\ fat' = fat
           /\ ~w.done => disk' = disk /\ ~w.ok
           /\ w.done => UnitSet(disk, disk', l, u)
<1>1. fat' = fat /\ (~w.done => disk' = disk)
  BY DEF WriteSector, DiskAfter
<1>2. (~w.done => ~w.ok) /\ (w.done => l[1] \in Backed)
  BY DEF SectorWrites, FatWrites, Stored, Unsure, Refused
<1>3. ASSUME w.done PROVE UnitSet(disk, disk', l, u)
  <2> DEFINE x == [disk[l[1]] EXCEPT ![l[2]] = u]
  <2>1. l[1] \in Cluster /\ l[2] \in Slots /\ disk[l[1]] \in [Slots -> Unit]
    BY DEF Location, Good, VolumeTyped
  <2>2. \A s \in Slots : x[s] = IF s = l[2] THEN u ELSE disk[l[1]][s]
    BY <2>1
  <2> HIDE DEF x
  <2>3. disk' = [disk EXCEPT ![l[1]] = x]
    BY <1>3 DEF WriteSector, DiskAfter, x
  <2>4. disk'[l[1]] = x /\ \A b \in Cluster : b # l[1] => disk'[b] = disk[b]
    BY <2>1, <2>3 DEF Good, VolumeTyped
  <2> QED  BY <1>2, <1>3, <2>1, <2>2, <2>4 DEF UnitSet
<1> QED  BY <1>1, <1>2, <1>3

LEMMA TreeStart == HereAndNext /\ Start => TreeInv'
<1> SUFFICES ASSUME HereAndNext, Start PROVE TreeInv'
  OBVIOUS
<1>1. UNCHANGED device /\ pc = "idle"
  BY DEF Start, WalkInto, WalkUp, Command, List
<1>2. fat' = fat /\ disk' = disk /\ Contents(fat, disk)
  BY <1>1 DEF device, HereAndNext, TreeInv
<1>3. Walked /\ CommandKnown
  BY DEF HereAndNext, TreeInv, Running
<1>4. \A n : SearchedTo(fat, disk, dir, dir, n)
  BY <1>3, HeadTypes, SearchFirst DEF HereAndNext, Walked
<1>5. ASSUME NEW n \in Names, WalkInto(n) PROVE Running'
  BY <1>1, <1>2, <1>3, <1>4, <1>5 DEF WalkInto, walk, Running, CommandKnown, Walked, Searching, Placing,
     Claimed, Opened, Removing, Making, Allocating, FileOpen, Seeking
<1>6. ASSUME WalkUp PROVE Running'
  BY <1>1, <1>2, <1>3, <1>6, HeadTypes DEF HereAndNext, WalkUp, command, Running, CommandKnown, Walked, Searching, Placing,
     Claimed, Opened, Removing, Making, Allocating, FileOpen, Seeking
<1>7. ASSUME NEW n \in Names, NEW o \in {"write", "mkdir", "rm", "cat"}, NEW l, Command(o, n, l)
      PROVE  Running'
  BY <1>1, <1>2, <1>3, <1>4, <1>7 DEF Command, walk, Running, CommandKnown, Walked, Searching, Placing,
     Claimed, Opened, Removing, Making, Allocating, FileOpen, Seeking
<1>8. ASSUME List PROVE Running'
  BY <1>1, <1>2, <1>3, <1>8 DEF List, walk, Running, CommandKnown, Walked, Searching, Placing,
     Claimed, Opened, Removing, Making, Allocating, FileOpen, Seeking
<1>9. Running'
  BY <1>5, <1>6, <1>7, <1>8 DEF Start
<1> QED  BY <1>2, <1>9 DEF TreeInv

LEMMA TreeFindHit == HereAndNext /\ FindHit => TreeInv'
<1> SUFFICES ASSUME HereAndNext, FindHit PROVE TreeInv'
  OBVIOUS
<1>1. fat' = fat /\ disk' = disk /\ Contents(fat, disk) /\ pc = "find" /\ cur \in Backed
  BY DEF FindHit, device, HereAndNext, TreeInv
<1>2. Walked /\ CommandKnown /\ SearchedTo(fat, disk, dir, cur, nm) /\ Good(fat, disk)
  BY <1>1 DEF HereAndNext, TreeInv, Running, Searching
<1>3. PICK s \in Slots : /\ Least(s, Hits(cur, nm)) /\ ~IsText(cur, s)
                       /\ FoundBy(disk[cur][s], s)
  BY DEF FindHit
<1> DEFINE l == <<cur, s>>
           x == disk[cur][s]
<1>4. x = At(disk, l) /\ x.kind = "entry" /\ x.name = nm /\ cur \in Cluster
  BY <1>3 DEF At, Least, Hits, Named, Read, HereAndNext, TypeInv, LocalsTyped
<1>5. l \in HeldBy(fat, disk, dir)
  BY <1>2, <1>4, EntryAt DEF HeldBy, SearchedTo
<1>6. l \in Entries(disk) /\ Holding(fat, disk, dir, l, nm) /\ x.first \in Cluster
  BY <1>2, <1>4, <1>5, HeadTypes DEF HeldBy, Holding
<1>7. /\ x.isDir => x.first \in DirHeadsIn(disk)
      /\ Written(fat, disk, x.first, nm, 0)
      /\ VacantTo(fat, disk, x.first, x.first)
  <2>1. x.first \in HeadsIn(disk) /\ Acyclic(fat, x.first)
    BY <1>2, <1>4, <1>6, HeadTypes
  <2>2. x.isDir => x.first \in DirHeadsIn(disk)
    BY <1>2, <1>4, <1>6, HeadTypes
  <2> HIDE DEF x
  <2> QED  BY <1>6, <2>1, <2>2, WrittenNone, SearchFirst
<1>8. x.size \in Nat /\ x.isDir \in BOOLEAN
  BY <1>3, <1>4 DEF Unit, HereAndNext, TypeInv, DeviceTyped
<1> HIDE DEF x, l
<1>9. Running'
  <2>0. FoundBy(x, s)
    BY <1>3 DEF x
  <2>a. l = <<cur, s>>
    BY DEF l
  <2>1. CASE op = "walk" /\ x.isDir
    <3>1. /\ pc' = "idle" /\ op' = "none" /\ dir' = x.first /\ up' = dir
          /\ nm' = NoName /\ UNCHANGED <<ent, claim, file, out>>
      BY <2>0, <2>1 DEF FoundBy
    <3> QED  BY <1>1, <1>2, <1>7, <2>1, <3>1 DEF Running, CommandKnown, Walked, Searching, Placing,
     Claimed, Opened, Removing, Making, Allocating, FileOpen, Seeking
  <2>2. CASE op \in {"write", "cat"} /\ ~x.isDir
    <3>1. /\ pc' = "loop" /\ ent' = l /\ first' = x.first /\ size' = x.size /\ fpos' = 0
          /\ op = "cat" => len' = x.size
          /\ UNCHANGED <<command, walk, cur, claim, hops, out>>
      BY <2>0, <2>2, <2>a DEF FoundBy
    <3>2. Opened'
      BY <1>1, <1>4, <1>6, <1>7, <1>8, <2>2, <3>1 DEF Opened, FileOpen, Seeking, Allocating,
         command, walk
    <3> QED  BY <1>1, <1>2, <2>2, <3>1, <3>2 DEF Running, CommandKnown, Walked, Searching, Placing,
     Claimed, Removing, Making, Allocating, FileOpen, Seeking, command, walk
  <2>3. CASE op = "rm"
    <3>1. /\ ent' = l /\ first' = x.first /\ cur' = x.first
          /\ pc' = IF x.isDir THEN "empty" ELSE "delete"
          /\ UNCHANGED <<command, walk, claim, hops, fpos, size, len, out>>
      BY <2>0, <2>3, <2>a DEF FoundBy
    <3>2. Removing'
      BY <1>1, <1>4, <1>6, <1>7, <1>8, <2>3, <3>1 DEF Removing, command, walk
    <3> QED  BY <1>1, <1>2, <2>3, <3>1, <3>2 DEF Running, CommandKnown, Walked, Searching, Placing,
     Claimed, Opened, Making, Allocating, FileOpen, Seeking, command, walk
  <2>4. CASE Return("failed") \/ Return("ok")
    BY <2>4, ReturnRuns
  <2> QED  BY <2>0, <2>1, <2>2, <2>3, <2>4 DEF FoundBy
<1> QED  BY <1>1, <1>9 DEF TreeInv

\* Text was found, and no loop over its chain comes to anything.
LEMMA TreeFindText == HereAndNext /\ FindText => TreeInv'
<1> SUFFICES ASSUME HereAndNext, FindText PROVE TreeInv'
  OBVIOUS
<1>1. fat' = fat /\ disk' = disk /\ Contents(fat, disk) /\ Walked
  BY DEF FindText, device, HereAndNext, TreeInv, Running
<1>2. PICK s \in Slots : TextFoundBy(Read(cur, s))
  BY DEF FindText
<1>3. Running'
  <2>1. CASE Return("failed") \/ Return("ok")
    BY <2>1, ReturnRuns
  <2>2. CASE /\ pc' = "idle" /\ op' = "none" /\ nm' = NoName /\ up' = Root
             /\ UNCHANGED <<dir, ent, claim, file, out>>
    <3>1. Walked'
      BY <1>1, <2>2 DEF Walked, DirHeadsIn
    <3> QED  BY <2>2, <3>1 DEF Running, CommandKnown, Searching, Placing,
       Claimed, Opened, Removing, Making, Allocating, FileOpen, Seeking
  <2> QED  BY <1>2, <2>1, <2>2 DEF TextFoundBy
<1> QED  BY <1>1, <1>3 DEF TreeInv

\* What fat_dir_find hits is on the chain of the directory it looks through.
LEMMA TextHit ==
    ASSUME HereAndNext, pc = "find", cur \in Backed,
           NEW s \in Slots, Least(s, Hits(cur, nm)), IsText(cur, s)
    PROVE  /\ <<cur, s>> \in Location /\ dir \in DirHeadsIn(disk) /\ cur \in ChainIn(fat, dir)
           /\ At(disk, <<cur, s>>).kind = "data" /\ TextOn(fat, disk, dir)
<1>1. SearchedTo(fat, disk, dir, cur, nm) /\ dir \in DirHeadsIn(disk)
  BY DEF HereAndNext, TreeInv, Running, Searching, Walked
<1>2. cur \in ChainIn(fat, dir) /\ cur \in Cluster
  BY <1>1 DEF SearchedTo, HereAndNext, TypeInv, LocalsTyped
<1>3. disk[cur][s].kind = "data"
  BY DEF IsText
<1> QED  BY <1>1, <1>2, <1>3 DEF Location, At, TextOn, Texted

LEMMA TreeDeleteText == HereAndNext /\ DeleteText => TreeInv' /\ Change
<1> SUFFICES ASSUME HereAndNext, DeleteText PROVE TreeInv' /\ Change
  OBVIOUS
<1>1. pc = "find" /\ op = "rm" /\ cur \in Backed
  BY DEF DeleteText
<1>2. Good(fat, disk) /\ Contents(fat, disk)
  BY DEF HereAndNext, TreeInv
<1>3. PICK s \in Slots, w \in SectorWrites(cur) :
         /\ Least(s, Hits(cur, nm)) /\ IsText(cur, s)
         /\ WriteSector(w, cur, [disk[cur] EXCEPT ![s] = Deleted])
         /\ Return(IF w.ok THEN "ok" ELSE "failed")
  BY DEF DeleteText
<1>4. Running'
  BY <1>3, ReturnRuns
<1> DEFINE l == <<cur, s>>
<1>5. /\ l \in Location /\ dir \in DirHeadsIn(disk) /\ cur \in ChainIn(fat, dir)
      /\ At(disk, l).kind = "data"
  BY <1>1, <1>3, TextHit
<1>6. l[1] = cur /\ l[2] = s
  OBVIOUS
<1> HIDE DEF l
<1>7. /\ fat' = fat
      /\ ~w.done => disk' = disk
      /\ w.done => UnitSet(disk, disk', l, Deleted)
  BY <1>2, <1>3, <1>5, <1>6, UnitWritten
<1>8. CASE ~w.done
  BY <1>2, <1>4, <1>7, <1>8 DEF TreeInv, Change, device
<1>9. CASE w.done
  <2>1. Wiped(fat, disk, disk', dir, l)
    BY <1>5, <1>6, <1>7, <1>9 DEF Wiped
  <2>2. Contents(fat, disk')
    BY <1>2, <2>1, WipedContents
  <2>3. Change
    BY <1>1, <1>7, <2>1 DEF Change
  <2> QED  BY <1>4, <1>7, <2>2, <2>3 DEF TreeInv
<1> QED  BY <1>8, <1>9

LEMMA TreeFind == HereAndNext /\ (FindNext \/ FindMiss) => TreeInv'
<1> SUFFICES ASSUME HereAndNext, FindNext \/ FindMiss PROVE TreeInv'
  OBVIOUS
<1>1. fat' = fat /\ disk' = disk /\ Contents(fat, disk) /\ pc = "find"
  BY DEF FindNext, FindMiss, device, HereAndNext, TreeInv
<1>2. Walked /\ CommandKnown /\ SearchedTo(fat, disk, dir, cur, nm) /\ Good(fat, disk)
  BY <1>1 DEF HereAndNext, TreeInv, Running, Searching
<1>3. dir \in DirHeadsIn(disk) /\ dir \in HeadsIn(disk) /\ dir \in Cluster /\ Acyclic(fat, dir)
  BY <1>2, HeadTypes DEF Walked
<1>4. /\ ScanGoesOn(cur) <=> cur \in Backed /\ ~Zeroed(disk[cur]) /\ fat[cur] \in Cluster
      /\ Hits(cur, nm) = {} => Unnamed(disk[cur], nm)
  BY HereDefs DEF ScanGoesOn, Chained, Hits, Named, Read, IsText, Unnamed
<1>5. Running'
  <2>1. CASE FindNext
    <3>1. SearchedTo(fat, disk, dir, fat[cur], nm)
      BY <1>2, <1>3, <1>4, <2>1, SearchNext DEF FindNext
    <3> QED  BY <1>1, <1>2, <2>1, <3>1 DEF FindNext, Running, CommandKnown, Walked, Searching,
       Placing, Claimed, Opened, Removing, Making, Allocating, FileOpen, Seeking, command, walk,
       claim, file
  <2>2. CASE FindMiss /\ ~Return("failed")
    <3>1. Absent(fat, disk, dir, nm)
      BY <1>1, <1>2, <1>3, <1>4, <2>2, SearchOver DEF FindMiss
    <3>2. FullTo(fat, disk, dir, dir)
      BY <1>3, SearchFirst
    <3> QED  BY <1>1, <1>2, <2>2, <3>1, <3>2 DEF FindMiss, Running, CommandKnown, Walked, Searching,
       Placing, Claimed, Opened, Removing, Making, Allocating, FileOpen, Seeking, command, walk,
       claim, file
  <2>3. CASE Return("failed")
    BY <2>3, ReturnRuns
  <2> QED  BY <2>1, <2>2, <2>3
<1> QED  BY <1>1, <1>5 DEF TreeInv

\* fat_dir_find_free.
LEMMA TreeFindFree == HereAndNext /\ (FreeSlot \/ FreeNext \/ FreeExtend \/ FreeError) => TreeInv'
<1> SUFFICES ASSUME HereAndNext, FreeSlot \/ FreeNext \/ FreeExtend \/ FreeError PROVE TreeInv'
  OBVIOUS
<1>1. fat' = fat /\ disk' = disk /\ Contents(fat, disk) /\ pc = "findfree"
  BY DEF FreeSlot, FreeNext, FreeExtend, FreeError, device, HereAndNext, TreeInv
<1>2. /\ Walked /\ CommandKnown /\ Good(fat, disk)
      /\ Absent(fat, disk, dir, nm) /\ FullTo(fat, disk, dir, cur)
  BY <1>1 DEF HereAndNext, TreeInv, Running, Placing, Making
<1>3. dir \in DirHeadsIn(disk) /\ dir \in HeadsIn(disk) /\ dir \in Cluster /\ Acyclic(fat, dir)
  BY <1>2, HeadTypes DEF Walked
<1>4. cur \in ChainIn(fat, dir) /\ cur \in Cluster
  BY <1>2, <1>3, ChainInside DEF FullTo
<1>5. Unused(cur) = {} => Packed(disk[cur])
  BY DEF Unused, Read, IsText, Packed
<1>6. Running'
  <2>1. CASE FreeSlot
    <3>1. PICK s \in Slots : Least(s, Unused(cur)) /\ ent' = <<cur, s>>
      BY <2>1 DEF FreeSlot
    <3> DEFINE l == <<cur, s>>
    <3>2. l \in Location /\ l[1] = cur /\ l[2] = s /\ At(disk, l).kind # "entry"
      BY <1>4, <3>1 DEF Location, At, Least, Unused, Read, IsText
    <3>3. \A t \in 0 .. s - 1 : disk[cur][t].kind # "zero"
      <4>1. \A t \in 0 .. s - 1 : t \in Slots /\ ~(s <= t)
        BY LayoutAssumption DEF Slots
      <4> QED  BY <3>1, <4>1 DEF Least, Unused, Read, IsText
    <3>4. \A b \in BeforeIn(fat, dir, cur) : ~Zeroed(disk[b])
      BY <1>2 DEF FullTo, Packed, Zeroed
    <3>5. Spot(fat, disk, dir, ent')
      BY <1>4, <3>1, <3>2, <3>3, <3>4 DEF Spot
    <3>6. /\ pc' = "alloc" /\ ret' = "dirent"
          /\ UNCHANGED <<command, walk, cur, new, file, out>>
      BY <2>1 DEF FreeSlot
    <3> QED  BY <1>1, <1>2, <3>5, <3>6 DEF Running, CommandKnown, Walked, Searching,
       Placing, Claimed, Opened, Removing, Making, Allocating, FileOpen, Seeking, command, walk
  <2>2. CASE FreeNext
    <3>1. FullTo(fat, disk, dir, fat[cur])
      BY <1>2, <1>3, <1>5, <2>2, SearchNext DEF FreeNext, Chained
    <3> QED  BY <1>1, <1>2, <2>2, <3>1 DEF FreeNext, Running, CommandKnown, Walked, Searching,
       Placing, Claimed, Opened, Removing, Making, Allocating, FileOpen, Seeking, command, walk
  <2>3. CASE FreeExtend
    <3>1. fat[cur] = EOC
      BY <1>2, <1>3, <1>4, <2>3 DEF FreeExtend, Chained, Good, VolumeTyped, VolumeSound, Table
    <3> QED  BY <1>1, <1>2, <1>5, <2>3, <3>1 DEF FreeExtend, Running, CommandKnown, Walked,
       Searching, Placing, Claimed, Opened, Removing, Making, Allocating, FileOpen, Seeking,
       command, walk, scan
  <2>4. CASE FreeError
    BY <2>4, ReturnRuns DEF FreeError
  <2> QED  BY <2>1, <2>2, <2>3, <2>4
<1> QED  BY <1>1, <1>6 DEF TreeInv

\* The directory is a cluster longer, or the device is as it was.
LEMMA TreeDirLink == HereAndNext /\ DirLink => TreeInv' /\ Change
<1> SUFFICES ASSUME HereAndNext, DirLink PROVE TreeInv' /\ Change
  OBVIOUS
<1>1. pc = "dirlink" /\ disk' = disk
  BY DEF DirLink, WriteFat
<1>2. /\ Walked /\ CommandKnown /\ Good(fat, disk) /\ Contents(fat, disk)
      /\ Absent(fat, disk, dir, nm) /\ FullTo(fat, disk, dir, cur)
      /\ Packed(disk[cur]) /\ fat[cur] = EOC
      /\ Unclaimed(fat, disk, new) /\ fat[new] = EOC
  BY <1>1 DEF HereAndNext, TreeInv, Running, Placing, Claimed, Making, Allocating
<1>3. dir \in DirHeadsIn(disk) /\ dir \in HeadsIn(disk) /\ dir \in Cluster /\ Acyclic(fat, dir)
  BY <1>2, HeadTypes DEF Walked
<1>4. cur \in ChainIn(fat, dir) /\ cur \in Cluster /\ new \in Cluster
  BY <1>2, <1>3, ChainInside DEF FullTo, HereAndNext, TypeInv, LocalsTyped
<1>5. PICK w \in FatWrites :
        /\ WriteFat(w, cur, new)
        /\ \/ /\ w.ok /\ new \in Backed
              /\ ent' = <<new, 0>> /\ pc' = "alloc" /\ ret' = "dirent"
              /\ UNCHANGED <<command, walk, cur, new, file, out>>
           \/ ~(w.ok /\ new \in Backed) /\ Return("failed")
  BY DEF DirLink
<1>6. CASE ~w.done
  <2>1. fat' = fat /\ Return("failed")
    BY <1>5, <1>6 DEF WriteFat, FatAfter, FatWrites, Stored, Unsure, Refused
  <2> QED  BY <1>1, <1>2, <2>1, ReturnRuns DEF TreeInv, Change, device
<1>7. CASE w.done
  <2>1. Extended(fat, disk, fat', cur, new)
    BY <1>2, <1>3, <1>4, <1>5, <1>7 DEF WriteFat, FatAfter, Extended, Good, VolumeTyped, Table
  <2>2. Contents(fat', disk)
    BY <1>2, <2>1, ExtendedContents
  <2>c. Change
    BY <1>1, <1>4, <2>1 DEF Change
  <2>3. CASE Return("failed")
    BY <1>1, <2>2, <2>3, <2>c, ReturnRuns DEF TreeInv
  <2>4. CASE /\ ent' = <<new, 0>> /\ pc' = "alloc" /\ ret' = "dirent"
             /\ UNCHANGED <<command, walk, cur, new, file, out>>
    <3>1. Absent(fat', disk, dir, nm)
      BY <1>2, <1>3, <2>1, ExtendedHeld DEF Absent, Contents
    <3>2. /\ ChainIn(fat', dir) = ChainIn(fat, dir) \cup {new}
          /\ BeforeIn(fat', dir, new) = ChainIn(fat, dir)
      BY <1>2, <1>3, <1>4, <2>1, ExtendedChain
    <3>3. NoEntry(disk[new])
      BY <1>2, <1>4, UnclaimedBare DEF Contents
    <3>4. \A b \in ChainIn(fat, dir) : b = cur \/ b \in BeforeIn(fat, dir, cur)
      BY <1>2, <1>3, <1>4, BeforeLast, LayoutFacts
    <3>5. \A b \in ChainIn(fat, dir) : ~Zeroed(disk[b])
      BY <1>2, <3>4 DEF FullTo, Packed, Zeroed
    <3>6. <<new, 0>> \in Location
      BY <1>4, LayoutFacts DEF Location
    <3>7. Spot(fat', disk, dir, ent')
      <4>1. \A s \in 0 .. 0 - 1 : FALSE
        OBVIOUS
      <4> QED  BY <2>4, <3>2, <3>3, <3>5, <3>6, <4>1, LayoutFacts DEF Spot, At, NoEntry
    <3>8. Running'
      BY <1>1, <1>2, <2>4, <3>1, <3>7 DEF Running, CommandKnown, Walked,
         Searching, Placing, Claimed, Opened, Removing, Making, Allocating, FileOpen, Seeking,
         command, walk
    <3> QED  BY <1>1, <2>2, <2>c, <3>8 DEF TreeInv
  <2> QED  BY <1>5, <2>3, <2>4
<1> QED  BY <1>6, <1>7

-----------------------------------------------------------------------------
(* fat_alloc_cluster works beside the chains, and beside what its caller    *)
(* has found out.                                                           *)

Unharmed ==
    /\ Contents(fat', disk') /\ dir \in DirHeadsIn(disk')
    /\ ret \in {"dirlink", "dirent"} => Absent(fat', disk', dir, nm)
    /\ ret = "dirlink" => FullTo(fat', disk', dir, cur) /\ Packed(disk'[cur]) /\ fat'[cur] = EOC
    /\ ret = "dirent" => Spot(fat', disk', dir, ent)
    /\ ret = "filelink" =>
         /\ Holding(fat', disk', dir, ent, nm) /\ ~At(disk', ent).isDir
         /\ At(disk', ent).first = first /\ At(disk', ent).size = size
         /\ Written(fat', disk', first, nm, fpos)
         /\ len > 0 /\ cur \in ChainIn(fat', first)
         /\ Place(fat', first, cur) + hops = fpos \div SlotsPerCluster
         /\ fat'[cur] = EOC

LEMMA BesideUnharmed ==
    ASSUME HereAndNext, pc \in {"alloc", "zero"}, Beside(fat, disk, fat', disk')
    PROVE  Unharmed
<1>1. /\ Good(fat, disk) /\ Contents(fat, disk) /\ AllVisible(fat, disk)
      /\ Walked /\ Placing /\ Opened /\ CommandKnown
  BY DEF HereAndNext, TreeInv, Running, Contents
<1>2. dir \in DirHeadsIn(disk) /\ dir \in HeadsIn(disk) /\ dir \in Cluster
  BY <1>1, HeadTypes DEF Walked
<1>3. Contents(fat', disk') /\ dir \in DirHeadsIn(disk')
  BY <1>1, <1>2, BesideContents, BesideEntries
<1>4. /\ \A n : Absent(fat, disk, dir, n) => Absent(fat', disk', dir, n)
      /\ \A c : FullTo(fat, disk, dir, c) => FullTo(fat', disk', dir, c)
      /\ \A l : Spot(fat, disk, dir, l) => Spot(fat', disk', dir, l)
      /\ \A l, n : Holding(fat, disk, dir, l, n) =>
                     Holding(fat', disk', dir, l, n) /\ At(disk', l) = At(disk, l)
  BY <1>1, <1>2, BesideRest
<1>5. \A c \in ChainIn(fat, dir) : disk'[c] = disk[c] /\ fat'[c] = fat[c]
  BY <1>1, <1>2, BesideChains
<1>6. ASSUME ret \in {"dirlink", "dirent"} PROVE Absent(fat', disk', dir, nm)
  BY <1>1, <1>4, <1>6 DEF Placing, Making, Allocating
<1>7. ASSUME ret = "dirlink"
      PROVE  FullTo(fat', disk', dir, cur) /\ Packed(disk'[cur]) /\ fat'[cur] = EOC
  <2>1. FullTo(fat, disk, dir, cur) /\ Packed(disk[cur]) /\ fat[cur] = EOC
    BY <1>1, <1>7 DEF Placing, Allocating
  <2>2. cur \in ChainIn(fat, dir)
    BY <2>1 DEF FullTo
  <2> QED  BY <1>4, <1>5, <2>1, <2>2
<1>8. ASSUME ret = "dirent" PROVE Spot(fat', disk', dir, ent)
  BY <1>1, <1>4, <1>8 DEF Placing, Allocating
<1>9. ASSUME ret = "filelink"
      PROVE  /\ Holding(fat', disk', dir, ent, nm) /\ ~At(disk', ent).isDir
             /\ At(disk', ent).first = first /\ At(disk', ent).size = size
             /\ Written(fat', disk', first, nm, fpos)
             /\ len > 0 /\ cur \in ChainIn(fat', first)
             /\ Place(fat', first, cur) + hops = fpos \div SlotsPerCluster
             /\ fat'[cur] = EOC
  <2>1. /\ Holding(fat, disk, dir, ent, nm) /\ ~At(disk, ent).isDir
        /\ At(disk, ent).first = first /\ At(disk, ent).size = size
        /\ Written(fat, disk, first, nm, fpos)
        /\ len > 0 /\ cur \in ChainIn(fat, first)
        /\ Place(fat, first, cur) + hops = fpos \div SlotsPerCluster
        /\ fat[cur] = EOC
    BY <1>1, <1>9 DEF Opened, FileOpen, Seeking, Allocating
  <2>2. first \in HeadsIn(disk)
    BY <1>1, <2>1, HeadTypes DEF Holding, HeldBy
  <2>3. Written(fat', disk', first, nm, fpos)
    BY <1>1, <2>1, <2>2, BesideHeld
  <2>4. /\ ChainIn(fat', first) = ChainIn(fat, first)
        /\ Place(fat', first, cur) = Place(fat, first, cur) /\ fat'[cur] = fat[cur]
    BY <1>1, <2>1, <2>2, BesideChains
  <2> QED  BY <1>4, <2>1, <2>3, <2>4
<1> QED  BY <1>3, <1>6, <1>7, <1>8, <1>9 DEF Unharmed

LEMMA TreeAlloc == HereAndNext /\ (AllocFull \/ AllocTake) => TreeInv' /\ Change
<1> SUFFICES ASSUME HereAndNext, AllocFull \/ AllocTake PROVE TreeInv' /\ Change
  OBVIOUS
<1>1. pc = "alloc" /\ disk' = disk
  BY DEF AllocFull, AllocTake, WriteFat, device
<1>2. /\ Good(fat, disk) /\ Contents(fat, disk) /\ AllVisible(fat, disk)
      /\ Walked /\ Placing /\ Opened /\ CommandKnown
  BY DEF HereAndNext, TreeInv, Running, Contents
<1>3. \A c \in Cluster : Unclaimed(fat, disk, c) => NoEntry(disk[c])
  BY <1>2, UnclaimedBare
<1>4. \A c \in Cluster \ Backed : disk[c] = ZeroSector
  BY <1>2 DEF Contents, Plain
<1>5. \A c : fat[c] = FREE => Unclaimed(fat, disk, c)
  BY <1>2 DEF Unclaimed, Good, VolumeSound
<1>6. ret \in Rets
  BY DEF HereAndNext, TypeInv, LocalsTyped
<1>7. ASSUME Beside(fat, disk, fat', disk'), AllocFailed PROVE TreeInv' /\ Change
  <2>1. Unharmed /\ Change
    BY <1>1, <1>7, BesideUnharmed DEF Change
  <2>2. CASE ret # "filelink"
    BY <1>7, <2>1, <2>2, ReturnRuns DEF AllocFailed, TreeInv, Unharmed
  <2>3. CASE ret = "filelink"
    <3>1. Running'
      BY <1>1, <1>2, <1>7, <2>1, <2>3 DEF AllocFailed, Unharmed, Running, CommandKnown, Walked,
         Searching, Placing, Claimed, Opened, Removing, Making, Allocating, FileOpen, Seeking,
         command, walk, scan, claim, file
    <3> QED  BY <2>1, <3>1 DEF TreeInv, Unharmed
  <2> QED  BY <2>2, <2>3
<1>8. CASE AllocFull
  <2>1. Beside(fat, disk, fat', disk')
    BY <1>1, <1>3, <1>4, <1>8 DEF AllocFull, device, Beside
  <2> QED  BY <1>7, <1>8, <2>1 DEF AllocFull
<1>9. CASE AllocTake
  <2>1. PICK c \in Cluster, w \in FatWrites :
          /\ Least(c, FreeClusters)
          /\ WriteFat(w, c, EOC)
          /\ \/ /\ w.ok
                /\ pc' = "zero" /\ new' = c
                /\ UNCHANGED <<command, walk, scan, ret, file, out>>
             \/ ~w.ok /\ AllocFailed
    BY <1>9 DEF AllocTake
  <2>2. fat[c] = FREE /\ Unclaimed(fat, disk, c)
    BY <1>5, <2>1 DEF Least, FreeClusters
  <2>3. \A b \in Cluster : b # c => fat'[b] = fat[b]
    BY <1>2, <2>1 DEF WriteFat, FatAfter, Good, VolumeTyped, Table
  <2>4. \A h \in HeadsIn(disk) : \A b \in ChainIn(fat, h) : b \in Cluster /\ b # c
    BY <1>2, <2>2, HeadTypes, ChainInside DEF Unclaimed
  <2>5. Beside(fat, disk, fat', disk')
    BY <1>1, <1>3, <1>4, <2>3, <2>4 DEF Beside
  <2>6. CASE ~w.ok /\ AllocFailed
    BY <1>7, <2>5, <2>6
  <2>7. CASE /\ w.ok
             /\ pc' = "zero" /\ new' = c
             /\ UNCHANGED <<command, walk, scan, ret, file, out>>
    <3>1. Unharmed /\ Unclaimed(fat', disk', c) /\ Change
      BY <1>1, <1>2, <2>2, <2>5, BesideUnharmed, BesideUnclaimed DEF Change
    <3>2. fat'[c] = EOC
      BY <1>2, <2>1, <2>7 DEF FatWrites, Stored, Unsure, Refused, WriteFat, FatAfter, Good,
         VolumeTyped, Table
    <3>3. Running'
      BY <1>1, <1>2, <1>6, <2>7, <3>1, <3>2 DEF Unharmed, Running, CommandKnown, Walked,
         Searching, Placing, Claimed, Opened, Removing, Making, Allocating, FileOpen, Seeking,
         command, walk, scan, file, Rets
    <3> QED  BY <3>1, <3>3 DEF TreeInv, Unharmed
  <2> QED  BY <2>1, <2>6, <2>7
<1> QED  BY <1>8, <1>9

LEMMA TreeZero == HereAndNext /\ AllocZero => TreeInv' /\ Change
<1> SUFFICES ASSUME HereAndNext, AllocZero PROVE TreeInv' /\ Change
  OBVIOUS
<1>1. /\ pc = "zero" /\ pc' = ret /\ UNCHANGED <<command, walk, scan, claim, file, out>>
      /\ fat' = fat
  BY DEF AllocZero, WriteSector
<1>2. /\ Good(fat, disk) /\ Contents(fat, disk) /\ AllVisible(fat, disk)
      /\ Walked /\ Placing /\ Opened /\ CommandKnown
      /\ Unclaimed(fat, disk, new) /\ fat[new] = EOC
  BY <1>1 DEF HereAndNext, TreeInv, Running, Contents, Claimed
<1>3. ret \in Rets /\ new \in Cluster
  BY DEF HereAndNext, TypeInv, LocalsTyped
<1>4. \A c \in Cluster : disk'[c] = disk[c] \/ (c = new /\ disk'[c] = ZeroSector)
  BY <1>2 DEF AllocZero, WriteSector, DiskAfter, Good, VolumeTyped
<1>5. NoEntry(ZeroSector)
  BY DEF NoEntry, ZeroSector, Zero, Mark
<1>6. Beside(fat, disk, fat', disk')
  <2>1. \A h \in HeadsIn(disk) : \A b \in ChainIn(fat, h) : b \in Cluster /\ b # new
    BY <1>2, HeadTypes, ChainInside DEF Unclaimed
  <2>2. \A c \in Cluster : Unclaimed(fat, disk, c) => NoEntry(disk'[c])
    BY <1>2, <1>4, <1>5, UnclaimedBare
  <2>3. \A c \in Cluster \ Backed : disk'[c] = ZeroSector
    BY <1>2, <1>4 DEF Contents, Plain
  <2> QED  BY <1>1, <1>4, <2>1, <2>2, <2>3 DEF Beside
<1>7. Unharmed /\ Unclaimed(fat', disk', new) /\ Change
  BY <1>1, <1>2, <1>6, BesideUnharmed, BesideUnclaimed DEF Change
<1>8. Running'
  BY <1>1, <1>2, <1>3, <1>7 DEF Unharmed, Running, CommandKnown, Walked,
     Searching, Placing, Claimed, Opened, Removing, Making, Allocating, FileOpen, Seeking,
     command, walk, scan, claim, file, Rets
<1> QED  BY <1>7, <1>8 DEF TreeInv, Unharmed

-----------------------------------------------------------------------------
(* Creating: the entry, and "." and "..".                                   *)

LEMMA TreeDirent == HereAndNext /\ Dirent => TreeInv' /\ Change
<1> SUFFICES ASSUME HereAndNext, Dirent PROVE TreeInv' /\ Change
  OBVIOUS
<1> DEFINE u == Entry(nm, new, op = "mkdir")
<1>1. pc = "dirent"
  BY DEF Dirent
<1>2. /\ Good(fat, disk) /\ Contents(fat, disk) /\ AllVisible(fat, disk)
      /\ Walked /\ CommandKnown
      /\ Absent(fat, disk, dir, nm) /\ Spot(fat, disk, dir, ent)
      /\ Unclaimed(fat, disk, new) /\ fat[new] = EOC
      /\ op \in {"write", "mkdir"} /\ nm \in Names
  BY <1>1 DEF HereAndNext, TreeInv, Running, Contents, Placing, Claimed, CommandKnown, Making,
     Allocating
<1>3. /\ ent \in Location /\ new \in Cluster
      /\ dir \in DirHeadsIn(disk) /\ dir \in HeadsIn(disk) /\ dir \in Cluster
  BY <1>2, HeadTypes DEF HereAndNext, TypeInv, LocalsTyped, Walked
<1>4. PICK w \in SectorWrites(ent[1]) :
         /\ WriteSector(w, ent[1], [disk[ent[1]] EXCEPT ![ent[2]] = u])
         /\ \/ /\ w.ok /\ op = "write"
               /\ pc' = "loop" /\ first' = new /\ size' = 0 /\ fpos' = 0
               /\ UNCHANGED <<command, walk, scan, claim, hops, len, out>>
            \/ /\ w.ok /\ op = "mkdir"
               /\ pc' = "dots"
               /\ UNCHANGED <<command, walk, scan, claim, file, out>>
            \/ ~w.ok /\ Return("failed")
  BY DEF Dirent
<1>5. /\ u.kind = "entry" /\ u.name = nm /\ u.first = new /\ u.size = 0
      /\ u.isDir <=> op = "mkdir"
  BY DEF Entry
<1> HIDE DEF u
<1>6. /\ fat' = fat
      /\ ~w.done => disk' = disk /\ ~w.ok
      /\ w.done => UnitSet(disk, disk', ent, u)
  BY <1>2, <1>3, <1>4, UnitWritten
<1>7. CASE ~w.done
  BY <1>2, <1>4, <1>6, <1>7, ReturnRuns DEF TreeInv, Change, device
<1>8. CASE w.done
  <2>1. Added(fat, disk, disk', dir, ent, u)
    BY <1>2, <1>3, <1>5, <1>6, <1>8 DEF Added
  <2>2. Contents(fat', disk')
    BY <1>2, <1>6, <2>1, AddedContents
  <2>3. At(disk', ent) = u /\ HeldBy(fat, disk', dir) = HeldBy(fat, disk, dir) \cup {ent}
    BY <1>2, <2>1, AddedEntries, AddedHeld
  <2>4. dir \in DirHeadsIn(disk')
    BY <1>2, <1>3, <2>1, AddedEntries
  <2>5. Holding(fat', disk', dir, ent, nm)
    BY <1>5, <1>6, <2>3 DEF Holding
  <2>6. NoEntry(disk'[new]) /\ Written(fat', disk', new, nm, 0)
    <3>1. ent[1] # new
      BY <1>2, <1>3 DEF Spot, Unclaimed
    <3>2. disk'[new] = disk[new]
      BY <1>3, <1>6, <1>8, <3>1 DEF UnitSet
    <3>3. NoEntry(disk[new])
      BY <1>2, <1>3, UnclaimedBare
    <3> QED  BY <1>3, <3>2, <3>3, WrittenNone
  <2>7. Running'
    <3>1. CASE op = "write" /\ pc' = "loop" /\ first' = new /\ size' = 0 /\ fpos' = 0
               /\ UNCHANGED <<command, walk, scan, claim, hops, len, out>>
      BY <1>1, <1>2, <1>5, <2>3, <2>4, <2>5, <2>6, <3>1 DEF Running, CommandKnown, Walked,
         Searching, Placing, Claimed, Opened, Removing, Making, Allocating, FileOpen, Seeking,
         command, walk, scan, claim
    <3>2. CASE op = "mkdir" /\ pc' = "dots"
               /\ UNCHANGED <<command, walk, scan, claim, file, out>>
      BY <1>1, <1>2, <1>5, <1>6, <2>3, <2>4, <2>5, <2>6, <3>2 DEF Running, CommandKnown, Walked,
         Searching, Placing, Claimed, Opened, Removing, Making, Allocating, FileOpen, Seeking,
         command, walk, scan, claim
    <3>3. CASE Return("failed")
      BY <3>3, ReturnRuns
    <3> QED  BY <1>4, <3>1, <3>2, <3>3
  <2>8. Change
    BY <1>1, <1>6, <2>1 DEF Change, u
  <2> QED  BY <2>2, <2>7, <2>8 DEF TreeInv
<1> QED  BY <1>7, <1>8

LEMMA TreeDots == HereAndNext /\ Dots => TreeInv' /\ Change
<1> SUFFICES ASSUME HereAndNext, Dots PROVE TreeInv' /\ Change
  OBVIOUS
<1>1. pc = "dots" /\ fat' = fat
  BY DEF Dots, WriteSector
<1>2. /\ Good(fat, disk) /\ Contents(fat, disk)
      /\ Holding(fat, disk, dir, ent, nm) /\ At(disk, ent).isDir /\ At(disk, ent).first = new
      /\ fat[new] = EOC /\ NoEntry(disk[new])
  BY <1>1 DEF HereAndNext, TreeInv, Running, Claimed
<1>3. PICK w \in SectorWrites(new) :
         WriteSector(w, new, DotSector) /\ Return(IF w.ok THEN "ok" ELSE "failed")
  BY DEF Dots
<1>4. Running'
  BY <1>3, ReturnRuns
<1>5. CASE ~w.done
  BY <1>1, <1>2, <1>3, <1>4, <1>5 DEF TreeInv, WriteSector, DiskAfter, Change, device
<1>6. CASE w.done
  <2>1. new \in Cluster /\ new \in DirHeadsIn(disk)
    BY <1>2, HeadTypes DEF Holding, HeldBy
  <2>2. new \in Backed
    BY <1>3, <1>6 DEF SectorWrites, Refused
  <2>3. disk'[new] = DotSector /\ \A b \in Cluster : b # new => disk'[b] = disk[b]
    BY <1>2, <1>3, <1>6, <2>1 DEF WriteSector, DiskAfter, Good, VolumeTyped
  <2>4. Dotted(fat, disk, disk', new)
    BY <1>2, <2>1, <2>2, <2>3 DEF Dotted
  <2>5. Change
    BY <1>1, <2>4 DEF Change
  <2> QED  BY <1>1, <1>2, <1>4, <2>4, <2>5, DottedContents DEF TreeInv
<1> QED  BY <1>5, <1>6

-----------------------------------------------------------------------------
(* Reading and writing: positions in a file.                                *)

\* Row p of n units ends where row p + 1 starts.
LEMMA Rows ==
    ASSUME NEW n \in Nat \ {0}, NEW p \in Nat, NEW q \in Nat, p < q
    PROVE  p * n + n <= q * n
<1> DEFINE k == q - p - 1
<1>1. k \in Nat /\ q = p + 1 + k
  OBVIOUS
<1>2. k * n \in Nat
  BY <1>1
<1>3. q * n = p * n + n + k * n
  BY <1>1
<1> HIDE DEF k
<1>4. p * n \in Nat
  OBVIOUS
<1> QED  BY <1>2, <1>3, <1>4

LEMMA RowOf ==
    ASSUME NEW z \in Nat
    PROVE  /\ z \div SlotsPerCluster \in Nat
           /\ z % SlotsPerCluster \in 0 .. SlotsPerCluster - 1
           /\ z = (z \div SlotsPerCluster) * SlotsPerCluster + (z % SlotsPerCluster)
BY LayoutAssumption, Positions

\* Where a unit is that lies at z or after it, in the cluster z falls into.
LEMMA RowUnit ==
    ASSUME NEW n \in Nat \ {0}, NEW p \in Nat, NEW q \in Nat, NEW s \in 0 .. n - 1,
           NEW r \in 0 .. n - 1, NEW t \in Nat, r + t <= n,
           q * n + r <= p * n + s, p * n + s < q * n + r + t
    PROVE  p = q /\ s \in r .. r + t - 1
<1>1. p * n \in Nat /\ q * n \in Nat
  OBVIOUS
<1>2. ~(p < q)
  <2> SUFFICES ASSUME p < q PROVE FALSE
    OBVIOUS
  <2>1. p * n + n <= q * n
    BY Rows
  <2> QED  BY <1>1, <2>1
<1>3. ~(q < p)
  <2> SUFFICES ASSUME q < p PROVE FALSE
    OBVIOUS
  <2>1. q * n + n <= p * n
    BY Rows
  <2> QED  BY <1>1, <2>1
<1>4. p = q
  BY <1>2, <1>3
<1> QED  BY <1>1, <1>4

LEMMA WrittenLess ==
    ASSUME NEW f, NEW d, NEW h \in Cluster, NEW n, NEW y \in Nat, NEW z \in Nat, y <= z,
           Written(f, d, h, n, z)
    PROVE  Written(f, d, h, n, y)
<1>1. Cardinality(ChainIn(f, h)) \in Nat /\ \A c : Place(f, h, c) \in Nat
  BY PlaceType
<1>2. SlotsPerCluster \in Nat /\ \A s \in Slots : s \in Nat
  BY LayoutAssumption DEF Slots
<1>3. \A i \in Nat : i * SlotsPerCluster \in Nat
  BY <1>2
<1>4. y <= Cardinality(ChainIn(f, h)) * SlotsPerCluster
  BY <1>1, <1>3 DEF Written
<1>5. ASSUME NEW c \in ChainIn(f, h), NEW s \in Slots,
             Place(f, h, c) * SlotsPerCluster + s < y
      PROVE  d[c][s] = Data(n)
  <2>1. Place(f, h, c) * SlotsPerCluster \in Nat /\ s \in Nat
    BY <1>1, <1>2, <1>3
  <2>2. Place(f, h, c) * SlotsPerCluster + s < z
    BY <1>5, <2>1
  <2> QED  BY <2>2 DEF Written
<1> QED  BY <1>4, <1>5 DEF Written

\* Another t units, in the cluster z falls into.
LEMMA WrittenMore ==
    ASSUME NEW f, NEW d, NEW h \in Cluster, Acyclic(f, h), NEW c \in ChainIn(f, h),
           NEW n, NEW z \in Nat, NEW t \in Nat, Place(f, h, c) = z \div SlotsPerCluster,
           (z % SlotsPerCluster) + t <= SlotsPerCluster, Written(f, d, h, n, z),
           \A s \in Slots : s \in z % SlotsPerCluster .. (z % SlotsPerCluster) + t - 1
                              => d[c][s] = Data(n)
    PROVE  Written(f, d, h, n, z + t)
<1> DEFINE q == z \div SlotsPerCluster
           r == z % SlotsPerCluster
           m == Cardinality(ChainIn(f, h))
<1>1. m \in Nat /\ \A b : Place(f, h, b) \in Nat
  BY PlaceType
<1>2. SlotsPerCluster \in Nat \ {0} /\ \A s \in Slots : s \in 0 .. SlotsPerCluster - 1
  BY LayoutAssumption DEF Slots
<1>3. q \in Nat /\ r \in 0 .. SlotsPerCluster - 1 /\ z = q * SlotsPerCluster + r
  BY RowOf
<1>4. Place(f, h, c) = q /\ r + t <= SlotsPerCluster
      /\ \A s \in Slots : s \in r .. r + t - 1 => d[c][s] = Data(n)
  OBVIOUS
<1>5. q + 1 <= m
  BY <1>4, PlaceBelow
<1> HIDE DEF q, r, m
<1>6. \A i \in Nat : i * SlotsPerCluster \in Nat
  BY <1>2
<1>7. z + t <= m * SlotsPerCluster
  <2>1. q * SlotsPerCluster + SlotsPerCluster <= m * SlotsPerCluster
    BY <1>1, <1>2, <1>3, <1>5, Rows
  <2>2. q * SlotsPerCluster \in Nat /\ m * SlotsPerCluster \in Nat
    BY <1>1, <1>3, <1>6
  <2> QED  BY <1>2, <1>3, <1>4, <2>1, <2>2
<1>8. ASSUME NEW b \in ChainIn(f, h), NEW s \in Slots,
             Place(f, h, b) * SlotsPerCluster + s < z + t
      PROVE  d[b][s] = Data(n)
  <2> DEFINE p == Place(f, h, b)
  <2>1. p \in Nat /\ p * SlotsPerCluster \in Nat /\ s \in 0 .. SlotsPerCluster - 1
    BY <1>1, <1>2, <1>6
  <2>2. CASE p * SlotsPerCluster + s < z
    BY <2>2 DEF Written
  <2>3. CASE ~(p * SlotsPerCluster + s < z)
    <3> HIDE DEF p
    <3>1. q * SlotsPerCluster \in Nat
      BY <1>3, <1>6
    <3>2. q * SlotsPerCluster + r <= p * SlotsPerCluster + s
          /\ p * SlotsPerCluster + s < q * SlotsPerCluster + r + t
      BY <1>3, <1>8, <2>1, <2>3, <3>1 DEF p
    <3>3. p = q /\ s \in r .. r + t - 1
      BY <1>2, <1>3, <1>4, <2>1, <3>2, RowUnit
    <3>4. b = c
      BY <1>4, <3>3, PlaceUnique DEF p
    <3> QED  BY <1>4, <3>3, <3>4
  <2> QED  BY <2>2, <2>3
<1> QED  BY <1>7, <1>8, <1>1 DEF Written, m

LEMMA Takes ==
    ASSUME TypeInv
    PROVE  /\ Take \in Nat /\ Take <= len
           /\ (fpos % SlotsPerCluster) + Take <= SlotsPerCluster
           /\ len > 0 => Take > 0
<1>1. fpos \in Nat /\ len \in Nat /\ SlotsPerCluster \in Nat
  BY LayoutAssumption DEF TypeInv, LocalsTyped
<1>2. fpos % SlotsPerCluster \in 0 .. SlotsPerCluster - 1
  BY <1>1, Positions
<1> QED  BY <1>1, <1>2 DEF Take, Room

LEMMA TreeSeek == HereAndNext /\ (LoopHead \/ SeekHop \/ SeekExtend) => TreeInv'
<1> SUFFICES ASSUME HereAndNext, LoopHead \/ SeekHop \/ SeekExtend PROVE TreeInv'
  OBVIOUS
<1>1. fat' = fat /\ disk' = disk /\ Contents(fat, disk) /\ pc \in {"loop", "seek"}
  BY DEF LoopHead, SeekHop, SeekExtend, device, HereAndNext, TreeInv
<1>2. /\ Good(fat, disk) /\ Walked /\ CommandKnown /\ Opened
      /\ Holding(fat, disk, dir, ent, nm) /\ At(disk, ent).first = first
  BY <1>1 DEF HereAndNext, TreeInv, Running, Opened, FileOpen
<1>3. first \in HeadsIn(disk) /\ first \in Cluster /\ Acyclic(fat, first)
  BY <1>2, HeadTypes DEF Holding, HeldBy
<1>4. hops \in Nat /\ len \in Nat /\ fpos \div SlotsPerCluster \in Nat
      /\ \A c : Place(fat, first, c) \in Nat
  <2>1. hops \in Nat /\ len \in Nat /\ fpos \in Nat
    BY DEF HereAndNext, TypeInv, LocalsTyped
  <2>2. \A c : Place(fat, first, c) \in Nat
    BY <1>3, PlaceType
  <2> QED  BY <2>1, <2>2, Positions
<1>5. Running'
  <2>1. CASE LoopHead
    <3>1. CASE /\ len > 0
               /\ pc' = "seek" /\ cur' = first /\ hops' = fpos \div SlotsPerCluster
               /\ UNCHANGED <<command, walk, ent, claim, first, fpos, size, len, out>>
      <4>1. Place(fat, first, first) = 0 /\ first \in ChainIn(fat, first)
        BY <1>3, PlaceFirst, ChainBasic
      <4>2. Place(fat, first, first) + (fpos \div SlotsPerCluster) = fpos \div SlotsPerCluster
        BY <1>4, <4>1
      <4> QED  BY <1>1, <1>2, <2>1, <3>1, <4>1, <4>2 DEF LoopHead, Running, CommandKnown, Walked,
         Searching, Placing, Claimed, Opened, Removing, Making, Allocating, FileOpen, Seeking,
         command, walk, claim
    <3>2. CASE /\ len = 0 /\ op = "write" /\ pc' = "finish"
               /\ UNCHANGED <<command, walk, scan, claim, file, out>>
      BY <1>1, <1>2, <2>1, <3>2 DEF LoopHead, Running, CommandKnown, Walked,
         Searching, Placing, Claimed, Opened, Removing, Making, Allocating, FileOpen, Seeking,
         command, walk, scan, claim, file
    <3>3. CASE Return("ok")
      BY <3>3, ReturnRuns
    <3> QED  BY <2>1, <3>1, <3>2, <3>3 DEF LoopHead
  <2>2. CASE SeekHop
    <3>1. fat[cur] \in Cluster /\ cur \in ChainIn(fat, first) /\ len > 0
          /\ Place(fat, first, cur) + hops = fpos \div SlotsPerCluster
      BY <1>2, <2>2 DEF SeekHop, Chained, Opened, Seeking
    <3>2. /\ fat[cur] \in ChainIn(fat, first)
          /\ Place(fat, first, fat[cur]) = Place(fat, first, cur) + 1
      BY <1>3, <3>1, ChainInside, PlaceNext
    <3>3. Place(fat, first, fat[cur]) + (hops - 1) = fpos \div SlotsPerCluster
      BY <1>4, <3>1, <3>2
    <3> QED  BY <1>1, <1>2, <2>2, <3>1, <3>2, <3>3 DEF SeekHop, Running, CommandKnown, Walked,
       Searching, Placing, Claimed, Opened, Removing, Making, Allocating, FileOpen, Seeking,
       command, walk, claim
  <2>3. CASE SeekExtend
    BY <1>1, <1>2, <2>3 DEF SeekExtend, Running, CommandKnown, Walked,
       Searching, Placing, Claimed, Opened, Removing, Making, Allocating, FileOpen, Seeking,
       command, walk, scan, file
  <2> QED  BY <2>1, <2>2, <2>3
<1> QED  BY <1>1, <1>5 DEF TreeInv

LEMMA TreeFileLink == HereAndNext /\ FileLink => TreeInv' /\ Change
<1> SUFFICES ASSUME HereAndNext, FileLink PROVE TreeInv' /\ Change
  OBVIOUS
<1>1. pc = "filelink" /\ disk' = disk
  BY DEF FileLink, WriteFat
<1>2. /\ Good(fat, disk) /\ Contents(fat, disk) /\ AllVisible(fat, disk)
      /\ Walked /\ CommandKnown /\ op = "write"
      /\ Holding(fat, disk, dir, ent, nm) /\ ~At(disk, ent).isDir
      /\ At(disk, ent).first = first /\ At(disk, ent).size = size
      /\ Written(fat, disk, first, nm, fpos)
      /\ len > 0 /\ cur \in ChainIn(fat, first)
      /\ Place(fat, first, cur) + hops = fpos \div SlotsPerCluster
      /\ fat[cur] = EOC /\ Unclaimed(fat, disk, new) /\ fat[new] = EOC
  BY <1>1 DEF HereAndNext, TreeInv, Running, Opened, FileOpen, Seeking, Allocating, Claimed,
     Contents, CommandKnown
<1>3. first \in HeadsIn(disk) /\ first \in Cluster /\ Acyclic(fat, first)
  BY <1>2, HeadTypes DEF Holding, HeldBy
<1>4. dir \in DirHeadsIn(disk) /\ dir \in HeadsIn(disk)
  BY <1>2, HeadTypes DEF Walked
<1>5. cur \in Cluster /\ new \in Cluster /\ hops \in Nat /\ hops > 0 /\ fpos \in Nat
      /\ fpos \div SlotsPerCluster \in Nat /\ Place(fat, first, cur) \in Nat
  <2>1. cur \in Cluster /\ new \in Cluster /\ hops \in Nat /\ hops > 0 /\ fpos \in Nat
    BY <1>1 DEF HereAndNext, TypeInv, LocalsTyped, HopsLeft
  <2>2. Place(fat, first, cur) \in Nat
    BY <1>3, PlaceType
  <2> QED  BY <2>1, <2>2, Positions
<1>6. PICK w \in FatWrites :
        /\ WriteFat(w, cur, new)
        /\ \/ /\ w.ok
              /\ pc' = "seek" /\ cur' = new /\ hops' = hops - 1
              /\ UNCHANGED <<command, walk, ent, claim, first, fpos, size, len, out>>
           \/ /\ ~w.ok
              /\ pc' = "finish"
              /\ UNCHANGED <<command, walk, scan, claim, file, out>>
  BY DEF FileLink
<1>7. CASE ~w.done
  <2>1. /\ fat' = fat /\ pc' = "finish"
        /\ UNCHANGED <<command, walk, scan, claim, file, out>>
    BY <1>6, <1>7 DEF WriteFat, FatAfter, FatWrites, Stored, Unsure, Refused
  <2>2. Running'
    BY <1>1, <1>2, <2>1 DEF Running, CommandKnown, Walked,
       Searching, Placing, Claimed, Opened, Removing, Making, Allocating, FileOpen, Seeking,
       command, walk, scan, claim, file
  <2> QED  BY <1>1, <1>2, <2>1, <2>2 DEF TreeInv, Change, device
<1>8. CASE w.done
  <2>1. Extended(fat, disk, fat', cur, new)
    BY <1>2, <1>3, <1>5, <1>6, <1>8 DEF WriteFat, FatAfter, Extended, Good, VolumeTyped, Table
  <2>2. Contents(fat', disk)
    BY <1>2, <2>1, ExtendedContents
  <2>3. /\ HeldBy(fat', disk, dir) = HeldBy(fat, disk, dir)
        /\ Written(fat', disk, first, nm, fpos)
    BY <1>2, <1>3, <1>4, <1>5, <2>1, ExtendedHeld
  <2>4. Holding(fat', disk, dir, ent, nm)
    BY <1>2, <2>3 DEF Holding
  <2>5. /\ ChainIn(fat', first) = ChainIn(fat, first) \cup {new}
        /\ BeforeIn(fat', first, new) = ChainIn(fat, first)
    BY <1>2, <1>3, <2>1, ExtendedChain
  <2>6. Place(fat', first, new) + (hops - 1) = fpos \div SlotsPerCluster
    <3>1. Cardinality(ChainIn(fat, first)) = Place(fat, first, cur) + 1
      BY <1>2, <1>3, PlaceLast, LayoutFacts
    <3>2. Place(fat', first, new) = Place(fat, first, cur) + 1
      BY <2>5, <3>1 DEF Place
    <3> QED  BY <1>2, <1>5, <3>2
  <2>7. Running'
    <3>1. CASE /\ pc' = "seek" /\ cur' = new /\ hops' = hops - 1
               /\ UNCHANGED <<command, walk, ent, claim, first, fpos, size, len, out>>
      BY <1>1, <1>2, <2>3, <2>4, <2>5, <2>6, <3>1 DEF Running, CommandKnown, Walked,
         Searching, Placing, Claimed, Opened, Removing, Making, Allocating, FileOpen, Seeking,
         command, walk, claim
    <3>2. CASE /\ pc' = "finish"
               /\ UNCHANGED <<command, walk, scan, claim, file, out>>
      BY <1>1, <1>2, <2>3, <2>4, <3>2 DEF Running, CommandKnown, Walked,
         Searching, Placing, Claimed, Opened, Removing, Making, Allocating, FileOpen, Seeking,
         command, walk, scan, claim, file
    <3> QED  BY <1>6, <3>1, <3>2
  <2>8. Change
    BY <1>1, <1>2, <2>1 DEF Change
  <2> QED  BY <1>1, <2>2, <2>7, <2>8 DEF TreeInv
<1> QED  BY <1>7, <1>8

LEMMA TreeWriteData == HereAndNext /\ WriteData => TreeInv' /\ Change
<1> SUFFICES ASSUME HereAndNext, WriteData PROVE TreeInv' /\ Change
  OBVIOUS
<1>1. pc = "seek" /\ hops = 0 /\ op = "write" /\ fat' = fat
  BY DEF WriteData, WriteSector
<1>2. /\ Good(fat, disk) /\ Contents(fat, disk) /\ AllVisible(fat, disk)
      /\ Walked /\ CommandKnown
      /\ Holding(fat, disk, dir, ent, nm) /\ ~At(disk, ent).isDir
      /\ At(disk, ent).first = first /\ At(disk, ent).size = size
      /\ Written(fat, disk, first, nm, fpos)
      /\ cur \in ChainIn(fat, first)
      /\ Place(fat, first, cur) + hops = fpos \div SlotsPerCluster
  BY <1>1 DEF HereAndNext, TreeInv, Running, Opened, FileOpen, Seeking, Contents
<1>3. /\ first \in HeadsIn(disk) /\ first \in Cluster /\ Acyclic(fat, first)
      /\ ent \in Entries(disk) /\ At(disk, ent).name = nm
  BY <1>2, HeadTypes DEF Holding, HeldBy
<1>4. /\ cur \in Cluster /\ fpos \in Nat /\ Place(fat, first, cur) = fpos \div SlotsPerCluster
      /\ Take \in Nat /\ (fpos % SlotsPerCluster) + Take <= SlotsPerCluster
  BY <1>1, <1>2, <1>3, Takes, PlaceType DEF HereAndNext, TypeInv, LocalsTyped
<1>5. PICK w \in SectorWrites(cur) :
         /\ WriteSector(w, cur, Filled(cur))
         /\ \/ /\ w.ok
               /\ pc' = "loop" /\ fpos' = fpos + Take /\ len' = len - Take
               /\ UNCHANGED <<command, walk, scan, claim, first, hops, size, out>>
            \/ /\ ~w.ok
               /\ pc' = "finish"
               /\ UNCHANGED <<command, walk, scan, claim, file, out>>
  BY DEF WriteData
<1>6. CASE ~w.done
  <2>1. /\ disk' = disk /\ pc' = "finish"
        /\ UNCHANGED <<command, walk, scan, claim, file, out>>
    BY <1>5, <1>6 DEF WriteSector, DiskAfter, SectorWrites, FatWrites, Stored, Unsure, Refused
  <2>2. Running'
    BY <1>1, <1>2, <2>1 DEF Running, CommandKnown, Walked,
       Searching, Placing, Claimed, Opened, Removing, Making, Allocating, FileOpen, Seeking,
       command, walk, scan, claim, file
  <2> QED  BY <1>1, <1>2, <2>1, <2>2 DEF TreeInv, Change, device
<1>7. CASE w.done
  <2>1. cur \in Backed
    BY <1>5, <1>7 DEF SectorWrites, Refused
  <2>2. disk'[cur] = Filled(cur) /\ \A b \in Cluster : b # cur => disk'[b] = disk[b]
    BY <1>2, <1>4, <1>5, <1>7 DEF WriteSector, DiskAfter, Good, VolumeTyped
  <2>3. \A s \in Slots : disk'[cur][s] =
           IF s \in fpos % SlotsPerCluster .. (fpos % SlotsPerCluster) + Take - 1
           THEN Data(nm) ELSE disk[cur][s]
    BY <2>2 DEF Filled
  <2>4. Poured(fat, disk, disk', ent, cur)
    BY <1>2, <1>3, <2>1, <2>2, <2>3 DEF Poured
  <2>5. Contents(fat, disk')
    BY <1>2, <2>4, PouredContents
  <2>6. Swapped(fat, disk, disk', cur) /\ Written(fat, disk', first, nm, fpos)
    BY <1>2, <1>3, <2>4, PouredSwapped
  <2>7. /\ At(disk', ent) = At(disk, ent) /\ DirHeadsIn(disk') = DirHeadsIn(disk)
        /\ HeldBy(fat, disk', dir) = HeldBy(fat, disk, dir)
    BY <1>3, <2>6, SwappedEntries
  <2>8. Holding(fat, disk', dir, ent, nm)
    BY <1>2, <2>7 DEF Holding
  <2>9. Written(fat, disk', first, nm, fpos + Take)
    <3>1. \A s \in Slots :
            s \in fpos % SlotsPerCluster .. (fpos % SlotsPerCluster) + Take - 1
              => disk'[cur][s] = Data(nm)
      BY <2>3
    <3> QED  BY <1>2, <1>3, <1>4, <2>6, <3>1, WrittenMore
  <2>10. Running'
    <3>1. CASE /\ pc' = "loop" /\ fpos' = fpos + Take /\ len' = len - Take
               /\ UNCHANGED <<command, walk, scan, claim, first, hops, size, out>>
      BY <1>1, <1>2, <2>7, <2>8, <2>9, <3>1 DEF Running, CommandKnown, Walked,
         Searching, Placing, Claimed, Opened, Removing, Making, Allocating, FileOpen, Seeking,
         command, walk, scan, claim
    <3>2. CASE /\ pc' = "finish"
               /\ UNCHANGED <<command, walk, scan, claim, file, out>>
      BY <1>1, <1>2, <2>6, <2>7, <2>8, <3>2 DEF Running, CommandKnown, Walked,
         Searching, Placing, Claimed, Opened, Removing, Making, Allocating, FileOpen, Seeking,
         command, walk, scan, claim, file
    <3> QED  BY <1>5, <3>1, <3>2
  <2>11. Change
    BY <1>1, <2>4 DEF Change
  <2> QED  BY <1>1, <2>5, <2>10, <2>11 DEF TreeInv
<1> QED  BY <1>6, <1>7

LEMMA TreeReadData == HereAndNext /\ ReadData => TreeInv'
<1> SUFFICES ASSUME HereAndNext, ReadData PROVE TreeInv'
  OBVIOUS
<1>1. pc = "seek" /\ op = "cat" /\ fat' = fat /\ disk' = disk /\ Contents(fat, disk)
  BY DEF ReadData, device, HereAndNext, TreeInv
<1>2. CASE Return("ok")
  BY <1>1, <1>2, ReturnRuns DEF TreeInv
<1>3. CASE ~Return("ok")
  <2>1. /\ pc' = "loop" /\ fpos' = fpos + Take /\ len' = len - Take
        /\ UNCHANGED <<command, walk, scan, claim, first, hops, size, out>>
    BY <1>3 DEF ReadData
  <2>2. /\ Good(fat, disk) /\ Walked /\ CommandKnown
        /\ Holding(fat, disk, dir, ent, nm) /\ ~At(disk, ent).isDir
        /\ At(disk, ent).first = first /\ At(disk, ent).size = size
        /\ fpos + len = size
    BY <1>1 DEF HereAndNext, TreeInv, Running, Opened, FileOpen
  <2>3. /\ first \in HeadsIn(disk) /\ first \in Cluster
        /\ ent \in Entries(disk) /\ At(disk, ent).name = nm
    BY <2>2, HeadTypes DEF Holding, HeldBy
  <2>4. /\ fpos \in Nat /\ len \in Nat /\ size \in Nat /\ Take \in Nat /\ Take <= len
    BY Takes DEF HereAndNext, TypeInv, LocalsTyped
  <2>5. Written(fat, disk, first, nm, size)
    BY <1>1, <2>2, <2>3 DEF Contents, AllWritten
  <2>6. Written(fat, disk, first, nm, fpos + Take)
    <3>1. fpos + Take \in Nat /\ fpos + Take <= size
      BY <2>2, <2>4
    <3> QED  BY <2>3, <2>4, <2>5, <3>1, WrittenLess
  <2>7. (fpos + Take) + (len - Take) = size
    BY <2>2, <2>4
  <2>8. Running'
    BY <1>1, <2>1, <2>2, <2>6, <2>7 DEF Running, CommandKnown, Walked,
       Searching, Placing, Claimed, Opened, Removing, Making, Allocating, FileOpen, Seeking,
       command, walk, scan, claim
  <2> QED  BY <1>1, <2>8 DEF TreeInv
<1> QED  BY <1>2, <1>3

LEMMA TreeFinish == HereAndNext /\ Finish => TreeInv' /\ Change
<1> SUFFICES ASSUME HereAndNext, Finish PROVE TreeInv' /\ Change
  OBVIOUS
<1>1. pc = "finish" /\ Return("ok")
  BY DEF Finish
<1>2. /\ Good(fat, disk) /\ Contents(fat, disk) /\ Walked
      /\ Holding(fat, disk, dir, ent, nm) /\ ~At(disk, ent).isDir
      /\ At(disk, ent).first = first /\ Written(fat, disk, first, nm, fpos)
  BY <1>1 DEF HereAndNext, TreeInv, Running, Opened, FileOpen
<1>3. ent \in Location /\ fpos \in 0 .. MaxLen /\ At(disk, ent).name = nm
  BY <1>2 DEF HereAndNext, TypeInv, LocalsTyped, Holding
<1>4. Running'
  BY <1>1, ReturnRuns
<1>5. CASE UNCHANGED device
  BY <1>2, <1>4, <1>5 DEF device, TreeInv, Change
<1>6. CASE ~UNCHANGED device
  <2> DEFINE u == Resized(At(disk, ent), fpos)
  <2>1. PICK w \in SectorWrites(ent[1]) :
          WriteSector(w, ent[1], [disk[ent[1]] EXCEPT ![ent[2]] = u])
    <3>1. PICK w \in SectorWrites(ent[1]) :
            WriteSector(w, ent[1], [disk[ent[1]] EXCEPT ![ent[2]] = Resized(@, fpos)])
      BY <1>6 DEF Finish
    <3> QED  BY <3>1 DEF At
  <2> HIDE DEF u
  <2>2. /\ fat' = fat
        /\ ~w.done => disk' = disk
        /\ w.done => UnitSet(disk, disk', ent, u)
    BY <1>2, <1>3, <2>1, UnitWritten
  <2>3. UnitSet(disk, disk', ent, u)
    BY <1>6, <2>2 DEF device
  <2>4. Grown(fat, disk, disk', dir, ent, fpos)
    BY <1>2, <1>3, <2>3 DEF Grown, Walked, Holding, u
  <2>5. Contents(fat, disk')
    BY <1>2, <2>4, GrownContents
  <2>6. Change
    BY <1>1, <1>6, <2>2, <2>4 DEF Change, Finish
  <2> QED  BY <1>4, <2>2, <2>5, <2>6 DEF TreeInv
<1> QED  BY <1>5, <1>6

-----------------------------------------------------------------------------
(* Unlinking.                                                               *)

LEMMA TreeEmpty == HereAndNext /\ (NotEmpty \/ EmptyNext \/ EmptyYes) => TreeInv'
<1> SUFFICES ASSUME HereAndNext, NotEmpty \/ EmptyNext \/ EmptyYes PROVE TreeInv'
  OBVIOUS
<1>1. fat' = fat /\ disk' = disk /\ Contents(fat, disk) /\ pc = "empty"
  BY DEF NotEmpty, EmptyNext, EmptyYes, device, HereAndNext, TreeInv
<1>2. /\ Good(fat, disk) /\ Walked /\ CommandKnown
      /\ Holding(fat, disk, dir, ent, nm) /\ At(disk, ent).first = first
      /\ At(disk, ent).isDir /\ VacantTo(fat, disk, first, cur)
  BY <1>1 DEF HereAndNext, TreeInv, Running, Removing
<1>3. first \in DirHeadsIn(disk) /\ first \in Cluster /\ Acyclic(fat, first)
  BY <1>2, HeadTypes DEF Holding, HeldBy
<1>4. /\ ScanGoesOn(cur) <=> cur \in Backed /\ ~Zeroed(disk[cur]) /\ fat[cur] \in Cluster
      /\ Occupants(cur) = {} => \A s \in Shown(disk[cur]) : disk[cur][s].kind # "entry"
  BY HereDefs DEF ScanGoesOn, Chained, Occupants, Read, IsText
<1>5. Running'
  <2>1. CASE NotEmpty
    BY <2>1, ReturnRuns DEF NotEmpty
  <2>2. CASE EmptyNext
    <3>1. VacantTo(fat, disk, first, fat[cur])
      BY <1>2, <1>3, <1>4, <2>2, SearchNext DEF EmptyNext, Vacant
    <3> QED  BY <1>1, <1>2, <2>2, <3>1 DEF EmptyNext, Running, CommandKnown, Walked, Searching,
       Placing, Claimed, Opened, Removing, Making, Allocating, FileOpen, Seeking, command, walk,
       claim, file
  <2>3. CASE EmptyYes
    <3>1. \A b \in ChainIn(fat, first) : NoEntry(disk[b])
      BY <1>1, <1>2, <1>3, <1>4, <2>3, VacantOver DEF EmptyYes
    <3> QED  BY <1>1, <1>2, <2>3, <3>1 DEF EmptyYes, Running, CommandKnown, Walked, Searching,
       Placing, Claimed, Opened, Removing, Making, Allocating, FileOpen, Seeking, command, walk,
       scan, claim, file
  <2> QED  BY <2>1, <2>2, <2>3
<1> QED  BY <1>1, <1>5 DEF TreeInv

\* What the deletion of the entry leaves: no nm in the directory, which stays,
\* and nothing that points to the clusters of nm.
LEMMA RemovedApart ==
    ASSUME NEW f, NEW d, NEW e, NEW h, NEW l, NEW u, Good(f, d), AllUnique(f, d),
           Removed(f, d, e, h, l, u)
    PROVE  /\ Absent(f, e, h, At(d, l).name) /\ h \in DirHeadsIn(e)
           /\ Apart(f, e, At(d, l).first)
<1>1. /\ l \in Entries(d) /\ Entries(e) = Entries(d) \ {l}
      /\ \A k \in Entries(e) : At(e, k) = At(d, k)
      /\ \A g \in DirHeadsIn(d) :
           g \in DirHeadsIn(e) \/ (At(d, l).isDir /\ g = At(d, l).first)
      /\ \A g : HeldBy(f, e, g) = HeldBy(f, d, g) \ {l}
  BY RemovedEntries
<1>2. h \in DirHeadsIn(d) /\ l \in HeldBy(f, d, h)
  BY DEF Removed
<1>3. Absent(f, e, h, At(d, l).name)
  <2>1. \A k \in HeldBy(f, e, h) : k \in HeldBy(f, d, h) /\ k # l /\ At(e, k) = At(d, k)
    BY <1>1 DEF HeldBy
  <2> QED  BY <1>2, <2>1 DEF Absent, AllUnique
<1>4. h \in DirHeadsIn(e)
  <2> SUFFICES ASSUME At(d, l).isDir, h = At(d, l).first PROVE FALSE
    BY <1>1, <1>2
  <2>1. l[1] \in ChainIn(f, h) /\ l[2] \in Slots /\ d[l[1]][l[2]].kind = "entry"
    BY <1>2, EntryAt DEF HeldBy, At
  <2> QED  BY <2>1 DEF Removed, NoEntry
<1>5. Apart(f, e, At(d, l).first)
  <2> SUFFICES ASSUME NEW g \in HeadsIn(e)
               PROVE  ChainIn(f, g) \cap ChainIn(f, At(d, l).first) = {}
    BY DEF Apart
  <2>1. g \in HeadsIn(d) /\ g # At(d, l).first
    <3>1. CASE g = Root
      BY <1>1, <3>1 DEF HeadsIn, Good, VolumeSound
    <3>2. CASE g # Root
      <4>1. PICK k \in Entries(e) : g = At(e, k).first
        BY <3>2 DEF HeadsIn
      <4>2. k \in Entries(d) /\ k # l /\ g = At(d, k).first
        BY <1>1, <4>1
      <4> QED  BY <1>1, <4>2 DEF HeadsIn, Good, VolumeSound
    <3> QED  BY <3>1, <3>2
  <2>2. At(d, l).first \in HeadsIn(d)
    BY <1>1, HeadTypes
  <2> QED  BY <2>1, <2>2 DEF Good, VolumeSound
<1> QED  BY <1>3, <1>4, <1>5

LEMMA TreeDelete == HereAndNext /\ Delete => TreeInv' /\ Change
<1> SUFFICES ASSUME HereAndNext, Delete PROVE TreeInv' /\ Change
  OBVIOUS
<1>1. pc = "delete"
  BY DEF Delete
<1>2. /\ Good(fat, disk) /\ Contents(fat, disk) /\ Walked /\ CommandKnown
      /\ Holding(fat, disk, dir, ent, nm) /\ At(disk, ent).first = first
      /\ At(disk, ent).isDir => \A c \in ChainIn(fat, first) : NoEntry(disk[c])
  BY <1>1 DEF HereAndNext, TreeInv, Running, Removing
<1>3. ent \in Location /\ dir \in DirHeadsIn(disk) /\ ent \in HeldBy(fat, disk, dir)
      /\ At(disk, ent).name = nm
  BY <1>2 DEF HereAndNext, TypeInv, LocalsTyped, Holding, Walked
<1>4. PICK w \in SectorWrites(ent[1]) :
         /\ WriteSector(w, ent[1], [disk[ent[1]] EXCEPT ![ent[2]] = Deleted])
         /\ \/ /\ w.ok
               /\ pc' = "free" /\ cur' = first
               /\ UNCHANGED <<command, walk, ent, claim, file, out>>
            \/ ~w.ok /\ Return("failed")
  BY DEF Delete
<1>5. /\ fat' = fat
      /\ ~w.done => disk' = disk /\ ~w.ok
      /\ w.done => UnitSet(disk, disk', ent, Deleted)
  BY <1>2, <1>3, <1>4, UnitWritten
<1>6. CASE ~w.done
  BY <1>2, <1>4, <1>5, <1>6, ReturnRuns DEF TreeInv, Change, device
<1>7. CASE w.done
  <2>1. Deleted.kind = "deleted"
    BY DEF Deleted, Mark
  <2>2. Removed(fat, disk, disk', dir, ent, Deleted)
    BY <1>2, <1>3, <1>5, <1>7, <2>1 DEF Removed
  <2>3. Contents(fat, disk')
    BY <1>2, <2>2, RemovedContents
  <2>4. /\ Absent(fat, disk', dir, nm) /\ dir \in DirHeadsIn(disk')
        /\ Apart(fat, disk', first)
    BY <1>2, <1>3, <2>2, RemovedApart DEF Contents
  <2>c. Change
    BY <1>1, <1>5, <2>2 DEF Change
  <2>5. CASE Return("failed")
    BY <1>5, <2>3, <2>5, <2>c, ReturnRuns DEF TreeInv
  <2>6. CASE /\ pc' = "free" /\ cur' = first
             /\ UNCHANGED <<command, walk, ent, claim, file, out>>
    <3>1. Running'
      BY <1>1, <1>2, <1>5, <2>4, <2>6 DEF Running, CommandKnown, Walked, Searching,
       Placing, Claimed, Opened, Removing, Making, Allocating, FileOpen, Seeking, command, walk,
       claim, file
    <3> QED  BY <1>5, <2>3, <2>c, <3>1 DEF TreeInv
  <2> QED  BY <1>4, <2>5, <2>6
<1> QED  BY <1>6, <1>7

\* The rest of a chain that is freed from its first cluster on.
LEMMA ApartNext ==
    ASSUME NEW f, NEW d, NEW g, NEW c \in Cluster, Good(f, d), Apart(f, d, c), f \in Table,
           g[c] = f[c] \/ g[c] = FREE, \A b \in Cluster : b # c => g[b] = f[b]
    PROVE  /\ \A h \in HeadsIn(d) : c \notin ChainIn(f, h)
           /\ \A h \in HeadsIn(d) : \A b \in ChainIn(f, h) : g[b] = f[b]
           /\ f[c] \in Cluster => Apart(g, d, f[c])
<1>1. /\ c \in ChainIn(f, c) /\ ChainIn(f, c) \in SUBSET Cluster
      /\ Closed(f, ChainIn(f, c))
  BY ChainBasic
<1>2. \A h \in HeadsIn(d) : c \notin ChainIn(f, h)
  BY <1>1 DEF Apart
<1>3. \A h \in HeadsIn(d) : h \in Cluster /\ \A b \in ChainIn(f, h) : g[b] = f[b]
  BY <1>2, HeadTypes, ChainInside
<1>4. ASSUME f[c] \in Cluster PROVE Apart(g, d, f[c])
  <2>1. f[c] \in ChainIn(f, c)
    BY <1>1, <1>4 DEF Closed
  <2>2. Closed(g, ChainIn(f, c))
    BY <1>1, LayoutFacts DEF Closed
  <2>3. ChainIn(g, f[c]) \subseteq ChainIn(f, c)
    BY <1>1, <1>4, <2>1, <2>2, ChainWithin
  <2>4. \A h \in HeadsIn(d) : ChainIn(g, h) = ChainIn(f, h)
    BY <1>3, ChainSame
  <2> QED  BY <2>3, <2>4 DEF Apart
<1> QED  BY <1>2, <1>3, <1>4

LEMMA TreeFree == HereAndNext /\ Free => TreeInv' /\ Change
<1> SUFFICES ASSUME HereAndNext, Free PROVE TreeInv' /\ Change
  OBVIOUS
<1>1. pc = "free" /\ disk' = disk
  BY DEF Free, WriteFat
<1>2. /\ Good(fat, disk) /\ Contents(fat, disk) /\ AllVisible(fat, disk)
      /\ Walked /\ CommandKnown
      /\ Absent(fat, disk, dir, nm) /\ Apart(fat, disk, cur)
  BY <1>1 DEF HereAndNext, TreeInv, Running, Removing, Contents
<1>3. cur \in Cluster /\ fat \in Table /\ dir \in HeadsIn(disk) /\ dir \in DirHeadsIn(disk)
  BY <1>2, HeadTypes DEF HereAndNext, TypeInv, LocalsTyped, Good, VolumeTyped, Walked
<1>4. /\ fat'[cur] = fat[cur] \/ fat'[cur] = FREE
      /\ \A b \in Cluster : b # cur => fat'[b] = fat[b]
  BY <1>3 DEF Free, WriteFat, FatAfter, Table
<1>5. /\ \A h \in HeadsIn(disk) : \A b \in ChainIn(fat, h) : fat'[b] = fat[b]
      /\ fat[cur] \in Cluster => Apart(fat', disk, fat[cur])
  BY <1>2, <1>3, <1>4, ApartNext
<1>6. Beside(fat, disk, fat', disk)
  <2>1. \A c \in Cluster : Unclaimed(fat, disk, c) => NoEntry(disk[c])
    BY <1>2, UnclaimedBare
  <2> QED  BY <1>2, <1>5, <2>1 DEF Beside, Contents, Plain
<1>7. Contents(fat', disk) /\ Absent(fat', disk, dir, nm)
  BY <1>2, <1>3, <1>6, BesideContents, BesideRest
<1>8. Running'
  <2>1. CASE Return("ok")
    BY <2>1, ReturnRuns
  <2>2. CASE ~Return("ok")
    BY <1>1, <1>2, <1>5, <1>7, <2>2 DEF Free, Chained, Running, CommandKnown, Walked, Searching,
       Placing, Claimed, Opened, Removing, Making, Allocating, FileOpen, Seeking, command, walk,
       claim, file
  <2> QED  BY <2>1, <2>2
<1>9. Change
  BY <1>1, <1>6 DEF Change
<1> QED  BY <1>1, <1>7, <1>8, <1>9 DEF TreeInv

-----------------------------------------------------------------------------
LEMMA TreeList == HereAndNext /\ (ListNext \/ ListEnd \/ Crash \/ UNCHANGED vars) => TreeInv'
<1> SUFFICES ASSUME HereAndNext, ListNext \/ ListEnd \/ Crash \/ UNCHANGED vars PROVE TreeInv'
  OBVIOUS
<1>1. fat' = fat /\ disk' = disk /\ Contents(fat, disk) /\ Running
  BY DEF ListNext, ListEnd, Crash, vars, device, HereAndNext, TreeInv
<1>2. CASE ListNext
  <2>1. Running'
    BY <1>1, <1>2 DEF ListNext, Running, CommandKnown, Walked, Searching,
       Placing, Claimed, Opened, Removing, Making, Allocating, FileOpen, Seeking, command, walk,
       claim, file
  <2> QED  BY <1>1, <2>1 DEF TreeInv
<1>3. CASE ListEnd \/ Crash
  BY <1>1, <1>3, ReturnRuns DEF ListEnd, Crash, TreeInv
<1>4. CASE UNCHANGED vars
  <2>1. Running'
    BY <1>1, <1>4 DEF vars, scan, Running, CommandKnown, Walked, Searching,
       Placing, Claimed, Opened, Removing, Making, Allocating, FileOpen, Seeking, command, walk,
       claim, file
  <2> QED  BY <1>1, <2>1 DEF TreeInv
<1> QED  BY <1>2, <1>3, <1>4

LEMMA TreeStep == HereAndNext /\ [Next]_vars => TreeInv' /\ Change
<1> SUFFICES ASSUME HereAndNext, [Next]_vars PROVE TreeInv' /\ Change
  OBVIOUS
<1>1. CASE Start \/ Crash \/ UNCHANGED vars
  <2>1. UNCHANGED device
    BY <1>1 DEF Start, WalkInto, WalkUp, Command, List, Crash, vars
  <2> QED  BY <1>1, <2>1, TreeStart, TreeList DEF Change
<1>2. CASE \/ FindHit \/ FindText \/ FindNext \/ FindMiss
           \/ FreeSlot \/ FreeNext \/ FreeExtend \/ FreeError
  <2>1. UNCHANGED device
    BY <1>2 DEF FindHit, FindText, FindNext, FindMiss, FreeSlot, FreeNext, FreeExtend, FreeError
  <2> QED  BY <1>2, <2>1, TreeFindHit, TreeFindText, TreeFind, TreeFindFree DEF Change
<1>3. CASE LoopHead \/ SeekHop \/ SeekExtend \/ ReadData
  <2>1. UNCHANGED device
    BY <1>3 DEF LoopHead, SeekHop, SeekExtend, ReadData
  <2> QED  BY <1>3, <2>1, TreeSeek, TreeReadData DEF Change
<1>4. CASE NotEmpty \/ EmptyNext \/ EmptyYes \/ ListNext \/ ListEnd
  <2>1. UNCHANGED device
    BY <1>4 DEF NotEmpty, EmptyNext, EmptyYes, ListNext, ListEnd
  <2> QED  BY <1>4, <2>1, TreeEmpty, TreeList DEF Change
<1>5. CASE \/ DirLink \/ AllocFull \/ AllocTake \/ AllocZero \/ Dirent \/ Dots \/ FileLink
           \/ WriteData \/ Finish \/ Delete \/ DeleteText \/ Free
  BY <1>5, TreeDeleteText, TreeDirLink, TreeAlloc, TreeZero, TreeDirent, TreeDots, TreeFileLink, TreeWriteData,
     TreeFinish, TreeDelete, TreeFree
<1> QED  BY <1>1, <1>2, <1>3, <1>4, <1>5 DEF Next, Step

\* The formatted image: the root holds the one entry TEST, of one written unit.
TestEntry == Resized(Entry(TestName, TestCluster, FALSE), 1)

LEMMA FormattedVolume ==
    ASSUME Init
    PROVE  /\ TestEntry.kind = "entry" /\ TestEntry.name = TestName
           /\ TestEntry.first = TestCluster /\ TestEntry.size = 1 /\ TestEntry.isDir = FALSE
           /\ \A c \in Cluster : c \notin {Root, TestCluster} => disk[c] = ZeroSector
           /\ disk[Root][0] = TestEntry /\ \A s \in Slots : s # 0 => disk[Root][s] = Zero
           /\ disk[TestCluster][0] = Data(TestName)
           /\ Entries(disk) = {NoLoc} /\ At(disk, NoLoc) = TestEntry
           /\ DirHeadsIn(disk) = {Root} /\ ChainIn(fat, Root) = {Root}
           /\ ChainIn(fat, TestCluster) = {TestCluster}
<1> DEFINE u == TestEntry
           l == NoLoc
<1>1. /\ u.kind = "entry" /\ u.name = TestName /\ u.first = TestCluster /\ u.size = 1
      /\ u.isDir = FALSE
  <2>1. Entry(TestName, TestCluster, FALSE) \in Unit /\ 1 \in 0 .. MaxLen
    <3>1. FALSE \in BOOLEAN /\ TestName \in Names \cup {NoName} /\ 1 \in 0 .. MaxLen
      BY DataAssumption
    <3> QED  BY <3>1, UnitTypes, LayoutFacts, Zenon
  <2> QED  BY <2>1, Resizing DEF Entry, TestEntry
<1>2. /\ disk[Root] = [ZeroSector EXCEPT ![0] = u]
      /\ disk[TestCluster] = [ZeroSector EXCEPT ![0] = Data(TestName)]
      /\ \A c \in Cluster : c \notin {Root, TestCluster} => disk[c] = ZeroSector
      /\ fat[Root] = EOC /\ fat[TestCluster] = EOC
  <2> DEFINE root == [ZeroSector EXCEPT ![0] = u]
             data == [ZeroSector EXCEPT ![0] = Data(TestName)]
  <2>1. disk = [c \in Cluster |-> IF c = Root THEN root
                                 ELSE IF c = TestCluster THEN data ELSE ZeroSector]
    BY DEF Init, TestEntry
  <2>2. fat[Root] = EOC /\ fat[TestCluster] = EOC
    BY LayoutFacts DEF Init
  <2>3. Root # TestCluster
    BY DEF Root, TestCluster
  <2> HIDE DEF root, data
  <2>4. /\ disk[Root] = root /\ disk[TestCluster] = data
        /\ \A c \in Cluster : c \notin {Root, TestCluster} => disk[c] = ZeroSector
    BY <2>1, <2>3, LayoutFacts
  <2> QED  BY <2>2, <2>4 DEF root, data
<1>3. /\ \A s \in Slots : ZeroSector[s] = Zero /\ ZeroSector \in [Slots -> Unit]
      /\ Zero.kind = "zero" /\ Data(TestName).kind = "data"
  BY UnitTypes DEF ZeroSector, Zero, Data, Mark
<1>4. /\ disk[Root][0] = u /\ \A s \in Slots : s # 0 => disk[Root][s] = Zero
      /\ disk[TestCluster][0] = Data(TestName)
      /\ \A s \in Slots : s # 0 => disk[TestCluster][s] = Zero
  <2>1. 0 \in Slots /\ ZeroSector \in [Slots -> Unit] /\ \A s \in Slots : ZeroSector[s] = Zero
    BY <1>3, LayoutFacts
  <2> QED  BY <1>2, <2>1
<1>5. Entries(disk) = {l} /\ At(disk, l) = u
  <2>1. \A c \in Cluster, s \in Slots : disk[c][s].kind = "entry" <=> c = Root /\ s = 0
    BY <1>1, <1>2, <1>3, <1>4
  <2>2. At(disk, l) = u /\ l \in Location
    BY <1>4, LayoutFacts DEF At, Location, NoLoc
  <2> QED  BY <2>1, <2>2, LayoutFacts DEF Entries, Location, NoLoc
<1>6. DirHeadsIn(disk) = {Root}
  BY <1>1, <1>5 DEF DirHeadsIn
<1>7. ChainIn(fat, Root) = {Root} /\ ChainIn(fat, TestCluster) = {TestCluster}
  BY <1>2, ChainUnfold, LayoutFacts
<1> QED  BY <1>1, <1>2, <1>4, <1>5, <1>6, <1>7

LEMMA TreeInit == Init /\ Good(fat, disk) => TreeInv
<1> SUFFICES ASSUME Init, Good(fat, disk) PROVE TreeInv
  OBVIOUS
<1> DEFINE u == TestEntry
           l == NoLoc
<1>1. /\ u.kind = "entry" /\ u.name = TestName /\ u.first = TestCluster /\ u.size = 1
      /\ u.isDir = FALSE
  BY FormattedVolume
<1>2. \A c \in Cluster : c \notin {Root, TestCluster} => disk[c] = ZeroSector
  BY FormattedVolume
<1>4. /\ disk[Root][0] = u /\ \A s \in Slots : s # 0 => disk[Root][s] = Zero
      /\ disk[TestCluster][0] = Data(TestName)
  BY FormattedVolume
<1>5. Entries(disk) = {l} /\ At(disk, l) = u
  BY FormattedVolume
<1>6. DirHeadsIn(disk) = {Root}
  BY FormattedVolume
<1>7. ChainIn(fat, Root) = {Root} /\ ChainIn(fat, TestCluster) = {TestCluster}
  BY FormattedVolume
<1>8. Place(fat, TestCluster, TestCluster) = 0
  BY <1>1, <1>5, HeadTypes, PlaceFirst, LayoutFacts
<1>9. AllVisible(fat, disk)
  <2>1. BeforeIn(fat, Root, Root) = {} /\ l[1] = Root /\ l[2] = 0
    BY <1>7 DEF BeforeIn, NoLoc
  <2>2. 0 \in Shown(disk[Root])
    BY <1>1, <1>4, LayoutFacts DEF Shown
  <2> QED  BY <1>5, <1>6, <1>7, <2>1, <2>2 DEF AllVisible, Found
<1>10. AllUnique(fat, disk)
  BY <1>5 DEF AllUnique, HeldBy
<1>11. AllWritten(fat, disk)
  <2>1. Cardinality({TestCluster}) = 1 /\ SlotsPerCluster \in Nat /\ SlotsPerCluster >= 1
    <3>1. Cardinality({TestCluster}) = 1
      BY FS_Singleton
    <3> QED  BY <3>1, LayoutAssumption
  <2>2. 1 <= 1 * SlotsPerCluster /\ 0 * SlotsPerCluster = 0
    BY <2>1
  <2>3. \A s \in Slots : s \in Nat
    BY LayoutAssumption DEF Slots
  <2>4. Written(fat, disk, TestCluster, TestName, 1)
    <3>1. 1 <= Cardinality(ChainIn(fat, TestCluster)) * SlotsPerCluster
      BY <1>7, <2>1, <2>2
    <3>2. \A s \in Slots : Place(fat, TestCluster, TestCluster) * SlotsPerCluster + s < 1 => s = 0
      BY <1>8, <2>2, <2>3
    <3> QED  BY <1>4, <1>7, <3>1, <3>2 DEF Written
  <2> QED  BY <1>1, <1>5, <2>4 DEF AllWritten
<1>12. Plain(disk)
  BY <1>1, <1>2, <1>5, LayoutAssumption, DataAssumption DEF Plain
<1>13. Running
  BY <1>6 DEF Init, Running, CommandKnown, Walked, Searching,
     Placing, Claimed, Opened, Removing, Making, Allocating, FileOpen, Seeking
<1> QED  BY <1>9, <1>10, <1>11, <1>12, <1>13 DEF TreeInv, Contents

\* What is known while a file is written.
LEMMA WritingKnown ==
    ASSUME HereAndNext, pc \in {"filelink", "seek", "finish"}
    PROVE  /\ Holding(fat, disk, dir, ent, nm) /\ ent \in Entries(disk)
           /\ ~At(disk, ent).isDir /\ At(disk, ent).first = first
           /\ first \in HeadsIn(disk)
<1>1. Holding(fat, disk, dir, ent, nm) /\ ~At(disk, ent).isDir /\ At(disk, ent).first = first
  BY DEF HereAndNext, TreeInv, Running, Opened, FileOpen, Allocating
<1>2. Good(fat, disk)
  BY DEF HereAndNext
<1> QED  BY <1>1, <1>2, HeadTypes DEF Holding, HeldBy

-----------------------------------------------------------------------------
(* Text in directories.                                                     *)

\* A unit of a directory is set to what is no text.
LEMMA UnitSetTexted ==
    ASSUME NEW f, NEW d, NEW e, NEW l, NEW u, UnitSet(d, e, l, u), u.kind # "data",
           NEW h \in Cluster, TextOn(f, e, h)
    PROVE  TextOn(f, d, h)
<1>1. PICK c \in ChainIn(f, h), s \in Slots : e[c][s].kind = "data"
  BY DEF TextOn, Texted
<1>2. c \in Cluster
  BY ChainInside
<1>3. d[c][s].kind = "data"
  BY <1>1, <1>2 DEF UnitSet
<1> QED  BY <1>1, <1>3 DEF TextOn, Texted

\* Where the cluster new comes to be part of a directory.
Spoiling(h) == \/ pc = "dirlink" /\ h = dir
               \/ pc = "dirent" /\ op = "mkdir" /\ h = new

\* Text comes to be in a directory with the cluster that holds it only.
LEMMA TextSpreads ==
    ASSUME HereAndNext, Change, NEW h \in DirHeadsIn(disk'), TextOn(fat', disk', h)
    PROVE  \/ h \in DirHeadsIn(disk) /\ TextOn(fat, disk, h)
           \/ Spoiling(h) /\ Texted(disk[new])
<1>1. /\ Good(fat, disk) /\ AllVisible(fat, disk)
      /\ dir \in DirHeadsIn(disk) /\ dir \in HeadsIn(disk)
      /\ \A g \in DirHeadsIn(disk) : g \in HeadsIn(disk) /\ g \in Cluster
  BY HeadTypes DEF HereAndNext, TreeInv, Running, Walked, Contents
<1>2. CASE UNCHANGED device
  BY <1>2 DEF device
<1>3. CASE Beside(fat, disk, fat', disk')
  <2>1. h \in DirHeadsIn(disk)
    BY <1>1, <1>3, BesideEntries
  <2>2. ChainIn(fat', h) = ChainIn(fat, h) /\ \A c \in ChainIn(fat, h) : disk'[c] = disk[c]
    BY <1>1, <1>3, <2>1, BesideChains
  <2> QED  BY <2>1, <2>2 DEF TextOn
<1>4. CASE /\ disk' = disk /\ Extended(fat, disk, fat', cur, new)
           /\ \/ pc = "dirlink" /\ cur \in ChainIn(fat, dir)
              \/ pc = "filelink" /\ op = "write" /\ cur \in ChainIn(fat, first)
  <2>1. h \in DirHeadsIn(disk) /\ h \in HeadsIn(disk)
    BY <1>1, <1>4
  <2>2. PICK c \in ChainIn(fat', h) : Texted(disk[c])
    BY <1>4 DEF TextOn
  <2>3. c \in ChainIn(fat, h) \/ (c = new /\ cur \in ChainIn(fat, h))
    BY <1>1, <1>4, <2>1, ExtendedAll
  <2>4. CASE c \in ChainIn(fat, h)
    BY <2>1, <2>2, <2>4 DEF TextOn
  <2>5. CASE c = new /\ cur \in ChainIn(fat, h)
    <3>1. CASE pc = "dirlink" /\ cur \in ChainIn(fat, dir)
      <4>1. h = dir
        BY <1>1, <2>1, <2>5, <3>1, OneHead
      <4> QED  BY <2>2, <2>5, <3>1, <4>1 DEF Spoiling
    <3>2. CASE pc = "filelink" /\ cur \in ChainIn(fat, first)
      <4>1. ent \in Entries(disk) /\ ~At(disk, ent).isDir /\ At(disk, ent).first = first
        BY <3>2, WritingKnown
      <4> QED  BY <1>1, <2>1, <2>5, <3>2, <4>1, FileApart
    <3> QED  BY <1>4, <3>1, <3>2
  <2> QED  BY <2>3, <2>4, <2>5
<1>5. CASE /\ fat' = fat /\ pc = "dirent"
           /\ Added(fat, disk, disk', dir, ent, Entry(nm, new, op = "mkdir"))
  <2> DEFINE u == Entry(nm, new, op = "mkdir")
  <2>1. u.kind # "data" /\ u.first = new /\ (u.isDir <=> op = "mkdir")
    BY DEF Entry
  <2>2. Added(fat, disk, disk', dir, ent, u)
    BY <1>5
  <2> HIDE DEF u
  <2>3. h \in DirHeadsIn(disk) \/ (op = "mkdir" /\ h = new)
    BY <1>1, <2>1, <2>2, AddedEntries
  <2>4. UnitSet(disk, disk', ent, u) /\ new \in Cluster /\ Unclaimed(fat, disk, new)
        /\ fat[new] = EOC /\ ent[1] \in ChainIn(fat, dir)
    BY <2>1, <2>2 DEF Added, Spot
  <2>5. CASE h \in DirHeadsIn(disk)
    BY <1>1, <1>5, <2>1, <2>4, <2>5, UnitSetTexted
  <2>6. CASE op = "mkdir" /\ h = new
    <3>1. ChainIn(fat, new) = {new}
      BY <2>4, ChainUnfold, LayoutFacts
    <3>2. disk'[new] = disk[new]
      BY <1>1, <2>4 DEF UnitSet, Unclaimed
    <3> QED  BY <1>5, <2>6, <3>1, <3>2 DEF TextOn, Spoiling
  <2> QED  BY <2>3, <2>5, <2>6
<1>6. CASE fat' = fat /\ Dotted(fat, disk, disk', new)
  <2>1. h \in DirHeadsIn(disk)
    BY <1>1, <1>6, DottedSwapped, SwappedEntries
  <2>2. PICK c \in ChainIn(fat, h) : Texted(disk'[c])
    BY <1>6 DEF TextOn
  <2>3. ~Texted(DotSector)
    BY DEF Texted, DotSector, Dot, Zero, Mark
  <2>4. c \in Cluster /\ disk'[c] = disk[c]
    BY <1>1, <1>6, <2>1, <2>2, <2>3, ChainInside DEF Dotted
  <2> QED  BY <2>1, <2>2, <2>4 DEF TextOn
<1>7. CASE fat' = fat /\ Poured(fat, disk, disk', ent, cur)
  <2>1. h \in DirHeadsIn(disk)
    BY <1>1, <1>7, PouredSwapped, SwappedEntries
  <2>2. PICK c \in ChainIn(fat, h) : Texted(disk'[c])
    BY <1>7 DEF TextOn
  <2>3. c \in Cluster /\ c # cur
    BY <1>1, <1>7, <2>1, FileApart, ChainInside DEF Poured
  <2> QED  BY <1>7, <2>1, <2>2, <2>3 DEF TextOn, Poured
<1>8. CASE fat' = fat /\ Grown(fat, disk, disk', dir, ent, fpos)
  <2> DEFINE u == Resized(At(disk, ent), fpos)
  <2>1. At(disk', ent).kind = "entry" /\ h \in DirHeadsIn(disk)
    BY <1>1, <1>8, GrownEntries
  <2>2. UnitSet(disk, disk', ent, u)
    BY <1>8 DEF Grown
  <2> HIDE DEF u
  <2>3. u.kind # "data"
    BY <2>1, <2>2, UnitSetAt
  <2> QED  BY <1>1, <1>8, <2>1, <2>2, <2>3, UnitSetTexted
<1>9. CASE fat' = fat /\ Removed(fat, disk, disk', dir, ent, Deleted)
  <2>1. h \in DirHeadsIn(disk)
    BY <1>1, <1>9, RemovedEntries
  <2>2. UnitSet(disk, disk', ent, Deleted) /\ Deleted.kind # "data"
    BY <1>9 DEF Removed
  <2> QED  BY <1>1, <1>9, <2>1, <2>2, UnitSetTexted
<1>10. CASE fat' = fat /\ \E l : Wiped(fat, disk, disk', dir, l)
  <2>1. PICK l : Wiped(fat, disk, disk', dir, l)
    BY <1>10
  <2>2. h \in DirHeadsIn(disk)
    BY <2>1, WipedEntries
  <2>3. UnitSet(disk, disk', l, Deleted) /\ Deleted.kind # "data"
    BY <2>1 DEF Wiped, Deleted, Mark
  <2> QED  BY <1>1, <1>10, <2>2, <2>3, UnitSetTexted
<1> QED  BY <1>2, <1>3, <1>4, <1>5, <1>6, <1>7, <1>8, <1>9, <1>10 DEF Change

\* Where no write fails the cluster is cleared before a directory gets it.
NoText ==
    "write" \notin Faults =>
        /\ \A h \in DirHeadsIn(disk) : ~TextOn(fat, disk, h)
        /\ pc \in {"dirlink", "dirent"} => ~Texted(disk[new])

LEMMA ClearedFirst ==
    ASSUME HereAndNext, [Next]_vars, NoText, "write" \notin Faults,
           pc' \in {"dirlink", "dirent"}
    PROVE  ~Texted(disk'[new'])
<1>1. CASE AllocZero
  <2>1. /\ Good(fat, disk) /\ new \in Cluster /\ new' = new
        /\ new \notin Backed => disk[new] = ZeroSector
    BY <1>1 DEF HereAndNext, TypeInv, LocalsTyped, TreeInv, Contents, Plain, AllocZero, claim
  <2>2. PICK w \in SectorWrites(new) : WriteSector(w, new, ZeroSector)
    BY <1>1 DEF AllocZero
  <2>3. disk'[new] = ZeroSector
    <3>1. CASE new \in Backed
      <4>1. w.done
        BY <2>2, <3>1 DEF SectorWrites, FatWrites, Stored
      <4> QED  BY <2>1, <2>2, <4>1 DEF WriteSector, DiskAfter, Good, VolumeTyped
    <3>2. CASE new \notin Backed
      BY <2>1, <2>2, <3>2 DEF WriteSector, DiskAfter, SectorWrites, Refused
    <3> QED  BY <3>1, <3>2
  <2>4. ~Texted(ZeroSector)
    BY DEF Texted, ZeroSector, Zero, Mark
  <2> QED  BY <2>1, <2>3, <2>4
<1>2. CASE UNCHANGED vars
  BY <1>2 DEF vars, device, claim, NoText
<1>3. ~(Start \/ Crash)
  BY DEF Start, WalkInto, WalkUp, Command, List, Crash, Return
<1>4. ~(FindHit \/ FindText \/ DeleteText \/ FindNext \/ FindMiss)
  BY DEF FindHit, FoundBy, FindText, TextFoundBy, DeleteText, FindNext, FindMiss, Return
<1>5. ~(FreeSlot \/ FreeNext \/ FreeExtend \/ FreeError \/ DirLink \/ AllocFull \/ AllocTake)
  BY DEF FreeSlot, FreeNext, FreeExtend, FreeError, DirLink, AllocFull, AllocTake, AllocFailed,
     Return
<1>6. ~(Dirent \/ Dots \/ LoopHead \/ SeekHop \/ SeekExtend \/ FileLink)
  BY DEF Dirent, Dots, LoopHead, SeekHop, SeekExtend, FileLink, Return
<1>7. ~(WriteData \/ Finish \/ ReadData)
  BY DEF WriteData, Finish, ReadData, Return
<1>8. ~(NotEmpty \/ EmptyNext \/ EmptyYes \/ Delete \/ Free \/ ListNext \/ ListEnd)
  BY DEF NotEmpty, EmptyNext, EmptyYes, Delete, Free, ListNext, ListEnd, Return
<1> QED  BY <1>1, <1>2, <1>3, <1>4, <1>5, <1>6, <1>7, <1>8 DEF Next, Step

LEMMA NoTextStep == HereAndNext /\ Change /\ NoText /\ [Next]_vars => NoText'
<1> SUFFICES ASSUME HereAndNext, Change, NoText, [Next]_vars, "write" \notin Faults
             PROVE  /\ \A h \in DirHeadsIn(disk') : ~TextOn(fat', disk', h)
                    /\ pc' \in {"dirlink", "dirent"} => ~Texted(disk'[new'])
  BY DEF NoText
<1>1. \A h \in DirHeadsIn(disk') : ~TextOn(fat', disk', h)
  BY TextSpreads DEF NoText, Spoiling
<1> QED  BY <1>1, ClearedFirst

-----------------------------------------------------------------------------
(* The theorems.                                                            *)

\* All that is known of a state of the driver.
DriverInv == IInv /\ Good(fat, disk) /\ TreeInv /\ NoText

LEMMA DriverStep == DriverInv /\ [Next]_vars => DriverInv' /\ HereAndNext /\ Change
<1> SUFFICES ASSUME DriverInv, [Next]_vars PROVE DriverInv' /\ HereAndNext /\ Change
  OBVIOUS
<1>1. IInv'
  BY TypeStep, ChainStep DEF DriverInv, IInv
<1>2. Good(fat, disk)'
  <2>1. TypeInv' /\ ChainsSound'
    BY <1>1, ChainInvSound, PTL DEF IInv
  <2> QED  BY <2>1, GoodHere, PTL
<1>3. HereAndNext
  BY <1>2 DEF HereAndNext, DriverInv, IInv
<1> QED  BY <1>1, <1>2, <1>3, TreeStep, NoTextStep DEF DriverInv

LEMMA DriverAlways == Spec => []DriverInv
<1>1. Init => IInv
  BY TypeInit, ChainInit DEF IInv
<1>2. Init => NoText
  <2> SUFFICES ASSUME Init PROVE NoText
    OBVIOUS
  <2>1. /\ disk[Root][0] = TestEntry /\ TestEntry.kind = "entry"
        /\ \A s \in Slots : s # 0 => disk[Root][s] = Zero
        /\ DirHeadsIn(disk) = {Root} /\ ChainIn(fat, Root) = {Root}
    BY FormattedVolume
  <2>2. ~TextOn(fat, disk, Root)
    BY <2>1 DEF TextOn, Texted, Zero, Mark
  <2> QED  BY <2>1, <2>2 DEF NoText, Init
<1>3. Init => DriverInv
  BY <1>1, <1>2, ChainInvSound, GoodHere, TreeInit DEF DriverInv, IInv
<1> QED  BY <1>3, DriverStep, PTL DEF Spec

\* fat_dir_find can come to every entry the driver wrote, after any sequence of commands, power
\* failures and failed writes: the entry lies in a directory that exists, and
\* no 0x00 byte comes before it.
THEOREM EntriesAlwaysVisible == Spec => []EntriesVisible
<1>1. DriverInv => EntriesVisible
  BY PropertiesHere DEF DriverInv, TreeInv, Contents
<1> QED  BY <1>1, DriverAlways, PTL

\* Where no write fails a directory never shows two entries of one name, text in
\* its clusters counted: fat32_create and fat32_mkdir are reached after a
\* fat_dir_find that saw all of it, and fat_alloc_cluster clears what it hands
\* out.  Where writes may fail, one of two is text the driver never wrote there.
THEOREM NamesAlwaysUnique == Spec => []UniqueNames
<1>1. DriverInv => UniqueNames
  BY UniqueHere DEF DriverInv, TreeInv, Contents, NoText
<1> QED  BY <1>1, DriverAlways, PTL

\* The size in an entry is never ahead of what was written to that file, nor of
\* its chain, wherever fat32_write was cut off.
THEOREM SizesAlwaysWritten == Spec => []SizeWritten
<1>1. DriverInv => SizeWritten
  BY PropertiesHere DEF DriverInv, TreeInv, Contents
<1> QED  BY <1>1, DriverAlways, PTL

-----------------------------------------------------------------------------
(* What a step may not do.                                                  *)

LEMMA IsolatedStep ==
    ASSUME HereAndNext, Change, NEW l \in Entries(disk), ~At(disk, l).isDir,
           ~(op = "write" /\ ent = l), NEW c \in ChainIn(fat, At(disk, l).first)
    PROVE  disk'[c] = disk[c] /\ fat'[c] = fat[c]
<1> DEFINE h == At(disk, l).first
<1>1. Good(fat, disk) /\ dir \in DirHeadsIn(disk) /\ dir \in HeadsIn(disk)
  BY HeadTypes DEF HereAndNext, TreeInv, Running, Walked
<1>2. h \in HeadsIn(disk) /\ c \in Cluster /\ c \in ChainIn(fat, h)
  BY <1>1, HeadTypes, ChainInside
<1>3. \A g \in DirHeadsIn(disk) : c \notin ChainIn(fat, g)
  BY <1>1, FileApart
<1>4. ASSUME pc \in {"filelink", "seek"}, op = "write" PROVE c \notin ChainIn(fat, first)
  <2>1. /\ ent \in Entries(disk) /\ At(disk, ent).first = first /\ first \in HeadsIn(disk)
    BY <1>4, WritingKnown
  <2>2. first # h
    BY <1>1, <1>4, <2>1 DEF Good, VolumeSound
  <2> HIDE DEF h
  <2> QED  BY <1>1, <1>2, <2>1, <2>2, OneHead
<1>5. CASE UNCHANGED device
  BY <1>5 DEF device
<1>6. CASE Beside(fat, disk, fat', disk')
  BY <1>2, <1>6 DEF Beside
<1>7. CASE /\ disk' = disk /\ Extended(fat, disk, fat', cur, new)
           /\ \/ pc = "dirlink" /\ cur \in ChainIn(fat, dir)
              \/ pc = "filelink" /\ op = "write" /\ cur \in ChainIn(fat, first)
  BY <1>1, <1>2, <1>3, <1>4, <1>7 DEF Extended
<1>8. ASSUME fat' = fat, NEW u, UnitSet(disk, disk', ent, u), ent[1] \in ChainIn(fat, dir)
      PROVE  disk'[c] = disk[c] /\ fat'[c] = fat[c]
  BY <1>1, <1>2, <1>3, <1>8 DEF UnitSet
<1>9. CASE fat' = fat /\ Added(fat, disk, disk', dir, ent, Entry(nm, new, op = "mkdir"))
  BY <1>8, <1>9 DEF Added, Spot
<1>10. CASE fat' = fat /\ Removed(fat, disk, disk', dir, ent, Deleted)
  BY <1>8, <1>10 DEF Removed, HeldBy
<1>11. CASE fat' = fat /\ Grown(fat, disk, disk', dir, ent, fpos)
  BY <1>8, <1>11 DEF Grown, HeldBy
<1>12. CASE fat' = fat /\ Dotted(fat, disk, disk', new)
  <2>1. new \in DirHeadsIn(disk) /\ new \in Cluster
    BY <1>1, <1>12, HeadTypes DEF Dotted
  <2>2. c # new
    BY <1>3, <2>1, ChainBasic
  <2> QED  BY <1>2, <1>12, <2>2 DEF Dotted
<1>13. CASE fat' = fat /\ pc = "seek" /\ op = "write" /\ Poured(fat, disk, disk', ent, cur)
  <2>1. cur \in ChainIn(fat, first)
    BY <1>13, WritingKnown DEF Poured
  <2> QED  BY <1>2, <1>4, <1>13, <2>1 DEF Poured
<1>14. CASE fat' = fat /\ \E k : Wiped(fat, disk, disk', dir, k)
  <2>1. PICK k : Wiped(fat, disk, disk', dir, k)
    BY <1>14
  <2> QED  BY <1>1, <1>2, <1>3, <1>14, <2>1 DEF Wiped, UnitSet
<1> QED  BY <1>5, <1>6, <1>7, <1>9, <1>10, <1>11, <1>12, <1>13, <1>14 DEF Change

\* No step of any command touches the data or the chain of a file that stays,
\* but of the one the running write opened.
THEOREM FilesAlwaysIsolated == Spec => FilesIsolated
<1>1. DriverInv /\ [Next]_vars =>
        \A l \in Entries(disk) \cap Entries(disk') :
          LET x == Content(l)
          IN  ~x.isDir /\ disk'[l[1]][l[2]].first = x.first /\ ~(op = "write" /\ ent = l)
              => \A c \in Chain(x.first) : disk'[c] = disk[c] /\ fat'[c] = fat[c]
  <2> SUFFICES ASSUME DriverInv, [Next]_vars, NEW l \in Entries(disk), ~At(disk, l).isDir,
                      ~(op = "write" /\ ent = l), NEW c \in ChainIn(fat, At(disk, l).first)
               PROVE  disk'[c] = disk[c] /\ fat'[c] = fat[c]
    BY HereDefs
  <2> QED  BY DriverStep, IsolatedStep
<1> QED  BY <1>1, DriverAlways, PTL DEF Spec, FilesIsolated

\* Who says "ok", of the commands that change a directory without text.
LEMMA WhoSaysOk ==
    ASSUME HereAndNext, [Next]_vars, out' = "ok", op \in {"write", "mkdir", "rm"},
           ~HoldsText(dir)
    PROVE  \/ pc = "free" /\ op = "rm"
           \/ pc = "dots" /\ op = "mkdir"
           \/ pc = "finish" /\ op = "write"
<1>1. out = "none" /\ pc # "idle" /\ CommandKnown
  BY DEF HereAndNext, TreeInv, Running, CommandKnown
<1>2. ~(Start \/ Crash \/ UNCHANGED vars)
  BY <1>1 DEF Start, WalkInto, WalkUp, Command, List, Crash, Return, vars
<1>3. ~(FindHit \/ FindNext \/ FindMiss)
  BY <1>1 DEF FindHit, FoundBy, FindNext, FindMiss, Return
<1>a. ~(FindText \/ DeleteText)
  BY TextHit, HereDefs DEF FindText, DeleteText
<1>4. ~(FreeSlot \/ FreeNext \/ FreeExtend \/ FreeError \/ DirLink)
  BY <1>1 DEF FreeSlot, FreeNext, FreeExtend, FreeError, DirLink, Return
<1>5. ~(AllocFull \/ AllocTake \/ AllocZero \/ Dirent)
  BY <1>1 DEF AllocFull, AllocTake, AllocFailed, AllocZero, Dirent, Return
<1>6. ~(LoopHead \/ SeekHop \/ SeekExtend \/ FileLink \/ WriteData \/ ReadData)
  BY <1>1 DEF LoopHead, SeekHop, SeekExtend, FileLink, WriteData, ReadData, Return
<1>7. ~(NotEmpty \/ EmptyNext \/ EmptyYes \/ Delete)
  BY <1>1 DEF NotEmpty, EmptyNext, EmptyYes, Delete, Return
<1>8. ~(ListNext \/ ListEnd)
  BY <1>1 DEF ListNext, ListEnd, CommandKnown
<1>9. Dots \/ Finish \/ Free
  BY <1>2, <1>3, <1>a, <1>4, <1>5, <1>6, <1>7, <1>8 DEF Next, Step
<1> QED  BY <1>1, <1>9 DEF Dots, Finish, Free, CommandKnown

LEMMA DoneStep ==
    ASSUME HereAndNext, Change, [Next]_vars, out' = "ok", op \in {"write", "mkdir", "rm"},
           ~HoldsText(dir)
    PROVE  /\ op = "rm" => Absent(fat', disk', dir, nm)
           /\ op # "rm" => /\ Holding(fat', disk', dir, ent, nm)
                           /\ At(disk', ent).isDir <=> op = "mkdir"
<1>1. /\ Good(fat, disk) /\ AllVisible(fat, disk)
      /\ dir \in DirHeadsIn(disk) /\ dir \in HeadsIn(disk)
  BY HeadTypes DEF HereAndNext, TreeInv, Running, Walked, Contents
<1>2. CASE pc = "free" /\ op = "rm"
  <2>1. Absent(fat, disk, dir, nm)
    BY <1>2 DEF HereAndNext, TreeInv, Running, Removing
  <2>2. UNCHANGED device \/ Beside(fat, disk, fat', disk')
    BY <1>2 DEF Change
  <2>3. Absent(fat', disk', dir, nm)
    BY <1>1, <2>1, <2>2, BesideRest DEF device
  <2> QED  BY <1>2, <2>3
<1>3. CASE pc = "dots" /\ op = "mkdir"
  <2>1. Holding(fat, disk, dir, ent, nm) /\ At(disk, ent).isDir /\ ent \in Entries(disk)
    BY <1>3 DEF HereAndNext, TreeInv, Running, Claimed, Holding, HeldBy
  <2>2. CASE UNCHANGED device
    BY <1>3, <2>1, <2>2 DEF device
  <2>3. CASE fat' = fat /\ Dotted(fat, disk, disk', new)
    <3>1. /\ At(disk', ent) = At(disk, ent)
          /\ HeldBy(fat, disk', dir) = HeldBy(fat, disk, dir)
      BY <1>1, <2>1, <2>3, DottedSwapped, SwappedEntries
    <3> QED  BY <1>3, <2>1, <2>3, <3>1 DEF Holding
  <2> QED  BY <1>3, <2>2, <2>3 DEF Change
<1>4. CASE pc = "finish" /\ op = "write"
  <2>1. Holding(fat, disk, dir, ent, nm) /\ ~At(disk, ent).isDir /\ ent \in Entries(disk)
    BY <1>4, WritingKnown
  <2>2. CASE UNCHANGED device
    BY <1>4, <2>1, <2>2 DEF device
  <2>3. CASE fat' = fat /\ Grown(fat, disk, disk', dir, ent, fpos)
    <3>1. /\ At(disk', ent).name = At(disk, ent).name
          /\ At(disk', ent).isDir = At(disk, ent).isDir
          /\ HeldBy(fat, disk', dir) = HeldBy(fat, disk, dir)
      BY <1>1, <2>1, <2>3, GrownEntries
    <3> QED  BY <1>4, <2>1, <2>3, <3>1 DEF Holding
  <2> QED  BY <1>4, <2>2, <2>3 DEF Change
<1> QED  BY <1>2, <1>3, <1>4, WhoSaysOk

\* In a directory without text "mkdir: ok" and "write: ok" mean that it holds the
\* entry, "rm: ok" that it does not, whatever the writes on the way returned.
THEOREM OkAlwaysMeansDone == Spec => OkMeansDone
<1>1. DriverInv /\ [Next]_vars =>
        (out' = "ok" /\ op \in {"write", "mkdir", "rm"} /\ ~HoldsText(dir) =>
         LET named == {l \in Entries(disk') : /\ l[1] \in ChainIn(fat', dir)
                                              /\ disk'[l[1]][l[2]].name = nm}
         IN  IF op = "rm" THEN named = {}
             ELSE \E l \in named : disk'[l[1]][l[2]].isDir <=> op = "mkdir")
  <2> SUFFICES ASSUME DriverInv, [Next]_vars, out' = "ok", op \in {"write", "mkdir", "rm"},
                      ~HoldsText(dir)
               PROVE  LET named == {l \in Entries(disk') : /\ l[1] \in ChainIn(fat', dir)
                                                           /\ disk'[l[1]][l[2]].name = nm}
                      IN  IF op = "rm" THEN named = {}
                          ELSE \E l \in named : disk'[l[1]][l[2]].isDir <=> op = "mkdir"
    OBVIOUS
  <2> DEFINE named == {l \in Entries(disk') : /\ l[1] \in ChainIn(fat', dir)
                                              /\ disk'[l[1]][l[2]].name = nm}
  <2>1. /\ op = "rm" => Absent(fat', disk', dir, nm)
        /\ op # "rm" => /\ Holding(fat', disk', dir, ent, nm)
                        /\ At(disk', ent).isDir <=> op = "mkdir"
    BY DriverStep, DoneStep
  <2>2. op = "rm" => named = {}
    BY <2>1 DEF Absent, HeldBy, At
  <2>3. op # "rm" => ent \in named /\ (disk'[ent[1]][ent[2]].isDir <=> op = "mkdir")
    BY <2>1 DEF Holding, HeldBy, At
  <2> QED  BY <2>2, <2>3
<1> QED  BY <1>1, DriverAlways, PTL DEF Spec, OkMeansDone

-----------------------------------------------------------------------------
(* What cat reads.                                                          *)

LEMMA WhoMoves ==
    ASSUME HereAndNext, [Next]_vars, op = "cat"
    PROVE  /\ fpos' > fpos => ReadData
           /\ pc = "seek" /\ out' = "ok" => ReadData
<1>1. /\ fpos \in Nat /\ CommandKnown
  BY DEF HereAndNext, TypeInv, LocalsTyped, TreeInv, Running
<1>2. ASSUME fpos' = 0 \/ fpos' = fpos PROVE ~(fpos' > fpos)
  BY <1>1, <1>2
<1>3. CASE Start \/ Crash \/ UNCHANGED vars
  BY <1>1, <1>2, <1>3 DEF Start, WalkInto, WalkUp, Command, List, Crash, Return, vars, file,
     CommandKnown
<1>4. CASE FindHit \/ FindNext \/ FindMiss
  BY <1>2, <1>4 DEF FindHit, FoundBy, FindNext, FindMiss, Return, file
<1>12. CASE FindText \/ DeleteText
  BY <1>2, <1>12 DEF FindText, TextFoundBy, DeleteText, Return, file
<1>5. CASE FreeSlot \/ FreeNext \/ FreeExtend \/ FreeError \/ DirLink
  BY <1>2, <1>5 DEF FreeSlot, FreeNext, FreeExtend, FreeError, DirLink, Return, file
<1>6. CASE AllocFull \/ AllocTake \/ AllocZero
  BY <1>2, <1>6 DEF AllocFull, AllocTake, AllocFailed, AllocZero, Return, file
<1>7. CASE Dirent \/ Dots
  BY <1>2, <1>7 DEF Dirent, Dots, Return, file
<1>8. CASE LoopHead \/ SeekHop \/ SeekExtend \/ FileLink
  BY <1>1, <1>2, <1>8 DEF LoopHead, SeekHop, SeekExtend, FileLink, Return, file, CommandKnown
<1>9. CASE WriteData \/ Finish
  BY <1>2, <1>9 DEF WriteData, Finish, Return
<1>10. CASE NotEmpty \/ EmptyNext \/ EmptyYes \/ Delete \/ Free
  BY <1>2, <1>10 DEF NotEmpty, EmptyNext, EmptyYes, Delete, Free, Return, file
<1>11. CASE ListNext \/ ListEnd
  BY <1>2, <1>11 DEF ListNext, ListEnd, Return, file
<1> QED  BY <1>3, <1>4, <1>5, <1>6, <1>7, <1>8, <1>9, <1>10, <1>11, <1>12
  DEF Next, Step

\* What is known while cat reads: the cluster is the one of the position, and
\* what lies there was written to the file.
LEMMA ReadingKnown ==
    ASSUME HereAndNext, ReadData
    PROVE  /\ first \in Cluster /\ cur \in ChainIn(fat, first) /\ cur \in Cluster
           /\ fpos \in Nat /\ len \in Nat /\ hops \in Nat /\ len > 0 /\ fpos + len = size
           /\ Place(fat, first, cur) \in Nat
           /\ Place(fat, first, cur) + hops = fpos \div SlotsPerCluster
           /\ Written(fat, disk, first, nm, size)
<1>1. /\ pc = "seek" /\ op = "cat" /\ Opened /\ Contents(fat, disk) /\ Good(fat, disk)
  BY DEF ReadData, HereAndNext, TreeInv, Running
<1>2. /\ ent \in Entries(disk) /\ ~At(disk, ent).isDir /\ At(disk, ent).first = first
      /\ first \in HeadsIn(disk) /\ At(disk, ent).name = nm
  BY <1>1, WritingKnown DEF Holding
<1>3. /\ At(disk, ent).size = size /\ fpos + len = size /\ len > 0
      /\ cur \in ChainIn(fat, first)
      /\ Place(fat, first, cur) + hops = fpos \div SlotsPerCluster
  BY <1>1 DEF Opened, FileOpen, Seeking
<1>4. first \in Cluster /\ cur \in Cluster
  BY <1>1, <1>2, HeadTypes DEF HereAndNext, TypeInv, LocalsTyped
<1>5. Written(fat, disk, first, nm, size)
  BY <1>1, <1>2, <1>3 DEF Contents, AllWritten
<1>6. fpos \in Nat /\ len \in Nat /\ hops \in Nat
  BY DEF HereAndNext, TypeInv, LocalsTyped
<1>7. Place(fat, first, cur) \in Nat
  BY <1>4, PlaceType
<1> QED  BY <1>3, <1>4, <1>5, <1>6, <1>7

\* The unit at the position s further on, in the same cluster.
LEMMA ReadUnit ==
    ASSUME HereAndNext, ReadData, hops = 0, NEW s \in Nat, fpos + s < size,
           (fpos % SlotsPerCluster) + s < SlotsPerCluster
    PROVE  disk[cur][(fpos % SlotsPerCluster) + s] = Data(nm)
<1> DEFINE q == fpos \div SlotsPerCluster
           r == fpos % SlotsPerCluster
<1>1. /\ cur \in ChainIn(fat, first) /\ fpos \in Nat /\ Written(fat, disk, first, nm, size)
      /\ Place(fat, first, cur) \in Nat
      /\ Place(fat, first, cur) + hops = fpos \div SlotsPerCluster
  BY ReadingKnown
<1>2. q \in Nat /\ r \in 0 .. SlotsPerCluster - 1 /\ fpos = q * SlotsPerCluster + r
  BY <1>1, RowOf
<1>3. Place(fat, first, cur) = q /\ r + s < SlotsPerCluster /\ SlotsPerCluster \in Nat
  BY <1>1, LayoutAssumption
<1> HIDE DEF q, r
<1>4. q * SlotsPerCluster \in Nat
  BY <1>2, <1>3
<1>5. r + s \in Slots /\ Place(fat, first, cur) * SlotsPerCluster + (r + s) < size
  BY <1>2, <1>3, <1>4 DEF Slots
<1>6. disk[cur][r + s] = Data(nm)
  BY <1>1, <1>5 DEF Written
<1> QED  BY <1>6 DEF r

LEMMA CatStep ==
    ASSUME HereAndNext, ReadData
    PROVE  /\ \A s \in 0 .. fpos' - fpos - 1 :
                disk[cur][(fpos % SlotsPerCluster) + s] = Data(nm)
           /\ out' # "ok"
<1>1. /\ first \in Cluster /\ cur \in ChainIn(fat, first) /\ cur \in Cluster
      /\ fpos \in Nat /\ len \in Nat /\ hops \in Nat /\ len > 0 /\ fpos + len = size
      /\ Place(fat, first, cur) \in Nat
      /\ Place(fat, first, cur) + hops = fpos \div SlotsPerCluster
      /\ Written(fat, disk, first, nm, size)
  BY ReadingKnown
<1>2. SlotsPerCluster \in Nat \ {0} /\ fpos % SlotsPerCluster \in 0 .. SlotsPerCluster - 1
  BY <1>1, RowOf, LayoutAssumption
\* The chain does not end before the position.
<1>3. hops = 0
  <2> SUFFICES ASSUME hops > 0 PROVE FALSE
    BY <1>1
  <2> DEFINE p == Place(fat, first, cur)
             q == fpos \div SlotsPerCluster
  <2>1. fat[cur] \notin Cluster
    BY LayoutFacts DEF ReadData
  <2>2. Cardinality(ChainIn(fat, first)) = p + 1
    BY <1>1, <2>1, PlaceLast
  <2>3. q \in Nat /\ p \in Nat /\ p < q /\ q * SlotsPerCluster <= fpos
    <3>1. q \in Nat /\ fpos = q * SlotsPerCluster + (fpos % SlotsPerCluster)
      BY <1>1, RowOf
    <3> HIDE DEF q
    <3>2. q * SlotsPerCluster \in Nat
      BY <1>2, <3>1
    <3>3. q * SlotsPerCluster <= fpos
      BY <1>1, <1>2, <3>1, <3>2
    <3>4. p + hops = q
      BY <1>1 DEF q
    <3> QED  BY <1>1, <3>1, <3>3, <3>4
  <2>4. size <= (p + 1) * SlotsPerCluster
    BY <1>1, <2>2 DEF Written
  <2> HIDE DEF p, q
  <2>5. p * SlotsPerCluster + SlotsPerCluster <= q * SlotsPerCluster
    BY <1>2, <2>3, Rows
  <2>6. (p + 1) * SlotsPerCluster = p * SlotsPerCluster + SlotsPerCluster
        /\ p * SlotsPerCluster \in Nat /\ q * SlotsPerCluster \in Nat
    BY <1>2, <2>3
  <2> QED  BY <1>1, <1>2, <2>3, <2>4, <2>5, <2>6
\* Nor does it lead past the end of the device.
<1>4. cur \in Backed
  <2> SUFFICES ASSUME cur \notin Backed PROVE FALSE
    OBVIOUS
  <2>1. 0 \in Nat /\ fpos + 0 < size /\ (fpos % SlotsPerCluster) + 0 < SlotsPerCluster
    <3>1. fpos + 0 < size
      BY <1>1
    <3> DEFINE r == fpos % SlotsPerCluster
    <3>2. r \in 0 .. SlotsPerCluster - 1 /\ SlotsPerCluster \in Nat
      BY <1>2
    <3> HIDE DEF r
    <3>3. r + 0 < SlotsPerCluster
      BY <3>2
    <3> QED  BY <3>1, <3>3 DEF r
  <2>2. disk[cur][(fpos % SlotsPerCluster) + 0] = Data(nm)
    BY <1>3, <2>1, ReadUnit
  <2>3. disk[cur] = ZeroSector
    BY <1>1 DEF HereAndNext, TreeInv, Contents, Plain
  <2>4. (fpos % SlotsPerCluster) + 0 \in Slots
    BY <1>2 DEF Slots
  <2> QED  BY <2>2, <2>3, <2>4 DEF ZeroSector, Zero, Data, Mark
<1>5. fpos' = fpos + Take /\ out' = out
  BY <1>3, <1>4 DEF ReadData
<1>6. out' # "ok"
  BY <1>5 DEF ReadData, HereAndNext, TreeInv, Running, CommandKnown
<1>7. ASSUME NEW s \in 0 .. fpos' - fpos - 1
      PROVE  disk[cur][(fpos % SlotsPerCluster) + s] = Data(nm)
  <2>1. /\ Take \in Nat /\ Take <= len
        /\ (fpos % SlotsPerCluster) + Take <= SlotsPerCluster
    BY Takes DEF HereAndNext
  <2>2. s \in Nat /\ s < Take
    BY <1>1, <1>5, <2>1
  <2>3. fpos + s < size /\ (fpos % SlotsPerCluster) + s < SlotsPerCluster
    BY <1>1, <1>2, <2>1, <2>2
  <2> QED  BY <1>3, <2>2, <2>3, ReadUnit
<1> QED  BY <1>6, <1>7

\* cat shows what was written to the file and all of it: no piece it reads holds
\* anything else, and it never runs out of chain, or of device, before the size.
THEOREM CatAlwaysShowsFile == Spec => CatShowsFile
<1>1. DriverInv /\ [Next]_vars =>
        (op = "cat" =>
         /\ fpos' > fpos => \A s \in 0 .. fpos' - fpos - 1 :
                              disk[cur][(fpos % SlotsPerCluster) + s] = Data(nm)
         /\ out' = "ok" /\ pc = "seek" => fpos = size)
  BY DriverStep, WhoMoves, CatStep
<1> QED  BY <1>1, DriverAlways, PTL DEF Spec, CatShowsFile

-----------------------------------------------------------------------------
(* The refinement of FileTree.                                              *)

Row(d, h, l) == [parent |-> h, name |-> At(d, l).name, node |-> At(d, l).first,
                 isDir |-> At(d, l).isDir, size |-> At(d, l).size]
TreeOf(f, d) == UNION {{Row(d, h, l) : l \in HeldBy(f, d, h)} : h \in DirHeadsIn(d)}

LEMMA RowParts ==
    ASSUME NEW d, NEW h, NEW l
    PROVE  /\ Row(d, h, l).parent = h /\ Row(d, h, l).name = At(d, l).name
           /\ Row(d, h, l).node = At(d, l).first /\ Row(d, h, l).isDir = At(d, l).isDir
           /\ Row(d, h, l).size = At(d, l).size
BY DEF Row

LEMMA InTree ==
    ASSUME NEW f, NEW d
    PROVE  /\ \A h \in DirHeadsIn(d) : \A l \in HeldBy(f, d, h) : Row(d, h, l) \in TreeOf(f, d)
           /\ \A x \in TreeOf(f, d) : \E h \in DirHeadsIn(d) : \E l \in HeldBy(f, d, h) :
                x = Row(d, h, l)
BY DEF TreeOf

LEMMA TreeHere == treeOnDisk = TreeOf(fat, disk)
BY HereDefs DEF treeOnDisk, TreeOf, Row

LEMMA TreeNext == treeOnDisk' = TreeOf(fat', disk')
<1>1. (treeOnDisk = TreeOf(fat, disk))'
  BY TreeHere, PTL
<1> QED  BY <1>1

\* The tree is the same when the directories hold the same entries.
LEMMA SameTree ==
    ASSUME NEW f, NEW d, NEW g, NEW e, Good(f, d),
           DirHeadsIn(e) = DirHeadsIn(d), \A l \in Entries(d) : At(e, l) = At(d, l),
           \A h \in DirHeadsIn(d) : HeldBy(g, e, h) = HeldBy(f, d, h)
    PROVE  TreeOf(g, e) = TreeOf(f, d)
<1>1. \A h \in DirHeadsIn(d) : \A l \in HeldBy(f, d, h) : Row(e, h, l) = Row(d, h, l)
  BY DEF Row, HeldBy
<1>2. \A h \in DirHeadsIn(d) : {Row(e, h, l) : l \in HeldBy(g, e, h)} =
                               {Row(d, h, l) : l \in HeldBy(f, d, h)}
  BY <1>1
<1> QED  BY <1>2 DEF TreeOf

\* An entry stands for one member of the tree.
LEMMA OneRow ==
    ASSUME NEW f, NEW d, Good(f, d), AllUnique(f, d),
           NEW h \in DirHeadsIn(d), NEW l \in HeldBy(f, d, h),
           NEW g \in DirHeadsIn(d), NEW k \in HeldBy(f, d, g)
    PROVE  /\ Row(d, h, l).parent = Row(d, g, k).parent /\ Row(d, h, l).name = Row(d, g, k).name
                => g = h /\ k = l
           /\ k = l => g = h
<1>1. g = h => (At(d, l).name = At(d, k).name => k = l)
  BY DEF AllUnique
<1>2. k = l => g = h
  BY HeadTypes, OneHead DEF HeldBy
<1> QED  BY <1>1, <1>2, RowParts

\* What FileTree calls directories, and identities in use.
LEMMA TreeNodes ==
    ASSUME NEW f, NEW d, Good(f, d), AllVisible(f, d)
    PROVE  /\ \A h \in DirHeadsIn(d) :
                h = Root \/ \E x \in TreeOf(f, d) : x.isDir /\ x.node = h
           /\ \A x \in TreeOf(f, d) : x.node \in HeadsIn(d)
<1>1. ASSUME NEW h \in DirHeadsIn(d), h # Root
      PROVE  \E x \in TreeOf(f, d) : x.isDir /\ x.node = h
  <2>1. PICK l \in Entries(d) : At(d, l).isDir /\ At(d, l).first = h
    BY <1>1 DEF DirHeadsIn
  <2>2. PICK g \in DirHeadsIn(d) : Found(f, d, g, l)
    BY DEF AllVisible
  <2>3. l \in HeldBy(f, d, g)
    BY <2>2 DEF Found, HeldBy
  <2> QED  BY <2>1, <2>3, InTree, RowParts
<1>2. ASSUME NEW x \in TreeOf(f, d) PROVE x.node \in HeadsIn(d)
  <2>1. PICK h \in DirHeadsIn(d) : \E l \in HeldBy(f, d, h) : x = Row(d, h, l)
    BY InTree
  <2>2. PICK l \in HeldBy(f, d, h) : x = Row(d, h, l)
    BY <2>1
  <2> QED  BY <2>2, RowParts, HeadTypes DEF HeldBy
<1> QED  BY <1>1, <1>2

LEMMA AddedTree ==
    ASSUME NEW f, NEW d, NEW e, NEW h, NEW l, NEW u, Good(f, d), Contents(f, d),
           Added(f, d, e, h, l, u), u.isDir \in BOOLEAN
    PROVE  LET x == Row(e, h, l)
           IN  /\ TreeOf(f, e) = TreeOf(f, d) \cup {x} /\ x \notin TreeOf(f, d)
               /\ x \in [parent : Cluster, name : Names, node : Cluster, isDir : BOOLEAN,
                         size : Nat]
               /\ x.size = 0 /\ x.parent = h /\ h \in DirHeadsIn(d)
               /\ ~ \E y \in TreeOf(f, d) : y.parent = x.parent /\ y.name = x.name
               /\ x.node \notin HeadsIn(d)
<1> DEFINE x == Row(e, h, l)
<1>1. /\ h \in DirHeadsIn(d) /\ h \in Cluster /\ h \in HeadsIn(d) /\ Absent(f, d, h, u.name)
      /\ u.name \in Names /\ u.size = 0 /\ u.first \in Cluster /\ Unclaimed(f, d, u.first)
  BY HeadTypes DEF Added
<1>2. /\ Entries(e) = Entries(d) \cup {l} /\ At(e, l) = u /\ l \notin Entries(d)
      /\ \A k \in Entries(d) : At(e, k) = At(d, k)
      /\ \A g \in DirHeadsIn(d) : g \in DirHeadsIn(e)
      /\ \A g \in DirHeadsIn(e) : g \in DirHeadsIn(d) \/ g = u.first
  BY AddedEntries
<1>3. /\ HeldBy(f, e, h) = HeldBy(f, d, h) \cup {l}
      /\ \A g \in DirHeadsIn(d) : g # h => HeldBy(f, e, g) = HeldBy(f, d, g)
      /\ HeldBy(f, e, u.first) = {}
  BY AddedHeld DEF Contents
<1>4. \A g, k : k \in HeldBy(f, d, g) => Row(e, g, k) = Row(d, g, k)
  BY <1>2 DEF Row, HeldBy
<1>5. /\ x.parent = h /\ x.name = u.name /\ x.node = u.first /\ x.size = 0
      /\ x \in [parent : Cluster, name : Names, node : Cluster, isDir : BOOLEAN, size : Nat]
  BY <1>1, <1>2 DEF Row
<1> HIDE DEF x
<1>6. u.first \notin HeadsIn(d)
  BY <1>1, ChainBasic DEF Unclaimed
<1>7. ASSUME NEW y \in TreeOf(f, d), y.parent = h PROVE y.name # u.name
  <2>1. PICK g \in DirHeadsIn(d) : \E k \in HeldBy(f, d, g) : y = Row(d, g, k)
    BY InTree
  <2>2. PICK k \in HeldBy(f, d, g) : y = Row(d, g, k)
    BY <2>1
  <2> QED  BY <1>1, <1>7, <2>2, RowParts DEF Absent
<1>8. x \notin TreeOf(f, d)
  BY <1>5, <1>7
<1>9. TreeOf(f, e) = TreeOf(f, d) \cup {x}
  <2>1. ASSUME NEW y \in TreeOf(f, d) PROVE y \in TreeOf(f, e)
    <3>1. PICK g \in DirHeadsIn(d) : \E k \in HeldBy(f, d, g) : y = Row(d, g, k)
      BY InTree
    <3>2. PICK k \in HeldBy(f, d, g) : y = Row(d, g, k)
      BY <3>1
    <3>3. k \in HeldBy(f, e, g) /\ y = Row(e, g, k) /\ g \in DirHeadsIn(e)
      BY <1>2, <1>3, <1>4, <3>2
    <3> QED  BY <3>3, InTree
  <2>2. x \in TreeOf(f, e)
    BY <1>1, <1>2, <1>3, InTree DEF x
  <2>3. ASSUME NEW y \in TreeOf(f, e) PROVE y \in TreeOf(f, d) \/ y = x
    <3>1. PICK g \in DirHeadsIn(e) : \E k \in HeldBy(f, e, g) : y = Row(e, g, k)
      BY InTree
    <3>2. PICK k \in HeldBy(f, e, g) : y = Row(e, g, k)
      BY <3>1
    <3>3. g \in DirHeadsIn(d)
      BY <1>2, <1>3, <3>2
    <3>4. k \in HeldBy(f, d, g) \/ (k = l /\ g = h)
      BY <1>3, <3>2, <3>3
    <3> QED  BY <1>4, <3>2, <3>3, <3>4, InTree DEF x
  <2> QED  BY <2>1, <2>2, <2>3
<1> QED  BY <1>1, <1>5, <1>6, <1>7, <1>8, <1>9 DEF x

\* One entry fewer; a directory goes only when the tree has nothing in it.
LEMMA RemovedTree ==
    ASSUME NEW f, NEW d, NEW e, NEW h, NEW l, NEW u, Good(f, d), Contents(f, d),
           Removed(f, d, e, h, l, u)
    PROVE  LET x == Row(d, h, l)
           IN  /\ TreeOf(f, e) = TreeOf(f, d) \ {x} /\ x \in TreeOf(f, d)
               /\ x.isDir => ~ \E y \in TreeOf(f, d) : y.parent = x.node
<1> DEFINE x == Row(d, h, l)
<1>1. /\ l \in Entries(d) /\ l \in HeldBy(f, d, h) /\ h \in DirHeadsIn(d)
      /\ \A k \in Entries(e) : At(e, k) = At(d, k)
      /\ \A g \in DirHeadsIn(e) : g \in DirHeadsIn(d)
      /\ \A g \in DirHeadsIn(d) :
           g \in DirHeadsIn(e) \/ (At(d, l).isDir /\ g = At(d, l).first)
      /\ \A g : HeldBy(f, e, g) = HeldBy(f, d, g) \ {l}
  BY RemovedEntries DEF Removed
<1>2. At(d, l).isDir => HeldBy(f, d, At(d, l).first) = {}
  BY EntryAt DEF Removed, NoEntry, HeldBy, At
<1>3. \A g : \A k \in HeldBy(f, e, g) : Row(e, g, k) = Row(d, g, k)
  BY <1>1 DEF Row, HeldBy
<1>4. x \in TreeOf(f, d) /\ x.node = At(d, l).first /\ x.isDir = At(d, l).isDir
  BY <1>1, InTree, RowParts
<1>5. ASSUME NEW g \in DirHeadsIn(d), NEW k \in HeldBy(f, d, g), Row(d, g, k) = x
      PROVE  k = l
  BY <1>1, <1>5, OneRow DEF Contents
<1>6. x.isDir => ~ \E y \in TreeOf(f, d) : y.parent = x.node
  <2> SUFFICES ASSUME x.isDir, NEW y \in TreeOf(f, d), y.parent = x.node PROVE FALSE
    OBVIOUS
  <2>1. PICK g \in DirHeadsIn(d) : \E k \in HeldBy(f, d, g) : y = Row(d, g, k)
    BY InTree
  <2>2. PICK k \in HeldBy(f, d, g) : y = Row(d, g, k)
    BY <2>1
  <2>3. y.parent = g
    BY <2>2, RowParts
  <2> QED  BY <1>2, <1>4, <2>2, <2>3
<1> HIDE DEF x
<1>7. TreeOf(f, e) = TreeOf(f, d) \ {x}
  <2>1. ASSUME NEW y \in TreeOf(f, e) PROVE y \in TreeOf(f, d) /\ y # x
    <3>1. PICK g \in DirHeadsIn(e) : \E k \in HeldBy(f, e, g) : y = Row(e, g, k)
      BY InTree
    <3>2. PICK k \in HeldBy(f, e, g) : y = Row(e, g, k)
      BY <3>1
    <3>3. g \in DirHeadsIn(d) /\ k \in HeldBy(f, d, g) /\ k # l /\ y = Row(d, g, k)
      BY <1>1, <1>3, <3>2
    <3> QED  BY <1>5, <3>3, InTree
  <2>2. ASSUME NEW y \in TreeOf(f, d), y # x PROVE y \in TreeOf(f, e)
    <3>1. PICK g \in DirHeadsIn(d) : \E k \in HeldBy(f, d, g) : y = Row(d, g, k)
      BY InTree
    <3>2. PICK k \in HeldBy(f, d, g) : y = Row(d, g, k)
      BY <3>1
    <3>3. k # l
      <4> SUFFICES ASSUME k = l PROVE FALSE
        OBVIOUS
      <4>1. g = h
        BY <1>1, <3>2, OneRow DEF Contents
      <4> QED  BY <2>2, <3>2, <4>1 DEF x
    <3>4. g \in DirHeadsIn(e)
      BY <1>1, <1>2, <3>2
    <3>5. k \in HeldBy(f, e, g) /\ y = Row(e, g, k)
      BY <1>1, <1>3, <3>2, <3>3
    <3> QED  BY <3>4, <3>5, InTree
  <2> QED  BY <2>1, <2>2
<1> QED  BY <1>4, <1>6, <1>7 DEF x

\* The entry of one file is longer.
LEMMA GrownTree ==
    ASSUME NEW f, NEW d, NEW e, NEW h, NEW l, NEW z, Good(f, d), Contents(f, d),
           Grown(f, d, e, h, l, z), z # At(d, l).size
    PROVE  LET x == Row(d, h, l)
               y == Row(e, h, l)
           IN  /\ TreeOf(f, e) = (TreeOf(f, d) \ {x}) \cup {y}
               /\ x \in TreeOf(f, d) /\ y \notin TreeOf(f, d)
               /\ y = [x EXCEPT !.size = z] /\ ~x.isDir /\ x.size = At(d, l).size
<1> DEFINE x == Row(d, h, l)
           y == Row(e, h, l)
<1>1. /\ l \in Entries(d) /\ l \in HeldBy(f, d, h) /\ h \in DirHeadsIn(d)
      /\ \A k \in Entries(d) :
           /\ At(e, k).first = At(d, k).first /\ At(e, k).name = At(d, k).name
           /\ At(e, k).isDir = At(d, k).isDir
           /\ At(e, k).size = IF k = l THEN z ELSE At(d, k).size
           /\ k # l => At(e, k) = At(d, k)
      /\ DirHeadsIn(e) = DirHeadsIn(d) /\ \A g : HeldBy(f, e, g) = HeldBy(f, d, g)
      /\ ~At(d, l).isDir
  BY GrownEntries DEF Grown
<1>2. /\ y = [x EXCEPT !.size = z] /\ ~x.isDir /\ x.size = At(d, l).size
      /\ x.parent = h /\ x.name = At(d, l).name /\ y.parent = h /\ y.name = x.name /\ y.size = z
  <2>1. At(e, l).size = z
    BY <1>1
  <2> QED  BY <1>1, <2>1 DEF Row
<1>3. \A g : \A k \in HeldBy(f, d, g) : k # l => Row(e, g, k) = Row(d, g, k)
  BY <1>1 DEF Row, HeldBy
<1>4. x \in TreeOf(f, d)
  BY <1>1, InTree
<1>5. ASSUME NEW g \in DirHeadsIn(d), NEW k \in HeldBy(f, d, g),
             Row(d, g, k).parent = x.parent, Row(d, g, k).name = x.name
      PROVE  k = l /\ g = h
  BY <1>1, <1>5, OneRow DEF Contents
<1>6. ASSUME NEW g \in DirHeadsIn(d), l \in HeldBy(f, d, g)
      PROVE  g = h
  BY <1>1, <1>6, OneRow DEF Contents
<1> HIDE DEF x, y
<1>7. y \notin TreeOf(f, d)
  <2> SUFFICES ASSUME y \in TreeOf(f, d) PROVE FALSE
    OBVIOUS
  <2>1. PICK g \in DirHeadsIn(d) : \E k \in HeldBy(f, d, g) : y = Row(d, g, k)
    BY InTree
  <2>2. PICK k \in HeldBy(f, d, g) : y = Row(d, g, k)
    BY <2>1
  <2>3. k = l /\ g = h
    BY <1>2, <1>5, <2>2
  <2> QED  BY <1>2, <2>2, <2>3 DEF x
<1>8. TreeOf(f, e) = (TreeOf(f, d) \ {x}) \cup {y}
  <2>1. ASSUME NEW r \in TreeOf(f, e) PROVE r = y \/ (r \in TreeOf(f, d) /\ r # x)
    <3>1. PICK g \in DirHeadsIn(d) : \E k \in HeldBy(f, d, g) : r = Row(e, g, k)
      BY <1>1, InTree
    <3>2. PICK k \in HeldBy(f, d, g) : r = Row(e, g, k)
      BY <3>1
    <3>3. CASE k = l
      BY <1>6, <3>2, <3>3 DEF y
    <3>4. CASE k # l
      <4>1. r = Row(d, g, k)
        BY <1>3, <3>2, <3>4
      <4> QED  BY <1>5, <3>4, <4>1, InTree
    <3> QED  BY <3>3, <3>4
  <2>2. y \in TreeOf(f, e)
    BY <1>1, InTree DEF y
  <2>3. ASSUME NEW r \in TreeOf(f, d), r # x PROVE r \in TreeOf(f, e)
    <3>1. PICK g \in DirHeadsIn(d) : \E k \in HeldBy(f, d, g) : r = Row(d, g, k)
      BY InTree
    <3>2. PICK k \in HeldBy(f, d, g) : r = Row(d, g, k)
      BY <3>1
    <3>3. k # l
      BY <1>6, <2>3, <3>2 DEF x
    <3> QED  BY <1>1, <1>3, <3>2, <3>3, InTree
  <2> QED  BY <2>1, <2>2, <2>3
<1> QED  BY <1>2, <1>4, <1>7, <1>8 DEF x, y

-----------------------------------------------------------------------------
\* What leaves the entries where they are leaves the tree as it was.
LEMMA TreeStays ==
    ASSUME NEW f, NEW d, NEW g, NEW e, Good(f, d), Contents(f, d),
           \/ g = f /\ e = d
           \/ Beside(f, d, g, e)
           \/ e = d /\ \E c, n : Extended(f, d, g, c, n)
           \/ g = f /\ \E c : Dotted(f, d, e, c)
           \/ g = f /\ \E l, c : Poured(f, d, e, l, c)
           \/ g = f /\ \E h, l : Wiped(f, d, e, h, l)
    PROVE  TreeOf(g, e) = TreeOf(f, d)
<1>1. \A h \in DirHeadsIn(d) : h \in HeadsIn(d)
  BY HeadTypes
<1>2. CASE g = f /\ e = d
  BY <1>2
<1>3. CASE Beside(f, d, g, e)
  <2>1. DirHeadsIn(e) = DirHeadsIn(d) /\ \A l \in Entries(d) : At(e, l) = At(d, l)
    BY <1>3, BesideEntries DEF Contents
  <2>2. \A h \in DirHeadsIn(d) : HeldBy(g, e, h) = HeldBy(f, d, h)
    BY <1>1, <1>3, BesideHeld DEF Contents
  <2> QED  BY <2>1, <2>2, SameTree
<1>4. CASE e = d /\ \E c, n : Extended(f, d, g, c, n)
  <2>1. \A h \in DirHeadsIn(d) : HeldBy(g, d, h) = HeldBy(f, d, h)
    BY <1>1, <1>4, ExtendedHeld DEF Contents
  <2> QED  BY <1>4, <2>1, SameTree
<1>5. CASE \E c : g = f /\ Swapped(f, d, e, c)
  <2>1. /\ DirHeadsIn(e) = DirHeadsIn(d) /\ \A l \in Entries(d) : At(e, l) = At(d, l)
        /\ \A h : HeldBy(g, e, h) = HeldBy(f, d, h)
    BY <1>5, SwappedEntries
  <2> QED  BY <2>1, SameTree
<1>6. CASE g = f /\ \E c : Dotted(f, d, e, c)
  BY <1>5, <1>6, DottedSwapped
<1>7. CASE g = f /\ \E l, c : Poured(f, d, e, l, c)
  BY <1>5, <1>7, PouredSwapped DEF Contents
<1>8. CASE g = f /\ \E h, l : Wiped(f, d, e, h, l)
  <2>1. /\ DirHeadsIn(e) = DirHeadsIn(d) /\ \A l \in Entries(d) : At(e, l) = At(d, l)
        /\ \A h : HeldBy(g, e, h) = HeldBy(f, d, h)
    BY <1>8, WipedEntries
  <2> QED  BY <2>1, SameTree
<1> QED  BY <1>2, <1>3, <1>4, <1>6, <1>7, <1>8

\* In terms of FileTree: the directories and identities of the tree on disk.
LEMMA AbstractNodes ==
    ASSUME Good(fat, disk), Contents(fat, disk)
    PROVE  /\ \A h \in DirHeadsIn(disk) : h \in Abstract!Directories
           /\ Abstract!Used \subseteq HeadsIn(disk)
<1>1. /\ \A h \in DirHeadsIn(disk) :
           h = Root \/ \E x \in treeOnDisk : x.isDir /\ x.node = h
      /\ \A x \in treeOnDisk : x.node \in HeadsIn(disk)
  BY TreeNodes, TreeHere DEF Contents
<1>2. Root \in HeadsIn(disk)
  BY HeadTypes
<1> QED  BY <1>1, <1>2 DEF Abstract!Directories, Abstract!Used

LEMMA TreeMoves == HereAndNext /\ Change => treeOnDisk' = treeOnDisk \/ Abstract!TreeStep
<1> SUFFICES ASSUME HereAndNext, Change PROVE treeOnDisk' = treeOnDisk \/ Abstract!TreeStep
  OBVIOUS
<1> DEFINE was == TreeOf(fat, disk)
           is  == TreeOf(fat', disk')
<1>1. treeOnDisk = was /\ treeOnDisk' = is
  BY TreeHere, TreeNext
<1>2. Good(fat, disk) /\ Contents(fat, disk)
  BY DEF HereAndNext, TreeInv
<1> HIDE DEF was, is
<1>3. CASE is = was
  BY <1>1, <1>3
<1>4. CASE fat' = fat /\ Added(fat, disk, disk', dir, ent, Entry(nm, new, op = "mkdir"))
  <2> DEFINE x == Row(disk', dir, ent)
  <2>1. Entry(nm, new, op = "mkdir").isDir \in BOOLEAN
    BY DEF Entry
  <2>2. /\ TreeOf(fat, disk') = TreeOf(fat, disk) \cup {x} /\ x \notin TreeOf(fat, disk)
        /\ x \in [parent : Cluster, name : Names, node : Cluster, isDir : BOOLEAN, size : Nat]
        /\ x.size = 0 /\ x.parent = dir /\ dir \in DirHeadsIn(disk)
        /\ ~ \E y \in TreeOf(fat, disk) : y.parent = x.parent /\ y.name = x.name
        /\ x.node \notin HeadsIn(disk)
    <3> HIDE DEF x
    <3> DEFINE u == Entry(nm, new, op = "mkdir")
    <3>1. Added(fat, disk, disk', dir, ent, u) /\ u.isDir \in BOOLEAN
      BY <1>4, <2>1
    <3> HIDE DEF u
    <3> QED  BY <1>2, <3>1, AddedTree DEF x
  <2> HIDE DEF x
  <2>3. /\ treeOnDisk' = treeOnDisk \cup {x} /\ x \notin treeOnDisk
        /\ ~ \E y \in treeOnDisk : y.parent = x.parent /\ y.name = x.name
    BY <1>1, <1>4, <2>2 DEF was, is
  <2>4. x \in Abstract!TreeEntry
    BY <2>2 DEF Abstract!TreeEntry, Abstract!Sizes
  <2>5. x.parent \in Abstract!Directories /\ x.node \notin Abstract!Used
    BY <1>2, <2>2, AbstractNodes
  <2>6. Abstract!Add(x)
    BY <2>2, <2>3, <2>4, <2>5 DEF Abstract!Add
  <2>7. x \in treeOnDisk' \ treeOnDisk
    BY <2>3
  <2> QED  BY <2>6, <2>7 DEF Abstract!TreeStep
<1>5. CASE fat' = fat /\ Removed(fat, disk, disk', dir, ent, Deleted)
  <2> DEFINE x == Row(disk, dir, ent)
  <2>1. /\ TreeOf(fat, disk') = TreeOf(fat, disk) \ {x} /\ x \in TreeOf(fat, disk)
        /\ x.isDir => ~ \E y \in TreeOf(fat, disk) : y.parent = x.node
    <3> HIDE DEF x
    <3> QED  BY <1>2, <1>5, RemovedTree DEF x
  <2> HIDE DEF x
  <2>2. treeOnDisk' = treeOnDisk \ {x} /\ x \in treeOnDisk \ treeOnDisk'
    BY <1>1, <1>5, <2>1 DEF was, is
  <2>3. Abstract!Remove(x)
    BY <1>1, <2>1, <2>2 DEF Abstract!Remove, was
  <2> QED  BY <2>2, <2>3 DEF Abstract!TreeStep
<1>6. CASE pc = "finish" /\ fat' = fat /\ fpos > size /\ Grown(fat, disk, disk', dir, ent, fpos)
  <2> DEFINE x == Row(disk, dir, ent)
             y == Row(disk', dir, ent)
  <2>1. At(disk, ent).size = size
    BY <1>6 DEF HereAndNext, TreeInv, Running, Opened, FileOpen
  <2>2. fpos \in Nat /\ size \in Nat
    BY DEF HereAndNext, TypeInv, LocalsTyped
  <2>3. /\ TreeOf(fat, disk') = (TreeOf(fat, disk) \ {x}) \cup {y}
        /\ x \in TreeOf(fat, disk) /\ y \notin TreeOf(fat, disk)
        /\ y = [x EXCEPT !.size = fpos] /\ ~x.isDir /\ x.size = size
    <3> HIDE DEF x, y
    <3>1. fpos # At(disk, ent).size
      BY <1>6, <2>1, <2>2
    <3> QED  BY <1>2, <1>6, <2>1, <3>1, GrownTree DEF x, y
  <2>4. y.size = fpos
    BY <1>6, GrownEntries, <1>2, <2>1 DEF Row
  <2> HIDE DEF x, y
  <2>5. /\ treeOnDisk' = (treeOnDisk \ {x}) \cup {y} /\ x \in treeOnDisk /\ y \notin treeOnDisk
    BY <1>1, <1>6, <2>3 DEF was, is
  <2>6. x # y
    BY <2>5
  <2>7. x \in treeOnDisk \ treeOnDisk' /\ y \in treeOnDisk' \ treeOnDisk
    BY <2>5, <2>6
  <2>8. Abstract!Grow(x, y.size)
    BY <1>6, <2>3, <2>4, <2>5 DEF Abstract!Grow
  <2> QED  BY <2>7, <2>8 DEF Abstract!TreeStep
<1>7. ASSUME \/ UNCHANGED device
             \/ Beside(fat, disk, fat', disk')
             \/ disk' = disk /\ Extended(fat, disk, fat', cur, new)
             \/ fat' = fat /\ Dotted(fat, disk, disk', new)
             \/ fat' = fat /\ Poured(fat, disk, disk', ent, cur)
             \/ fat' = fat /\ \E l : Wiped(fat, disk, disk', dir, l)
      PROVE  is = was
  BY <1>2, <1>7, TreeStays DEF is, was, device
<1> QED  BY <1>3, <1>4, <1>5, <1>6, <1>7 DEF Change

LEMMA SpoiltHere == spoiltOnDisk = {h \in DirHeadsIn(disk) : TextOn(fat, disk, h)}
BY HereDefs DEF spoiltOnDisk

LEMMA SpoiltNext == spoiltOnDisk' = {h \in DirHeadsIn(disk') : TextOn(fat', disk', h)}
<1>1. (spoiltOnDisk = {h \in DirHeadsIn(disk) : TextOn(fat, disk, h)})'
  BY SpoiltHere, PTL
<1> QED  BY <1>1

\* A step brings text into one directory at most, and where no write fails into none.
LEMMA TextMoves ==
    HereAndNext /\ Change /\ NoText' =>
        /\ \A g, h \in spoiltOnDisk' \ spoiltOnDisk : g = h
        /\ "write" \in Faults \/ spoiltOnDisk' = {}
<1> SUFFICES ASSUME HereAndNext, Change, NoText'
             PROVE  /\ \A g, h \in spoiltOnDisk' \ spoiltOnDisk : g = h
                    /\ "write" \in Faults \/ spoiltOnDisk' = {}
  OBVIOUS
<1>1. spoiltOnDisk = {h \in DirHeadsIn(disk) : TextOn(fat, disk, h)}
  BY SpoiltHere
<1>2. spoiltOnDisk' = {h \in DirHeadsIn(disk') : TextOn(fat', disk', h)}
  BY SpoiltNext
<1>3. \A h \in spoiltOnDisk' \ spoiltOnDisk : Spoiling(h)
  BY <1>1, <1>2, TextSpreads
<1>4. \A g, h \in spoiltOnDisk' \ spoiltOnDisk : g = h
  BY <1>3 DEF Spoiling
<1> QED  BY <1>2, <1>4 DEF NoText

\* The entries the driver wrote are a FileTree, for every layout and set of
\* faults: a command, whatever cuts it off, brings one entry, takes one away,
\* lengthens one file, or does nothing; and no directory with entries in it goes.
\* Directories that hold text, in which more may be seen, come one at a time,
\* when a failed write left the new cluster uncleared, and otherwise never.
THEOREM DriverImplementsFileTree == Spec => ImplementsFileTree
<1>1. DriverInv /\ [Next]_vars => Abstract!Next
  BY DriverStep, TreeMoves, TextMoves DEF DriverInv, Abstract!Next, Abstract!Spoil
<1>2. Init => Abstract!Init
  <2> SUFFICES ASSUME Init PROVE Abstract!Init
    OBVIOUS
  <2>1. /\ TestEntry.name = TestName /\ TestEntry.first = TestCluster /\ TestEntry.size = 1
        /\ TestEntry.isDir = FALSE /\ Entries(disk) = {NoLoc} /\ At(disk, NoLoc) = TestEntry
        /\ DirHeadsIn(disk) = {Root} /\ ChainIn(fat, Root) = {Root}
    BY FormattedVolume
  <2>2. HeldBy(fat, disk, Root) = {NoLoc}
    BY <2>1 DEF HeldBy, NoLoc
  <2>3. Row(disk, Root, NoLoc) = [parent |-> Root, name |-> TestName, node |-> TestCluster,
                                  isDir |-> FALSE, size |-> 1]
    BY <2>1 DEF Row
  <2>4. TreeOf(fat, disk) = {Row(disk, Root, NoLoc)}
    BY <2>1, <2>2 DEF TreeOf
  <2>5. spoiltOnDisk = {}
    <3>1. /\ disk[Root][0] = TestEntry /\ TestEntry.kind = "entry"
          /\ \A s \in Slots : s # 0 => disk[Root][s] = Zero
      BY FormattedVolume
    <3>2. ~TextOn(fat, disk, Root)
      BY <2>1, <3>1 DEF TextOn, Texted, Zero, Mark
    <3> QED  BY <2>1, <3>2, HereDefs DEF spoiltOnDisk
  <2> QED  BY <2>3, <2>4, <2>5, TreeHere DEF Abstract!Init
<1> QED  BY <1>1, <1>2, DriverAlways, PTL DEF Spec, ImplementsFileTree, Abstract!Spec

-----------------------------------------------------------------------------
(* Nothing is lost without a fault.                                         *)

\* Clusters the running command has in hand: taken but not yet linked, or of a
\* chain that is being freed.
InHand == IF pc \in {"zero", "dirlink", "dirent", "filelink"} THEN {new}
          ELSE IF pc = "free" THEN ChainIn(fat, cur) ELSE {}

NothingLost == \A c \in Cluster : fat[c] # FREE => c \in InHand \/ ~Unclaimed(fat, disk, c)

QuietInv ==
    /\ Faults = {} /\ NothingLost
    /\ Allocating("dirent") => ent[1] \in Backed
    /\ pc = "free" => Acyclic(fat, cur)

\* What is known before a step that no fault disturbs.
Quietly == HereAndNext /\ Change /\ QuietInv

LEMMA NoFault ==
    ASSUME Faults = {}
    PROVE  /\ \A w \in FatWrites : w.ok /\ w.done
           /\ \A c \in Backed : \A w \in SectorWrites(c) : w.ok /\ w.done
BY DEF FatWrites, SectorWrites, Stored

\* Chains keep their clusters when a step is beside them or makes one longer.
LEMMA StillClaimed ==
    ASSUME NEW f, NEW d, NEW g, NEW e, Good(f, d), AllVisible(f, d),
           \/ Beside(f, d, g, e)
           \/ e = d /\ \E b, n : Extended(f, d, g, b, n)
           \/ g = f /\ HeadsIn(e) = HeadsIn(d),
           NEW c, ~Unclaimed(f, d, c)
    PROVE  ~Unclaimed(g, e, c)
<1>1. PICK h \in HeadsIn(d) : c \in ChainIn(f, h)
  BY DEF Unclaimed
<1>2. h \in HeadsIn(e) /\ c \in ChainIn(g, h)
  <2>1. CASE Beside(f, d, g, e)
    BY <1>1, <2>1, BesideEntries, BesideChains
  <2>2. CASE e = d /\ \E b, n : Extended(f, d, g, b, n)
    BY <1>1, <2>2, ExtendedAll
  <2>3. CASE g = f /\ HeadsIn(e) = HeadsIn(d)
    BY <1>1, <2>3
  <2> QED  BY <2>1, <2>2, <2>3
<1> QED  BY <1>2 DEF Unclaimed

LEMMA QuietFacts ==
    ASSUME Quietly
    PROVE  /\ Good(fat, disk) /\ Contents(fat, disk) /\ AllVisible(fat, disk)
           /\ AllUnique(fat, disk) /\ Faults = {} /\ NothingLost
           /\ fat \in Table /\ fat' \in Table /\ {cur, new, first} \subseteq Cluster
           /\ ret \in Rets /\ ent \in Location
BY DEF Quietly, HereAndNext, QuietInv, TreeInv, Contents, TypeInv, LocalsTyped, Good,
   VolumeTyped

\* Steps that neither allocate, link, delete nor free.
LEMMA QuietRest ==
    ASSUME Quietly, pc \notin {"alloc", "zero", "dirlink", "dirent", "filelink", "delete", "free"}
    PROVE  \A c \in Cluster : fat'[c] # FREE => ~Unclaimed(fat', disk', c)
<1>1. /\ Good(fat, disk) /\ AllVisible(fat, disk) /\ NothingLost
  BY QuietFacts
<1>2. fat' = fat /\ HeadsIn(disk') = HeadsIn(disk)
  <2>1. CASE UNCHANGED device
    BY <2>1 DEF device
  <2>2. CASE fat' = fat /\ Dotted(fat, disk, disk', new)
    BY <1>1, <2>2, DottedSwapped, SwappedEntries
  <2>3. CASE fat' = fat /\ Poured(fat, disk, disk', ent, cur)
    BY <1>1, <2>3, PouredSwapped, SwappedEntries
  <2>4. CASE fat' = fat /\ Grown(fat, disk, disk', dir, ent, fpos)
    BY <1>1, <2>4, GrownEntries
  <2>5. CASE fat' = fat /\ \E l : Wiped(fat, disk, disk', dir, l)
    BY <2>5, WipedEntries
  <2> QED  BY <2>1, <2>2, <2>3, <2>4, <2>5 DEF Quietly, Change
<1>3. \A c \in Cluster : fat[c] # FREE => ~Unclaimed(fat, disk, c)
  BY <1>1 DEF NothingLost, InHand
<1> QED  BY <1>1, <1>2, <1>3, StillClaimed

LEMMA QuietAlloc == Quietly /\ (AllocFull \/ AllocTake \/ AllocZero) => QuietInv'
<1> SUFFICES ASSUME Quietly, AllocFull \/ AllocTake \/ AllocZero PROVE QuietInv'
  OBVIOUS
<1>1. /\ Good(fat, disk) /\ AllVisible(fat, disk) /\ Faults = {} /\ NothingLost
      /\ fat \in Table /\ ret \in Rets /\ new \in Cluster
  BY QuietFacts
<1>2. Allocating("dirent") => ent[1] \in Backed
  BY DEF Quietly, QuietInv
<1>3. CASE AllocFull
  <2>1. pc = "alloc" /\ fat' = fat /\ disk' = disk /\ AllocFailed
    BY <1>3 DEF AllocFull, device
  <2>2. pc' \in {"idle", "finish"}
    BY <2>1 DEF AllocFailed, Return
  <2> QED  BY <1>1, <2>1, <2>2 DEF QuietInv, NothingLost, InHand, Allocating
<1>4. CASE AllocTake
  <2>1. PICK b \in Cluster, w \in FatWrites :
          /\ Least(b, FreeClusters)
          /\ WriteFat(w, b, EOC)
          /\ \/ /\ w.ok
                /\ pc' = "zero" /\ new' = b
                /\ UNCHANGED <<command, walk, scan, ret, file, out>>
             \/ ~w.ok /\ AllocFailed
    BY <1>4 DEF AllocTake
  <2>2. w.ok /\ w.done
    BY <1>1, NoFault
  <2>3. /\ pc = "alloc" /\ pc' = "zero" /\ new' = b /\ ent' = ent /\ ret' = ret /\ disk' = disk
        /\ \A c \in Cluster : c # b => fat'[c] = fat[c]
    BY <1>1, <1>4, <2>1, <2>2 DEF AllocTake, WriteFat, FatAfter, scan, Table
  <2>4. ASSUME NEW c \in Cluster, c # b, fat'[c] # FREE PROVE ~Unclaimed(fat', disk', c)
    <3>1. ~Unclaimed(fat, disk, c)
      BY <1>1, <2>3, <2>4 DEF NothingLost, InHand
    <3>2. Beside(fat, disk, fat', disk') \/ UNCHANGED device
      BY <2>3 DEF Quietly, Change
    <3> QED  BY <1>1, <3>1, <3>2, StillClaimed DEF device
  <2>5. NothingLost'
    BY <2>3, <2>4 DEF NothingLost, InHand
  <2> QED  BY <1>1, <1>2, <2>3, <2>5 DEF QuietInv, Allocating
<1>5. CASE AllocZero
  <2>1. /\ pc = "zero" /\ pc' = ret /\ new' = new /\ ent' = ent /\ ret' = ret /\ fat' = fat
    BY <1>5 DEF AllocZero, WriteSector, scan, claim
  <2>2. Beside(fat, disk, fat', disk') \/ UNCHANGED device
    BY <2>1 DEF Quietly, Change
  <2>3. ASSUME NEW c \in Cluster, fat'[c] # FREE, c # new PROVE ~Unclaimed(fat', disk', c)
    <3>1. ~Unclaimed(fat, disk, c)
      BY <1>1, <2>1, <2>3 DEF NothingLost, InHand
    <3> QED  BY <1>1, <2>2, <3>1, StillClaimed DEF device
  <2>4. NothingLost'
    BY <1>1, <2>1, <2>3 DEF NothingLost, InHand, Rets
  <2> QED  BY <1>1, <1>2, <2>1, <2>4 DEF QuietInv, Allocating, Rets
<1> QED  BY <1>3, <1>4, <1>5

LEMMA QuietLink == Quietly /\ (DirLink \/ FileLink) => QuietInv'
<1> SUFFICES ASSUME Quietly, DirLink \/ FileLink PROVE QuietInv'
  OBVIOUS
<1>1. /\ Good(fat, disk) /\ AllVisible(fat, disk) /\ Faults = {} /\ NothingLost
      /\ fat \in Table /\ {cur, new} \subseteq Cluster
  BY QuietFacts
<1>2. pc \in {"dirlink", "filelink"} /\ \E w \in FatWrites : WriteFat(w, cur, new)
  BY DEF DirLink, FileLink
<1>3. disk' = disk /\ fat'[cur] = new
  BY <1>1, <1>2, NoFault DEF WriteFat, FatAfter, Table
<1>4. fat[cur] = EOC
  BY <1>2 DEF Quietly, HereAndNext, TreeInv, Running, Placing, Opened, Allocating
<1>5. Extended(fat, disk, fat', cur, new)
  <2>1. fat' # fat
    BY <1>1, <1>3, <1>4, LayoutFacts
  <2> QED  BY <1>2, <2>1 DEF Quietly, Change, device
<1>6. \A c \in Cluster : fat'[c] # FREE => ~Unclaimed(fat', disk', c)
  <2>1. ~Unclaimed(fat', disk', new)
    <3>1. PICK h \in HeadsIn(disk) : cur \in ChainIn(fat, h)
      BY <1>5 DEF Extended
    <3>2. new \in ChainIn(fat', h)
      BY <1>1, <1>5, <3>1, ExtendedChain
    <3> QED  BY <1>3, <3>2 DEF Unclaimed
  <2>2. ASSUME NEW c \in Cluster, c # new, fat'[c] # FREE PROVE ~Unclaimed(fat', disk', c)
    <3>1. c = cur \/ fat'[c] = fat[c]
      BY <1>5 DEF Extended
    <3>2. fat[c] # FREE
      BY <1>4, <2>2, <3>1, LayoutFacts
    <3>3. ~Unclaimed(fat, disk, c)
      BY <1>1, <1>2, <2>2, <3>2 DEF NothingLost, InHand
    <3> QED  BY <1>1, <1>3, <1>5, <3>3, StillClaimed
  <2> QED  BY <2>1, <2>2
<1>7. /\ pc' \in {"alloc", "idle", "seek", "finish"}
      /\ Allocating("dirent")' => ent'[1] \in Backed
  BY DEF DirLink, FileLink, Return, Allocating
<1> QED  BY <1>1, <1>6, <1>7 DEF QuietInv, NothingLost

LEMMA QuietDirent == Quietly /\ Dirent => QuietInv'
<1> SUFFICES ASSUME Quietly, Dirent PROVE QuietInv'
  OBVIOUS
<1>1. /\ Good(fat, disk) /\ AllVisible(fat, disk) /\ Faults = {} /\ NothingLost
      /\ ent \in Location /\ new \in Cluster /\ pc = "dirent"
  BY QuietFacts DEF Dirent
<1>2. ent[1] \in Backed /\ At(disk, ent).kind # "entry"
  BY <1>1 DEF Quietly, QuietInv, HereAndNext, TreeInv, Running, Placing, Allocating, Spot
<1> DEFINE u == Entry(nm, new, op = "mkdir")
<1>3. PICK w \in SectorWrites(ent[1]) :
        WriteSector(w, ent[1], [disk[ent[1]] EXCEPT ![ent[2]] = u])
  BY DEF Dirent
<1>4. u.kind = "entry" /\ u.first = new
  BY DEF Entry
<1> HIDE DEF u
<1>5. fat' = fat /\ UnitSet(disk, disk', ent, u)
  BY <1>1, <1>2, <1>3, NoFault, UnitWritten
<1>6. /\ Entries(disk') = Entries(disk) \cup {ent} /\ At(disk', ent) = u
      /\ \A l \in Location : l # ent => At(disk', l) = At(disk, l)
  BY <1>4, <1>5, UnitSetAt
<1>7. /\ \A l \in Entries(disk) : l \in Location /\ l # ent
  BY <1>2, EntryAt DEF Entries
<1>8. new \in HeadsIn(disk') /\ \A h \in HeadsIn(disk) : h \in HeadsIn(disk')
  BY <1>4, <1>6, <1>7 DEF HeadsIn
<1>9. \A c \in Cluster : fat'[c] # FREE => ~Unclaimed(fat', disk', c)
  <2>1. ~Unclaimed(fat', disk', new)
    BY <1>1, <1>8, ChainBasic DEF Unclaimed
  <2>2. \A c \in Cluster : fat[c] # FREE /\ c # new => ~Unclaimed(fat, disk, c)
    BY <1>1 DEF NothingLost, InHand
  <2> QED  BY <1>5, <1>8, <2>1, <2>2 DEF Unclaimed
<1>10. pc' \in {"loop", "dots", "idle"}
  BY DEF Dirent, Return
<1> QED  BY <1>1, <1>9, <1>10 DEF QuietInv, NothingLost, Allocating

LEMMA QuietDelete == Quietly /\ Delete => QuietInv'
<1> SUFFICES ASSUME Quietly, Delete PROVE QuietInv'
  OBVIOUS
<1>1. /\ Good(fat, disk) /\ Contents(fat, disk) /\ Faults = {} /\ NothingLost
      /\ ent \in Location /\ pc = "delete"
  BY QuietFacts DEF Delete
<1>2. ent \in Entries(disk) /\ At(disk, ent).first = first /\ first \in HeadsIn(disk)
  BY <1>1, HeadTypes DEF Quietly, HereAndNext, TreeInv, Running, Removing, Holding, HeldBy
<1>3. ent[1] \in Backed
  <2>1. \A s \in Slots : ZeroSector[s].kind # "entry"
    BY DEF ZeroSector, Zero, Mark
  <2>2. ent[1] \in Cluster /\ ent[2] \in Slots /\ disk[ent[1]][ent[2]].kind = "entry"
    BY <1>2, EntryAt DEF At
  <2> QED  BY <1>1, <2>1, <2>2 DEF Contents, Plain
<1>4. PICK w \in SectorWrites(ent[1]) :
         /\ WriteSector(w, ent[1], [disk[ent[1]] EXCEPT ![ent[2]] = Deleted])
         /\ \/ /\ w.ok
               /\ pc' = "free" /\ cur' = first
               /\ UNCHANGED <<command, walk, ent, claim, file, out>>
            \/ ~w.ok /\ Return("failed")
  BY DEF Delete
<1>5. w.ok /\ w.done
  BY <1>1, <1>3, NoFault
<1>6. pc' = "free" /\ cur' = first /\ fat' = fat /\ UnitSet(disk, disk', ent, Deleted)
  BY <1>1, <1>4, <1>5, UnitWritten
<1>7. /\ Entries(disk') = Entries(disk) \ {ent}
      /\ \A l \in Location : l # ent => At(disk', l) = At(disk, l)
  <2>1. Deleted.kind # "entry"
    BY DEF Deleted, Mark
  <2> QED  BY <1>6, <2>1, UnitSetAt
<1>8. \A h \in HeadsIn(disk) : h \in HeadsIn(disk') \/ h = first
  BY <1>2, <1>7 DEF HeadsIn, Entries
<1>9. \A c \in Cluster : fat[c] # FREE => c \in ChainIn(fat, first) \/ ~Unclaimed(fat, disk', c)
  BY <1>1, <1>8 DEF NothingLost, InHand, Unclaimed
<1>10. NothingLost'
  BY <1>6, <1>9 DEF NothingLost, InHand
<1>11. Acyclic(fat, first)
  BY <1>1, <1>2, HeadTypes
<1> QED  BY <1>1, <1>6, <1>10, <1>11 DEF QuietInv, Allocating

\* fat_free_chain clears the chain it has in hand to its last cluster.
LEMMA QuietFree == Quietly /\ Free => QuietInv'
<1> SUFFICES ASSUME Quietly, Free PROVE QuietInv'
  OBVIOUS
<1>1. /\ Good(fat, disk) /\ AllVisible(fat, disk) /\ Faults = {} /\ NothingLost
      /\ fat \in Table /\ cur \in Cluster /\ pc = "free"
  BY QuietFacts DEF Free
<1>2. Acyclic(fat, cur)
  BY <1>1 DEF Quietly, QuietInv
<1>3. /\ disk' = disk /\ fat'[cur] = FREE /\ \A c \in Cluster : c # cur => fat'[c] = fat[c]
  BY <1>1, NoFault DEF Free, WriteFat, FatAfter, Table
<1>4. \A c \in Cluster : fat'[c] # FREE /\ c \notin ChainIn(fat, cur) => ~Unclaimed(fat', disk', c)
  <2>1. Beside(fat, disk, fat', disk') \/ UNCHANGED device
    BY <1>1 DEF Quietly, Change
  <2>2. \A c \in Cluster : fat'[c] # FREE /\ c \notin ChainIn(fat, cur) => ~Unclaimed(fat, disk, c)
    BY <1>1, <1>3 DEF NothingLost, InHand
  <2> QED  BY <1>1, <2>1, <2>2, StillClaimed DEF device
<1>5. CASE Chained(cur) /\ cur' = fat[cur]
           /\ UNCHANGED <<pc, command, walk, ent, claim, file, out>>
  <2> DEFINE n == fat[cur]
  <2>1. n \in Cluster /\ ChainIn(fat, cur) = {cur} \cup ChainIn(fat, n)
    BY <1>1, <1>5, ChainUnfold DEF Chained
  <2>2. cur \notin ChainIn(fat, n) /\ cur \in ChainIn(fat, cur)
    BY <1>1, <1>2, <2>1, ChainBasic DEF Acyclic
  <2>3. \A c \in ChainIn(fat, n) : fat'[c] = fat[c]
    BY <1>3, <2>1, <2>2, ChainInside
  <2>4. ChainIn(fat', n) = ChainIn(fat, n)
    BY <2>1, <2>3, ChainSame
  <2>5. Acyclic(fat', n)
    <3> SUFFICES ASSUME NEW c \in ChainIn(fat, n), fat[c] \in Cluster
                 PROVE  c \notin ChainIn(fat', fat[c])
      BY <2>3, <2>4 DEF Acyclic
    <3>1. c \in ChainIn(fat, cur) /\ c \notin ChainIn(fat, fat[c]) /\ fat[c] \in ChainIn(fat, n)
      BY <1>2, <2>1, ChainInside DEF Acyclic
    <3>2. ChainIn(fat, fat[c]) \subseteq ChainIn(fat, n)
      BY <2>1, <3>1, ChainInside
    <3>3. ChainIn(fat', fat[c]) = ChainIn(fat, fat[c])
      BY <2>3, <3>2, ChainSame
    <3> QED  BY <3>1, <3>3
  <2>6. \A c \in Cluster : fat'[c] # FREE => c \in ChainIn(fat', n) \/ ~Unclaimed(fat', disk', c)
    BY <1>3, <1>4, <2>1, <2>4
  <2>7. pc' = "free" /\ cur' = n
    BY <1>1, <1>5
  <2> HIDE DEF n
  <2>8. NothingLost'
    BY <2>6, <2>7 DEF NothingLost, InHand
  <2> QED  BY <1>1, <2>5, <2>7, <2>8 DEF QuietInv, Allocating
<1>6. CASE ~Chained(cur) /\ Return("ok")
  <2>1. ChainIn(fat, cur) = {cur}
    BY <1>1, <1>6, ChainUnfold DEF Chained
  <2>2. \A c \in Cluster : fat'[c] # FREE => ~Unclaimed(fat', disk', c)
    BY <1>3, <1>4, <2>1
  <2>3. pc' = "idle"
    BY <1>6 DEF Return
  <2> QED  BY <1>1, <2>2, <2>3 DEF QuietInv, NothingLost, Allocating
<1> QED  BY <1>5, <1>6 DEF Free

LEMMA QuietStep == Quietly /\ [Next]_vars => QuietInv'
<1> SUFFICES ASSUME Quietly, [Next]_vars PROVE QuietInv'
  OBVIOUS
<1>1. Faults = {} /\ (Allocating("dirent") => ent[1] \in Backed)
  BY DEF Quietly, QuietInv
<1>2. CASE AllocFull \/ AllocTake \/ AllocZero \/ DirLink \/ FileLink \/ Dirent \/ Delete \/ Free
  BY <1>2, QuietAlloc, QuietLink, QuietDirent, QuietDelete, QuietFree
<1>3. ASSUME pc \notin {"alloc", "zero", "dirlink", "dirent", "filelink", "delete", "free"},
             pc' \notin {"zero", "dirent", "free"},
             pc' = "alloc" => ret' # "dirent" \/ ent'[1] \in Backed
      PROVE  QuietInv'
  BY <1>1, <1>3, QuietRest DEF QuietInv, NothingLost, Allocating
<1>4. CASE Start \/ FindHit \/ FindText \/ DeleteText \/ FindNext \/ FindMiss
  <2>1. CASE Start \/ FindNext \/ FindMiss
    BY <1>3, <2>1 DEF Start, WalkInto, WalkUp, Command, List, FindNext, FindMiss, Return
  <2>2. CASE FindHit
    BY <1>3, <2>2 DEF FindHit, FoundBy, Return
  <2>3. CASE FindText \/ DeleteText
    BY <1>3, <2>3 DEF FindText, TextFoundBy, DeleteText, Return
  <2> QED  BY <1>4, <2>1, <2>2, <2>3
<1>5. CASE FreeSlot \/ FreeNext \/ FreeExtend \/ FreeError
  BY <1>3, <1>5 DEF FreeSlot, FreeNext, FreeExtend, FreeError, Return
<1>6. CASE Dots \/ LoopHead \/ SeekHop \/ SeekExtend \/ WriteData \/ Finish \/ ReadData
  BY <1>3, <1>6 DEF Dots, LoopHead, SeekHop, SeekExtend, WriteData, Finish, ReadData, Return
<1>7. CASE NotEmpty \/ EmptyNext \/ EmptyYes \/ ListNext \/ ListEnd
  BY <1>3, <1>7 DEF NotEmpty, EmptyNext, EmptyYes, ListNext, ListEnd, Return
<1>8. CASE UNCHANGED vars
  BY <1>8 DEF Quietly, QuietInv, NothingLost, InHand, Allocating, vars, device, scan, claim
<1>9. ~Crash
  BY <1>1 DEF Crash
<1> QED  BY <1>2, <1>4, <1>5, <1>6, <1>7, <1>8, <1>9 DEF Next, Step

\* Where nothing fails and the power stays on, no command loses a cluster, the
\* ones that end in an error included: whatever is allocated belongs to an entry.
THEOREM NothingLeaks == Faults = {} /\ Spec => []NoLeak
<1>1. Init /\ Faults = {} => QuietInv
  <2> SUFFICES ASSUME Init, Faults = {} PROVE QuietInv
    OBVIOUS
  <2>1. /\ Entries(disk) = {NoLoc} /\ At(disk, NoLoc).first = TestCluster
        /\ ChainIn(fat, Root) = {Root} /\ ChainIn(fat, TestCluster) = {TestCluster}
    BY FormattedVolume
  <2>2. ~Unclaimed(fat, disk, Root) /\ ~Unclaimed(fat, disk, TestCluster)
    BY <2>1 DEF Unclaimed, HeadsIn
  <2>3. \A c \in Cluster : fat[c] # FREE => c \in {Root, TestCluster}
    BY DEF Init
  <2> QED  BY <2>2, <2>3 DEF Init, QuietInv, NothingLost, Allocating
<1>2. DriverInv /\ QuietInv /\ [Next]_vars => QuietInv'
  BY DriverStep, QuietStep DEF Quietly
<1>3. QuietInv => NoLeak
  BY HereDefs DEF QuietInv, NothingLost, InHand, NoLeak, Unclaimed
<1> QED  BY <1>1, <1>2, <1>3, DriverAlways, PTL DEF Spec
=============================================================================
