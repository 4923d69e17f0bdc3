----------------------------- MODULE Fat32Proofs -----------------------------
(***************************************************************************)
(* Proofs about the FAT32 driver of module Fat32, for every disk size,      *)
(* directory size, set of names and number of power cuts.  In this order:   *)
(* directory images and what the operators on them return; types; the two   *)
(* copies of the FAT; the chains, first for any FAT and data region, then   *)
(* action by action and sector write by sector write; giving up; complete   *)
(* files, action by action and sector write by sector write; the clusters   *)
(* in use accounted for, the same way.                                      *)
(***************************************************************************)
EXTENDS Fat32Properties, FiniteSetTheorems, SequenceTheorems, WellFoundedInduction, TLAPS

-----------------------------------------------------------------------------
(* What the operators of module Directory return, for every directory image. *)

(* Least and Greatest find what they are asked for. *)
LEMMA LessIsWellFounded == \A x, y \in Nat : x < y => <<x, y>> \in OpToRel(<, Nat)
  BY DEF OpToRel

LEMMA LeastInSet ==
    ASSUME NEW S \in SUBSET Nat, S # {}
    PROVE  /\ Least(S) \in S
           /\ \A y \in S : Least(S) <= y
  <1>1. PICK x \in S : \A y \in S : ~(<<y, x>> \in OpToRel(<, Nat))
    BY NatLessThanWellFounded, WFMin
  <1>2. ASSUME NEW y \in S PROVE x <= y
    <2>1. ~(y < x)
      BY <1>1, LessIsWellFounded
    <2> QED
      BY <2>1
  <1> QED
    BY <1>2 DEF Least

LEMMA GreatestInSet ==
    ASSUME NEW m \in Nat, NEW S \in SUBSET (0..m), S # {}
    PROVE  /\ Greatest(S) \in S
           /\ \A y \in S : Greatest(S) >= y
  <1> DEFINE Above == {b \in Nat : \A y \in S : y <= b}
             top == Least(Above)
  <1>1. m \in Above
    OBVIOUS
  <1>2. top \in Above /\ \A b \in Above : top <= b
    BY <1>1, LeastInSet
  <1>3. top \in S
    <2>1. CASE top = 0
      <3>1. PICK y \in S : TRUE
        OBVIOUS
      <3>2. y <= 0 /\ y \in Nat
        BY <1>2, <2>1
      <3> QED
        BY <2>1, <3>2
    <2>2. CASE top # 0
      <3>1. top - 1 \in Nat /\ top - 1 \notin Above
        BY <1>2, <2>2
      <3>2. PICK y \in S : ~(y <= top - 1)
        BY <3>1
      <3>3. y <= top
        BY <1>2
      <3> QED
        BY <1>2, <3>2, <3>3
    <2> QED
      BY <2>1, <2>2
  <1>4. \A y \in S : top >= y
    BY <1>2
  <1> HIDE DEF top, Above
  <1> QED
    BY <1>3, <1>4 DEF Greatest
-----------------------------------------------------------------------------
(* The slots of an image. *)

LEMMA SlotIndex ==
    ASSUME NEW E \in Nat \ {0}, NEW n \in Nat, NEW i \in 1..(n * E)
    PROVE  /\ ((i - 1) \div E) + 1 \in 1..n
           /\ ((i - 1) % E) + 1 \in 1..E
  <1> DEFINE q == (i - 1) \div E
             r == (i - 1) % E
  <1>1. /\ q \in Nat /\ r \in Nat
        /\ r < E /\ i - 1 = q * E + r
        /\ i - 1 < n * E
    BY SMT
  <1> HIDE DEF q, r
  <1>2. q < n
    <2>1. SUFFICES ASSUME q >= n PROVE FALSE
      BY <1>1, SMT
    <2>2. q * E >= n * E
      BY <1>1, <2>1, SMT
    <2> QED
      BY <1>1, <2>2, SMT
  <1>3. q + 1 \in 1..n /\ r + 1 \in 1..E
    BY <1>1, <1>2, SMT
  <1> QED
    BY <1>3 DEF q, r

LEMMA CapacityType ==
    ASSUME NEW image \in Seq(Sector)
    PROVE  Capacity(image) \in Nat
  BY SlotAssumption, LenProperties, SMT DEF SlotAssumption, Capacity

LEMMA AtType ==
    ASSUME NEW image \in Seq(Sector), NEW i \in 1..Capacity(image)
    PROVE  At(image, i) \in Slot
  <1> DEFINE k == ((i - 1) \div ENTRIES_PER_SECTOR) + 1
             e == ((i - 1) % ENTRIES_PER_SECTOR) + 1
  <1>1. k \in 1..Len(image) /\ e \in 1..ENTRIES_PER_SECTOR
    BY SlotAssumption, SlotIndex, LenProperties DEF SlotAssumption, Capacity
  <1>2. image[k] \in Sector
    BY <1>1, ElementOfSeq
  <1> HIDE DEF k, e
  <1>3. image[k][e] \in Slot
    BY <1>1, <1>2 DEF Sector
  <1> QED
    BY <1>3 DEF At, k, e

LEMMA CountRange ==
    ASSUME NEW image \in Seq(Sector)
    PROVE  Count(image) \in 0..Capacity(image)
  <1> DEFINE S == {n \in 0..Capacity(image) : n = Capacity(image) \/ At(image, n + 1) = End}
  <1>1. Capacity(image) \in S
    BY CapacityType, SMT
  <1>2. S \subseteq Nat
    BY CapacityType
  <1>3. Least(S) \in S
    <2> HIDE DEF S
    <2> QED
      BY <1>1, <1>2, LeastInSet
  <1> QED
    BY <1>3 DEF Count

LEMMA VisibleType ==
    ASSUME NEW image \in Seq(Sector), NEW i \in Visible(image)
    PROVE  i \in 1..Capacity(image) /\ At(image, i) \in Slot /\ IsVisible(At(image, i))
  <1>1. i \in 1..Count(image) /\ IsVisible(At(image, i))
    BY DEF Visible
  <1>2. i \in 1..Capacity(image)
    BY <1>1, CountRange, CapacityType, SMT
  <1> QED
    BY <1>1, <1>2, AtType

(* dir_find returns 0 or a visible slot. *)
LEMMA FindType ==
    ASSUME NEW image \in Seq(Sector), NEW name
    PROVE  Find(image, name) = 0 \/ Find(image, name) \in Visible(image)
  <1> DEFINE hits == {i \in Visible(image) : SameName(EntryName(image, i), name)}
  <1>1. hits \subseteq Nat
    BY VisibleType
  <1>2. CASE hits = {}
    BY <1>2 DEF Find
  <1>3. CASE hits # {}
    <2>1. Least(hits) \in hits
      BY <1>1, <1>3, LeastInSet
    <2> QED
      BY <1>3, <2>1 DEF Find
  <1> QED
    BY <1>2, <1>3

(* find_free_run returns 0 or the start of a run of free slots. *)
LEMMA FreeRunFree ==
    ASSUME NEW image \in Seq(Sector), NEW need \in Nat
    PROVE  /\ FreeRun(image, need) \in Nat
           /\ FreeRun(image, need) # 0 =>
                /\ FreeRun(image, need) + need - 1 <= Capacity(image)
                /\ \A j \in FreeRun(image, need)..(FreeRun(image, need) + need - 1) :
                      IsFree(At(image, j))
  <1> DEFINE starts == {i \in 1..Capacity(image) :
                          /\ i + need - 1 <= Capacity(image)
                          /\ \A j \in i..(i + need - 1) : IsFree(At(image, j))}
  <1>1. starts \subseteq Nat
    BY SMT
  <1>2. CASE starts = {}
    BY <1>2 DEF FreeRun
  <1>3. CASE starts # {}
    <2> DEFINE r == Least(starts)
    <2>1. r \in starts
      BY <1>1, <1>3, LeastInSet
    <2>2. FreeRun(image, need) = r
      BY <1>3 DEF FreeRun
    <2>3. /\ r \in Nat /\ r + need - 1 <= Capacity(image)
          /\ \A j \in r..(r + need - 1) : IsFree(At(image, j))
      <3> HIDE DEF r
      <3> QED
        BY <2>1
    <2> HIDE DEF r
    <2> QED
      BY <2>2, <2>3
  <1> QED
    BY <1>2, <1>3

(* An entry has at most as many LFN slots as its name has pieces. *)
LEMMA LfnCountType ==
    ASSUME NEW short, NEW name \in Seq(Piece)
    PROVE  /\ LfnCount(short, name) \in Nat
           /\ LfnCount(short, name) <= Len(name)
  BY DEF LfnCount

(* A table of slots is an image. *)
LEMMA TableIsImage ==
    ASSUME NEW n \in Nat, NEW f,
           f = [k \in 1..n |-> f[k]],
           \A k \in 1..n : f[k] = [e \in 1..ENTRIES_PER_SECTOR |-> f[k][e]],
           \A k \in 1..n : \A e \in 1..ENTRIES_PER_SECTOR : f[k][e] \in Slot
    PROVE  f \in Seq(Sector) /\ Len(f) = n
  <1>1. \A k \in 1..n : f[k] \in Sector
    BY DEF Sector
  <1> QED
    BY <1>1, LenProperties, SMT

(* dir_insert keeps the image's shape and writes slots. *)
LEMMA InsertType ==
    ASSUME NEW image \in Seq(Sector), NEW run \in Nat, NEW name \in Seq(Piece),
           NEW entry \in Slot, entry.short \in ShortName
    PROVE  /\ Insert(image, run, name, entry) \in Seq(Sector)
           /\ Len(Insert(image, run, name, entry)) = Len(image)
  <1> DEFINE n == LfnCount(entry.short, name)
             New(i, old) ==
                IF i \in run..(run + n - 1)
                THEN Lfn(name[i - run + 1], n - (i - run), Checksum[entry.short])
                ELSE IF i = run + n THEN entry ELSE old
             f == [k \in 1..Len(image) |->
                     [e \in 1..ENTRIES_PER_SECTOR |-> New(Position(k, e), image[k][e])]]
  <1>1. n \in Nat /\ n <= Len(name)
    BY LfnCountType
  <1>2. ASSUME NEW i \in Nat, NEW old \in Slot PROVE New(i, old) \in Slot
    <2>1. CASE i \in run..(run + n - 1)
      <3>1. i - run + 1 \in 1..Len(name) /\ n - (i - run) \in Nat
        BY <1>1, <2>1, LenProperties, SMT
      <3>2. name[i - run + 1] \in Piece
        BY <3>1, ElementOfSeq
      <3>3. Checksum[entry.short] \in 0..255
        BY NameAssumption DEF NameAssumption
      <3>4. Lfn(name[i - run + 1], n - (i - run), Checksum[entry.short]) \in Slot
        BY <3>1, <3>2, <3>3 DEF Lfn, Slot
      <3> QED
        BY <2>1, <3>4
    <2>2. CASE i \notin run..(run + n - 1)
      BY <2>2
    <2> QED
      BY <2>1, <2>2
  <1>3. ASSUME NEW k \in 1..Len(image), NEW e \in 1..ENTRIES_PER_SECTOR
        PROVE  Position(k, e) \in Nat /\ image[k][e] \in Slot
    <2>1. image[k] \in Sector
      BY ElementOfSeq
    <2>2. Position(k, e) \in Nat
      BY SlotAssumption, LenProperties, SMT DEF SlotAssumption, Position
    <2> QED
      BY <2>1, <2>2 DEF Sector
  <1> HIDE DEF New
  <1>4. f \in Seq(Sector) /\ Len(f) = Len(image)
    <2>1. \A k \in 1..Len(image) : \A e \in 1..ENTRIES_PER_SECTOR : f[k][e] \in Slot
      BY <1>2, <1>3
    <2>2. \A k \in 1..Len(image) : f[k] = [e \in 1..ENTRIES_PER_SECTOR |-> f[k][e]]
      OBVIOUS
    <2>3. f = [k \in 1..Len(image) |-> f[k]] /\ Len(image) \in Nat
      BY LenProperties
    <2> HIDE DEF f
    <2> QED
      BY <2>1, <2>2, <2>3, TableIsImage
  <1> QED
    BY <1>4 DEF Insert, MapSlots, New

(* Deletion keeps the image's shape and writes slots. *)
LEMMA MarkDeletedType ==
    ASSUME NEW image \in Seq(Sector), NEW idx
    PROVE  /\ MarkDeleted(image, idx) \in Seq(Sector)
           /\ Len(MarkDeleted(image, idx)) = Len(image)
  <1> DEFINE gone == LfnSetOf(image, idx)
             New(i, old) == IF i \in gone THEN Deleted(HasLfnAttr(old)) ELSE old
             f == [k \in 1..Len(image) |->
                     [e \in 1..ENTRIES_PER_SECTOR |-> New(Position(k, e), image[k][e])]]
  <1>1. ASSUME NEW i, NEW old \in Slot PROVE New(i, old) \in Slot
    <2>1. HasLfnAttr(old) \in BOOLEAN
      BY DEF HasLfnAttr
    <2>2. Deleted(HasLfnAttr(old)) \in Slot
      BY <2>1 DEF Deleted, Slot
    <2> QED
      BY <2>2
  <1>2. ASSUME NEW k \in 1..Len(image), NEW e \in 1..ENTRIES_PER_SECTOR
        PROVE  image[k][e] \in Slot
    <2>1. image[k] \in Sector
      BY ElementOfSeq
    <2> QED
      BY <2>1 DEF Sector
  <1> HIDE DEF New
  <1>3. f \in Seq(Sector) /\ Len(f) = Len(image)
    <2>1. \A k \in 1..Len(image) : \A e \in 1..ENTRIES_PER_SECTOR : f[k][e] \in Slot
      BY <1>1, <1>2
    <2>2. \A k \in 1..Len(image) : f[k] = [e \in 1..ENTRIES_PER_SECTOR |-> f[k][e]]
      OBVIOUS
    <2>3. f = [k \in 1..Len(image) |-> f[k]] /\ Len(image) \in Nat
      BY LenProperties
    <2> HIDE DEF f
    <2> QED
      BY <2>1, <2>2, <2>3, TableIsImage
  <1> QED
    BY <1>3 DEF MarkDeleted, MapSlots, New

(* build_short_name returns a short name, in use or not. *)
LEMMA BuildShortType ==
    ASSUME NEW image, NEW name \in Name
    PROVE  BuildShort(image, name) \in ShortName
  <1> DEFINE try(n) == IF n = 0 THEN MakeShort[name] ELSE Tilde[<<MakeShort[name], n>>]
             unused == {n \in 0..MAX_ALT : ~ShortInUse(image, try(n))}
             pick == IF unused = {} THEN MAX_ALT ELSE Least(unused)
  <1>1. pick \in 0..MAX_ALT
    <2>1. MAX_ALT \in Nat
      BY SlotAssumption DEF SlotAssumption
    <2>2. CASE unused # {}
      <3>1. unused \subseteq Nat
        OBVIOUS
      <3>2. Least(unused) \in unused
        BY <2>2, <3>1, LeastInSet
      <3> QED
        BY <2>2, <3>2
    <2> QED
      BY <2>1, <2>2
  <1>2. ASSUME NEW n \in 0..MAX_ALT PROVE try(n) \in ShortName
    <2>1. MakeShort[name] \in ShortName
      BY NameAssumption DEF NameAssumption
    <2>2. CASE n # 0
      <3>1. <<MakeShort[name], n>> \in ShortName \X (1..MAX_ALT)
        BY <2>1, <2>2, SlotAssumption DEF SlotAssumption
      <3>2. Tilde[<<MakeShort[name], n>>] \in ShortName
        BY <3>1, NameAssumption DEF NameAssumption
      <3> QED
        BY <2>2, <3>2
    <2> QED
      BY <2>1, <2>2
  <1>3. try(pick) \in ShortName
    <2> HIDE DEF pick, try
    <2> QED
      BY <1>1, <1>2
  <1> QED
    BY <1>3 DEF BuildShort

-----------------------------------------------------------------------------
(* Walking a chain.  The recursive function of Walk exists: its values up to *)
(* m are a finite table, any two such tables agree, and the walk is made of  *)
(* the last value of each.                                                   *)

Table(c, succ, m, a) ==
    a = [n \in 0..m |-> IF n = 0 THEN c ELSE succ[a[n - 1]]]

LEMMA TableExists ==
    ASSUME NEW c, NEW succ, NEW m \in Nat
    PROVE  \E a : Table(c, succ, m, a)
  <1> DEFINE bad == {k \in Nat : ~\E a : Table(c, succ, k, a)}
  <1>1. SUFFICES ASSUME bad # {} PROVE FALSE
    OBVIOUS
  <1>2. PICK k \in bad : \A j \in bad : k <= j
    <2>1. bad \subseteq Nat
      OBVIOUS
    <2> HIDE DEF bad
    <2> QED
      BY <1>1, <2>1, LeastInSet
  <1>3. CASE k = 0
    <2>1. Table(c, succ, k, [n \in 0..0 |-> c])
      BY <1>3 DEF Table
    <2> QED
      BY <2>1
  <1>4. CASE k # 0
    <2>1. k - 1 \in Nat /\ k - 1 \notin bad
      BY <1>2, <1>4
    <2>2. PICK a : Table(c, succ, k - 1, a)
      BY <2>1
    <2> DEFINE b == [n \in 0..k |-> IF n = 0 THEN c ELSE succ[a[n - 1]]]
    <2>3. \A n \in 0..(k - 1) : b[n] = a[n]
      BY <2>1, <2>2 DEF Table
    <2>4. Table(c, succ, k, b)
      <3>1. \A n \in 0..k : n # 0 => n - 1 \in 0..(k - 1)
        BY <2>1
      <3>2. \A n \in 0..k : b[n] = IF n = 0 THEN c ELSE succ[b[n - 1]]
        BY <2>3, <3>1
      <3> QED
        BY <3>2 DEF Table
    <2> QED
      BY <2>4
  <1> QED
    BY <1>3, <1>4

LEMMA TablesAgree ==
    ASSUME NEW c, NEW succ, NEW k \in Nat, NEW m \in Nat, NEW a, NEW b,
           Table(c, succ, k, a), Table(c, succ, m, b),
           NEW n \in Nat, n <= k, n <= m
    PROVE  a[n] = b[n]
  <1> DEFINE bad == {j \in Nat : j <= k /\ j <= m /\ a[j] # b[j]}
  <1>1. SUFFICES ASSUME bad # {} PROVE FALSE
    OBVIOUS
  <1>2. PICK i \in bad : \A j \in bad : i <= j
    <2>1. bad \subseteq Nat
      OBVIOUS
    <2> HIDE DEF bad
    <2> QED
      BY <1>1, <2>1, LeastInSet
  <1>3. /\ a[i] = IF i = 0 THEN c ELSE succ[a[i - 1]]
        /\ b[i] = IF i = 0 THEN c ELSE succ[b[i - 1]]
    BY <1>2 DEF Table
  <1>4. i # 0 => i - 1 \in Nat /\ i - 1 \notin bad
    BY <1>2
  <1>5. i # 0 => a[i - 1] = b[i - 1]
    BY <1>2, <1>4
  <1> QED
    BY <1>2, <1>3, <1>5

LEMMA WalkExists ==
    ASSUME NEW c, NEW succ
    PROVE  Walk(c, succ) =
             [n \in Nat |-> IF n = 0 THEN c ELSE succ[Walk(c, succ)[n - 1]]]
  <1> DEFINE tab(n) == CHOOSE a : Table(c, succ, n, a)
             f == [n \in Nat |-> tab(n)[n]]
  <1>1. \A n \in Nat : Table(c, succ, n, tab(n))
    BY TableExists
  <1>2. ASSUME NEW n \in Nat
        PROVE  f[n] = IF n = 0 THEN c ELSE succ[f[n - 1]]
    <2> HIDE DEF tab
    <2>1. tab(n)[n] = IF n = 0 THEN c ELSE succ[tab(n)[n - 1]]
      BY <1>1 DEF Table
    <2>2. n # 0 => tab(n)[n - 1] = tab(n - 1)[n - 1]
      BY <1>1, TablesAgree
    <2> QED
      BY <2>1, <2>2
  <1>3. f = [n \in Nat |-> IF n = 0 THEN c ELSE succ[f[n - 1]]]
    <2>1. f = [n \in Nat |-> f[n]]
      OBVIOUS
    <2> HIDE DEF f
    <2> QED
      BY <1>2, <2>1
  <1> HIDE DEF f
  <1> QED
    BY <1>3 DEF Walk

(* What dir_load and fat32_read_file walk: clusters, at most `max`, and at   *)
(* least the first one when it is a cluster.                                 *)
LEMMA ChainType ==
    ASSUME NEW f, NEW c, NEW max \in Nat
    PROVE  /\ Chain(f, c, max) \in Seq(Cluster)
           /\ c \in Cluster /\ max # 0 => Chain(f, c, max) # <<>>
  <1> DEFINE at == Walk(c, Links(f))
             lens == {n \in 0..max : \A k \in 1..n : at[k - 1] \in Cluster}
             len == Greatest(lens)
  <1>1. 0 \in lens
    BY SMT
  <1>2. lens \in SUBSET (0..max)
    OBVIOUS
  <1>3. len \in lens /\ \A n \in lens : len >= n
    <2> HIDE DEF lens
    <2> QED
      BY <1>1, <1>2, GreatestInSet
  <1>4. len \in Nat /\ \A k \in 1..len : at[k - 1] \in Cluster
    BY <1>3
  <1>5. Chain(f, c, max) = [k \in 1..len |-> at[k - 1]]
    BY DEF Chain
  <1>6. c \in Cluster /\ max # 0 => 1 \in lens
    <2>1. at[0] = c
      BY WalkExists
    <2> QED
      BY <2>1
  <1> HIDE DEF at, len
  <1>7. Chain(f, c, max) \in Seq(Cluster) /\ Len(Chain(f, c, max)) = len
    BY <1>4, <1>5
  <1>8. c \in Cluster /\ max # 0 => len # 0
    BY <1>3, <1>4, <1>6
  <1> QED
    BY <1>7, <1>8

-----------------------------------------------------------------------------
(* The sector writes the operations issue.                                   *)

LEMMA Bounds == MaxCuts \in Nat /\ Contents \subseteq Seq(Block)
  BY DiskAssumption, SMT DEF DiskAssumption

LEMMA RootIsCluster == Root \in Cluster /\ 2 \in Cluster
  BY SlotAssumption DEF SlotAssumption, Root, Cluster, LastCluster

LEMMA WriteEntryType ==
    ASSUME NEW c \in Cluster, NEW v \in FatValue
    PROVE  WriteEntry(c, v) \in Seq(Write)
  <1>1. ASSUME NEW k \in {0, 1}
        PROVE  [to |-> "fat", copy |-> k, cluster |-> c, value |-> v] \in Write
    BY DEF Write
  <1> QED
    BY <1>1 DEF WriteEntry

LEMMA WriteClusterType ==
    ASSUME NEW c \in Cluster, NEW v \in SectorData
    PROVE  WriteCluster(c, v) \in Seq(Write)
  <1>1. [to |-> "data", cluster |-> c, value |-> v] \in Write
    BY DEF Write
  <1> QED
    BY <1>1 DEF WriteCluster

LEMMA DirSectorType ==
    ASSUME NEW s \in Sector
    PROVE  DirSector(s) \in SectorData
  BY DEF DirSector, SectorData

LEMMA SectorTypes ==
    /\ ZeroSector \in Sector
    /\ RootSector \in Sector
    /\ \A c, parent \in Cluster : NewDirSector(c, parent) \in Sector
  <1>1. End \in Slot /\ Volume \in Slot
    BY DEF Slot
  <1>2. \A c \in Cluster : Dot(c) \in Slot /\ DotDot(c) \in Slot
    BY DEF Slot, Dot, DotDot
  <1>3. ZeroSector \in Sector
    BY <1>1 DEF ZeroSector, Sector
  <1>4. RootSector \in Sector
    BY <1>1, <1>2, RootIsCluster DEF RootSector, Sector
  <1>5. ASSUME NEW c \in Cluster, NEW parent \in Cluster
        PROVE  NewDirSector(c, parent) \in Sector
    BY <1>1, <1>2 DEF NewDirSector, Sector
  <1> QED
    BY <1>3, <1>4, <1>5

LEMMA SaveWritesType ==
    ASSUME NEW image \in Seq(Sector), NEW clusters \in Seq(Cluster),
           Len(image) = Len(clusters)
    PROVE  SaveWrites(image, clusters) \in Seq(Write)
  <1>1. ASSUME NEW k \in 1..Len(image)
        PROVE  [to |-> "data", cluster |-> clusters[k], value |-> DirSector(image[k])]
                 \in Write
    <2>1. clusters[k] \in Cluster /\ image[k] \in Sector
      BY ElementOfSeq
    <2>2. DirSector(image[k]) \in SectorData
      BY <2>1, DirSectorType
    <2> QED
      BY <2>1, <2>2 DEF Write
  <1> QED
    BY <1>1, LenProperties DEF SaveWrites

LEMMA LinkWritesType ==
    ASSUME NEW c \in Seq(Cluster)
    PROVE  LinkWrites(c) \in Seq(Write)
  <1> DEFINE n == 2 * (Len(c) - 1)
  <1>1. Len(c) \in Nat
    BY LenProperties
  <1>2. ASSUME NEW j \in 1..n
        PROVE  LinkWrites(c)[j] \in Write
    <2> DEFINE k == (j + 1) \div 2
    <2>1. k \in 1..Len(c) /\ k + 1 \in 1..Len(c) /\ (j + 1) % 2 \in {0, 1}
      BY <1>1
    <2>2. c[k] \in Cluster /\ c[k + 1] \in Cluster
      <3> HIDE DEF k
      <3> QED
        BY <2>1, ElementOfSeq
    <2>3. LinkWrites(c)[j] =
            [to |-> "fat", copy |-> (j + 1) % 2, cluster |-> c[k], value |-> c[k + 1]]
      BY DEF LinkWrites
    <2> HIDE DEF k
    <2> QED
      BY <2>1, <2>2, <2>3 DEF Write, FatValue
  <1>3. LinkWrites(c) = [j \in 1..n |-> LinkWrites(c)[j]]
    BY DEF LinkWrites
  <1>4. CASE n \in Nat
    <2> HIDE DEF n
    <2> QED
      BY <1>2, <1>3, <1>4
  <1>5. CASE n \notin Nat
    <2>1. 1..n = {}
      BY <1>1, <1>5
    <2>2. LinkWrites(c) = <<>>
      BY <1>3, <2>1
    <2> QED
      BY <2>2
  <1> QED
    BY <1>4, <1>5

LEMMA BlockWritesType ==
    ASSUME NEW c \in Seq(Cluster), NEW blocks \in Seq(Block), Len(blocks) = Len(c)
    PROVE  BlockWrites(c, blocks) \in Seq(Write)
  <1>1. ASSUME NEW k \in 1..Len(c)
        PROVE  [to |-> "data", cluster |-> c[k], value |-> DataSector(blocks[k])] \in Write
    <2>1. c[k] \in Cluster /\ blocks[k] \in Block
      BY ElementOfSeq
    <2>2. DataSector(blocks[k]) \in SectorData
      BY <2>1 DEF DataSector, SectorData
    <2> QED
      BY <2>1, <2>2 DEF Write
  <1> QED
    BY <1>1, LenProperties DEF BlockWrites

LEMMA FormatWritesType == FormatWrites \in Seq(Write)
  <1> DEFINE head == << [to |-> "boot"], [to |-> "zero", copy |-> 0],
                        [to |-> "zero", copy |-> 1] >>
  <1>1. head \in Seq(Write)
    <2>1. /\ [to |-> "boot"] \in Write /\ [to |-> "zero", copy |-> 0] \in Write
          /\ [to |-> "zero", copy |-> 1] \in Write
      BY DEF Write
    <2> QED
      BY <2>1
  <1>2. WriteEntry(Root, EOC) \in Seq(Write)
    BY RootIsCluster, WriteEntryType DEF FatValue
  <1>3. WriteCluster(Root, DirSector(RootSector)) \in Seq(Write)
    BY RootIsCluster, SectorTypes, DirSectorType, WriteClusterType
  <1>4. head \o WriteEntry(Root, EOC) \in Seq(Write)
    <2> HIDE DEF head
    <2> QED
      BY <1>1, <1>2, ConcatProperties
  <1>5. (head \o WriteEntry(Root, EOC)) \o WriteCluster(Root, DirSector(RootSector))
          \in Seq(Write)
    <2> HIDE DEF head
    <2> QED
      BY <1>3, <1>4, ConcatProperties
  <1> QED
    BY <1>5 DEF FormatWrites

LEMMA ExtensionWritesType ==
    ASSUME NEW c \in Cluster, NEW last \in Cluster
    PROVE  ExtensionWrites(c, last) \in Seq(Write)
  <1>1. /\ WriteEntry(c, EOC) \in Seq(Write)
        /\ WriteEntry(last, c) \in Seq(Write)
    BY WriteEntryType DEF FatValue
  <1>2. WriteCluster(c, DirSector(ZeroSector)) \in Seq(Write)
    BY SectorTypes, DirSectorType, WriteClusterType
  <1> QED
    BY <1>1, <1>2, ConcatProperties DEF ExtensionWrites

-----------------------------------------------------------------------------
(* Reading the disk.                                                         *)

LEMMA ImageType ==
    ASSUME NEW d \in [Cluster -> SectorData], NEW clusters \in Seq(Cluster)
    PROVE  /\ Image(d, clusters) \in Seq(Sector)
           /\ Len(Image(d, clusters)) = Len(clusters)
  <1>1. ASSUME NEW k \in 1..Len(clusters)
        PROVE  SlotsOf(d[clusters[k]]) \in Sector
    <2>1. clusters[k] \in Cluster
      BY ElementOfSeq
    <2>2. d[clusters[k]] \in SectorData
      BY <2>1
    <2> QED
      BY <2>2, SectorTypes DEF SlotsOf, SectorData, Junk
  <1> QED
    BY <1>1, LenProperties DEF Image

LEMMA LoadType ==
    ASSUME data \in [Cluster -> SectorData], NEW c \in Cluster
    PROVE  /\ DirChain(c) \in Seq(Cluster) /\ DirChain(c) # <<>>
           /\ Load(c) \in Seq(Sector) /\ Len(Load(c)) = Len(DirChain(c))
  <1>1. DirChain(c) \in Seq(Cluster) /\ DirChain(c) # <<>>
    BY ChainType, DiskAssumption DEF DirChain, DiskAssumption
  <1> QED
    BY <1>1, ImageType DEF Load

LEMMA FoundFreeType ==
    /\ FoundFree \in Cluster \cup {0}
    /\ FoundFree # 0 => fat[FoundFree] = 0
  <1>1. ASSUME NEW lo, NEW hi, Free(lo, hi) # {}
        PROVE  Least(Free(lo, hi)) \in Cluster /\ fat[Least(Free(lo, hi))] = 0
    <2>1. Free(lo, hi) \subseteq Nat
      BY DEF Free, Cluster
    <2>2. Least(Free(lo, hi)) \in Free(lo, hi)
      BY <1>1, <2>1, LeastInSet
    <2> QED
      BY <2>2 DEF Free
  <1> QED
    BY <1>1 DEF FoundFree

LEMMA HintType ==
    ASSUME NEW c \in Cluster
    PROVE  HintAfter(c) \in Cluster
  BY SlotAssumption DEF SlotAssumption, HintAfter, Cluster, LastCluster

(* The slot dir_find returns holds an entry. *)
LEMMA FoundEntry ==
    ASSUME NEW image \in Seq(Sector), NEW name, Find(image, name) # 0
    PROVE  /\ Find(image, name) \in Nat
           /\ At(image, Find(image, name)).cluster \in Cluster \cup {0}
  <1> DEFINE i == Find(image, name)
  <1>1. i \in Visible(image)
    BY FindType
  <1> HIDE DEF i
  <1>2. i \in Nat /\ At(image, i) \in Slot
    BY <1>1, VisibleType
  <1>3. IsVisible(At(image, i))
    BY <1>1 DEF Visible
  <1>4. At(image, i).cluster \in Cluster \cup {0}
    <2> DEFINE s == At(image, i)
    <2>1. s \in Slot /\ s.tag \in {"file", "dir"}
      BY <1>2, <1>3 DEF IsVisible
    <2> HIDE DEF s
    <2>2. s.cluster \in Cluster \cup {0}
      BY <2>1 DEF Slot, End, Volume
    <2> QED
      BY <2>2 DEF s
  <1> QED
    BY <1>2, <1>4 DEF i

-----------------------------------------------------------------------------
(* Type correctness.  What makes TypeOK inductive: a running operation has   *)
(* loaded its directory, as many sectors as clusters and at least one, and   *)
(* it has its name, and later its short name, when it needs them.            *)

Loaded ==
    /\ Len(img) = Len(dirc)
    /\ pc \notin {"off", "format", "idle"} => dirc # <<>>
Named ==
    /\ pc \in {"alloc", "name"} => op.name \in Name
    /\ pc \in {"search", "retry", "extend", "place"} => op.short \in ShortName
TypeInv == TypeOK /\ Loaded /\ Named

LEMMA WrittenType ==
    ASSUME NEW f \in [Cluster -> FatValue], NEW copy, NEW w \in Write
    PROVE  Written(f, copy, w) \in [Cluster -> FatValue]
  <1>1. [c \in Cluster |-> 0] \in [Cluster -> FatValue]
    BY DEF FatValue
  <1>2. ASSUME w.to = "fat"
        PROVE  [f EXCEPT ![w.cluster] = w.value] \in [Cluster -> FatValue]
    <2>1. w.cluster \in Cluster /\ w.value \in FatValue
      BY <1>2 DEF Write
    <2> QED
      BY <2>1
  <1> QED
    BY <1>1, <1>2 DEF Written

LEMMA TypeInit == Init => TypeInv
  <1> SUFFICES ASSUME Init PROVE TypeInv
    OBVIOUS
  <1>1. fat \in [Cluster -> FatValue]
    BY DEF Init, FatValue
  <1>2. data \in [Cluster -> SectorData]
    BY DEF Init, SectorData
  <1>3. op \in [kind : {"none", "create", "mkdir", "delete"}, name : Name \cup {<<>>},
                blocks : Contents \cup {<<>>}, short : ShortName \cup {NoShort}, slot : Nat]
    BY DEF Init, NoOp
  <1>4. cwd \in Cluster /\ cuts \in 0..MaxCuts
    BY RootIsCluster, Bounds DEF Init
  <1> QED
    BY <1>1, <1>2, <1>3, <1>4 DEF Init, TypeInv, TypeOK, Loaded, Named

(* The first and the last element of a sequence that has one. *)
LEMMA Ends ==
    ASSUME NEW S, NEW s \in Seq(S), s # <<>>
    PROVE  /\ Len(s) \in Nat \ {0}
           /\ s[1] \in S /\ s[Len(s)] \in S
  BY EmptySeq, LenProperties, ElementOfSeq

(* The name of a running operation is made of pieces. *)
LEMMA NamesArePieces ==
    ASSUME TypeInv
    PROVE  op.name \in Seq(Piece)
  <1>1. op.name \in Name \cup {<<>>}
    BY DEF TypeInv, TypeOK
  <1>2. Name \subseteq Seq(Piece) /\ <<>> \in Seq(Piece)
    BY NameAssumption DEF NameAssumption
  <1> QED
    BY <1>1, <1>2

(* Every operation that ends leaves no trace in RAM. *)
LEMMA FinishType ==
    ASSUME TypeInv, Finish, UNCHANGED <<disk, hint, cwd, cuts, torn, lost>>
    PROVE  TypeInv'
  <1>1. NoOp \in [kind : {"none", "create", "mkdir", "delete"}, name : Name \cup {<<>>},
                  blocks : Contents \cup {<<>>}, short : ShortName \cup {NoShort}, slot : Nat]
    BY DEF NoOp
  <1>2. /\ <<>> \in Seq(Sector) /\ <<>> \in Seq(Cluster) /\ <<>> \in Seq(Write)
    OBVIOUS
  <1> QED
    BY <1>1, <1>2 DEF Finish, disk, TypeInv, TypeOK, Loaded, Named

(* Every operation starts by loading the current directory. *)
LEMMA StartType ==
    ASSUME TypeInv, NEW kind \in {"create", "mkdir", "delete"}, NEW name \in Name,
           NEW blocks \in Contents \cup {<<>>}, NEW slot \in Nat,
           Start(kind, name, blocks, slot)
    PROVE  /\ op' \in [kind : {"none", "create", "mkdir", "delete"},
                       name : Name \cup {<<>>}, blocks : Contents \cup {<<>>},
                       short : ShortName \cup {NoShort}, slot : Nat]
           /\ op'.name = name
           /\ img' \in Seq(Sector) /\ dirc' \in Seq(Cluster)
           /\ Len(img') = Len(dirc') /\ dirc' # <<>>
  <1>1. /\ DirChain(cwd) \in Seq(Cluster) /\ DirChain(cwd) # <<>>
        /\ Load(cwd) \in Seq(Sector) /\ Len(Load(cwd)) = Len(DirChain(cwd))
    BY LoadType DEF TypeInv, TypeOK
  <1> QED
    BY <1>1 DEF Start

LEMMA TypeNext == TypeInv /\ [Next]_vars => TypeInv'
  <1> SUFFICES ASSUME TypeInv, [Next]_vars PROVE TypeInv'
    OBVIOUS
  <1> DEFINE Op == [kind : {"none", "create", "mkdir", "delete"}, name : Name \cup {<<>>},
                    blocks : Contents \cup {<<>>}, short : ShortName \cup {NoShort},
                    slot : Nat]
  <1> USE DEF TypeInv
  <1>1. CASE DiskWrite
    <2>1. Head(io) \in Write /\ Tail(io) \in Seq(Write)
      BY <1>1, HeadTailProperties DEF DiskWrite, TypeOK
    <2> DEFINE w == Head(io)
    <2>2. boot' \in {"blank", "fat32"}
      BY <1>1 DEF DiskWrite, TypeOK
    <2>3. w.to = "data" => w.cluster \in Cluster /\ w.value \in SectorData
      <3> HIDE DEF w
      <3>1. w \in Write
        BY <2>1 DEF w
      <3> QED
        BY <3>1 DEF Write
    <2>4. fat' \in [Cluster -> FatValue]
      BY <1>1, <2>1, WrittenType DEF DiskWrite, TypeOK
    <2>5. mirror' \in [Cluster -> FatValue]
      BY <1>1, <2>1, WrittenType DEF DiskWrite, TypeOK
    <2>6. data' \in [Cluster -> SectorData]
      <3>1. data' = IF w.to = "data" THEN [data EXCEPT ![w.cluster] = w.value] ELSE data
        BY <1>1 DEF DiskWrite
      <3> HIDE DEF w
      <3> QED
        BY <2>3, <3>1 DEF TypeOK
    <2>7. io' \in Seq(Write)
      BY <1>1, <2>1 DEF DiskWrite
    <2>8. UNCHANGED <<hint, pc, op, img, dirc, chain, cur, cwd, cuts, torn, lost>>
      BY <1>1 DEF DiskWrite
    <2> HIDE DEF w
    <2> QED
      BY <2>2, <2>4, <2>5, <2>6, <2>7, <2>8 DEF TypeOK, Loaded, Named
  <1>2. CASE FormatDone
    BY <1>2 DEF FormatDone, disk, TypeOK, Loaded, Named
  <1>3. CASE AllocCluster
    <2>1. FoundFree \in Cluster
      BY <1>3, FoundFreeType DEF AllocCluster
    <2>2. chain' \in Seq(Cluster)
      BY <1>3, <2>1, AppendProperties DEF AllocCluster, TypeOK
    <2>3. io' \in Seq(Write) /\ hint' \in Cluster
      BY <1>3, <2>1, WriteEntryType, HintType DEF AllocCluster, FatValue
    <2>4. UNCHANGED <<disk, pc, op, img, dirc, cur, cwd, cuts, torn, lost>>
      BY <1>3 DEF AllocCluster
    <2> QED
      BY <2>2, <2>3, <2>4 DEF disk, TypeOK, Loaded, Named
  <1>4. CASE AllocFails
    <2>1. CASE chain = <<>>
      <3>1. Finish /\ UNCHANGED <<disk, hint, cwd, cuts, torn, lost>>
        BY <1>4, <2>1 DEF AllocFails
      <3> QED
        BY <3>1, FinishType
    <2>2. CASE chain # <<>>
      <3>1. /\ pc' = "abort" /\ cur' = chain[1]
            /\ lost' = lost \cup {chain[k] : k \in 2..Len(chain)}
            /\ UNCHANGED <<op, img, dirc, chain, io, disk, hint, cwd, cuts, torn>>
            /\ pc = "alloc"
        BY <1>4, <2>2 DEF AllocFails
      <3>2. \A k \in 1..Len(chain) : chain[k] \in Cluster
        BY ElementOfSeq DEF TypeOK
      <3>3. 1 \in 1..Len(chain) /\ 2..Len(chain) \subseteq 1..Len(chain)
        <4>1. Len(chain) \in Nat \ {0}
          BY <2>2, Ends DEF TypeOK
        <4> QED
          BY <4>1
      <3>4. cur' \in Cluster /\ lost' \subseteq Cluster
        BY <3>1, <3>2, <3>3 DEF TypeOK
      <3> QED
        BY <3>1, <3>4 DEF disk, TypeOK, Loaded, Named
    <2> QED
      BY <2>1, <2>2
  <1>5. CASE WriteContents
    <2>1. chain # <<>> => chain[1] \in Cluster
      BY Ends DEF TypeOK
    <2>2. io' \in Seq(Write)
      <3>1. CASE op.kind = "mkdir"
        <4>1. Len(chain) = 1
          BY <1>5, <3>1 DEF WriteContents, Needed
        <4>2. chain[1] \in Cluster
          BY <2>1, <4>1, EmptySeq
        <4>3. NewDirSector(chain[1], cwd) \in Sector
          BY <4>2, SectorTypes DEF TypeOK
        <4> QED
          BY <1>5, <3>1, <4>2, <4>3, DirSectorType, WriteClusterType DEF WriteContents
      <3>2. CASE op.kind # "mkdir"
        <4>1. op.blocks \in Seq(Block) /\ Len(op.blocks) = Len(chain)
          BY <1>5, <3>2, Bounds DEF WriteContents, Needed, TypeOK
        <4>2. LinkWrites(chain) \in Seq(Write) /\ BlockWrites(chain, op.blocks) \in Seq(Write)
          BY <4>1, LinkWritesType, BlockWritesType DEF TypeOK
        <4> QED
          BY <1>5, <3>2, <4>2, ConcatProperties DEF WriteContents
      <3> QED
        BY <3>1, <3>2
    <2>3. pc = "alloc" /\ pc' = "name"
      BY <1>5 DEF WriteContents
    <2>4. UNCHANGED <<disk, hint, op, img, dirc, chain, cur, cwd, cuts, torn, lost>>
      BY <1>5 DEF WriteContents
    <2> QED
      BY <2>2, <2>3, <2>4 DEF disk, TypeOK, Loaded, Named
  <1>6. CASE ChooseShort
    <2>1. BuildShort(img, op.name) \in ShortName
      BY <1>6, BuildShortType DEF ChooseShort, Named
    <2>2. op' \in Op /\ op'.short \in ShortName
      BY <1>6, <2>1 DEF ChooseShort, TypeOK
    <2>3. pc = "name" /\ pc' = "search"
      BY <1>6 DEF ChooseShort
    <2>4. UNCHANGED <<disk, hint, img, dirc, chain, cur, io, cwd, cuts, torn, lost>>
      BY <1>6 DEF ChooseShort
    <2> QED
      BY <2>2, <2>3, <2>4 DEF disk, TypeOK, Loaded, Named
  <1>7. CASE SearchRun
    <2>1. op.name \in Seq(Piece)
      BY NamesArePieces
    <2>2. LfnCount(op.short, op.name) + 1 \in Nat
      BY <2>1, LfnCountType
    <2>3. FreeRun(img, LfnCount(op.short, op.name) + 1) \in Nat
      BY <2>2, FreeRunFree DEF TypeOK
    <2>4. op' \in Op /\ op'.short = op.short /\ op'.name = op.name
      BY <1>7, <2>3 DEF SearchRun, TypeOK
    <2>5. pc \in {"search", "retry"} /\ pc' \in {"place", "extend", "fail"}
      BY <1>7 DEF SearchRun
    <2>6. UNCHANGED <<disk, hint, img, dirc, chain, cur, io, cwd, cuts, torn, lost>>
      BY <1>7 DEF SearchRun
    <2> QED
      BY <2>4, <2>5, <2>6 DEF disk, TypeOK, Loaded, Named
  <1>8. CASE PlaceEntry
    <2>1. op.name \in Seq(Piece) /\ op.short \in ShortName
      BY <1>8, NamesArePieces DEF PlaceEntry, Named
    <2>2. NewEntry \in Slot /\ NewEntry.short \in ShortName
      <3>1. FirstCluster \in Cluster \cup {0}
        BY Ends DEF FirstCluster, TypeOK
      <3>2. Len(op.blocks) \in Nat
        <4>1. op.blocks \in Contents \cup {<<>>}
          BY DEF TypeOK
        <4>2. Contents \subseteq Seq(Block) /\ <<>> \in Seq(Block)
          BY Bounds
        <4> QED
          BY <4>1, <4>2, LenProperties
      <3>3. \A tag \in {"file", "dir"} :
              LET e == Entry(tag, op.short, FirstCluster, Len(op.blocks))
              IN  e \in Slot /\ e.short = op.short
        BY <2>1, <3>1, <3>2, SMT DEF Entry, Slot
      <3> QED
        BY <2>1, <3>3 DEF NewEntry
    <2>3. img' \in Seq(Sector) /\ Len(img') = Len(img)
      BY <1>8, <2>1, <2>2, InsertType DEF PlaceEntry, TypeOK
    <2>4. io' \in Seq(Write)
      BY <1>8, <2>3, SaveWritesType DEF PlaceEntry, TypeOK, Loaded
    <2>5. op' \in Op
      <3>1. op.slot + LfnCount(op.short, op.name) \in Nat
        <4>1. op.slot \in Nat
          BY DEF TypeOK
        <4> QED
          BY <2>1, <4>1, LfnCountType
      <3> QED
        BY <1>8, <3>1 DEF PlaceEntry, TypeOK
    <2>6. pc = "place" /\ pc' = "save"
      BY <1>8 DEF PlaceEntry
    <2>7. UNCHANGED <<disk, hint, dirc, chain, cur, cwd, cuts, torn, lost>>
      BY <1>8 DEF PlaceEntry
    <2> QED
      BY <2>3, <2>4, <2>5, <2>6, <2>7 DEF disk, TypeOK, Loaded, Named
  <1>9. CASE ExtendDir
    <2>1. FoundFree \in Cluster
      BY <1>9, FoundFreeType DEF ExtendDir
    <2>2. dirc # <<>> /\ dirc[Len(dirc)] \in Cluster
      BY <1>9, Ends DEF ExtendDir, TypeOK, Loaded
    <2>3. io' \in Seq(Write) /\ hint' \in Cluster
      BY <1>9, <2>1, <2>2, ExtensionWritesType, HintType DEF ExtendDir
    <2>4. img' \in Seq(Sector) /\ Len(img') = Len(img) + 1
      <3>1. ZeroSector \in Sector /\ img \in Seq(Sector) /\ img' = Append(img, ZeroSector)
        BY <1>9, SectorTypes DEF ExtendDir, TypeOK
      <3> QED
        BY <3>1, AppendProperties
    <2>5. dirc' \in Seq(Cluster) /\ Len(dirc') = Len(dirc) + 1 /\ dirc' # <<>>
      <3>1. dirc \in Seq(Cluster) /\ dirc' = Append(dirc, FoundFree)
        BY <1>9 DEF ExtendDir, TypeOK
      <3> QED
        BY <2>1, <3>1, AppendProperties
    <2>6. pc = "extend" /\ pc' = "retry"
      BY <1>9 DEF ExtendDir
    <2>7. UNCHANGED <<disk, op, chain, cur, cwd, cuts, torn, lost>>
      BY <1>9 DEF ExtendDir
    <2> QED
      BY <2>3, <2>4, <2>5, <2>6, <2>7 DEF disk, TypeOK, Loaded, Named
  <1>10. CASE InsertFails
    <2>1. CASE chain = <<>>
      <3>1. Finish /\ UNCHANGED <<disk, hint, cwd, cuts, torn, lost>>
        BY <1>10, <2>1 DEF InsertFails
      <3> QED
        BY <3>1, FinishType
    <2>2. CASE chain # <<>>
      <3>1. pc' = "abort" /\ cur' = chain[1] /\ pc \in {"fail", "extend"}
        BY <1>10, <2>2 DEF InsertFails
      <3>2. UNCHANGED <<op, img, dirc, chain, io, disk, hint, cwd, cuts, torn, lost>>
        BY <1>10, <2>2 DEF InsertFails
      <3>3. cur' \in Cluster
        BY <2>2, <3>1, Ends DEF TypeOK
      <3> QED
        BY <3>1, <3>2, <3>3 DEF disk, TypeOK, Loaded, Named
    <2> QED
      BY <2>1, <2>2
  <1>11. CASE FreeCluster
    <2>1. cur \in Cluster /\ pc \in {"free", "abort"}
      BY <1>11 DEF FreeCluster, TypeOK
    <2>2. io' \in Seq(Write)
      BY <1>11, <2>1, WriteEntryType DEF FreeCluster, FatValue
    <2>3. cur' \in Cluster \cup {0}
      BY <1>11 DEF FreeCluster, NextToFree, InRange
    <2>4. UNCHANGED <<disk, hint, pc, op, img, dirc, chain, cwd, cuts, torn, lost>>
      BY <1>11 DEF FreeCluster
    <2> QED
      BY <2>1, <2>2, <2>3, <2>4 DEF disk, TypeOK, Loaded, Named
  <1>12. CASE MarkEntry
    <2>1. img' \in Seq(Sector) /\ Len(img') = Len(img)
      BY <1>12, MarkDeletedType DEF MarkEntry, TypeOK
    <2>2. io' \in Seq(Write)
      BY <1>12, <2>1, SaveWritesType DEF MarkEntry, TypeOK, Loaded
    <2>3. pc = "free" /\ pc' = "save"
      BY <1>12 DEF MarkEntry
    <2>4. UNCHANGED <<disk, hint, op, dirc, chain, cur, cwd, cuts, torn, lost>>
      BY <1>12 DEF MarkEntry
    <2> QED
      BY <2>1, <2>2, <2>3, <2>4 DEF disk, TypeOK, Loaded, Named
  <1>13. CASE Return
    BY <1>13, FinishType DEF Return
  <1>14. ASSUME NEW name \in Name, NEW blocks \in Contents, CreateFile(name, blocks)
         PROVE  TypeInv'
    <2>1. Start("create", name, blocks, 0)
      BY <1>14 DEF CreateFile
    <2>2. /\ op' \in Op /\ op'.name = name
          /\ img' \in Seq(Sector) /\ dirc' \in Seq(Cluster)
          /\ Len(img') = Len(dirc') /\ dirc' # <<>>
      BY <2>1, StartType
    <2>3. pc' \in {"name", "alloc"}
      BY <1>14 DEF CreateFile
    <2>4. UNCHANGED <<disk, hint, chain, cur, io, cwd, cuts, torn, lost>>
      BY <1>14 DEF CreateFile
    <2> QED
      BY <2>2, <2>3, <2>4 DEF disk, TypeOK, Loaded, Named
  <1>15. ASSUME NEW name \in Name, CreateDir(name)
         PROVE  TypeInv'
    <2>1. Start("mkdir", name, <<>>, 0)
      BY <1>15 DEF CreateDir
    <2>2. /\ op' \in Op /\ op'.name = name
          /\ img' \in Seq(Sector) /\ dirc' \in Seq(Cluster)
          /\ Len(img') = Len(dirc') /\ dirc' # <<>>
      BY <2>1, StartType
    <2>3. pc' = "alloc"
      BY <1>15 DEF CreateDir
    <2>4. UNCHANGED <<disk, hint, chain, cur, io, cwd, cuts, torn, lost>>
      BY <1>15 DEF CreateDir
    <2> QED
      BY <2>2, <2>3, <2>4 DEF disk, TypeOK, Loaded, Named
  <1>16. ASSUME NEW name \in Name, DeleteFile(name)
         PROVE  TypeInv'
    <2> DEFINE slot == Find(Load(cwd), name)
    <2>1. /\ slot # 0 /\ Start("delete", name, <<>>, slot)
          /\ cur' = At(Load(cwd), slot).cluster
      BY <1>16 DEF DeleteFile
    <2>2. Load(cwd) \in Seq(Sector)
      BY LoadType DEF TypeOK
    <2>3. slot \in Nat /\ cur' \in Cluster \cup {0}
      BY <2>1, <2>2, FoundEntry
    <2> HIDE DEF slot
    <2>4. /\ op' \in Op /\ op'.name = name
          /\ img' \in Seq(Sector) /\ dirc' \in Seq(Cluster)
          /\ Len(img') = Len(dirc') /\ dirc' # <<>>
      BY <2>1, <2>3, StartType
    <2>5. pc' = "free"
      BY <1>16 DEF DeleteFile
    <2>6. UNCHANGED <<disk, hint, chain, io, cwd, cuts, torn, lost>>
      BY <1>16 DEF DeleteFile
    <2> QED
      BY <2>3, <2>4, <2>5, <2>6 DEF disk, TypeOK, Loaded, Named
  <1>17. ASSUME NEW d \in Cluster, ChangeDir(d)
         PROVE  TypeInv'
    BY <1>17 DEF ChangeDir, disk, ram, TypeOK, Loaded, Named
  <1>18. CASE Boot
    <2>1. io' \in Seq(Write) /\ pc' \in {"format", "idle"}
      BY <1>18, FormatWritesType DEF Boot, TypeOK
    <2>2. UNCHANGED <<disk, hint, op, img, dirc, chain, cur, cwd, cuts, torn, lost>>
      BY <1>18 DEF Boot
    <2> QED
      BY <2>1, <2>2 DEF disk, TypeOK, Loaded, Named
  <1>19. CASE PowerCut
    <2>1. op' \in Op /\ pc' = "off"
      BY <1>19 DEF PowerCut, NoOp
    <2>2. cuts' \in 0..MaxCuts
      <3>1. cuts \in 0..MaxCuts /\ cuts < MaxCuts /\ cuts' = cuts + 1
        BY <1>19 DEF PowerCut, TypeOK
      <3> QED
        BY <3>1, Bounds
    <2>3. torn' \subseteq {"format", "delete", "insert"}
      BY <1>19 DEF PowerCut, HalfDone, TypeOK
    <2>4. hint' \in Cluster \cup {3} /\ cwd' \in Cluster /\ cur' = 0
      BY <1>19, RootIsCluster DEF PowerCut
    <2>5. img' = <<>> /\ dirc' = <<>> /\ chain' = <<>> /\ io' = <<>>
      BY <1>19 DEF PowerCut
    <2>6. UNCHANGED <<disk, lost>>
      BY <1>19 DEF PowerCut
    <2>7. <<>> \in Seq(Sector) /\ <<>> \in Seq(Cluster) /\ <<>> \in Seq(Write)
      OBVIOUS
    <2> HIDE DEF Op
    <2>8. TypeOK'
      BY <2>1, <2>2, <2>3, <2>4, <2>5, <2>6, <2>7 DEF disk, TypeOK, Op
    <2> QED
      BY <2>1, <2>5, <2>8 DEF Loaded, Named
  <1>20. CASE UNCHANGED vars
    <2>1. UNCHANGED <<boot, fat, mirror, data, hint, pc, op, img, dirc, chain, cur, io, cwd,
                      cuts, torn, lost>>
      BY <1>20 DEF vars, disk, ram
    <2>2. TypeOK'
      BY <2>1 DEF TypeOK
    <2>3. Loaded' /\ Named'
      BY <2>1 DEF Loaded, Named
    <2> QED
      BY <2>2, <2>3
  <1> QED
    BY <1>1, <1>2, <1>3, <1>4, <1>5, <1>6, <1>7, <1>8, <1>9, <1>10, <1>11, <1>12,
       <1>13, <1>14, <1>15, <1>16, <1>17, <1>18, <1>19, <1>20 DEF Next, Work, Call

LEMMA TypeInvariant == Spec => []TypeInv
  BY TypeInit, TypeNext, PTL DEF Spec

(* The disk, the driver's RAM and the histories keep their types.            *)
THEOREM TypesHold == Spec => []TypeOK
  <1>1. TypeInv => TypeOK
    BY DEF TypeInv
  <1> QED
    BY <1>1, TypeInvariant, PTL

-----------------------------------------------------------------------------
(* The two copies of the FAT.  Every write to the first copy is followed by  *)
(* the same write to the second one, and by nothing in between.              *)

IsCopy(w, k) == w.to = "fat" /\ w.copy = k
Mate(w) == [to |-> "fat", copy |-> 1, cluster |-> w.cluster, value |-> w.value]
Balanced(s) ==
    \A i \in 1..Len(s) :
      /\ s[i].to \in {"fat", "data"}
      /\ IsCopy(s[i], 0) => i + 1 <= Len(s) /\ s[i + 1] = Mate(s[i])
      /\ IsCopy(s[i], 1) => i > 1 /\ IsCopy(s[i - 1], 0)

LEMMA BalancedEmpty == Balanced(<<>>)
  BY DEF Balanced

LEMMA BalancedEntry ==
    ASSUME NEW c, NEW v
    PROVE  Balanced(WriteEntry(c, v))
  <1> DEFINE s == WriteEntry(c, v)
  <1>1. /\ Len(s) = 2
        /\ s[1] = [to |-> "fat", copy |-> 0, cluster |-> c, value |-> v]
        /\ s[2] = [to |-> "fat", copy |-> 1, cluster |-> c, value |-> v]
    BY DEF WriteEntry
  <1> HIDE DEF s
  <1>2. Balanced(s)
    <2>1. \A i \in 1..Len(s) : i = 1 \/ i = 2
      BY <1>1
    <2> QED
      BY <1>1, <2>1 DEF Balanced, IsCopy, Mate
  <1> QED
    BY <1>2 DEF s

LEMMA BalancedData ==
    ASSUME NEW s, \A i \in 1..Len(s) : s[i].to = "data"
    PROVE  Balanced(s)
  BY DEF Balanced, IsCopy

LEMMA BalancedConcat ==
    ASSUME NEW S, NEW s \in Seq(S), NEW t \in Seq(S), Balanced(s), Balanced(t)
    PROVE  Balanced(s \o t)
  <1> DEFINE r == s \o t
  <1>1. /\ r \in Seq(S) /\ Len(r) = Len(s) + Len(t) /\ Len(s) \in Nat /\ Len(t) \in Nat
        /\ \A i \in 1..Len(r) : r[i] = IF i <= Len(s) THEN s[i] ELSE t[i - Len(s)]
    BY ConcatProperties, LenProperties
  <1> HIDE DEF r
  <1>2. ASSUME NEW i \in 1..Len(r)
        PROVE  /\ r[i].to \in {"fat", "data"}
               /\ IsCopy(r[i], 0) => i + 1 <= Len(r) /\ r[i + 1] = Mate(r[i])
               /\ IsCopy(r[i], 1) => i > 1 /\ IsCopy(r[i - 1], 0)
    <2>1. CASE i <= Len(s)
      <3>1. i \in 1..Len(s) /\ r[i] = s[i]
        BY <1>1, <2>1
      <3>2. /\ s[i].to \in {"fat", "data"}
            /\ IsCopy(s[i], 0) => i + 1 <= Len(s) /\ s[i + 1] = Mate(s[i])
            /\ IsCopy(s[i], 1) => i > 1 /\ IsCopy(s[i - 1], 0)
        BY <3>1 DEF Balanced
      <3>3. i + 1 <= Len(s) => r[i + 1] = s[i + 1]
        BY <1>1, <2>1
      <3>4. i > 1 => r[i - 1] = s[i - 1]
        BY <1>1, <2>1
      <3> QED
        BY <1>1, <3>1, <3>2, <3>3, <3>4
    <2>2. CASE ~(i <= Len(s))
      <3> DEFINE j == i - Len(s)
      <3>1. j \in 1..Len(t) /\ r[i] = t[j]
        BY <1>1, <2>2
      <3>2. j + 1 <= Len(t) => i + 1 <= Len(r) /\ r[i + 1] = t[j + 1]
        <4>1. j + 1 <= Len(t) => i + 1 \in 1..Len(r) /\ ~(i + 1 <= Len(s))
          BY <1>1, <2>2
        <4>2. i + 1 - Len(s) = j + 1
          BY <1>1
        <4> QED
          BY <1>1, <4>1, <4>2
      <3>3. j > 1 => i > 1 /\ r[i - 1] = t[j - 1]
        <4>1. j > 1 => i - 1 \in 1..Len(r) /\ ~(i - 1 <= Len(s))
          BY <1>1, <2>2
        <4>2. i - 1 - Len(s) = j - 1
          BY <1>1
        <4> QED
          BY <1>1, <4>1, <4>2
      <3> HIDE DEF j
      <3>4. /\ t[j].to \in {"fat", "data"}
            /\ IsCopy(t[j], 0) => j + 1 <= Len(t) /\ t[j + 1] = Mate(t[j])
            /\ IsCopy(t[j], 1) => j > 1 /\ IsCopy(t[j - 1], 0)
        BY <3>1 DEF Balanced
      <3> QED
        BY <3>1, <3>2, <3>3, <3>4
    <2> QED
      BY <2>1, <2>2
  <1>3. Balanced(r)
    BY <1>2 DEF Balanced
  <1> QED
    BY <1>3 DEF r

(* Without its first write, when that is not to the FAT, or without its      *)
(* first two, when they are the two halves of a FAT entry.                   *)
LEMMA BalancedTail ==
    ASSUME NEW S, NEW s \in Seq(S), s # <<>>, Balanced(s), ~IsCopy(s[1], 0)
    PROVE  Balanced(Tail(s))
  <1> DEFINE t == Tail(s)
  <1>1. /\ Len(s) \in Nat \ {0} /\ Len(t) = Len(s) - 1
        /\ \A i \in 1..Len(t) : t[i] = s[i + 1]
    BY HeadTailProperties, EmptySeq, LenProperties
  <1> HIDE DEF t
  <1>2. ASSUME NEW i \in 1..Len(t)
        PROVE  /\ t[i].to \in {"fat", "data"}
               /\ IsCopy(t[i], 0) => i + 1 <= Len(t) /\ t[i + 1] = Mate(t[i])
               /\ IsCopy(t[i], 1) => i > 1 /\ IsCopy(t[i - 1], 0)
    <2>1. i + 1 \in 1..Len(s) /\ i \in 1..Len(s) /\ t[i] = s[i + 1]
      BY <1>1
    <2>2. /\ s[i + 1].to \in {"fat", "data"}
          /\ IsCopy(s[i + 1], 0) => i + 2 <= Len(s) /\ s[i + 2] = Mate(s[i + 1])
          /\ IsCopy(s[i + 1], 1) => IsCopy(s[i], 0)
      <3>1. i + 1 + 1 = i + 2 /\ i + 1 - 1 = i
        OBVIOUS
      <3> QED
        BY <2>1, <3>1 DEF Balanced
    <2>3. i + 2 <= Len(s) => i + 1 <= Len(t) /\ t[i + 1] = s[i + 2]
      <3>1. i + 2 <= Len(s) => i + 1 \in 1..Len(t)
        BY <1>1
      <3>2. i + 1 + 1 = i + 2
        OBVIOUS
      <3> QED
        BY <1>1, <3>1, <3>2
    <2>4. IsCopy(s[i], 0) => i > 1
      BY <2>1
    <2>5. i > 1 => t[i - 1] = s[i]
      <3>1. i > 1 => i - 1 \in 1..Len(t)
        BY <1>1
      <3>2. i - 1 + 1 = i
        OBVIOUS
      <3> QED
        BY <1>1, <3>1, <3>2
    <2> QED
      BY <2>1, <2>2, <2>3, <2>4, <2>5
  <1>3. Balanced(t)
    BY <1>2 DEF Balanced
  <1> QED
    BY <1>3 DEF t

LEMMA BalancedTailOfEntry ==
    ASSUME NEW S, NEW s \in Seq(S), s # <<>>, Balanced(s), IsCopy(s[1], 0)
    PROVE  /\ Tail(s) # <<>> /\ Head(Tail(s)) = Mate(s[1])
           /\ Balanced(Tail(Tail(s)))
  <1> DEFINE u == Tail(s)
             t == Tail(u)
  <1>1. /\ Len(s) \in Nat \ {0} /\ u \in Seq(S) /\ Len(u) = Len(s) - 1
        /\ \A i \in 1..Len(u) : u[i] = s[i + 1]
    BY HeadTailProperties, EmptySeq, LenProperties
  <1>2. 2 <= Len(s) /\ s[2] = Mate(s[1])
    <2>1. 1 \in 1..Len(s) /\ 1 + 1 = 2
      BY <1>1
    <2> QED
      BY <2>1 DEF Balanced
  <1>3. u # <<>> /\ Head(u) = Mate(s[1])
    <2>1. 1 \in 1..Len(u) /\ 1 + 1 = 2
      BY <1>1, <1>2
    <2>2. u # <<>> /\ Head(u) = u[1]
      <3> HIDE DEF u
      <3> QED
        BY <1>1, <2>1, EmptySeq
    <2> HIDE DEF u
    <2> QED
      BY <1>1, <1>2, <2>1, <2>2
  <1>4. /\ Len(t) = Len(u) - 1
        /\ \A i \in 1..Len(t) : t[i] = u[i + 1]
    <2> HIDE DEF u
    <2> QED
      BY <1>1, <1>3, HeadTailProperties, LenProperties
  <1> HIDE DEF t, u
  <1>5. /\ Len(t) = Len(s) - 2
        /\ \A i \in 1..Len(t) : t[i] = s[i + 2]
    <2>1. Len(t) = Len(s) - 2
      BY <1>1, <1>4
    <2>2. ASSUME NEW i \in 1..Len(t)
          PROVE  t[i] = s[i + 2]
      <3>1. i + 1 \in 1..Len(u) /\ i + 1 + 1 = i + 2
        BY <1>1, <2>1
      <3> QED
        BY <1>1, <1>4, <3>1
    <2> QED
      BY <2>1, <2>2
  <1>6. ASSUME NEW i \in 1..Len(t)
        PROVE  /\ t[i].to \in {"fat", "data"}
               /\ IsCopy(t[i], 0) => i + 1 <= Len(t) /\ t[i + 1] = Mate(t[i])
               /\ IsCopy(t[i], 1) => i > 1 /\ IsCopy(t[i - 1], 0)
    <2>1. i + 2 \in 1..Len(s) /\ i + 1 \in 1..Len(s) /\ t[i] = s[i + 2]
      BY <1>1, <1>5
    <2>2. /\ s[i + 2].to \in {"fat", "data"}
          /\ IsCopy(s[i + 2], 0) => i + 3 <= Len(s) /\ s[i + 3] = Mate(s[i + 2])
          /\ IsCopy(s[i + 2], 1) => IsCopy(s[i + 1], 0)
      <3>1. i + 2 + 1 = i + 3 /\ i + 2 - 1 = i + 1
        OBVIOUS
      <3> QED
        BY <2>1, <3>1 DEF Balanced
    <2>3. i + 3 <= Len(s) => i + 1 <= Len(t) /\ t[i + 1] = s[i + 3]
      <3>1. i + 3 <= Len(s) => i + 1 \in 1..Len(t)
        BY <1>1, <1>5
      <3>2. i + 1 + 2 = i + 3
        OBVIOUS
      <3> QED
        BY <1>1, <1>5, <3>1, <3>2
    <2>4. IsCopy(s[i + 1], 0) => i > 1
      <3>1. ~IsCopy(s[2], 0)
        BY <1>2 DEF IsCopy, Mate
      <3>2. i = 1 => i + 1 = 2
        OBVIOUS
      <3> QED
        BY <2>1, <3>1, <3>2
    <2>5. i > 1 => t[i - 1] = s[i + 1]
      <3>1. i > 1 => i - 1 \in 1..Len(t)
        BY <1>1, <1>5
      <3>2. i - 1 + 2 = i + 1
        OBVIOUS
      <3> QED
        BY <1>5, <3>1, <3>2
    <2> QED
      BY <2>1, <2>2, <2>3, <2>4, <2>5
  <1>7. Balanced(t)
    BY <1>6 DEF Balanced
  <1> QED
    BY <1>3, <1>7 DEF t, u

(* The sequences the operations issue. *)
LEMMA BalancedLinks ==
    ASSUME NEW c \in Seq(Cluster)
    PROVE  Balanced(LinkWrites(c))
  <1> DEFINE s == LinkWrites(c)
             n == 2 * (Len(c) - 1)
             W(j) == [to |-> "fat", copy |-> (j + 1) % 2, cluster |-> c[(j + 1) \div 2],
                      value |-> c[((j + 1) \div 2) + 1]]
  <1>1. CASE Len(c) = 0
    <2>1. s = <<>>
      <3>1. 1..n = {}
        BY <1>1
      <3> QED
        BY <3>1 DEF LinkWrites
    <2> QED
      BY <2>1, BalancedEmpty
  <1>2. CASE Len(c) # 0
    <2>1. Len(c) \in Nat /\ n \in Nat
      BY <1>2, LenProperties
    <2>2. Len(s) = n /\ \A j \in 1..n : s[j] = W(j)
      BY <2>1 DEF LinkWrites
    <2> HIDE DEF s
    <2>3. ASSUME NEW j \in 1..n
          PROVE  /\ s[j].to \in {"fat", "data"}
                 /\ IsCopy(s[j], 0) => j + 1 <= n /\ s[j + 1] = Mate(s[j])
                 /\ IsCopy(s[j], 1) => j > 1 /\ IsCopy(s[j - 1], 0)
      <3>1. s[j] = W(j)
        BY <2>2
      <3>2. IsCopy(s[j], 0) => (j + 1) % 2 = 0
        BY <3>1 DEF IsCopy
      <3>3. IsCopy(s[j], 1) => (j + 1) % 2 = 1
        BY <3>1 DEF IsCopy
      <3>4. ASSUME (j + 1) % 2 = 0
            PROVE  j + 1 <= n /\ s[j + 1] = Mate(s[j])
        <4>1. j + 1 \in 1..n
          BY <2>1, <3>4
        <4>2. (j + 1 + 1) % 2 = 1 /\ (j + 1 + 1) \div 2 = (j + 1) \div 2
          BY <2>1, <3>4
        <4>3. s[j + 1] = W(j + 1)
          BY <2>2, <4>1
        <4> QED
          BY <3>1, <4>1, <4>2, <4>3 DEF Mate
      <3>5. ASSUME (j + 1) % 2 = 1
            PROVE  j > 1 /\ IsCopy(s[j - 1], 0)
        <4>1. j > 1 /\ j - 1 \in 1..n /\ (j - 1 + 1) % 2 = 0
          BY <2>1, <3>5
        <4>2. s[j - 1] = W(j - 1)
          BY <2>2, <4>1
        <4> QED
          BY <4>1, <4>2 DEF IsCopy
      <3> QED
        BY <3>1, <3>2, <3>3, <3>4, <3>5
    <2> HIDE DEF n, W
    <2>4. Balanced(s)
      BY <2>2, <2>3 DEF Balanced
    <2> QED
      BY <2>4 DEF s
  <1> QED
    BY <1>1, <1>2

LEMMA BalancedWrites ==
    /\ \A c, v : Balanced(WriteCluster(c, v))
    /\ \A image \in Seq(Sector) : \A clusters : Balanced(SaveWrites(image, clusters))
    /\ \A c \in Seq(Cluster) : \A blocks : Balanced(BlockWrites(c, blocks))
  <1>1. ASSUME NEW c, NEW v
        PROVE  Balanced(WriteCluster(c, v))
    BY BalancedData DEF WriteCluster
  <1>2. ASSUME NEW image \in Seq(Sector), NEW clusters
        PROVE  Balanced(SaveWrites(image, clusters))
    <2>1. /\ Len(SaveWrites(image, clusters)) = Len(image)
          /\ \A i \in 1..Len(image) : SaveWrites(image, clusters)[i].to = "data"
      BY LenProperties DEF SaveWrites
    <2> QED
      BY <2>1, BalancedData
  <1>3. ASSUME NEW c \in Seq(Cluster), NEW blocks
        PROVE  Balanced(BlockWrites(c, blocks))
    <2>1. /\ Len(BlockWrites(c, blocks)) = Len(c)
          /\ \A i \in 1..Len(c) : BlockWrites(c, blocks)[i].to = "data"
      BY LenProperties DEF BlockWrites
    <2> QED
      BY <2>1, BalancedData
  <1> QED
    BY <1>1, <1>2, <1>3

LEMMA BalancedExtension ==
    ASSUME NEW c \in Cluster, NEW last \in Cluster
    PROVE  Balanced(ExtensionWrites(c, last))
  <1>1. /\ WriteEntry(c, EOC) \in Seq(Write) /\ Balanced(WriteEntry(c, EOC))
        /\ WriteEntry(last, c) \in Seq(Write) /\ Balanced(WriteEntry(last, c))
    BY WriteEntryType, BalancedEntry DEF FatValue
  <1> DEFINE zero == WriteCluster(c, DirSector(ZeroSector))
  <1>2. zero \in Seq(Write) /\ Balanced(zero)
    BY SectorTypes, DirSectorType, WriteClusterType, BalancedWrites
  <1> HIDE DEF zero
  <1>3. /\ WriteEntry(c, EOC) \o zero \in Seq(Write)
        /\ Balanced(WriteEntry(c, EOC) \o zero)
    BY <1>1, <1>2, ConcatProperties, BalancedConcat
  <1>4. /\ (WriteEntry(c, EOC) \o zero) \o WriteEntry(last, c) \in Seq(Write)
        /\ Balanced((WriteEntry(c, EOC) \o zero) \o WriteEntry(last, c))
    BY <1>1, <1>3, ConcatProperties, BalancedConcat
  <1>5. Balanced(((WriteEntry(c, EOC) \o zero) \o WriteEntry(last, c)) \o WriteEntry(c, EOC))
    BY <1>1, <1>4, BalancedConcat
  <1> QED
    BY <1>5 DEF ExtensionWrites, zero

-----------------------------------------------------------------------------
(* How many entries differ.                                                  *)

DifferOf(f, m) == {c \in Cluster : f[c] # m[c]}
Differ == DifferOf(fat, mirror)

LEMMA ClustersFinite ==
    ASSUME NEW S \in SUBSET Cluster
    PROVE  IsFiniteSet(S) /\ Cardinality(S) \in Nat
  <1>1. 2 \in Int /\ LastCluster \in Int
    BY SlotAssumption DEF SlotAssumption, LastCluster
  <1>2. IsFiniteSet(Cluster)
    BY <1>1, FS_Interval DEF Cluster
  <1> QED
    BY <1>2, FS_Subset, FS_CardinalityType

LEMMA CardinalityDrops ==
    ASSUME NEW S \in SUBSET Cluster, NEW T \in SUBSET S, NEW x
    PROVE  /\ Cardinality(T) <= Cardinality(S)
           /\ Cardinality(S) <= Cardinality(S \ {x}) + 1
  <1>1. IsFiniteSet(S) /\ Cardinality(S) \in Nat
    BY ClustersFinite
  <1>2. Cardinality(T) <= Cardinality(S)
    BY <1>1, FS_Subset
  <1>3. Cardinality(S) <= Cardinality(S \ {x}) + 1
    <2>1. S \ {x} \in SUBSET Cluster
      OBVIOUS
    <2>2. Cardinality(S \ {x}) \in Nat
      BY <2>1, ClustersFinite
    <2>3. CASE x \in S
      <3>1. Cardinality(S \ {x}) = Cardinality(S) - 1
        BY <1>1, <2>3, FS_RemoveElement
      <3> QED
        BY <1>1, <2>2, <3>1
    <2>4. CASE x \notin S
      <3>1. S \ {x} = S
        BY <2>4
      <3> QED
        BY <1>1, <3>1
    <2> QED
      BY <2>3, <2>4
  <1> QED
    BY <1>2, <1>3

-----------------------------------------------------------------------------
(* The invariant.  While the driver computes, it has no write pending.  The  *)
(* pending writes are balanced, or the first of them is the second half of   *)
(* an entry whose first half is on the disk.  Formatting, which writes whole *)
(* copies, is followed write by write.                                       *)

Quiet == pc \in {"off", "idle", "place", "extend", "fail"} => io = <<>>

Whole == Balanced(io) /\ Cardinality(Differ) <= cuts
Halfway ==
    /\ io # <<>> /\ IsCopy(Head(io), 1) /\ Balanced(Tail(io))
    /\ fat[Head(io).cluster] = Head(io).value
    /\ Cardinality(Differ \ {Head(io).cluster}) <= cuts

Rest(k) == SubSeq(FormatWrites, k, 6)
Formatting ==
    \/ boot = "blank" /\ fat = mirror /\ io = FormatWrites
    \/ /\ boot = "fat32"
       /\ \E k \in 2..7 :
            /\ io = Rest(k)
            /\ k \in {2, 4, 6, 7} => fat = mirror
            /\ k = 3 => fat = [c \in Cluster |-> 0]
            /\ k = 5 => fat = [mirror EXCEPT ![Root] = EOC]

MirrorInv ==
    /\ Quiet
    /\ "format" \notin torn =>
         /\ boot = "blank" => pc \in {"off", "format"} /\ fat = mirror
         /\ pc = "format" => Formatting
         /\ Mounted => Whole \/ Halfway

LEMMA CutsNatural ==
    ASSUME TypeInv
    PROVE  cuts \in Nat
  <1>1. cuts \in 0..MaxCuts
    BY DEF TypeInv, TypeOK
  <1> QED
    BY <1>1, Bounds

LEMMA SameCopies ==
    ASSUME TypeInv, fat = mirror
    PROVE  Cardinality(Differ) <= cuts
  <1>1. Differ = {}
    BY DEF Differ, DifferOf
  <1> QED
    BY <1>1, CutsNatural, FS_EmptySet

LEMMA MirrorInit == TypeInv /\ Init => MirrorInv
  BY DEF Init, MirrorInv, Quiet, Mounted

(* What the driver computes between its writes. *)
LEMMA Computes ==
    ASSUME TypeInv, MirrorInv, io = <<>>, Balanced(io'),
           UNCHANGED <<boot, fat, mirror, cuts, torn>>,
           pc \notin {"off", "format"}, pc' \notin {"off", "format"},
           pc' \in {"idle", "place", "extend", "fail"} => io' = <<>>
    PROVE  MirrorInv'
  <1>1. Quiet'
    BY DEF Quiet
  <1>2. ASSUME "format" \notin torn
        PROVE  boot # "blank" /\ Whole'
    <2>1. boot = "fat32" /\ boot # "blank"
      BY <1>2 DEF MirrorInv, TypeInv, TypeOK
    <2>2. Cardinality(Differ) <= cuts
      BY <1>2, <2>1 DEF MirrorInv, Mounted, Whole, Halfway
    <2>3. Differ' = Differ
      BY DEF Differ
    <2> QED
      BY <2>1, <2>2, <2>3 DEF Whole
  <1> QED
    BY <1>1, <1>2 DEF MirrorInv

(* ata_write_sector, for an operation on a formatted disk. *)
LEMMA MirrorWrite ==
    ASSUME TypeInv, Whole \/ Halfway, DiskWrite
    PROVE  boot' = boot /\ (Whole' \/ Halfway')
  <1> DEFINE w == Head(io)
  <1>1. /\ io \in Seq(Write) /\ io # <<>> /\ io' = Tail(io)
        /\ fat' = Written(fat, 0, w) /\ mirror' = Written(mirror, 1, w)
        /\ cuts' = cuts
        /\ boot' = IF w.to = "boot" THEN "fat32" ELSE boot
        /\ fat \in [Cluster -> FatValue] /\ mirror \in [Cluster -> FatValue]
    BY DEF DiskWrite, TypeInv, TypeOK
  <1>2. w \in Write /\ w = io[1] /\ 1 \in 1..Len(io)
    BY <1>1, HeadTailProperties, EmptySeq, LenProperties
  <1> HIDE DEF w
  <1>3. w.to = "fat" => w.cluster \in Cluster /\ (w.copy = 0 \/ w.copy = 1)
    BY <1>2 DEF Write
  <1>4. CASE Whole
    <2>1. w.to \in {"fat", "data"} /\ ~IsCopy(w, 1)
      BY <1>2, <1>4 DEF Whole, Balanced
    <2>2. CASE w.to = "data"
      <3>1. fat' = fat /\ mirror' = mirror /\ boot' = boot
        BY <1>1, <2>2 DEF Written
      <3>2. Balanced(io')
        BY <1>1, <1>2, <1>4, <2>2, BalancedTail DEF Whole, IsCopy
      <3> QED
        BY <1>1, <1>4, <3>1, <3>2 DEF Whole, Differ
    <2>3. CASE w.to = "fat"
      <3>1. IsCopy(w, 0)
        BY <1>3, <2>1, <2>3 DEF IsCopy
      <3>2. /\ fat' = [fat EXCEPT ![w.cluster] = w.value]
            /\ mirror' = mirror /\ boot' = boot
        BY <1>1, <3>1 DEF Written, IsCopy
      <3>3. io' # <<>> /\ Head(io') = Mate(w) /\ Balanced(Tail(io'))
        BY <1>1, <1>2, <1>4, <3>1, BalancedTailOfEntry DEF Whole
      <3>4. /\ IsCopy(Head(io'), 1) /\ Head(io').cluster = w.cluster
            /\ Head(io').value = w.value
        BY <3>3 DEF IsCopy, Mate
      <3>5. fat'[w.cluster] = w.value
        BY <1>1, <1>3, <2>3, <3>2
      <3>6. Cardinality(Differ' \ {w.cluster}) <= cuts
        <4>1. Differ' \ {w.cluster} = Differ \ {w.cluster}
          BY <1>1, <3>2 DEF Differ, DifferOf
        <4>2. Differ \in SUBSET Cluster /\ Differ \ {w.cluster} \in SUBSET Differ
          BY DEF Differ, DifferOf
        <4>3. Cardinality(Differ \ {w.cluster}) <= Cardinality(Differ)
          BY <4>2, CardinalityDrops
        <4>4. Differ \ {w.cluster} \in SUBSET Cluster
          BY <4>2
        <4>5. /\ Cardinality(Differ) \in Nat /\ Cardinality(Differ \ {w.cluster}) \in Nat
              /\ cuts \in Nat
          BY <4>2, <4>4, ClustersFinite, CutsNatural
        <4> QED
          BY <1>4, <4>1, <4>3, <4>5 DEF Whole
      <3> QED
        BY <1>1, <3>2, <3>3, <3>4, <3>5, <3>6 DEF Halfway
    <2> QED
      BY <2>1, <2>2, <2>3
  <1>5. CASE Halfway
    <2>1. /\ IsCopy(w, 1) /\ Balanced(io') /\ fat[w.cluster] = w.value
          /\ Cardinality(Differ \ {w.cluster}) <= cuts
      BY <1>1, <1>5 DEF Halfway, w
    <2>2. /\ fat' = fat /\ boot' = boot
          /\ mirror' = [mirror EXCEPT ![w.cluster] = w.value]
      BY <1>1, <2>1 DEF Written, IsCopy
    <2>3. Differ' = Differ \ {w.cluster}
      BY <1>1, <1>3, <2>1, <2>2 DEF Differ, DifferOf, IsCopy
    <2> QED
      BY <1>1, <2>1, <2>2, <2>3 DEF Whole
  <1> QED
    BY <1>4, <1>5

(* format_fs, write by write. *)
LEMMA FormatSequence ==
    /\ FormatWrites = Rest(1)
    /\ Len(FormatWrites) = 6
    /\ FormatWrites[1] = [to |-> "boot"]
    /\ FormatWrites[2] = [to |-> "zero", copy |-> 0]
    /\ FormatWrites[3] = [to |-> "zero", copy |-> 1]
    /\ FormatWrites[4] = [to |-> "fat", copy |-> 0, cluster |-> Root, value |-> EOC]
    /\ FormatWrites[5] = [to |-> "fat", copy |-> 1, cluster |-> Root, value |-> EOC]
    /\ FormatWrites[6] = [to |-> "data", cluster |-> Root, value |-> DirSector(RootSector)]
  <1> DEFINE head == << [to |-> "boot"], [to |-> "zero", copy |-> 0],
                        [to |-> "zero", copy |-> 1] >>
             root == WriteCluster(Root, DirSector(RootSector))
             entry == WriteEntry(Root, EOC)
             s == (head \o entry) \o root
  <1>1. FormatWrites = s
    BY DEF FormatWrites
  <1>2. /\ head \in Seq({head[1], head[2], head[3]}) /\ Len(head) = 3
        /\ entry \in Seq({entry[1], entry[2]}) /\ Len(entry) = 2
        /\ root \in Seq({root[1]}) /\ Len(root) = 1
    BY DEF WriteEntry, WriteCluster
  <1>3. /\ entry[1] = [to |-> "fat", copy |-> 0, cluster |-> Root, value |-> EOC]
        /\ entry[2] = [to |-> "fat", copy |-> 1, cluster |-> Root, value |-> EOC]
        /\ root[1] = [to |-> "data", cluster |-> Root, value |-> DirSector(RootSector)]
    BY DEF WriteEntry, WriteCluster
  <1>4. /\ head[1] = [to |-> "boot"]
        /\ head[2] = [to |-> "zero", copy |-> 0]
        /\ head[3] = [to |-> "zero", copy |-> 1]
    OBVIOUS
  <1>5. FormatWrites \in Seq(Write)
    BY FormatWritesType
  <1> HIDE DEF head, entry, root
  <1> DEFINE S == {head[1], head[2], head[3], entry[1], entry[2], root[1]}
  <1>6. head \in Seq(S) /\ entry \in Seq(S) /\ root \in Seq(S)
    BY <1>2
  <1>7. /\ Len(s) = 6
        /\ s[1] = head[1] /\ s[2] = head[2] /\ s[3] = head[3]
        /\ s[4] = entry[1] /\ s[5] = entry[2] /\ s[6] = root[1]
    <2> HIDE DEF S
    <2>1. /\ head \o entry \in Seq(S) /\ Len(head \o entry) = 5
          /\ \A i \in 1..5 : (head \o entry)[i] = IF i <= 3 THEN head[i] ELSE entry[i - 3]
      <3>1. /\ head \o entry \in Seq(S) /\ Len(head \o entry) = Len(head) + Len(entry)
            /\ \A i \in 1..(Len(head) + Len(entry)) :
                  (head \o entry)[i] = IF i <= Len(head) THEN head[i] ELSE entry[i - Len(head)]
        BY <1>6, ConcatProperties
      <3>2. Len(head) + Len(entry) = 5 /\ Len(head) = 3
        BY <1>2
      <3> QED
        BY <3>1, <3>2
    <2>2. /\ Len(s) = 6
          /\ \A i \in 1..6 : s[i] = IF i <= 5 THEN (head \o entry)[i] ELSE root[i - 5]
      <3> DEFINE five == head \o entry
      <3>1. five \in Seq(S) /\ Len(five) = 5
        BY <2>1
      <3> HIDE DEF five
      <3>2. /\ Len(five \o root) = Len(five) + Len(root)
            /\ \A i \in 1..(Len(five) + Len(root)) :
                  (five \o root)[i] = IF i <= Len(five) THEN five[i] ELSE root[i - Len(five)]
        BY <1>6, <3>1, ConcatProperties
      <3>3. Len(five) + Len(root) = 6
        BY <1>2, <3>1
      <3>4. /\ Len(five \o root) = 6
            /\ \A i \in 1..6 :
                  (five \o root)[i] = IF i <= 5 THEN five[i] ELSE root[i - 5]
        BY <3>1, <3>2, <3>3
      <3> QED
        BY <3>4 DEF five
    <2> HIDE DEF s
    <2>3. s[1] = head[1] /\ s[2] = head[2] /\ s[3] = head[3]
      BY <2>1, <2>2
    <2>4. s[4] = entry[1] /\ s[5] = entry[2] /\ s[6] = root[1]
      BY <2>1, <2>2
    <2> QED
      BY <2>2, <2>3, <2>4
  <1>8. FormatWrites = Rest(1)
    <2>1. Len(FormatWrites) = 6
      BY <1>1, <1>7
    <2>2. SubSeq(FormatWrites, 1, Len(FormatWrites)) = FormatWrites
      BY <1>5, SubSeqFull
    <2> QED
      BY <2>1, <2>2 DEF Rest
  <1> HIDE DEF s
  <1> QED
    BY <1>1, <1>3, <1>4, <1>7, <1>8

LEMMA RestSteps ==
    ASSUME NEW k \in 1..7
    PROVE  /\ k < 7 => /\ Rest(k) # <<>> /\ Head(Rest(k)) = FormatWrites[k]
                       /\ Tail(Rest(k)) = Rest(k + 1)
           /\ k = 7 => Rest(k) = <<>>
  <1>1. FormatWrites \in Seq(Write) /\ Len(FormatWrites) = 6
    BY FormatWritesType, FormatSequence
  <1>2. CASE k < 7
    <2>1. k \in 1..Len(FormatWrites) /\ 6 \in k..Len(FormatWrites)
      BY <1>1, <1>2
    <2>2. Rest(k) # <<>>
      <3>1. \A i \in k..6 : FormatWrites[i] \in Write
        <4>1. \A i \in k..6 : i \in 1..Len(FormatWrites)
          BY <1>1
        <4> QED
          BY <1>1, <4>1, ElementOfSeq
      <3>2. Rest(k) \in Seq(Write) /\ Len(Rest(k)) = 6 - k + 1
        <4>1. k \in Int /\ 6 \in Int /\ k <= 6
          BY <1>2
        <4> QED
          BY <3>1, <4>1, SubSeqProperties DEF Rest
      <3>3. 6 - k + 1 # 0
        BY <1>2
      <3> QED
        BY <3>2, <3>3, EmptySeq
    <2>3. Head(Rest(k)) = FormatWrites[k]
      BY <1>1, <2>1, HeadTailOfSubSeq DEF Rest
    <2>4. Tail(Rest(k)) = Rest(k + 1)
      BY <1>1, <2>1, HeadTailOfSubSeq DEF Rest
    <2> QED
      BY <1>2, <2>2, <2>3, <2>4
  <1>3. CASE k = 7
    BY <1>1, <1>3, SubSeqEmpty DEF Rest
  <1> QED
    BY <1>2, <1>3

(* ata_write_sector, while the disk is being formatted. *)
LEMMA FormatWrite ==
    ASSUME TypeInv, Formatting, DiskWrite
    PROVE  boot' = "fat32" /\ Formatting'
  <1> DEFINE w == Head(io)
  <1>1. /\ io' = Tail(io)
        /\ fat' = Written(fat, 0, w) /\ mirror' = Written(mirror, 1, w)
        /\ boot' = IF w.to = "boot" THEN "fat32" ELSE boot
        /\ io # <<>>
    BY DEF DiskWrite
  <1>2. PICK k \in 1..6 :
          /\ io = Rest(k)
          /\ k = 1 => boot = "blank"
          /\ k # 1 => boot = "fat32"
          /\ k \in {1, 2, 4, 6} => fat = mirror
          /\ k = 3 => fat = [c \in Cluster |-> 0]
          /\ k = 5 => fat = [mirror EXCEPT ![Root] = EOC]
    <2>1. CASE boot = "blank" /\ fat = mirror /\ io = FormatWrites
      BY <2>1, FormatSequence
    <2>2. CASE boot # "blank"
      <3>1. /\ boot = "fat32"
            /\ \E k \in 2..7 :
                 /\ io = Rest(k)
                 /\ k \in {2, 4, 6, 7} => fat = mirror
                 /\ k = 3 => fat = [c \in Cluster |-> 0]
                 /\ k = 5 => fat = [mirror EXCEPT ![Root] = EOC]
        BY <2>2 DEF Formatting
      <3>2. Rest(7) = <<>>
        BY RestSteps
      <3> QED
        BY <1>1, <3>1, <3>2
    <2> QED
      BY <2>1, <2>2 DEF Formatting
  <1>3. w = FormatWrites[k] /\ io' = Rest(k + 1)
    <2>1. k \in 1..7 /\ k < 7
      OBVIOUS
    <2>2. Head(Rest(k)) = FormatWrites[k] /\ Tail(Rest(k)) = Rest(k + 1)
      BY <2>1, RestSteps
    <2> QED
      BY <1>1, <1>2, <2>2
  <1> HIDE DEF w
  <1>4. k + 1 \in 2..7
    OBVIOUS
  <1>5. CASE k = 1
    <2>1. w.to = "boot"
      BY <1>3, <1>5, FormatSequence
    <2>2. boot' = "fat32" /\ fat' = mirror'
      BY <1>1, <1>2, <1>5, <2>1 DEF Written
    <2>3. k + 1 = 2
      BY <1>5
    <2> QED
      BY <1>3, <2>2, <2>3 DEF Formatting
  <1>6. CASE k = 2
    <2>1. w.to = "zero" /\ w.copy = 0
      BY <1>3, <1>6, FormatSequence
    <2>2. boot' = "fat32" /\ fat' = [c \in Cluster |-> 0]
      BY <1>1, <1>2, <1>6, <2>1 DEF Written
    <2>3. k + 1 = 3
      BY <1>6
    <2> QED
      BY <1>3, <2>2, <2>3 DEF Formatting
  <1>7. CASE k = 3
    <2>1. w.to = "zero" /\ w.copy = 1
      BY <1>3, <1>7, FormatSequence
    <2>2. boot' = "fat32" /\ fat' = mirror'
      BY <1>1, <1>2, <1>7, <2>1 DEF Written
    <2>3. k + 1 = 4
      BY <1>7
    <2> QED
      BY <1>3, <2>2, <2>3 DEF Formatting
  <1>8. CASE k = 4
    <2>1. w.to = "fat" /\ w.copy = 0 /\ w.cluster = Root /\ w.value = EOC
      BY <1>3, <1>8, FormatSequence
    <2>2. boot' = "fat32" /\ fat' = [mirror' EXCEPT ![Root] = EOC]
      BY <1>1, <1>2, <1>8, <2>1 DEF Written
    <2>3. k + 1 = 5
      BY <1>8
    <2> QED
      BY <1>3, <2>2, <2>3 DEF Formatting
  <1>9. CASE k = 5
    <2>1. w.to = "fat" /\ w.copy = 1 /\ w.cluster = Root /\ w.value = EOC
      BY <1>3, <1>9, FormatSequence
    <2>2. boot' = "fat32" /\ fat' = mirror'
      BY <1>1, <1>2, <1>9, <2>1 DEF Written
    <2>3. k + 1 = 6
      BY <1>9
    <2> QED
      BY <1>3, <2>2, <2>3 DEF Formatting
  <1>10. CASE k = 6
    <2>1. w.to = "data"
      BY <1>3, <1>10, FormatSequence
    <2>2. boot' = "fat32" /\ fat' = mirror'
      BY <1>1, <1>2, <1>10, <2>1 DEF Written
    <2>3. k + 1 = 7
      BY <1>10
    <2> QED
      BY <1>3, <2>2, <2>3 DEF Formatting
  <1> QED
    BY <1>5, <1>6, <1>7, <1>8, <1>9, <1>10

(* A format with no write left has made the two copies equal. *)
LEMMA FormatComplete ==
    ASSUME Formatting, io = <<>>
    PROVE  boot = "fat32" /\ fat = mirror
  <1>1. \A k \in 1..6 : Rest(k) # <<>>
    <2>1. \A k \in 1..6 : k \in 1..7 /\ k < 7
      OBVIOUS
    <2> QED
      BY <2>1, RestSteps
  <1>2. FormatWrites # <<>>
    BY <1>1, FormatSequence
  <1> QED
    BY <1>1, <1>2 DEF Formatting

LEMMA MirrorNext == TypeInv /\ MirrorInv /\ [Next]_vars => MirrorInv'
  <1> SUFFICES ASSUME TypeInv, MirrorInv, [Next]_vars PROVE MirrorInv'
    OBVIOUS
  <1>1. CASE DiskWrite
    <2>1. /\ io # <<>> /\ pc' = pc /\ torn' = torn
          /\ pc \notin {"off", "idle", "place", "extend", "fail"}
      BY <1>1 DEF DiskWrite, MirrorInv, Quiet
    <2>2. Quiet'
      BY <2>1 DEF Quiet
    <2>3. ASSUME "format" \notin torn, pc = "format"
          PROVE  boot' = "fat32" /\ Formatting'
      BY <1>1, <2>3, FormatWrite DEF MirrorInv
    <2>4. ASSUME "format" \notin torn, pc # "format"
          PROVE  boot' # "blank" /\ (Whole' \/ Halfway')
      <3>1. boot = "fat32"
        BY <2>1, <2>4 DEF MirrorInv, TypeInv, TypeOK
      <3>2. Whole \/ Halfway
        BY <2>4, <3>1 DEF MirrorInv, Mounted
      <3> QED
        BY <1>1, <3>1, <3>2, MirrorWrite
    <2> QED
      BY <2>1, <2>2, <2>3, <2>4 DEF MirrorInv, Mounted
  <1>2. CASE FormatDone
    <2>1. /\ pc = "format" /\ pc' = "idle" /\ io = <<>> /\ io' = io
          /\ UNCHANGED <<boot, fat, mirror, cuts, torn>>
      BY <1>2 DEF FormatDone, disk
    <2>2. Quiet'
      BY <2>1 DEF Quiet
    <2>3. ASSUME "format" \notin torn
          PROVE  boot' # "blank" /\ Whole'
      <3>1. boot = "fat32" /\ fat = mirror
        BY <2>1, <2>3, FormatComplete DEF MirrorInv
      <3>2. Cardinality(Differ) <= cuts /\ Differ' = Differ
        BY <2>1, <3>1, SameCopies DEF Differ
      <3> QED
        BY <2>1, <3>1, <3>2, BalancedEmpty DEF Whole
    <2> QED
      BY <2>1, <2>2, <2>3 DEF MirrorInv
  <1>3. CASE AllocCluster
    <2>1. Balanced(io') /\ pc = "alloc" /\ pc' = pc /\ io = <<>>
      BY <1>3, BalancedEntry DEF AllocCluster
    <2> QED
      BY <1>3, <2>1, Computes DEF AllocCluster, disk
  <1>4. CASE AllocFails
    <2>1. /\ io = <<>> /\ io' = <<>> /\ pc = "alloc" /\ pc' \in {"idle", "abort"}
          /\ UNCHANGED <<boot, fat, mirror, cuts, torn>>
      BY <1>4 DEF AllocFails, Finish, disk
    <2> QED
      BY <2>1, BalancedEmpty, Computes
  <1>5. CASE WriteContents
    <2>1. /\ io = <<>> /\ pc = "alloc" /\ pc' = "name"
          /\ UNCHANGED <<boot, fat, mirror, cuts, torn>>
      BY <1>5 DEF WriteContents, disk
    <2>2. Balanced(io')
      <3>1. CASE op.kind = "mkdir"
        BY <1>5, <3>1, BalancedWrites DEF WriteContents
      <3>2. CASE op.kind # "mkdir"
        <4>1. chain \in Seq(Cluster) /\ op.blocks \in Seq(Block)
          <5>1. op.blocks \in Contents \cup {<<>>} /\ chain \in Seq(Cluster)
            BY DEF TypeInv, TypeOK
          <5>2. Contents \subseteq Seq(Block) /\ <<>> \in Seq(Block)
            BY Bounds
          <5> QED
            BY <5>1, <5>2
        <4>2. Len(op.blocks) = Len(chain)
          BY <1>5, <3>2 DEF WriteContents, Needed
        <4>3. /\ LinkWrites(chain) \in Seq(Write) /\ BlockWrites(chain, op.blocks) \in Seq(Write)
              /\ Balanced(LinkWrites(chain)) /\ Balanced(BlockWrites(chain, op.blocks))
          BY <4>1, <4>2, LinkWritesType, BlockWritesType, BalancedLinks, BalancedWrites
        <4>4. Balanced(LinkWrites(chain) \o BlockWrites(chain, op.blocks))
          BY <4>3, BalancedConcat
        <4> QED
          BY <1>5, <3>2, <4>4 DEF WriteContents
      <3> QED
        BY <3>1, <3>2
    <2> QED
      BY <2>1, <2>2, Computes
  <1>6. CASE ChooseShort
    <2>1. /\ io = <<>> /\ io' = io /\ pc = "name" /\ pc' = "search"
          /\ UNCHANGED <<boot, fat, mirror, cuts, torn>>
      BY <1>6 DEF ChooseShort, disk
    <2> QED
      BY <2>1, BalancedEmpty, Computes
  <1>7. CASE SearchRun
    <2>1. /\ io = <<>> /\ io' = io
          /\ pc \in {"search", "retry"} /\ pc' \in {"place", "extend", "fail"}
          /\ UNCHANGED <<boot, fat, mirror, cuts, torn>>
      BY <1>7 DEF SearchRun, disk
    <2> QED
      BY <2>1, BalancedEmpty, Computes
  <1>8. CASE PlaceEntry
    <2>1. /\ pc = "place" /\ pc' = "save" /\ io = <<>>
          /\ UNCHANGED <<boot, fat, mirror, cuts, torn>>
      BY <1>8 DEF PlaceEntry, MirrorInv, Quiet, disk
    <2>2. img' \in Seq(Sector)
      <3>1. TypeInv'
        BY <1>8, TypeNext DEF Next, Work
      <3> QED
        BY <3>1 DEF TypeInv, TypeOK
    <2>3. Balanced(io')
      BY <1>8, <2>2, BalancedWrites DEF PlaceEntry
    <2> QED
      BY <2>1, <2>3, Computes
  <1>9. CASE ExtendDir
    <2>1. /\ pc = "extend" /\ pc' = "retry" /\ io = <<>>
          /\ UNCHANGED <<boot, fat, mirror, cuts, torn>>
      BY <1>9 DEF ExtendDir, MirrorInv, Quiet, disk
    <2>2. FoundFree \in Cluster /\ dirc[Len(dirc)] \in Cluster
      BY <1>9, FoundFreeType, Ends DEF ExtendDir, TypeInv, TypeOK, Loaded
    <2>3. Balanced(io')
      BY <1>9, <2>2, BalancedExtension DEF ExtendDir
    <2> QED
      BY <2>1, <2>3, Computes
  <1>10. CASE InsertFails
    <2>1. /\ pc \in {"fail", "extend"} /\ pc' \in {"idle", "abort"} /\ io = <<>> /\ io' = <<>>
          /\ UNCHANGED <<boot, fat, mirror, cuts, torn>>
      BY <1>10 DEF InsertFails, Finish, MirrorInv, Quiet, disk
    <2> QED
      BY <2>1, BalancedEmpty, Computes
  <1>11. CASE FreeCluster
    <2>1. /\ pc \in {"free", "abort"} /\ pc' = pc /\ io = <<>>
          /\ UNCHANGED <<boot, fat, mirror, cuts, torn>>
      BY <1>11 DEF FreeCluster, disk
    <2>2. Balanced(io')
      BY <1>11, BalancedEntry DEF FreeCluster
    <2> QED
      BY <2>1, <2>2, Computes
  <1>12. CASE MarkEntry
    <2>1. /\ pc = "free" /\ pc' = "save" /\ io = <<>>
          /\ UNCHANGED <<boot, fat, mirror, cuts, torn>>
      BY <1>12 DEF MarkEntry, disk
    <2>2. img' \in Seq(Sector)
      BY <1>12, MarkDeletedType DEF MarkEntry, TypeInv, TypeOK
    <2>3. Balanced(io')
      BY <1>12, <2>2, BalancedWrites DEF MarkEntry
    <2> QED
      BY <2>1, <2>3, Computes
  <1>13. CASE Return
    <2>1. /\ pc \in {"save", "abort"} /\ pc' = "idle" /\ io = <<>> /\ io' = <<>>
          /\ UNCHANGED <<boot, fat, mirror, cuts, torn>>
      BY <1>13 DEF Return, Finish, disk
    <2> QED
      BY <2>1, BalancedEmpty, Computes
  <1>14. CASE Call
    <2>1. /\ pc = "idle" /\ pc' \in {"idle", "name", "alloc", "free"}
          /\ io = <<>> /\ io' = io
          /\ UNCHANGED <<boot, fat, mirror, cuts, torn>>
      BY <1>14 DEF Call, CreateFile, CreateDir, DeleteFile, ChangeDir, MirrorInv, Quiet, disk, ram
    <2> QED
      BY <2>1, BalancedEmpty, Computes
  <1>15. CASE Boot
    <2>1. /\ pc = "off" /\ io = <<>>
          /\ IF boot = "blank" THEN pc' = "format" /\ io' = FormatWrites
             ELSE pc' = "idle" /\ io' = io
          /\ UNCHANGED <<boot, fat, mirror, cuts, torn>>
      BY <1>15 DEF Boot, MirrorInv, Quiet, disk
    <2>2. Quiet'
      BY <2>1 DEF Quiet
    <2>3. CASE boot = "blank"
      <3>1. "format" \notin torn => Formatting'
        BY <2>1, <2>3 DEF MirrorInv, Formatting
      <3> QED
        BY <2>1, <2>2, <2>3, <3>1 DEF MirrorInv, Mounted
    <2>4. CASE boot # "blank"
      <3>1. (Whole => Whole') /\ ~Halfway
        BY <2>1, <2>4 DEF Whole, Halfway, Differ
      <3>2. ASSUME "format" \notin torn
            PROVE  Whole'
        BY <2>1, <2>4, <3>1, <3>2 DEF MirrorInv, Mounted, TypeInv, TypeOK
      <3> QED
        BY <2>1, <2>2, <2>4, <3>2 DEF MirrorInv
    <2> QED
      BY <2>3, <2>4
  <1>16. CASE PowerCut
    <2>1. /\ pc # "off" /\ pc' = "off" /\ io' = <<>> /\ cuts' = cuts + 1
          /\ torn' = torn \cup HalfDone
          /\ UNCHANGED <<boot, fat, mirror>>
      BY <1>16 DEF PowerCut, disk
    <2>2. Quiet'
      BY <2>1 DEF Quiet
    <2>3. "format" \notin torn' => "format" \notin torn /\ ~FormatHalfDone
      BY <2>1 DEF HalfDone
    <2>4. ASSUME "format" \notin torn', boot = "fat32"
          PROVE  Whole'
      <3>1. Differ' = Differ /\ cuts \in Nat /\ Differ \in SUBSET Cluster
        BY <2>1, CutsNatural DEF Differ, DifferOf
      <3>2. Cardinality(Differ) \in Nat
        BY <3>1, ClustersFinite
      <3>3. Cardinality(Differ) <= cuts + 1
        <4>1. CASE pc = "format"
          <5>1. io = <<>> /\ Formatting
            BY <2>3, <2>4, <4>1 DEF FormatHalfDone, MirrorInv
          <5>2. Cardinality(Differ) <= cuts
            BY <5>1, FormatComplete, SameCopies
          <5> QED
            BY <3>1, <3>2, <5>2
        <4>2. CASE pc # "format"
          <5>1. Whole \/ Halfway
            BY <2>3, <2>4, <4>2 DEF MirrorInv, Mounted
          <5>2. CASE Whole
            BY <3>1, <3>2, <5>2 DEF Whole
          <5>3. CASE Halfway
            <6> DEFINE c == Head(io).cluster
            <6>1. Cardinality(Differ \ {c}) <= cuts
              BY <5>3 DEF Halfway
            <6> HIDE DEF c
            <6>2. Cardinality(Differ) <= Cardinality(Differ \ {c}) + 1
              BY <3>1, CardinalityDrops
            <6>3. Differ \ {c} \in SUBSET Cluster
              BY <3>1
            <6>4. Cardinality(Differ \ {c}) \in Nat
              BY <6>3, ClustersFinite
            <6> QED
              BY <3>1, <3>2, <6>1, <6>2, <6>4
          <5> QED
            BY <5>1, <5>2, <5>3
        <4> QED
          BY <4>1, <4>2
      <3> QED
        BY <2>1, <3>1, <3>3, BalancedEmpty DEF Whole
    <2>5. "format" \notin torn' /\ boot = "blank" => fat = mirror
      BY <2>3 DEF MirrorInv
    <2> QED
      BY <2>1, <2>2, <2>4, <2>5 DEF MirrorInv, Mounted
  <1>17. CASE UNCHANGED vars
    <2>1. UNCHANGED <<boot, fat, mirror, pc, io, cuts, torn>>
      BY <1>17 DEF vars, disk, ram
    <2> QED
      BY <2>1 DEF MirrorInv, Quiet, Formatting, Mounted, Whole, Halfway, Differ
  <1> QED
    BY <1>1, <1>2, <1>3, <1>4, <1>5, <1>6, <1>7, <1>8, <1>9, <1>10, <1>11, <1>12,
       <1>13, <1>14, <1>15, <1>16, <1>17 DEF Next, Work

(* The invariant says what MirrorLags says. *)
LEMMA MirrorMeaning == TypeInv /\ MirrorInv => MirrorLags
  <1> SUFFICES ASSUME TypeInv, MirrorInv, Mounted, "format" \notin torn
               PROVE  Cardinality(Differ)
                        <= cuts + (IF io # <<>> /\ Head(io).to = "fat" /\ Head(io).copy = 1
                                   THEN 1 ELSE 0)
    BY DEF MirrorLags, Differ, DifferOf
  <1>1. cuts \in Nat /\ Differ \in SUBSET Cluster
    BY CutsNatural DEF Differ, DifferOf
  <1>2. Cardinality(Differ) \in Nat
    BY <1>1, ClustersFinite
  <1>3. CASE Whole
    BY <1>1, <1>2, <1>3 DEF Whole
  <1>4. CASE Halfway
    <2> DEFINE c == Head(io).cluster
    <2>1. Cardinality(Differ \ {c}) <= cuts
      BY <1>4 DEF Halfway
    <2> HIDE DEF c
    <2>2. Cardinality(Differ) <= Cardinality(Differ \ {c}) + 1
      BY <1>1, CardinalityDrops
    <2>3. Differ \ {c} \in SUBSET Cluster
      BY <1>1
    <2>4. Cardinality(Differ \ {c}) \in Nat
      BY <2>3, ClustersFinite
    <2>5. Cardinality(Differ) <= cuts + 1
      BY <1>1, <1>2, <2>1, <2>2, <2>4
    <2> QED
      BY <1>4, <2>5 DEF Halfway, IsCopy
  <1> QED
    BY <1>3, <1>4 DEF MirrorInv

(* However the power fails, the two copies of the FAT differ in at most one  *)
(* entry for each time it did, and in the one being written now.             *)
THEOREM MirrorsAgree == Spec => []MirrorLags
  <1>1. Init => TypeInv /\ MirrorInv
    BY TypeInit, MirrorInit
  <1>2. (TypeInv /\ MirrorInv) /\ [Next]_vars => (TypeInv /\ MirrorInv)'
    BY TypeNext, MirrorNext
  <1>3. TypeInv /\ MirrorInv => MirrorLags
    BY MirrorMeaning
  <1> QED
    BY <1>1, <1>2, <1>3, PTL DEF Spec

-----------------------------------------------------------------------------
(* The slots of an image, by sector and by number.                           *)

SlotNo == 1..ENTRIES_PER_SECTOR

LEMMA PositionParts ==
    ASSUME NEW E \in Nat \ {0}, NEW n \in Nat, NEW k \in 1..n, NEW e \in 1..E,
           NEW i, i = (k - 1) * E + e
    PROVE  /\ i \in 1..(n * E)
           /\ (i - 1) \div E = k - 1
           /\ (i - 1) % E = e - 1
  <1> DEFINE x == i - 1
             q == x \div E
             r == x % E
  <1>1. x \in Nat /\ (k - 1) * E \in Nat /\ i \in Int
    <2>1. k - 1 \in Nat
      BY SMT
    <2>2. (k - 1) * E \in Nat
      BY <2>1, SMT
    <2> QED
      BY <2>2, SMT
  <1>2. q \in Int /\ r \in Int /\ r >= 0 /\ r < E /\ x = q * E + r
    BY <1>1, SMT
  <1>3. x = (k - 1) * E + (e - 1) /\ e - 1 >= 0 /\ e - 1 < E
    BY <1>1, SMT
  <1> HIDE DEF x, q, r
  <1>4. q = k - 1
    <2>1. CASE q > k - 1
      <3>1. q * E >= k * E
        BY <1>2, <2>1, SMT
      <3>2. k * E = (k - 1) * E + E
        BY SMT
      <3> QED
        BY <1>1, <1>2, <1>3, <3>1, <3>2, SMT
    <2>2. CASE q < k - 1
      <3>1. (q + 1) * E <= (k - 1) * E
        BY <1>2, <2>2, SMT
      <3>2. (q + 1) * E = q * E + E
        BY <1>2, SMT
      <3> QED
        BY <1>1, <1>2, <1>3, <3>1, <3>2, SMT
    <2> QED
      BY <1>2, <2>1, <2>2, SMT
  <1>5. r = e - 1
    BY <1>1, <1>2, <1>3, <1>4, SMT
  <1>6. k * E <= n * E /\ k * E = (k - 1) * E + E /\ n * E \in Nat
    BY SMT
  <1>7. i \in 1..(n * E)
    BY <1>1, <1>6, SMT
  <1> QED
    BY <1>4, <1>5, <1>7 DEF x, q, r

LEMMA PositionAt ==
    ASSUME NEW image \in Seq(Sector), NEW k \in 1..Len(image), NEW e \in SlotNo
    PROVE  /\ Position(k, e) \in 1..Capacity(image)
           /\ At(image, Position(k, e)) = image[k][e]
  <1>1. ENTRIES_PER_SECTOR \in Nat \ {0} /\ Len(image) \in Nat
    BY SlotAssumption, LenProperties DEF SlotAssumption
  <1> DEFINE i == Position(k, e)
  <1>2. i = (k - 1) * ENTRIES_PER_SECTOR + e
    BY DEF Position
  <1> HIDE DEF i
  <1>3. /\ i \in 1..(Len(image) * ENTRIES_PER_SECTOR)
        /\ (i - 1) \div ENTRIES_PER_SECTOR = k - 1
        /\ (i - 1) % ENTRIES_PER_SECTOR = e - 1
    BY <1>1, <1>2, PositionParts DEF SlotNo
  <1>4. (k - 1) + 1 = k /\ (e - 1) + 1 = e
    BY <1>1, SMT DEF SlotNo
  <1>5. i \in 1..Capacity(image) /\ At(image, i) = image[k][e]
    BY <1>3, <1>4 DEF Capacity, At
  <1> QED
    BY <1>5 DEF i

LEMMA PositionsApart ==
    ASSUME NEW k \in Nat \ {0}, NEW m \in Nat \ {0}, NEW e \in SlotNo, NEW i \in SlotNo,
           Position(k, e) = Position(m, i)
    PROVE  k = m /\ e = i
  <1>1. ENTRIES_PER_SECTOR \in Nat \ {0} /\ k \in 1..k /\ m \in 1..m
    BY SlotAssumption, SMT DEF SlotAssumption
  <1> DEFINE p == Position(k, e)
  <1>2. p = (k - 1) * ENTRIES_PER_SECTOR + e /\ p = (m - 1) * ENTRIES_PER_SECTOR + i
    BY DEF Position
  <1> HIDE DEF p
  <1>3. (p - 1) \div ENTRIES_PER_SECTOR = k - 1 /\ (p - 1) % ENTRIES_PER_SECTOR = e - 1
    BY <1>1, <1>2, PositionParts DEF SlotNo
  <1>4. (p - 1) \div ENTRIES_PER_SECTOR = m - 1 /\ (p - 1) % ENTRIES_PER_SECTOR = i - 1
    BY <1>1, <1>2, PositionParts DEF SlotNo
  <1>5. k - 1 = m - 1 /\ e - 1 = i - 1
    BY <1>3, <1>4
  <1> QED
    BY <1>1, <1>5, SMT DEF SlotNo

LEMMA SlotPlace ==
    ASSUME NEW image \in Seq(Sector), NEW i \in 1..Capacity(image)
    PROVE  \E k \in 1..Len(image), e \in SlotNo : Position(k, e) = i
  <1>1. ENTRIES_PER_SECTOR \in Nat \ {0} /\ Len(image) \in Nat
    BY SlotAssumption, LenProperties DEF SlotAssumption
  <1> DEFINE k == ((i - 1) \div ENTRIES_PER_SECTOR) + 1
             e == ((i - 1) % ENTRIES_PER_SECTOR) + 1
  <1>2. k \in 1..Len(image) /\ e \in SlotNo
    BY <1>1, SlotIndex DEF Capacity, SlotNo
  <1>3. Position(k, e) = i
    <2> DEFINE q == (i - 1) \div ENTRIES_PER_SECTOR
               r == (i - 1) % ENTRIES_PER_SECTOR
    <2>1. i \in Nat /\ i - 1 = q * ENTRIES_PER_SECTOR + r /\ q \in Int /\ r \in Int
      <3>1. i \in Nat /\ i - 1 \in Nat
        BY <1>1, SMT DEF Capacity
      <3> QED
        BY <1>1, <3>1, SMT
    <2>2. k = q + 1 /\ e = r + 1
      OBVIOUS
    <2> HIDE DEF q, r, k, e
    <2>3. k - 1 = q
      BY <2>1, <2>2, SMT
    <2>4. q * ENTRIES_PER_SECTOR \in Int
      BY <1>1, <2>1, SMT
    <2>5. q * ENTRIES_PER_SECTOR + e = i
      BY <2>1, <2>2, <2>4, SMT
    <2> QED
      BY <2>3, <2>5 DEF Position
  <1> HIDE DEF k, e
  <1> QED
    BY <1>2, <1>3

(* What an insertion and a deletion leave in each slot. *)
LEMMA InsertSlots ==
    ASSUME NEW image \in Seq(Sector), NEW run \in Nat, NEW name \in Seq(Piece), NEW entry,
           NEW k \in 1..Len(image), NEW e \in SlotNo
    PROVE  LET n == LfnCount(entry.short, name)
               s == Insert(image, run, name, entry)[k][e]
               i == Position(k, e)
           IN  /\ i = run + n => s = entry
               /\ i \in run..(run + n - 1) => s.tag = "lfn"
               /\ i \notin run..(run + n) => s = image[k][e]
  <1> DEFINE n == LfnCount(entry.short, name)
             i == Position(k, e)
             New == IF i \in run..(run + n - 1)
                    THEN Lfn(name[i - run + 1], n - (i - run), Checksum[entry.short])
                    ELSE IF i = run + n THEN entry ELSE image[k][e]
  <1>1. n \in Nat
    BY LfnCountType
  <1>2. i \in Nat
    BY PositionAt, CapacityType
  <1>3. Insert(image, run, name, entry)[k][e] = New
    BY DEF Insert, MapSlots, SlotNo
  <1> HIDE DEF n, i
  <1>4. i = run + n => i \notin run..(run + n - 1)
    BY <1>1, <1>2, SMT
  <1>5. i \notin run..(run + n) => i \notin run..(run + n - 1) /\ i # run + n
    BY <1>1, <1>2, SMT
  <1>6. i \in run..(run + n - 1) => New.tag = "lfn"
    BY DEF Lfn
  <1>7. /\ i = run + n => New = entry
        /\ i \notin run..(run + n) => New = image[k][e]
    BY <1>4, <1>5
  <1> QED
    BY <1>3, <1>6, <1>7 DEF n, i

LEMMA DeleteSlots ==
    ASSUME NEW image \in Seq(Sector), NEW idx \in 1..Capacity(image),
           NEW k \in 1..Len(image), NEW e \in SlotNo
    PROVE  LET s == MarkDeleted(image, idx)[k][e]
               i == Position(k, e)
           IN  /\ i = idx => s.tag = "del"
               /\ i # idx => s = image[k][e] \/ (s.tag = "del" /\ HasLfnAttr(image[k][e]))
  <1> DEFINE i == Position(k, e)
             old == image[k][e]
             New == IF i \in LfnSetOf(image, idx) THEN Deleted(HasLfnAttr(old)) ELSE old
  <1>1. i \in 1..Capacity(image) /\ At(image, i) = old
    BY PositionAt
  <1>2. MarkDeleted(image, idx)[k][e] = New
    BY DEF MarkDeleted, MapSlots, SlotNo
  <1>3. idx \in Nat /\ i \in Nat
    BY <1>1, CapacityType
  <1> HIDE DEF i, old
  <1>4. i = idx => i \in LfnSetOf(image, idx)
    BY <1>1, <1>3, SMT DEF LfnSetOf
  <1>5. i \in LfnSetOf(image, idx) /\ i # idx => HasLfnAttr(old)
    <2> SUFFICES ASSUME i \in LfnSetOf(image, idx), i # idx PROVE HasLfnAttr(old)
      OBVIOUS
    <2>1. i \in 1..idx /\ \A m \in i..(idx - 1) : HasLfnAttr(At(image, m))
      BY DEF LfnSetOf
    <2>2. i \in i..(idx - 1)
      BY <1>3, <2>1, SMT
    <2> QED
      BY <1>1, <2>1, <2>2
  <1>6. i \in LfnSetOf(image, idx) => New.tag = "del"
    BY DEF Deleted
  <1> QED
    BY <1>2, <1>4, <1>5, <1>6 DEF i, old
-----------------------------------------------------------------------------
(* The disk as a whole: what is said of a FAT f and a data region d.         *)

Region == [Cluster -> SectorData]
Table32 == [Cluster -> FatValue]
Spot == Cluster \X SlotNo

(* The entries the directory sectors show, read off the data region alone.   *)
Shown(d) == {p \in Spot : IsVisible(EntryOf(d, p))}
Begins(d, c) == \E p \in Shown(d) : EntryOf(d, p).cluster = c
Parents(d) ==
    {Root} \cup {EntryOf(d, p).cluster : p \in {q \in Shown(d) : EntryOf(d, q).tag = "dir"}}

(* The clusters of directories, L, and all others are two worlds: no link    *)
(* leads from one to the other, entries are in the first one only.           *)
TwoWorlds(L, f, d) ==
    /\ Root \in L /\ L \subseteq Cluster
    /\ \A c \in Cluster : f[c] \in Cluster => (c \in L <=> f[c] \in L)
    /\ \A c \in L : f[c] # 0 /\ d[c].tag = "dir"
    /\ \A p \in Shown(d) :
          p[1] \in L /\ (EntryOf(d, p).tag = "dir" <=> EntryOf(d, p).cluster \in L)
    /\ \A p \in L \X SlotNo :
          EntryOf(d, p).tag = "dotdot" => EntryOf(d, p).cluster \in Parents(d)

(* No cluster belongs to two chains.                                         *)
Disjoint(f, d) ==
    /\ \A p, q \in Shown(d) :
          p # q /\ EntryOf(d, p).cluster = EntryOf(d, q).cluster => EntryOf(d, p).cluster = 0
    /\ \A c, e \in Cluster : f[c] \in Cluster /\ f[c] = f[e] => c = e
    /\ \A c \in Cluster : f[c] \in Cluster => ~Begins(d, f[c]) /\ f[c] # Root
    /\ ~Begins(d, Root)

(* Entries, but those in X, and links lead to clusters in use.               *)
Leads(f, d, X) ==
    /\ \A p \in Shown(d) \ X : EntryOf(d, p).cluster # 0 => f[EntryOf(d, p).cluster] # 0
    /\ \A c \in Cluster : f[c] \in Cluster => f[f[c]] # 0

DiskAt(L, f, d, X) == TwoWorlds(L, f, d) /\ Disjoint(f, d) /\ Leads(f, d, X)

(* Slots that lead somewhere, and slots that do not differ in that.          *)
Solid(s) == s.tag \in {"file", "dir", "dotdot"}
Agree(s, t) == s = t \/ (~Solid(s) /\ ~Solid(t))

LEMMA Values ==
    /\ EOC \notin Cluster /\ EOC # 0 /\ 0 \notin Cluster /\ Root \in Cluster /\ Root # 0
    /\ Cluster \subseteq Nat /\ Cluster \subseteq 0..EOC
  <1>1. LastCluster \in Nat /\ LastCluster < 268435448 /\ LastCluster >= 2
    BY SlotAssumption, DiskAssumption DEF SlotAssumption, DiskAssumption, LastCluster
  <1>2. \A c \in Cluster : c \in Nat /\ c >= 2 /\ c <= LastCluster
    BY <1>1, SMT DEF Cluster
  <1>3. ASSUME NEW c \in Cluster
        PROVE  c \in 0..EOC /\ c # EOC /\ c # 0
    <2>1. c \in Nat /\ c >= 2 /\ c < 268435448
      BY <1>1, <1>2, SMT
    <2>2. c < EOC /\ EOC \in Nat
      BY <2>1, SMT DEF EOC
    <2> QED
      BY <2>1, <2>2, SMT
  <1>4. EOC # 0 /\ Root # 0
    BY SMT DEF EOC, Root
  <1> QED
    BY <1>2, <1>3, <1>4, RootIsCluster

LEMMA SlotsType ==
    ASSUME NEW s \in SectorData
    PROVE  SlotsOf(s) \in Sector
  BY SectorTypes DEF SlotsOf, SectorData, Junk

LEMMA EntryType ==
    ASSUME NEW d \in Region, NEW p \in Spot
    PROVE  /\ p[1] \in Cluster /\ p[2] \in SlotNo /\ p = <<p[1], p[2]>>
           /\ EntryOf(d, p) \in Slot
  <1>1. p[1] \in Cluster /\ p[2] \in SlotNo /\ p = <<p[1], p[2]>>
    BY DEF Spot
  <1>2. d[p[1]] \in SectorData
    BY <1>1 DEF Region
  <1>3. SlotsOf(d[p[1]]) \in Sector
    BY <1>2, SlotsType
  <1> QED
    BY <1>1, <1>3 DEF EntryOf, Sector, SlotNo

LEMMA VisibleSlot ==
    ASSUME NEW s \in Slot, IsVisible(s)
    PROVE  s.tag \in {"file", "dir"} /\ s.cluster \in Cluster \cup {0} /\ Solid(s)
  BY DEF Slot, End, Volume, IsVisible, Solid

LEMMA ShownType ==
    ASSUME NEW d \in Region, NEW p \in Shown(d)
    PROVE  /\ p \in Spot /\ p[1] \in Cluster /\ p[2] \in SlotNo /\ p = <<p[1], p[2]>>
           /\ EntryOf(d, p) \in Slot
           /\ EntryOf(d, p).tag \in {"file", "dir"}
           /\ EntryOf(d, p).cluster \in Cluster \cup {0}
  <1>1. p \in Spot /\ IsVisible(EntryOf(d, p))
    BY DEF Shown
  <1>2. EntryOf(d, p) \in Slot
    BY <1>1, EntryType
  <1> QED
    BY <1>1, <1>2, EntryType, VisibleSlot

LEMMA ParentsType ==
    ASSUME NEW L, NEW f, NEW d \in Region, TwoWorlds(L, f, d)
    PROVE  Parents(d) \subseteq L /\ Parents(d) \subseteq Cluster
  BY DEF TwoWorlds, Parents

(* A write of v to the cluster c of d gives d2.                              *)
Stored(d, c, v, d2) == d2 = [d EXCEPT ![c] = v]

LEMMA EntryWrite ==
    ASSUME NEW d \in Region, NEW c \in Cluster, NEW v \in SectorData, NEW p \in Spot,
           NEW d2, Stored(d, c, v, d2)
    PROVE  /\ d2 \in Region
           /\ EntryOf(d2, p) = IF p[1] = c THEN SlotsOf(v)[p[2]] ELSE EntryOf(d, p)
  <1>1. p[1] \in Cluster
    BY EntryType
  <1> QED
    BY <1>1 DEF EntryOf, Region, Stored

(* The disk shows the same.                                                  *)
Alike(d, d2) ==
    /\ Shown(d2) = Shown(d) /\ Parents(d2) = Parents(d)
    /\ \A p \in Shown(d) : EntryOf(d2, p) = EntryOf(d, p)
    /\ \A c : Begins(d2, c) <=> Begins(d, c)

LEMMA ShowsSame ==
    ASSUME NEW L, NEW f, NEW d \in Region, NEW d2 \in Region, NEW X, DiskAt(L, f, d, X),
           \A p \in Spot : IsVisible(EntryOf(d, p)) \/ IsVisible(EntryOf(d2, p)) =>
                              EntryOf(d2, p) = EntryOf(d, p),
           \A c \in L : d2[c].tag = "dir",
           \A p \in L \X SlotNo :
              EntryOf(d2, p).tag = "dotdot" => EntryOf(d2, p) = EntryOf(d, p)
    PROVE  DiskAt(L, f, d2, X) /\ Alike(d, d2)
  <1>1. Shown(d2) = Shown(d)
    BY DEF Shown
  <1>2. \A p \in Shown(d) : EntryOf(d2, p) = EntryOf(d, p)
    BY DEF Shown
  <1>3. Parents(d2) = Parents(d)
    <2>1. {q \in Shown(d2) : EntryOf(d2, q).tag = "dir"} = {q \in Shown(d) : EntryOf(d, q).tag = "dir"}
      BY <1>1, <1>2
    <2> DEFINE Q == {q \in Shown(d) : EntryOf(d, q).tag = "dir"}
    <2>2. {EntryOf(d2, p).cluster : p \in Q} = {EntryOf(d, p).cluster : p \in Q}
      BY <1>2
    <2> QED
      BY <2>1, <2>2 DEF Parents
  <1>4. \A c : Begins(d2, c) <=> Begins(d, c)
    BY <1>1, <1>2 DEF Begins
  <1>5. TwoWorlds(L, f, d2)
    <2>1. TwoWorlds(L, f, d)
      BY DEF DiskAt
    <2>2. \A p \in Shown(d2) :
             p[1] \in L /\ (EntryOf(d2, p).tag = "dir" <=> EntryOf(d2, p).cluster \in L)
      BY <1>1, <1>2, <2>1 DEF TwoWorlds
    <2>3. \A p \in L \X SlotNo :
             EntryOf(d2, p).tag = "dotdot" => EntryOf(d2, p).cluster \in Parents(d2)
      BY <1>3, <2>1 DEF TwoWorlds
    <2> QED
      BY <2>1, <2>2, <2>3 DEF TwoWorlds
  <1>6. Disjoint(f, d2)
    BY <1>1, <1>2, <1>4 DEF DiskAt, Disjoint
  <1>7. Leads(f, d2, X)
    BY <1>1, <1>2 DEF DiskAt, Leads
  <1> QED
    BY <1>1, <1>2, <1>3, <1>4, <1>5, <1>6, <1>7 DEF DiskAt, Alike

(* Sectors outside the directories may hold anything without entries. *)
LEMMA WriteOutside ==
    ASSUME NEW L, NEW f, NEW d \in Region, NEW X, DiskAt(L, f, d, X),
           NEW c \in Cluster \ L, NEW v \in SectorData,
           \A e \in SlotNo : ~IsVisible(SlotsOf(v)[e]), NEW d2, Stored(d, c, v, d2)
    PROVE  DiskAt(L, f, d2, X) /\ Alike(d, d2)
  <1>1. TwoWorlds(L, f, d)
    BY DEF DiskAt
  <1>2. d2 \in Region
    BY DEF Region, Stored
  <1>3. \A p \in Spot : EntryOf(d2, p) = IF p[1] = c THEN SlotsOf(v)[p[2]] ELSE EntryOf(d, p)
    BY EntryWrite
  <1>4. \A x \in L : d2[x] = d[x]
    BY <1>1 DEF TwoWorlds, Region, Stored
  <1>5. ASSUME NEW p \in Spot, IsVisible(EntryOf(d, p)) \/ IsVisible(EntryOf(d2, p))
        PROVE  EntryOf(d2, p) = EntryOf(d, p)
    <2>1. CASE p[1] = c
      <3>1. p \notin Shown(d)
        BY <1>1, <2>1 DEF TwoWorlds
      <3>2. ~IsVisible(EntryOf(d, p))
        BY <3>1 DEF Shown
      <3>3. ~IsVisible(EntryOf(d2, p))
        BY <1>3, <2>1, EntryType
      <3> QED
        BY <1>5, <3>2, <3>3
    <2>2. CASE p[1] # c
      BY <1>3, <2>2
    <2> QED
      BY <2>1, <2>2
  <1>6. \A x \in L : d2[x].tag = "dir"
    BY <1>1, <1>4 DEF TwoWorlds
  <1>7. \A p \in L \X SlotNo : EntryOf(d2, p) = EntryOf(d, p)
    BY <1>4 DEF EntryOf
  <1> QED
    BY <1>2, <1>5, <1>6, <1>7, ShowsSame
-----------------------------------------------------------------------------
(* Writes of FAT entries. *)

(* What ends a chain, or marks a cluster. *)
LEMMA MarkDisk ==
    ASSUME NEW L, NEW f \in Table32, NEW d \in Region, NEW X, DiskAt(L, f, d, X),
           NEW c \in Cluster
    PROVE  DiskAt(L, [f EXCEPT ![c] = EOC], d, X)
  <1> DEFINE g == [f EXCEPT ![c] = EOC]
  <1>1. g[c] = EOC /\ \A x \in Cluster : x # c => g[x] = f[x]
    BY DEF Table32
  <1>2. \A x \in Cluster : g[x] \in Cluster => x # c /\ g[x] = f[x]
    BY <1>1, Values
  <1>3. \A x \in Cluster : f[x] # 0 => g[x] # 0
    BY <1>1, Values
  <1> HIDE DEF g
  <1>4. TwoWorlds(L, g, d)
    BY <1>2, <1>3 DEF DiskAt, TwoWorlds
  <1>5. Disjoint(g, d)
    BY <1>2 DEF DiskAt, Disjoint
  <1>6. Leads(g, d, X)
    <2>1. \A p \in Shown(d) \ X : EntryOf(d, p).cluster # 0 => g[EntryOf(d, p).cluster] # 0
      BY <1>3, ShownType DEF DiskAt, Leads
    <2>2. \A x \in Cluster : g[x] \in Cluster => g[g[x]] # 0
      BY <1>2, <1>3 DEF DiskAt, Leads
    <2> QED
      BY <2>1, <2>2 DEF Leads
  <1> QED
    BY <1>4, <1>5, <1>6 DEF DiskAt, g

(* A link to a cluster nothing else leads to, within its world. *)
LEMMA LinkDisk ==
    ASSUME NEW L, NEW f \in Table32, NEW d \in Region, NEW X, DiskAt(L, f, d, X),
           NEW c \in Cluster, NEW v \in Cluster, c \in L <=> v \in L,
           f[v] # 0, ~Begins(d, v), v # Root, \A x \in Cluster : f[x] = v => x = c
    PROVE  DiskAt(L, [f EXCEPT ![c] = v], d, X)
  <1> DEFINE g == [f EXCEPT ![c] = v]
  <1>1. g[c] = v /\ \A x \in Cluster : x # c => g[x] = f[x]
    BY DEF Table32
  <1>2. \A x \in Cluster : f[x] # 0 => g[x] # 0
    BY <1>1, Values
  <1> HIDE DEF g
  <1>3. TwoWorlds(L, g, d)
    <2>1. \A x \in Cluster : g[x] \in Cluster => (x \in L <=> g[x] \in L)
      BY <1>1 DEF DiskAt, TwoWorlds
    <2> QED
      BY <1>2, <2>1 DEF DiskAt, TwoWorlds
  <1>4. Disjoint(g, d)
    <2>1. \A x, y \in Cluster : g[x] \in Cluster /\ g[x] = g[y] => x = y
      BY <1>1 DEF DiskAt, Disjoint
    <2>2. \A x \in Cluster : g[x] \in Cluster => ~Begins(d, g[x]) /\ g[x] # Root
      BY <1>1 DEF DiskAt, Disjoint
    <2> QED
      BY <2>1, <2>2 DEF DiskAt, Disjoint
  <1>5. Leads(g, d, X)
    <2>1. \A p \in Shown(d) \ X : EntryOf(d, p).cluster # 0 => g[EntryOf(d, p).cluster] # 0
      BY <1>2, ShownType DEF DiskAt, Leads
    <2>2. \A x \in Cluster : g[x] \in Cluster => g[g[x]] # 0
      BY <1>1, <1>2 DEF DiskAt, Leads
    <2> QED
      BY <2>1, <2>2 DEF Leads
  <1> QED
    BY <1>3, <1>4, <1>5 DEF DiskAt, g

(* A cluster that can be freed: nothing leads to it. *)
Freeable(L, f, d, X, c) ==
    /\ c \in Cluster /\ c \notin L /\ f[c] # 0
    /\ \A x \in Cluster : f[x] # c
    /\ \A p \in Shown(d) \ X : EntryOf(d, p).cluster # c

LEMMA ZeroDisk ==
    ASSUME NEW L, NEW f \in Table32, NEW d \in Region, NEW X, DiskAt(L, f, d, X),
           NEW c, Freeable(L, f, d, X, c)
    PROVE  /\ DiskAt(L, [f EXCEPT ![c] = 0], d, X)
           /\ f[c] \in Cluster => Freeable(L, [f EXCEPT ![c] = 0], d, X, f[c])
  <1> DEFINE g == [f EXCEPT ![c] = 0]
  <1>0. c \in Cluster
    BY DEF Freeable
  <1>1. g[c] = 0 /\ \A x \in Cluster : x # c => g[x] = f[x]
    BY <1>0 DEF Table32
  <1>2. \A x \in Cluster : g[x] \in Cluster => x # c /\ g[x] = f[x]
    BY <1>1, Values
  <1> HIDE DEF g
  <1>3. TwoWorlds(L, g, d)
    <2>1. \A x \in L : g[x] # 0
      BY <1>1 DEF DiskAt, TwoWorlds, Freeable
    <2> QED
      BY <1>2, <2>1 DEF DiskAt, TwoWorlds
  <1>4. Disjoint(g, d)
    BY <1>2 DEF DiskAt, Disjoint
  <1>5. Leads(g, d, X)
    <2>1. \A p \in Shown(d) \ X : EntryOf(d, p).cluster # 0 => g[EntryOf(d, p).cluster] # 0
      BY <1>1, ShownType DEF DiskAt, Leads, Freeable
    <2>2. \A x \in Cluster : g[x] \in Cluster => g[g[x]] # 0
      BY <1>1, <1>2 DEF DiskAt, Leads, Freeable
    <2> QED
      BY <2>1, <2>2 DEF Leads
  <1>6. ASSUME f[c] \in Cluster
        PROVE  Freeable(L, g, d, X, f[c])
    <2>1. f[c] \notin L
      BY <1>0, <1>6 DEF DiskAt, TwoWorlds, Freeable
    <2>2. f[c] # c /\ g[f[c]] # 0
      BY <1>0, <1>1, <1>6 DEF DiskAt, Leads, Freeable
    <2>3. \A x \in Cluster : g[x] # f[c]
      <3> SUFFICES ASSUME NEW x \in Cluster, g[x] = f[c] PROVE FALSE
        OBVIOUS
      <3>1. x # c /\ f[x] = f[c]
        BY <1>2, <1>6
      <3> QED
        BY <1>0, <1>6, <3>1 DEF DiskAt, Disjoint
    <2>4. \A p \in Shown(d) : EntryOf(d, p).cluster # f[c]
      BY <1>0, <1>6 DEF DiskAt, Disjoint, Begins
    <2> QED
      BY <1>6, <2>1, <2>2, <2>3, <2>4 DEF Freeable
  <1> QED
    BY <1>3, <1>4, <1>5, <1>6 DEF DiskAt, g

(* A cluster becomes one of a directory. *)
LEMMA JoinDisk ==
    ASSUME NEW L, NEW f \in Table32, NEW d \in Region, NEW X, DiskAt(L, f, d, X),
           NEW c \in Cluster, f[c] # 0, f[c] \notin Cluster, d[c].tag = "dir",
           \A x \in Cluster : f[x] # c, ~Begins(d, c),
           \A e \in SlotNo : SlotsOf(d[c])[e].tag = "dotdot" =>
                                SlotsOf(d[c])[e].cluster \in Parents(d)
    PROVE  DiskAt(L \cup {c}, f, d, X)
  <1>1. TwoWorlds(L, f, d)
    BY DEF DiskAt
  <1>2. \A x \in Cluster : f[x] \in Cluster => (x \in L \cup {c} <=> f[x] \in L \cup {c})
    BY <1>1 DEF TwoWorlds
  <1>3. \A p \in Shown(d) :
           p[1] \in L \cup {c} /\ (EntryOf(d, p).tag = "dir" <=> EntryOf(d, p).cluster \in L \cup {c})
    BY <1>1 DEF TwoWorlds, Begins
  <1>4. \A p \in (L \cup {c}) \X SlotNo :
           EntryOf(d, p).tag = "dotdot" => EntryOf(d, p).cluster \in Parents(d)
    BY <1>1 DEF TwoWorlds, EntryOf
  <1>5. \A x \in L \cup {c} : f[x] # 0 /\ d[x].tag = "dir"
    BY <1>1 DEF TwoWorlds
  <1>6. Root \in L \cup {c} /\ L \cup {c} \subseteq Cluster
    BY <1>1 DEF TwoWorlds
  <1> QED
    BY <1>2, <1>3, <1>4, <1>5, <1>6 DEF DiskAt, TwoWorlds

-----------------------------------------------------------------------------
(* Writes of directory sectors. *)

LEMMA WriteDirectory ==
    ASSUME NEW L, NEW f, NEW d \in Region, NEW X, DiskAt(L, f, d, X),
           NEW c \in L, NEW s \in Sector,
           \A e \in SlotNo : Agree(SlotsOf(d[c])[e], s[e]),
           NEW d2, Stored(d, c, DirSector(s), d2)
    PROVE  DiskAt(L, f, d2, X) /\ Alike(d, d2)
  <1>1. TwoWorlds(L, f, d) /\ c \in Cluster
    BY DEF DiskAt, TwoWorlds
  <1>2. d2 \in Region /\ DirSector(s) \in SectorData /\ SlotsOf(DirSector(s)) = s
    BY <1>1, DirSectorType DEF Region, SlotsOf, DirSector, Stored
  <1>3. \A p \in Spot : EntryOf(d2, p) = IF p[1] = c THEN s[p[2]] ELSE EntryOf(d, p)
    BY <1>1, <1>2, EntryWrite
  <1>4. \A p \in Spot : Agree(EntryOf(d, p), EntryOf(d2, p))
    <2> TAKE p \in Spot
    <2>1. CASE p[1] = c
      BY <1>3, <2>1, EntryType DEF EntryOf
    <2>2. CASE p[1] # c
      BY <1>3, <2>2 DEF Agree
    <2> QED
      BY <2>1, <2>2
  <1>5. \A p \in Spot : /\ IsVisible(EntryOf(d, p)) => Solid(EntryOf(d, p))
                        /\ IsVisible(EntryOf(d2, p)) => Solid(EntryOf(d2, p))
    BY DEF IsVisible, Solid
  <1>6. \A p \in Spot : IsVisible(EntryOf(d, p)) \/ IsVisible(EntryOf(d2, p)) =>
                           EntryOf(d2, p) = EntryOf(d, p)
    BY <1>4, <1>5 DEF Agree
  <1>7. \A x \in L : d2[x].tag = "dir"
    BY <1>1 DEF TwoWorlds, Region, DirSector, Stored
  <1>8. \A p \in L \X SlotNo :
           EntryOf(d2, p).tag = "dotdot" => EntryOf(d2, p) = EntryOf(d, p)
    <2> TAKE p \in L \X SlotNo
    <2>1. p \in Spot
      BY <1>1 DEF Spot, TwoWorlds
    <2> QED
      BY <1>4, <2>1 DEF Agree, Solid
  <1> QED
    BY <1>2, <1>6, <1>7, <1>8, ShowsSame

(* A new entry, in a slot that led nowhere.                                  *)
Added(d, d2) == Parents(d) \subseteq Parents(d2)

LEMMA AddEntry ==
    ASSUME NEW L, NEW f \in Table32, NEW d \in Region, NEW X, DiskAt(L, f, d, X),
           NEW c \in L, NEW s \in Sector, NEW e \in SlotNo,
           ~Solid(SlotsOf(d[c])[e]),
           \A i \in SlotNo \ {e} : Agree(SlotsOf(d[c])[i], s[i]),
           IsVisible(s[e]), s[e].tag = "dir" <=> s[e].cluster \in L,
           s[e].cluster # 0 =>
              /\ f[s[e].cluster] # 0 /\ ~Begins(d, s[e].cluster) /\ s[e].cluster # Root
              /\ \A x \in Cluster : f[x] # s[e].cluster,
           NEW d2, Stored(d, c, DirSector(s), d2)
    PROVE  DiskAt(L, f, d2, X) /\ Added(d, d2)
  <1> DEFINE new == <<c, e>>
             v == s[e].cluster
  <1>1. TwoWorlds(L, f, d) /\ c \in Cluster /\ new \in Spot
    BY DEF DiskAt, TwoWorlds, Spot
  <1>2. d2 \in Region /\ DirSector(s) \in SectorData /\ SlotsOf(DirSector(s)) = s
    BY <1>1, DirSectorType DEF Region, SlotsOf, DirSector, Stored
  <1>3. \A p \in Spot : EntryOf(d2, p) = IF p[1] = c THEN s[p[2]] ELSE EntryOf(d, p)
    BY <1>1, <1>2, EntryWrite
  <1>4. \A p \in Spot : p # new => Agree(EntryOf(d, p), EntryOf(d2, p))
    <2> TAKE p \in Spot
    <2> HAVE p # new
    <2>1. CASE p[1] = c
      <3>1. p[2] \in SlotNo \ {e}
        BY <2>1, EntryType
      <3> QED
        BY <1>3, <2>1, <3>1 DEF EntryOf
    <2>2. CASE p[1] # c
      BY <1>3, <2>2 DEF Agree
    <2> QED
      BY <2>1, <2>2
  <1>5. EntryOf(d2, new) = s[e] /\ ~Solid(EntryOf(d, new))
    <2>1. new[1] = c /\ new[2] = e
      OBVIOUS
    <2> HIDE DEF new
    <2> QED
      BY <1>1, <1>3, <2>1 DEF EntryOf
  <1>6. v \in Cluster \cup {0} /\ s[e].tag \in {"file", "dir"}
    <2>1. s[e] \in Slot
      BY DEF Sector, SlotNo
    <2> QED
      BY <2>1, VisibleSlot
  <1> HIDE DEF new, v
  <1>7. \A p \in Spot : /\ IsVisible(EntryOf(d, p)) => Solid(EntryOf(d, p))
                        /\ IsVisible(EntryOf(d2, p)) => Solid(EntryOf(d2, p))
    BY DEF IsVisible, Solid
  <1>8. \A p \in Spot : p # new /\ (IsVisible(EntryOf(d, p)) \/ IsVisible(EntryOf(d2, p))) =>
                           EntryOf(d2, p) = EntryOf(d, p)
    BY <1>4, <1>7 DEF Agree
  <1>9. new \notin Shown(d) /\ IsVisible(EntryOf(d2, new))
    BY <1>5, <1>1, <1>7 DEF Shown
  <1>10. Shown(d2) = Shown(d) \cup {new}
    <2>1. ASSUME NEW p \in Spot PROVE p \in Shown(d2) <=> p \in Shown(d) \cup {new}
      BY <1>8, <1>9 DEF Shown
    <2> QED
      BY <1>1, <2>1 DEF Shown
  <1>11. \A p \in Shown(d) : p # new /\ EntryOf(d2, p) = EntryOf(d, p)
    BY <1>8, <1>9 DEF Shown
  <1>12. EntryOf(d2, new).cluster = v /\ EntryOf(d2, new).tag = s[e].tag
    BY <1>5 DEF v
  <1>13. Parents(d) \subseteq Parents(d2)
    BY <1>10, <1>11 DEF Parents
  <1>14. \A x : Begins(d2, x) <=> Begins(d, x) \/ x = v
    BY <1>10, <1>11, <1>12 DEF Begins
  <1>15. TwoWorlds(L, f, d2)
    <2>1. \A x \in L : d2[x].tag = "dir"
      BY <1>1 DEF TwoWorlds, Region, DirSector, Stored
    <2>2. new[1] = c /\ new[2] = e
      BY DEF new
    <2>3. \A p \in Shown(d2) :
             p[1] \in L /\ (EntryOf(d2, p).tag = "dir" <=> EntryOf(d2, p).cluster \in L)
      BY <1>1, <1>10, <1>11, <1>12, <2>2 DEF TwoWorlds, v
    <2>4. \A p \in L \X SlotNo :
             EntryOf(d2, p).tag = "dotdot" => EntryOf(d2, p).cluster \in Parents(d2)
      <3> SUFFICES ASSUME NEW p \in L \X SlotNo, EntryOf(d2, p).tag = "dotdot"
                   PROVE  EntryOf(d2, p).cluster \in Parents(d2)
        OBVIOUS
      <3>1. p \in Spot
        BY <1>1 DEF Spot, TwoWorlds
      <3>2. p # new
        BY <1>6, <1>12
      <3>3. EntryOf(d2, p) = EntryOf(d, p)
        BY <1>4, <3>1, <3>2 DEF Agree, Solid
      <3> QED
        BY <1>1, <1>13, <3>3 DEF TwoWorlds
    <2> QED
      BY <1>1, <2>1, <2>3, <2>4 DEF TwoWorlds
  <1>16. Disjoint(f, d2)
    <2>1. Disjoint(f, d) /\ (v # 0 => ~Begins(d, v) /\ v # Root /\ \A x \in Cluster : f[x] # v)
      BY DEF DiskAt, v
    <2>2. ASSUME NEW p \in Shown(d2), NEW q \in Shown(d2), p # q,
                 EntryOf(d2, p).cluster = EntryOf(d2, q).cluster
          PROVE  EntryOf(d2, p).cluster = 0
      <3>1. CASE p \in Shown(d) /\ q \in Shown(d)
        BY <1>11, <2>1, <2>2, <3>1 DEF Disjoint
      <3>2. CASE p = new
        <4>1. q \in Shown(d)
          BY <1>10, <2>2, <3>2
        <4> QED
          BY <1>11, <1>12, <2>1, <2>2, <3>2, <4>1 DEF Begins
      <3>3. CASE q = new
        <4>1. p \in Shown(d)
          BY <1>10, <2>2, <3>3
        <4> QED
          BY <1>11, <1>12, <2>1, <2>2, <3>3, <4>1 DEF Begins
      <3> QED
        BY <1>10, <3>1, <3>2, <3>3
    <2>3. \A x \in Cluster : f[x] \in Cluster => ~Begins(d2, f[x]) /\ f[x] # Root
      BY <1>14, <2>1, Values DEF Disjoint
    <2>4. ~Begins(d2, Root)
      BY <1>14, <2>1, Values DEF Disjoint
    <2>5. \A x, y \in Cluster : f[x] \in Cluster /\ f[x] = f[y] => x = y
      BY <2>1 DEF Disjoint
    <2> QED
      BY <2>2, <2>3, <2>4, <2>5 DEF Disjoint
  <1>17. Leads(f, d2, X)
    BY <1>10, <1>11, <1>12 DEF DiskAt, Leads, v
  <1> QED
    BY <1>13, <1>15, <1>16, <1>17 DEF DiskAt, Added

(* The entry p of a file goes. *)
Without(d, p, d2) ==
    /\ Parents(d2) = Parents(d) /\ Shown(d2) \subseteq Shown(d) /\ p \notin Shown(d2)
    /\ \A q \in Shown(d2) : EntryOf(d2, q) = EntryOf(d, q)

LEMMA RemoveEntry ==
    ASSUME NEW L, NEW f, NEW d \in Region, NEW X, DiskAt(L, f, d, X),
           NEW c \in L, NEW s \in Sector, NEW e \in SlotNo,
           SlotsOf(d[c])[e].tag = "file", ~Solid(s[e]),
           \A i \in SlotNo \ {e} : Agree(SlotsOf(d[c])[i], s[i]),
           NEW d2, Stored(d, c, DirSector(s), d2)
    PROVE  DiskAt(L, f, d2, X) /\ Without(d, <<c, e>>, d2)
  <1> DEFINE old == <<c, e>>
  <1>1. TwoWorlds(L, f, d) /\ c \in Cluster /\ old \in Spot
    BY DEF DiskAt, TwoWorlds, Spot
  <1>2. d2 \in Region /\ DirSector(s) \in SectorData /\ SlotsOf(DirSector(s)) = s
    BY <1>1, DirSectorType DEF Region, SlotsOf, DirSector, Stored
  <1>3. \A p \in Spot : EntryOf(d2, p) = IF p[1] = c THEN s[p[2]] ELSE EntryOf(d, p)
    BY <1>1, <1>2, EntryWrite
  <1>4. \A p \in Spot : p # old => Agree(EntryOf(d, p), EntryOf(d2, p))
    <2> TAKE p \in Spot
    <2> HAVE p # old
    <2>1. CASE p[1] = c
      <3>1. p[2] \in SlotNo \ {e}
        BY <2>1, EntryType
      <3> QED
        BY <1>3, <2>1, <3>1 DEF EntryOf
    <2>2. CASE p[1] # c
      BY <1>3, <2>2 DEF Agree
    <2> QED
      BY <2>1, <2>2
  <1>5. ~Solid(EntryOf(d2, old)) /\ EntryOf(d, old).tag = "file"
    <2>1. old[1] = c /\ old[2] = e
      OBVIOUS
    <2> HIDE DEF old
    <2> QED
      BY <1>1, <1>3, <2>1 DEF EntryOf
  <1> HIDE DEF old
  <1>7. \A p \in Spot : /\ IsVisible(EntryOf(d, p)) => Solid(EntryOf(d, p))
                        /\ IsVisible(EntryOf(d2, p)) => Solid(EntryOf(d2, p))
    BY DEF IsVisible, Solid
  <1>8. \A p \in Spot : p # old /\ (IsVisible(EntryOf(d, p)) \/ IsVisible(EntryOf(d2, p))) =>
                           EntryOf(d2, p) = EntryOf(d, p)
    BY <1>4, <1>7 DEF Agree
  <1>9. old \notin Shown(d2)
    BY <1>5, <1>7 DEF Shown
  <1>10. Shown(d2) = Shown(d) \ {old}
    <2>1. ASSUME NEW p \in Spot PROVE p \in Shown(d2) <=> p \in Shown(d) \ {old}
      BY <1>8, <1>9 DEF Shown
    <2> QED
      BY <1>1, <2>1 DEF Shown
  <1>11. \A p \in Shown(d2) : p # old /\ p \in Shown(d) /\ EntryOf(d2, p) = EntryOf(d, p)
    BY <1>8, <1>9, <1>10 DEF Shown
  <1>12. Parents(d2) = Parents(d)
    <2> DEFINE Q == {q \in Shown(d) : EntryOf(d, q).tag = "dir"}
    <2>1. {q \in Shown(d2) : EntryOf(d2, q).tag = "dir"} = Q
      <3>1. \A q \in Q : q # old
        BY <1>5
      <3>2. \A q \in Q : q \in Shown(d2) /\ EntryOf(d2, q) = EntryOf(d, q)
        BY <1>10, <1>11, <3>1
      <3> QED
        BY <1>11, <3>2
    <2>2. \A q \in Q : EntryOf(d2, q) = EntryOf(d, q)
      <3>1. \A q \in Q : q # old
        BY <1>5
      <3> QED
        BY <1>10, <1>11, <3>1
    <2>3. {EntryOf(d2, p).cluster : p \in Q} = {EntryOf(d, p).cluster : p \in Q}
      BY <2>2
    <2> QED
      BY <2>1, <2>3 DEF Parents
  <1>13. \A x : Begins(d2, x) => Begins(d, x)
    BY <1>11 DEF Begins
  <1>14. TwoWorlds(L, f, d2)
    <2>1. \A x \in L : d2[x].tag = "dir"
      BY <1>1 DEF TwoWorlds, Region, DirSector, Stored
    <2>2. \A p \in Shown(d2) :
             p[1] \in L /\ (EntryOf(d2, p).tag = "dir" <=> EntryOf(d2, p).cluster \in L)
      BY <1>1, <1>11 DEF TwoWorlds
    <2>3. \A p \in L \X SlotNo :
             EntryOf(d2, p).tag = "dotdot" => EntryOf(d2, p).cluster \in Parents(d2)
      <3> SUFFICES ASSUME NEW p \in L \X SlotNo, EntryOf(d2, p).tag = "dotdot"
                   PROVE  EntryOf(d2, p).cluster \in Parents(d2)
        OBVIOUS
      <3>1. p \in Spot
        BY <1>1 DEF Spot, TwoWorlds
      <3>2. p # old
        BY <1>5 DEF Solid
      <3>3. EntryOf(d2, p) = EntryOf(d, p)
        BY <1>4, <3>1, <3>2 DEF Agree, Solid
      <3> QED
        BY <1>1, <1>12, <3>3 DEF TwoWorlds
    <2> QED
      BY <1>1, <2>1, <2>2, <2>3 DEF TwoWorlds
  <1>15. Disjoint(f, d2)
    BY <1>11, <1>13 DEF DiskAt, Disjoint
  <1>16. Leads(f, d2, X)
    BY <1>11 DEF DiskAt, Leads
  <1> QED
    BY <1>9, <1>10, <1>11, <1>12, <1>14, <1>15, <1>16 DEF DiskAt, Without, old

LEMMA OtherVictims ==
    ASSUME NEW L, NEW f, NEW d, NEW X, NEW Y, DiskAt(L, f, d, X),
           \A p \in Shown(d) \ Y :
              p \notin X \/ EntryOf(d, p).cluster = 0 \/ f[EntryOf(d, p).cluster] # 0
    PROVE  DiskAt(L, f, d, Y)
  <1>1. Leads(f, d, Y)
    BY DEF DiskAt, Leads
  <1> QED
    BY <1>1 DEF DiskAt

-----------------------------------------------------------------------------
(* The chain of a directory: within its world, and without a cluster twice.  *)

LEMMA ChainSteps ==
    ASSUME NEW f, NEW c, NEW max \in Nat
    PROVE  LET s == Chain(f, c, max)
           IN  /\ Len(s) <= max
               /\ s # <<>> => s[1] = c
               /\ \A k \in 1..(Len(s) - 1) : s[k + 1] = f[s[k]]
               /\ Len(s) < max /\ s # <<>> => f[s[Len(s)]] \notin Cluster
               /\ Len(s) < max /\ s = <<>> => c \notin Cluster
  <1> DEFINE at == Walk(c, Links(f))
             Lens == {n \in 0..max : \A k \in 1..n : at[k - 1] \in Cluster}
             len == Greatest(Lens)
             s == Chain(f, c, max)
  <1>1. at = [n \in Nat |-> IF n = 0 THEN c ELSE Links(f)[at[n - 1]]]
    BY WalkExists
  <1>2. s = [k \in 1..len |-> at[k - 1]]
    BY DEF Chain
  <1>3. Lens \in SUBSET (0..max) /\ 0 \in Lens
    BY SMT
  <1>4. len \in Lens /\ \A y \in Lens : len >= y
    <2> HIDE DEF Lens
    <2> QED
      BY <1>3, GreatestInSet
  <1>5. at[0] = c
    BY <1>1
  <1>6. ASSUME NEW n \in Nat, at[n] \in Cluster
        PROVE  at[n + 1] = f[at[n]]
    <2>1. n + 1 \in Nat /\ n + 1 # 0 /\ (n + 1) - 1 = n
      OBVIOUS
    <2>2. at[n + 1] = Links(f)[at[n]]
      BY <1>1, <2>1
    <2>3. at[n] \in 0..EOC
      BY <1>6, Values
    <2> QED
      BY <1>6, <2>2, <2>3 DEF Links
  <1> HIDE DEF at, len
  <1>7. len \in Nat /\ len <= max /\ Len(s) = len
    <2>1. len \in Nat /\ len <= max
      BY <1>4
    <2> QED
      BY <1>2, <2>1, LenProperties
  <1>8. \A k \in 1..len : s[k] = at[k - 1] /\ at[k - 1] \in Cluster
    BY <1>2, <1>4
  <1>9. \A k \in 1..(len - 1) : s[k + 1] = f[s[k]]
    <2> TAKE k \in 1..(len - 1)
    <2>1. k \in 1..len /\ k + 1 \in 1..len /\ k - 1 \in Nat /\ (k + 1) - 1 = (k - 1) + 1
      BY <1>7
    <2>2. s[k] = at[k - 1] /\ at[k - 1] \in Cluster /\ s[k + 1] = at[(k - 1) + 1]
      BY <1>8, <2>1
    <2> QED
      BY <1>6, <2>1, <2>2
  <1>10. len < max => at[len] \notin Cluster
    <2> SUFFICES ASSUME len < max, at[len] \in Cluster PROVE FALSE
      OBVIOUS
    <2>1. len + 1 \in 0..max
      BY <1>7
    <2>2. \A k \in 1..(len + 1) : at[k - 1] \in Cluster
      <3> TAKE k \in 1..(len + 1)
      <3>1. CASE k \in 1..len
        BY <1>8, <3>1
      <3>2. CASE k = len + 1
        BY <1>7, <3>2
      <3> QED
        BY <1>7, <3>1, <3>2
    <2>3. len + 1 \in Lens
      BY <2>1, <2>2
    <2> QED
      BY <1>4, <1>7, <2>3
  <1>11. len # 0 => s[1] = c /\ s[len] = at[len - 1] /\ at[len] = f[s[len]]
    <2> SUFFICES ASSUME len # 0 PROVE s[1] = c /\ s[len] = at[len - 1] /\ at[len] = f[s[len]]
      OBVIOUS
    <2>1. 1 \in 1..len /\ len \in 1..len /\ len - 1 \in Nat /\ (len - 1) + 1 = len /\ 1 - 1 = 0
      BY <1>7
    <2>2. s[1] = at[0] /\ s[len] = at[len - 1] /\ at[len - 1] \in Cluster
      BY <1>8, <2>1
    <2> QED
      BY <1>5, <1>6, <2>1, <2>2
  <1>12. s = <<>> <=> len = 0
    BY <1>2, <1>7, EmptySeq
  <1> HIDE DEF s
  <1> QED
    BY <1>5, <1>7, <1>9, <1>10, <1>11, <1>12 DEF s

LEMMA ChainApart ==
    ASSUME NEW f, NEW c \in Cluster, NEW max \in Nat,
           \A x, y \in Cluster : f[x] \in Cluster /\ f[x] = f[y] => x = y,
           \A x \in Cluster : f[x] # c
    PROVE  LET s == Chain(f, c, max)
           IN  \A j, k \in 1..Len(s) : s[j] = s[k] => j = k
  <1> DEFINE s == Chain(f, c, max)
             n == Len(s)
  <1>1. s \in Seq(Cluster)
    BY ChainType
  <1>2. n \in Nat /\ \A k \in 1..n : s[k] \in Cluster
    BY <1>1, LenProperties, ElementOfSeq
  <1>3. n # 0 => s[1] = c
    BY <1>1, ChainSteps, EmptySeq
  <1>4. \A k \in 1..(n - 1) : s[k + 1] = f[s[k]]
    BY ChainSteps
  <1> HIDE DEF s, n
  <1> DEFINE Twice == {j \in Nat : \E k \in 1..n : 1 <= j /\ j < k /\ s[j] = s[k]}
  <1>5. Twice = {}
    <2> SUFFICES ASSUME Twice # {} PROVE FALSE
      OBVIOUS
    <2> DEFINE j == Least(Twice)
    <2>1. j \in Twice /\ \A y \in Twice : j <= y
      BY LeastInSet
    <2> HIDE DEF j
    <2>2. PICK k \in 1..n : 1 <= j /\ j < k /\ s[j] = s[k]
      BY <2>1
    <2>3. j \in Nat /\ k - 1 \in 1..(n - 1) /\ (k - 1) + 1 = k /\ j \in 1..n
      BY <1>2, <2>1, <2>2
    <2>4. s[k] = f[s[k - 1]] /\ s[k - 1] \in Cluster /\ s[k] \in Cluster
      BY <1>2, <1>4, <2>3
    <2>5. CASE j = 1
      <3>1. s[j] = c
        BY <1>2, <1>3, <2>3, <2>5
      <3> QED
        BY <2>2, <2>4, <3>1
    <2>6. CASE j # 1
      <3>1. j - 1 \in 1..(n - 1) /\ (j - 1) + 1 = j /\ j - 1 \in 1..n
        BY <1>2, <2>3, <2>6
      <3>2. s[j] = f[s[j - 1]] /\ s[j - 1] \in Cluster
        BY <1>2, <1>4, <3>1
      <3>3. s[j - 1] = s[k - 1]
        BY <2>2, <2>4, <3>2
      <3>4. j - 1 \in Twice
        BY <1>2, <2>2, <2>3, <3>1, <3>3
      <3> QED
        BY <2>1, <2>3, <3>4
    <2> QED
      BY <2>5, <2>6
  <1>6. ASSUME NEW j \in 1..n, NEW k \in 1..n, s[j] = s[k] PROVE j = k
    <2>1. ~(j < k)
      BY <1>2, <1>5, <1>6
    <2>2. ~(k < j)
      BY <1>2, <1>5, <1>6
    <2> QED
      BY <1>2, <2>1, <2>2
  <1> QED
    BY <1>6 DEF s, n

LEMMA DirectoryChain ==
    ASSUME NEW L, NEW f, NEW d \in Region, NEW X, DiskAt(L, f, d, X), NEW c \in Parents(d),
           NEW max \in Nat
    PROVE  LET s == Chain(f, c, max)
           IN  /\ \A k \in 1..Len(s) : s[k] \in L
               /\ \A j, k \in 1..Len(s) : s[j] = s[k] => j = k
  <1> DEFINE s == Chain(f, c, max)
             n == Len(s)
  <1>1. TwoWorlds(L, f, d) /\ Disjoint(f, d)
    BY DEF DiskAt
  <1>2. c \in Cluster /\ c \in L
    BY <1>1, ParentsType
  <1>3. \A x \in Cluster : f[x] # c
    <2>1. c = Root \/ Begins(d, c)
      BY DEF Parents, Begins
    <2> QED
      BY <1>1, <1>2, <2>1 DEF Disjoint
  <1>4. \A j, k \in 1..n : s[j] = s[k] => j = k
    BY <1>1, <1>2, <1>3, ChainApart DEF Disjoint
  <1>5. s \in Seq(Cluster)
    BY ChainType
  <1>6. n \in Nat /\ \A k \in 1..n : s[k] \in Cluster
    BY <1>5, LenProperties, ElementOfSeq
  <1>7. n # 0 => s[1] = c
    BY <1>5, ChainSteps, EmptySeq
  <1>8. \A k \in 1..(n - 1) : s[k + 1] = f[s[k]]
    BY ChainSteps
  <1> HIDE DEF s, n
  <1> DEFINE Outside == {k \in Nat : k \in 1..n /\ s[k] \notin L}
  <1>9. Outside = {}
    <2> SUFFICES ASSUME Outside # {} PROVE FALSE
      OBVIOUS
    <2> DEFINE k == Least(Outside)
    <2>1. k \in Outside /\ \A y \in Outside : k <= y
      BY LeastInSet
    <2> HIDE DEF k
    <2>2. CASE k = 1
      BY <1>2, <1>6, <1>7, <2>1, <2>2
    <2>3. CASE k # 1
      <3>1. k - 1 \in 1..(n - 1) /\ (k - 1) + 1 = k /\ k - 1 \in 1..n /\ k - 1 \in Nat /\ k \in 1..n
        BY <1>6, <2>1, <2>3
      <3>2. k - 1 \notin Outside
        BY <2>1, <3>1
      <3>3. s[k - 1] \in L /\ s[k] = f[s[k - 1]] /\ s[k] \in Cluster /\ s[k - 1] \in Cluster
        BY <1>6, <1>8, <3>1, <3>2
      <3>4. s[k] \in L
        BY <1>1, <3>3 DEF TwoWorlds
      <3> QED
        BY <2>1, <3>4
    <2> QED
      BY <2>2, <2>3
  <1>10. \A k \in 1..n : s[k] \in L
    BY <1>6, <1>9
  <1> QED
    BY <1>4, <1>10 DEF s, n
-----------------------------------------------------------------------------
(* The running operation: what it has in RAM, and what it has issued.        *)

(* The entry under deletion, by its place.                                   *)
Victim ==
    IF Deleting
    THEN {p \in Spot : \E k \in 1..Len(dirc) : p[1] = dirc[k] /\ Position(k, p[2]) = op.slot}
    ELSE {}

DiskInv(L) == DiskAt(L, fat, data, Victim) /\ cwd \in Parents(data)

(* The new chain: outside the directories, no entry names a cluster of it,   *)
(* nothing but the chain itself leads to one, and all are in use, but the    *)
(* last one before it is marked.                                             *)
Owned(L, f, d, c, marked) ==
    /\ \A k \in 1..Len(c) :
          /\ c[k] \notin L /\ ~Begins(d, c[k])
          /\ k < Len(c) \/ marked => f[c[k]] # 0
          /\ \A x \in Cluster : f[x] = c[k] => k > 1 /\ x = c[k - 1]
    /\ \A j, k \in 1..Len(c) : c[j] = c[k] => j = k

MarkToCome == pc = "alloc" /\ Len(io) = 2
Marking == io = <<>> \/ (chain # <<>> /\ \/ io = WriteEntry(chain[Len(chain)], EOC)
                                         \/ io = Tail(WriteEntry(chain[Len(chain)], EOC)))
LinkWrite(w) ==
    \E k \in 1..(Len(chain) - 1) :
        w.to = "fat" /\ w.cluster = chain[k] /\ w.value = chain[k + 1]
FirstSector == DirSector(NewDirSector(chain[1], cwd))
ContentWrite(w) ==
    /\ w.to = "data" /\ \E k \in 1..Len(chain) : w.cluster = chain[k]
    /\ w.value = FirstSector \/ (op.kind = "create" /\ w.value.tag = "data")

(* The cluster of a new directory. *)
NewDirectory ==
    /\ Len(chain) <= 1
    /\ chain # <<>> /\ ~MarkToCome => fat[chain[1]] = EOC
    /\ pc # "alloc" =>
          chain # <<>> /\ (data[chain[1]] = FirstSector \/ (pc = "name" /\ io # <<>>))
    /\ pc = "name" => \A j \in 1..Len(io) : j = Len(io) /\ io[j].to = "data" /\ io[j].value = FirstSector

(* The sectors of the directory that are still to be written. *)
ToCome(k) == k > Len(img) - Len(io)
EntryToCome == \E k \in 1..Len(img), e \in SlotNo : Position(k, e) = op.slot /\ ToCome(k)

Inserting == pc \in {"alloc", "name", "search", "extend", "retry", "place", "fail"}
Claiming == Inserting \/ (pc = "save" /\ op.kind # "delete" /\ EntryToCome)
ClaimInv(L) ==
    /\ Claiming =>
          /\ op.kind \in {"create", "mkdir"}
          /\ Owned(L, fat, data, chain, ~MarkToCome)
          /\ op.kind = "mkdir" => NewDirectory
    /\ pc = "alloc" => Marking
    /\ pc = "search" => io = <<>>
    /\ pc = "name" => \A j \in 1..Len(io) : LinkWrite(io[j]) \/ ContentWrite(io[j])

(* The image is what the disk holds, but a cluster that is being added.      *)
Extending == pc = "retry" /\ Len(io) > 3
LoadInv(L) ==
    /\ pc \notin {"off", "format", "idle"} => \A j, k \in 1..Len(dirc) : dirc[j] = dirc[k] => j = k
    /\ Inserting \/ pc = "free" =>
          \A k \in 1..Len(dirc) :
             \/ Extending /\ k = Len(dirc)
             \/ dirc[k] \in L /\ img[k] = SlotsOf(data[dirc[k]])
ExtendInv(L) ==
    pc = "retry" /\ io # <<>> =>
        LET n == Len(dirc)
            c == dirc[n]
        IN  /\ n > 1 /\ Len(io) <= 7
            /\ io = SubSeq(ExtensionWrites(c, dirc[n - 1]), 8 - Len(io), 7)
            /\ img[n] = ZeroSector
            /\ Len(io) > 3 =>
                  /\ c \notin L /\ ~Begins(data, c) /\ \A x \in Cluster : fat[x] # c
                  /\ \A k \in 1..Len(chain) : c # chain[k]
                  /\ Len(io) < 7 => fat[c] = EOC
                  /\ Len(io) = 4 => data[c] = DirSector(ZeroSector)

(* The run of free slots that was found. *)
Run == op.slot..(op.slot + LfnCount(op.short, op.name))
PlaceInv ==
    pc = "place" =>
        op.slot \in Nat \ {0} /\ \A i \in Run : i \in 1..Capacity(img) /\ IsFree(At(img, i))

(* dir_save: what was written is the image, and what is to come differs from *)
(* the disk in one slot that leads somewhere.                                *)
SlotInv(k, e) ==
    LET old == SlotsOf(data[dirc[k]])[e]
        new == img[k][e]
    IN  IF Position(k, e) # op.slot THEN ToCome(k) => Agree(old, new)
        ELSE IF op.kind = "delete"
        THEN ~Solid(new) /\ (ToCome(k) => old.tag = "file")
        ELSE new = NewEntry /\ (ToCome(k) => ~Solid(old))
SaveInv(L) ==
    pc = "save" =>
        /\ op.kind # "none" /\ Len(io) <= Len(img)
        /\ \A j \in 1..Len(io) : io[j] = SaveWrites(img, dirc)[Len(img) - Len(io) + j]
        /\ \A k \in 1..Len(img) :
              /\ dirc[k] \in L
              /\ ToCome(k) \/ SlotsOf(data[dirc[k]]) = img[k]
              /\ \A e \in SlotNo : SlotInv(k, e)
        /\ op.slot \in 1..Capacity(img)

(* free_cluster_chain: nothing leads to what is freed next.                  *)
FreeInv(L) ==
    /\ pc \in {"free", "abort"} =>
          \/ /\ io = <<>> \/ \E c \in Cluster : io = Tail(WriteEntry(c, 0))
             /\ cur # 0 => Freeable(L, fat, data, Victim, cur)
          \/ \E c \in Cluster :
                /\ io = WriteEntry(c, 0) /\ Freeable(L, fat, data, Victim, c)
                /\ cur = IF InRange(fat[c]) THEN fat[c] ELSE 0
    /\ pc = "free" =>
          /\ op.kind = "delete" /\ op.slot \in 1..Capacity(img)
          /\ At(img, op.slot).tag = "file"
    /\ pc = "abort" => op.kind # "delete"

ChainsAt(L) ==
    DiskInv(L) /\ ClaimInv(L) /\ LoadInv(L) /\ ExtendInv(L) /\ PlaceInv /\ SaveInv(L) /\ FreeInv(L)

(* Formatting, and the disk before it. *)
Blank == [c \in Cluster |-> Junk]
FormatInv ==
    /\ boot = "blank" => pc \in {"off", "format"} /\ data = Blank
    /\ pc = "format" =>
          \/ boot = "blank" /\ io = FormatWrites
          \/ /\ boot = "fat32"
             /\ \E k \in 2..7 :
                   /\ io = Rest(k)
                   /\ k > 2 => \A c \in Cluster : fat[c] = IF c = Root /\ k > 4 THEN EOC ELSE 0
                   /\ data = IF k = 7 THEN [Blank EXCEPT ![Root] = DirSector(RootSector)] ELSE Blank
RestInv ==
    /\ pc \in {"off", "format", "idle"} => chain = <<>>
    /\ pc \in {"off", "format"} => cwd = Root

ChainInv ==
    /\ RestInv
    /\ torn = {} => FormatInv
    /\ torn = {} /\ Mounted => \E L \in SUBSET Cluster : ChainsAt(L)

LEMMA EmptyLen ==
    ASSUME NEW S, NEW s \in Seq(S)
    PROVE  Len(s) \in Nat /\ (s = <<>> <=> Len(s) = 0)
  BY EmptySeq, LenProperties

LEMMA State ==
    ASSUME TypeInv
    PROVE  /\ fat \in Table32 /\ data \in Region /\ cwd \in Cluster
           /\ chain \in Seq(Cluster) /\ Len(chain) \in Nat
           /\ \A k \in 1..Len(chain) : chain[k] \in Cluster
           /\ dirc \in Seq(Cluster) /\ Len(dirc) \in Nat
           /\ \A k \in 1..Len(dirc) : dirc[k] \in Cluster
           /\ img \in Seq(Sector) /\ Len(img) = Len(dirc)
           /\ \A k \in 1..Len(img) : img[k] \in Sector
           /\ io \in Seq(Write) /\ Len(io) \in Nat
           /\ op.slot \in Nat /\ cur \in Cluster \cup {0}
           /\ op.kind \in {"none", "create", "mkdir", "delete"}
           /\ op.blocks \in Seq(Block) /\ Len(op.blocks) \in Nat
           /\ chain = <<>> <=> Len(chain) = 0
           /\ io = <<>> <=> Len(io) = 0
  <1>1. /\ chain \in Seq(Cluster) /\ dirc \in Seq(Cluster) /\ img \in Seq(Sector)
        /\ io \in Seq(Write)
    BY DEF TypeInv, TypeOK
  <1>2. /\ \A k \in 1..Len(chain) : chain[k] \in Cluster
        /\ \A k \in 1..Len(dirc) : dirc[k] \in Cluster
        /\ \A k \in 1..Len(img) : img[k] \in Sector
    BY <1>1, ElementOfSeq
  <1>3. Len(chain) \in Nat /\ Len(dirc) \in Nat /\ Len(io) \in Nat
    BY <1>1, LenProperties
  <1>4. op.blocks \in Seq(Block)
    <2>1. op.blocks \in Contents \cup {<<>>}
      BY DEF TypeInv, TypeOK
    <2>2. <<>> \in Seq(Block)
      BY EmptySeq
    <2> QED
      BY <2>1, <2>2, Bounds
  <1>5. Len(op.blocks) \in Nat
    BY <1>4, LenProperties
  <1>6. (chain = <<>> <=> Len(chain) = 0) /\ (io = <<>> <=> Len(io) = 0)
    BY <1>1, EmptyLen
  <1> QED
    BY <1>1, <1>2, <1>3, <1>4, <1>5, <1>6 DEF TypeInv, TypeOK, Loaded, Table32, Region

(* What an operation that begins finds in its directory. *)
LEMMA StartLoads ==
    ASSUME TypeInv, NEW L, DiskAt(L, fat, data, {}), cwd \in Parents(data)
    PROVE  /\ DirChain(cwd) \in Seq(Cluster) /\ Len(Load(cwd)) = Len(DirChain(cwd))
           /\ \A k \in 1..Len(DirChain(cwd)) :
                 /\ DirChain(cwd)[k] \in L
                 /\ Load(cwd)[k] = SlotsOf(data[DirChain(cwd)[k]])
           /\ \A j, k \in 1..Len(DirChain(cwd)) : DirChain(cwd)[j] = DirChain(cwd)[k] => j = k
  <1>1. data \in Region /\ cwd \in Cluster
    BY State
  <1>2. DIR_MAX_CLUSTERS \in Nat
    BY DiskAssumption DEF DiskAssumption
  <1>3. /\ \A k \in 1..Len(DirChain(cwd)) : DirChain(cwd)[k] \in L
        /\ \A j, k \in 1..Len(DirChain(cwd)) : DirChain(cwd)[j] = DirChain(cwd)[k] => j = k
    BY <1>1, <1>2, DirectoryChain DEF DirChain
  <1>4. DirChain(cwd) \in Seq(Cluster) /\ Len(Load(cwd)) = Len(DirChain(cwd))
    BY <1>1, LoadType DEF Region
  <1>5. \A k \in 1..Len(DirChain(cwd)) : Load(cwd)[k] = SlotsOf(data[DirChain(cwd)[k]])
    BY DEF Load, Image
  <1> QED
    BY <1>3, <1>4, <1>5

(* While nothing is being inserted, saved or freed nothing else is claimed. *)
LEMMA AtEase ==
    ASSUME NEW L, DiskInv(L)', pc' \in {"off", "idle"}
    PROVE  ChainsAt(L)'
  BY DEF ChainsAt, ClaimInv, Claiming, Inserting, LoadInv, ExtendInv, PlaceInv, SaveInv, FreeInv

LEMMA CreateChains ==
    ASSUME TypeInv, RestInv, NEW L, ChainsAt(L), NEW name, NEW blocks,
           CreateFile(name, blocks) \/ CreateDir(name), Quiet
    PROVE  ChainsAt(L)'
  <1>1. /\ pc = "idle" /\ pc' \in {"alloc", "name"} /\ chain = <<>> /\ io = <<>>
        /\ op'.kind \in {"create", "mkdir"}
        /\ pc' = "name" => op'.kind = "create"
        /\ dirc' = DirChain(cwd) /\ img' = Load(cwd)
        /\ UNCHANGED <<fat, data, cwd, chain, io>>
    BY DEF CreateFile, CreateDir, Start, Quiet, RestInv, disk
  <1>2. DiskAt(L, fat, data, {}) /\ cwd \in Parents(data)
    BY <1>1 DEF ChainsAt, DiskInv, Victim, Deleting
  <1>3. DiskInv(L)'
    BY <1>1, <1>2 DEF DiskInv, Victim, Deleting
  <1>4. ClaimInv(L)'
    <2>1. Len(chain') = 0
      BY <1>1
    <2>2. Owned(L, fat, data, chain, ~MarkToCome)'
      BY <1>1, <2>1 DEF Owned
    <2>3. op'.kind = "mkdir" => NewDirectory'
      BY <1>1, <2>1 DEF NewDirectory
    <2> QED
      BY <1>1, <2>2, <2>3 DEF ClaimInv, Claiming, Marking
  <1>5. LoadInv(L)'
    BY <1>1, <1>2, StartLoads DEF LoadInv
  <1>6. ExtendInv(L)' /\ PlaceInv' /\ SaveInv(L)' /\ FreeInv(L)'
    BY <1>1 DEF ExtendInv, PlaceInv, SaveInv, FreeInv
  <1> QED
    BY <1>3, <1>4, <1>5, <1>6 DEF ChainsAt

(* A free cluster belongs to nothing.                                        *)
LEMMA FreeBelongsToNothing ==
    ASSUME TypeInv, NEW L, ChainsAt(L), FoundFree # 0
    PROVE  /\ FoundFree \in Cluster /\ fat[FoundFree] = 0 /\ FoundFree \notin L
           /\ \A x \in Cluster : fat[x] # FoundFree
           /\ Victim = {} => ~Begins(data, FoundFree)
  <1>1. FoundFree \in Cluster /\ fat[FoundFree] = 0
    BY FoundFreeType
  <1>2. DiskAt(L, fat, data, Victim)
    BY DEF ChainsAt, DiskInv
  <1>3. FoundFree \notin L
    BY <1>1, <1>2 DEF DiskAt, TwoWorlds
  <1>4. \A x \in Cluster : fat[x] # FoundFree
    BY <1>1, <1>2 DEF DiskAt, Leads
  <1>5. Victim = {} => ~Begins(data, FoundFree)
    BY <1>1, <1>2 DEF DiskAt, Leads, Begins
  <1> QED
    BY <1>1, <1>3, <1>4, <1>5

LEMMA AllocChains ==
    ASSUME TypeInv, NEW L, ChainsAt(L), AllocCluster
    PROVE  ChainsAt(L)'
  <1> DEFINE c == FoundFree
             n == Len(chain)
  <1>1. /\ pc = "alloc" /\ pc' = "alloc" /\ io = <<>> /\ n < Needed /\ c # 0
        /\ chain' = Append(chain, c) /\ io' = WriteEntry(c, EOC)
        /\ UNCHANGED <<fat, data, cwd, op, img, dirc, cur>>
    BY DEF AllocCluster, disk
  <1>2. Victim = {} /\ Victim' = {}
    BY <1>1 DEF Victim, Deleting
  <1>3. /\ c \in Cluster /\ fat[c] = 0 /\ c \notin L /\ ~Begins(data, c)
        /\ \A x \in Cluster : fat[x] # c
    BY <1>1, <1>2, FreeBelongsToNothing
  <1>4. PICK new \in Cluster : new = c
    BY <1>3
  <1> HIDE DEF c
  <1>5. /\ n \in Nat /\ chain \in Seq(Cluster)
        /\ Len(chain') = n + 1 /\ chain'[n + 1] = new /\ chain' # <<>>
        /\ \A k \in 1..n : chain'[k] = chain[k] /\ chain[k] \in Cluster
    BY <1>1, <1>4, State, AppendProperties, EmptySeq
  <1>6. ~MarkToCome /\ MarkToCome'
    <2>1. Len(io) = 0 /\ Len(io') = 2
      BY <1>1 DEF WriteEntry
    <2> QED
      BY <1>1, <2>1 DEF MarkToCome
  <1>7. Owned(L, fat, data, chain, TRUE) /\ op.kind \in {"create", "mkdir"}
    BY <1>1, <1>6 DEF ChainsAt, ClaimInv, Claiming, Inserting
  <1>8. Owned(L, fat, data, chain', FALSE)
    <2> DEFINE t == chain'
    <2>1. \A k \in 1..n : fat[chain[k]] # 0 /\ chain[k] # new
      BY <1>3, <1>4, <1>7 DEF Owned
    <2>2. ASSUME NEW k \in 1..(n + 1)
          PROVE  /\ t[k] \notin L /\ ~Begins(data, t[k])
                 /\ k < n + 1 => fat[t[k]] # 0
                 /\ \A x \in Cluster : fat[x] = t[k] => k > 1 /\ x = t[k - 1]
      <3>1. CASE k \in 1..n
        <4>1. /\ chain[k] \notin L /\ ~Begins(data, chain[k])
              /\ \A x \in Cluster : fat[x] = chain[k] => k > 1 /\ x = chain[k - 1]
          BY <1>7, <3>1 DEF Owned
        <4>2. k > 1 => k - 1 \in 1..n
          BY <1>5, <3>1
        <4> QED
          BY <1>5, <2>1, <3>1, <4>1, <4>2
      <3>2. CASE k = n + 1
        BY <1>3, <1>4, <1>5, <3>2
      <3> QED
        BY <1>5, <3>1, <3>2
    <2>3. ASSUME NEW j \in 1..(n + 1), NEW k \in 1..(n + 1), t[j] = t[k]
          PROVE  j = k
      <3>1. CASE j \in 1..n /\ k \in 1..n
        BY <1>5, <1>7, <2>3, <3>1 DEF Owned
      <3>2. CASE j = n + 1 \/ k = n + 1
        BY <1>5, <2>1, <2>3, <3>2
      <3> QED
        BY <1>5, <3>1, <3>2
    <2> HIDE DEF n
    <2> QED
      BY <1>5, <2>2, <2>3 DEF Owned
  <1>9. op.kind = "mkdir" => NewDirectory'
    <2>1. op.kind = "mkdir" => n = 0
      BY <1>1, <1>5 DEF Needed
    <2> QED
      BY <1>1, <1>5, <1>6, <2>1 DEF NewDirectory
  <1>10. Marking'
    BY <1>1, <1>4, <1>5 DEF Marking
  <1>11. ClaimInv(L)'
    BY <1>1, <1>6, <1>7, <1>8, <1>9, <1>10 DEF ClaimInv
  <1>12. DiskInv(L)'
    BY <1>1, <1>2 DEF ChainsAt, DiskInv
  <1>13. LoadInv(L)'
    BY <1>1 DEF ChainsAt, LoadInv, Inserting, Extending
  <1>14. ExtendInv(L)' /\ PlaceInv' /\ SaveInv(L)' /\ FreeInv(L)'
    BY <1>1 DEF ExtendInv, PlaceInv, SaveInv, FreeInv
  <1> QED
    BY <1>11, <1>12, <1>13, <1>14 DEF ChainsAt

(* A creation that fails gives back the first of its clusters, or has none. *)
LEMMA GivesBack ==
    ASSUME TypeInv, NEW L, ChainsAt(L), Inserting, ~MarkToCome, io = <<>>,
           UNCHANGED <<fat, data, cwd>>,
           \/ chain = <<>> /\ Finish
           \/ /\ chain # <<>> /\ pc' = "abort" /\ cur' = chain[1]
              /\ UNCHANGED <<op, img, dirc, chain, io>>
    PROVE  ChainsAt(L)'
  <1>1. Victim = {} /\ Victim' = {}
    BY DEF Inserting, Victim, Deleting, Finish
  <1>2. DiskInv(L)'
    BY <1>1 DEF ChainsAt, DiskInv
  <1>3. CASE chain = <<>> /\ Finish
    BY <1>2, <1>3, AtEase DEF Finish
  <1>4. CASE chain # <<>> /\ pc' = "abort" /\ cur' = chain[1]
             /\ UNCHANGED <<op, img, dirc, chain, io>>
    <2>1. Owned(L, fat, data, chain, TRUE) /\ op.kind # "delete"
      BY DEF ChainsAt, ClaimInv, Claiming
    <2>2. 1 \in 1..Len(chain) /\ chain[1] \in Cluster
      BY <1>4, State, EmptySeq
    <2>3. Freeable(L, fat, data, {}, chain[1])
      BY <2>1, <2>2 DEF Owned, Freeable, Begins
    <2>4. FreeInv(L)'
      BY <1>1, <1>4, <2>1, <2>3 DEF FreeInv
    <2>5. LoadInv(L)'
      BY <1>4 DEF ChainsAt, LoadInv, Inserting
    <2>6. ClaimInv(L)' /\ ExtendInv(L)' /\ PlaceInv' /\ SaveInv(L)'
      BY <1>4 DEF ClaimInv, Claiming, Inserting, ExtendInv, PlaceInv, SaveInv
    <2> QED
      BY <1>2, <2>4, <2>5, <2>6 DEF ChainsAt
  <1> QED
    BY <1>3, <1>4

LEMMA FailChains ==
    ASSUME TypeInv, Quiet, NEW L, ChainsAt(L), AllocFails \/ InsertFails
    PROVE  ChainsAt(L)'
  <1>1. io = <<>>
    BY DEF AllocFails, InsertFails, Quiet
  <1>2. ~MarkToCome
    BY <1>1 DEF MarkToCome
  <1>3. Inserting /\ UNCHANGED <<fat, data, cwd>>
    BY DEF Inserting, AllocFails, InsertFails, disk
  <1>4. \/ chain = <<>> /\ Finish
        \/ /\ chain # <<>> /\ pc' = "abort" /\ cur' = chain[1]
           /\ UNCHANGED <<op, img, dirc, chain, io>>
    BY DEF AllocFails, InsertFails
  <1> QED
    BY <1>1, <1>2, <1>3, <1>4, GivesBack

LEMMA DataSectorTag == \A b : DataSector(b).tag = "data"
  BY DEF DataSector

LEMMA ContentWrites ==
    ASSUME NEW c \in Seq(Cluster), NEW blocks \in Seq(Block), Len(blocks) = Len(c),
           NEW j \in 1..Len(LinkWrites(c) \o BlockWrites(c, blocks))
    PROVE  LET w == (LinkWrites(c) \o BlockWrites(c, blocks))[j]
           IN  \/ /\ w.to = "fat"
                  /\ \E k \in 1..(Len(c) - 1) : w.cluster = c[k] /\ w.value = c[k + 1]
               \/ /\ w.to = "data"
                  /\ \E k \in 1..Len(c) : w.cluster = c[k] /\ w.value = DataSector(blocks[k])
  <1> DEFINE a == LinkWrites(c)
             b == BlockWrites(c, blocks)
             n == Len(c)
  <1>1. a \in Seq(Write) /\ b \in Seq(Write) /\ n \in Nat
    BY LinkWritesType, BlockWritesType, LenProperties
  <1>2. /\ Len(a) \in Nat /\ Len(b) \in Nat /\ Len(a \o b) = Len(a) + Len(b)
        /\ \A i \in 1..(Len(a) + Len(b)) :
              (a \o b)[i] = IF i <= Len(a) THEN a[i] ELSE b[i - Len(a)]
    BY <1>1, ConcatProperties, LenProperties
  <1>3. ASSUME NEW i \in 1..Len(a)
        PROVE  /\ a[i].to = "fat"
               /\ \E k \in 1..(n - 1) : a[i].cluster = c[k] /\ a[i].value = c[k + 1]
    <2> DEFINE m == 2 * (n - 1)
               k == (i + 1) \div 2
    <2>1. Len(a) = IF m >= 0 THEN m ELSE 0
      <3>1. m \in Int /\ a = [x \in 1..m |-> a[x]]
        BY <1>1 DEF LinkWrites
      <3>2. CASE m >= 0
        <4>1. m \in Nat
          BY <3>1, <3>2
        <4> HIDE DEF m, a
        <4> QED
          BY <3>1, <3>2, <4>1, LenProperties
      <3>3. CASE ~(m >= 0)
        <4>1. n = 0
          BY <1>1, <3>3
        <4>2. 1..m = {}
          BY <3>3, <1>1
        <4>3. DOMAIN a = {} /\ DOMAIN a = 1..Len(a)
          BY <1>1, <4>2, LenProperties DEF LinkWrites
        <4> QED
          BY <1>2, <3>3, <4>3
      <3> QED
        BY <3>2, <3>3
    <2>2. i \in 1..m /\ m \in Nat
      BY <1>1, <2>1
    <2>3. a[i] = [to |-> "fat", copy |-> (i + 1) % 2, cluster |-> c[k], value |-> c[k + 1]]
      BY <2>2 DEF LinkWrites
    <2>4. k \in 1..(n - 1)
      BY <1>1, <2>2, SMT
    <2> HIDE DEF k, a
    <2> QED
      BY <2>3, <2>4
  <1>4. ASSUME NEW i \in 1..Len(b)
        PROVE  /\ b[i].to = "data"
               /\ \E k \in 1..n : b[i].cluster = c[k] /\ b[i].value = DataSector(blocks[k])
    <2>1. b = [k \in 1..n |-> [to |-> "data", cluster |-> c[k], value |-> DataSector(blocks[k])]]
      BY DEF BlockWrites
    <2>2. i \in 1..n
      BY <1>1, <2>1, LenProperties
    <2> HIDE DEF b
    <2> QED
      BY <2>1, <2>2
  <1> HIDE DEF a, b, n
  <1>5. CASE j <= Len(a)
    <2>1. j \in 1..Len(a) /\ (a \o b)[j] = a[j]
      BY <1>2, <1>5 DEF a, b
    <2> QED
      BY <1>3, <2>1 DEF a, b, n
  <1>6. CASE ~(j <= Len(a))
    <2>1. j - Len(a) \in 1..Len(b) /\ (a \o b)[j] = b[j - Len(a)]
      BY <1>2, <1>6 DEF a, b
    <2> QED
      BY <1>4, <2>1 DEF a, b, n
  <1> QED
    BY <1>5, <1>6

LEMMA ContentsChains ==
    ASSUME TypeInv, NEW L, ChainsAt(L), WriteContents
    PROVE  ChainsAt(L)'
  <1>1. /\ pc = "alloc" /\ pc' = "name" /\ io = <<>> /\ Len(chain) = Needed
        /\ UNCHANGED <<fat, data, cwd, op, img, dirc, cur, chain>>
    BY DEF WriteContents, disk
  <1>0. /\ op.kind = "mkdir" => io' = WriteCluster(chain[1], FirstSector)
        /\ op.kind # "mkdir" => io' = LinkWrites(chain) \o BlockWrites(chain, op.blocks)
    BY DEF WriteContents, FirstSector
  <1>2. Victim = {} /\ Victim' = {}
    BY <1>1 DEF Victim, Deleting
  <1>3. ~MarkToCome /\ ~MarkToCome'
    BY <1>1 DEF MarkToCome
  <1>4. /\ Owned(L, fat, data, chain, TRUE) /\ op.kind \in {"create", "mkdir"}
        /\ op.kind = "mkdir" => NewDirectory
    BY <1>1, <1>3 DEF ChainsAt, ClaimInv, Claiming, Inserting
  <1>5. FirstSector' = FirstSector
    BY <1>1 DEF FirstSector
  <1>6. chain \in Seq(Cluster) /\ op.blocks \in Seq(Block)
    BY State
  <1>11. Owned(L, fat, data, chain, ~MarkToCome)'
    BY <1>1, <1>3, <1>4 DEF Owned
  <1>7. ASSUME op.kind = "mkdir" PROVE ClaimInv(L)'
    <2>0. Len(chain) = 1
      BY <1>1, <1>7 DEF Needed
    <2>1. Len(chain) = 1 /\ chain # <<>>
      BY <2>0, State
    <2>2. Len(io') = 1 /\ io'[1] = [to |-> "data", cluster |-> chain[1], value |-> FirstSector]
      BY <1>0, <1>7 DEF WriteCluster
    <2>3. io' # <<>>
      BY <2>2
    <2>4. NewDirectory'
      <3>1. Len(chain') <= 1 /\ chain' # <<>> /\ fat'[chain'[1]] = EOC
        BY <1>1, <1>3, <1>4, <1>7, <2>1 DEF NewDirectory
      <3>2. \A j \in 1..Len(io') : j = Len(io') /\ io'[j].to = "data" /\ io'[j].value = FirstSector'
        BY <1>5, <2>2
      <3> QED
        BY <1>1, <2>3, <3>1, <3>2 DEF NewDirectory
    <2>5. \A j \in 1..Len(io') : ContentWrite(io[j])'
      BY <1>1, <1>5, <2>1, <2>2 DEF ContentWrite
    <2> QED
      BY <1>1, <1>7, <1>11, <2>4, <2>5 DEF ClaimInv
  <1>8. ASSUME op.kind = "create" PROVE ClaimInv(L)'
    <2>1. Len(op.blocks) = Len(chain)
      BY <1>1, <1>8 DEF Needed
    <2>2. \A j \in 1..Len(io') : LinkWrite(io[j])' \/ ContentWrite(io[j])'
      <3> TAKE j \in 1..Len(io')
      <3>1. io' = LinkWrites(chain) \o BlockWrites(chain, op.blocks)
        BY <1>0, <1>8
      <3>2. \/ /\ io'[j].to = "fat"
               /\ \E k \in 1..(Len(chain) - 1) :
                     io'[j].cluster = chain[k] /\ io'[j].value = chain[k + 1]
            \/ /\ io'[j].to = "data" /\ io'[j].value.tag = "data"
               /\ \E k \in 1..Len(chain) : io'[j].cluster = chain[k]
        BY <1>6, <2>1, <3>1, ContentWrites, DataSectorTag
      <3> QED
        BY <1>1, <1>8, <3>2 DEF LinkWrite, ContentWrite
    <2> QED
      BY <1>1, <1>8, <1>11, <2>2 DEF ClaimInv
  <1>9. ClaimInv(L)'
    BY <1>4, <1>7, <1>8
  <1>10. DiskInv(L)'
    BY <1>1, <1>2 DEF ChainsAt, DiskInv
  <1>12. LoadInv(L)'
    BY <1>1 DEF ChainsAt, LoadInv, Inserting, Extending
  <1>13. ExtendInv(L)' /\ PlaceInv' /\ SaveInv(L)' /\ FreeInv(L)'
    BY <1>1 DEF ExtendInv, PlaceInv, SaveInv, FreeInv
  <1> QED
    BY <1>9, <1>10, <1>12, <1>13 DEF ChainsAt

LEMMA ShortChains ==
    ASSUME TypeInv, NEW L, ChainsAt(L), ChooseShort
    PROVE  ChainsAt(L)'
  <1>1. /\ pc = "name" /\ pc' = "search" /\ io = <<>> /\ io' = <<>>
        /\ op'.kind = op.kind
        /\ UNCHANGED <<fat, data, cwd, img, dirc, cur, chain>>
    BY DEF ChooseShort, disk, TypeInv, TypeOK
  <1>2. Victim = {} /\ Victim' = {}
    BY <1>1 DEF Victim, Deleting
  <1>3. ~MarkToCome /\ ~MarkToCome'
    BY <1>1 DEF MarkToCome
  <1>4. FirstSector' = FirstSector
    BY <1>1 DEF FirstSector
  <1>5. ClaimInv(L)'
    BY <1>1, <1>3, <1>4 DEF ChainsAt, ClaimInv, Claiming, Inserting, NewDirectory
  <1>6. DiskInv(L)'
    BY <1>1, <1>2 DEF ChainsAt, DiskInv
  <1>7. LoadInv(L)'
    BY <1>1 DEF ChainsAt, LoadInv, Inserting, Extending
  <1>8. ExtendInv(L)' /\ PlaceInv' /\ SaveInv(L)' /\ FreeInv(L)'
    BY <1>1 DEF ExtendInv, PlaceInv, SaveInv, FreeInv
  <1> QED
    BY <1>5, <1>6, <1>7, <1>8 DEF ChainsAt

LEMMA SearchChains ==
    ASSUME TypeInv, NEW L, ChainsAt(L), SearchRun
    PROVE  ChainsAt(L)'
  <1> DEFINE need == LfnCount(op.short, op.name) + 1
             run == FreeRun(img, need)
  <1>1. /\ pc \in {"search", "retry"} /\ pc' \in {"place", "extend", "fail"}
        /\ io = <<>> /\ io' = <<>>
        /\ op'.kind = op.kind /\ op'.short = op.short /\ op'.name = op.name
        /\ op'.slot = run /\ (pc' = "place" => run # 0)
        /\ UNCHANGED <<fat, data, cwd, img, dirc, cur, chain>>
    BY DEF SearchRun, disk, TypeInv, TypeOK
  <1>2. Victim = {} /\ Victim' = {}
    BY <1>1 DEF Victim, Deleting
  <1>3. ~MarkToCome /\ ~MarkToCome'
    BY <1>1 DEF MarkToCome
  <1>4. FirstSector' = FirstSector
    BY <1>1 DEF FirstSector
  <1>5. ClaimInv(L)'
    BY <1>1, <1>3, <1>4 DEF ChainsAt, ClaimInv, Claiming, Inserting, NewDirectory
  <1>6. DiskInv(L)'
    BY <1>1, <1>2 DEF ChainsAt, DiskInv
  <1>7. LoadInv(L)'
    <2>1. Len(io) = 0 /\ Len(io') = 0
      BY <1>1
    <2>2. ~Extending /\ ~Extending'
      BY <2>1 DEF Extending
    <2> QED
      BY <1>1, <2>2 DEF ChainsAt, LoadInv, Inserting
  <1>8. PlaceInv'
    <2>1. LfnCount(op.short, op.name) \in Nat /\ img \in Seq(Sector)
      BY NamesArePieces, LfnCountType, State
    <2>0. need \in Nat
      BY <2>1
    <2>2. /\ run \in Nat /\ Capacity(img) \in Nat
          /\ run + need - 1 = run + LfnCount(op.short, op.name)
      <3>1. run \in Nat /\ Capacity(img) \in Nat
        BY <2>0, <2>1, FreeRunFree, CapacityType
      <3> HIDE DEF run
      <3> QED
        BY <2>1, <3>1
    <2>3. run # 0 => /\ run + need - 1 <= Capacity(img)
                     /\ \A j \in run..(run + need - 1) : IsFree(At(img, j))
      BY <2>0, <2>1, FreeRunFree
    <2>4. Run' = run..(run + need - 1)
      BY <1>1, <2>2 DEF Run
    <2> HIDE DEF run, need
    <2>5. run # 0 => run \in Nat \ {0} /\ \A i \in run..(run + need - 1) : i \in 1..Capacity(img)
      BY <2>0, <2>1, <2>2, <2>3 DEF need
    <2> QED
      BY <1>1, <2>3, <2>4, <2>5 DEF PlaceInv
  <1>9. ExtendInv(L)' /\ SaveInv(L)' /\ FreeInv(L)'
    BY <1>1 DEF ExtendInv, SaveInv, FreeInv
  <1> QED
    BY <1>5, <1>6, <1>7, <1>8, <1>9 DEF ChainsAt

LEMMA SuffixSteps ==
    ASSUME NEW S, NEW s \in Seq(S), NEW n, n = Len(s), NEW k \in 1..(n + 1)
    PROVE  /\ k <= n => /\ SubSeq(s, k, n) # <<>> /\ Head(SubSeq(s, k, n)) = s[k]
                        /\ Tail(SubSeq(s, k, n)) = SubSeq(s, k + 1, n)
           /\ k > n => SubSeq(s, k, n) = <<>>
           /\ Len(SubSeq(s, k, n)) = n + 1 - k
  <1>0. n \in Nat /\ k \in Nat
    BY LenProperties
  <1>1. CASE k <= n
    <2>1. k \in 1..Len(s) /\ n \in k..Len(s)
      BY <1>0, <1>1
    <2>2. SubSeq(s, k, n) \in Seq(S) /\ Len(SubSeq(s, k, n)) = n - k + 1
      <3>1. \A i \in k..n : s[i] \in S
        <4>1. \A i \in k..n : i \in 1..Len(s)
          BY <1>0, <1>1
        <4> QED
          BY <4>1, ElementOfSeq
      <3>2. k \in Int /\ n \in Int /\ k <= n
        BY <1>0, <1>1
      <3> QED
        BY <3>1, <3>2, SubSeqProperties
    <2>3. n - k + 1 # 0 /\ n - k + 1 = n + 1 - k
      BY <1>0, <1>1
    <2>4. SubSeq(s, k, n) # <<>>
      BY <2>2, <2>3, EmptySeq
    <2>5. Head(SubSeq(s, k, n)) = s[k] /\ Tail(SubSeq(s, k, n)) = SubSeq(s, k + 1, n)
      BY <2>1, HeadTailOfSubSeq
    <2>6. ~(k > n)
      BY <1>0, <1>1
    <2> QED
      BY <2>2, <2>3, <2>4, <2>5, <2>6
  <1>2. CASE ~(k <= n)
    <2>1. k = n + 1 /\ n + 1 - k = 0
      BY <1>0, <1>2
    <2>2. SubSeq(s, k, n) = <<>>
      BY <1>0, <2>1, SubSeqEmpty
    <2> QED
      BY <1>2, <2>1, <2>2, EmptySeq
  <1> QED
    BY <1>1, <1>2

LEMMA EntryWrites ==
    ASSUME NEW c, NEW v
    PROVE  LET s == WriteEntry(c, v)
           IN  /\ Len(s) = 2 /\ s # <<>>
               /\ Head(s) = [to |-> "fat", copy |-> 0, cluster |-> c, value |-> v]
               /\ Len(Tail(s)) = 1 /\ Tail(s) # <<>>
               /\ Head(Tail(s)) = [to |-> "fat", copy |-> 1, cluster |-> c, value |-> v]
               /\ Tail(Tail(s)) = <<>>
  <1> DEFINE a == [to |-> "fat", copy |-> 0, cluster |-> c, value |-> v]
             b == [to |-> "fat", copy |-> 1, cluster |-> c, value |-> v]
  <1>1. WriteEntry(c, v) = <<a, b>>
    BY DEF WriteEntry
  <1> HIDE DEF a, b
  <1>2. /\ Len(<<a, b>>) = 2 /\ <<a, b>> # <<>> /\ Head(<<a, b>>) = a
        /\ Tail(<<a, b>>) = <<b>>
    OBVIOUS
  <1>3. Len(<<b>>) = 1 /\ <<b>> # <<>> /\ Head(<<b>>) = b /\ Tail(<<b>>) = <<>>
    OBVIOUS
  <1> QED
    BY <1>1, <1>2, <1>3 DEF a, b

LEMMA ExtensionSequence ==
    ASSUME NEW c \in Cluster, NEW last \in Cluster
    PROVE  LET s == ExtensionWrites(c, last)
           IN  /\ s \in Seq(Write) /\ Len(s) = 7
               /\ s[1] = [to |-> "fat", copy |-> 0, cluster |-> c, value |-> EOC]
               /\ s[2] = [to |-> "fat", copy |-> 1, cluster |-> c, value |-> EOC]
               /\ s[3] = [to |-> "data", cluster |-> c, value |-> DirSector(ZeroSector)]
               /\ s[4] = [to |-> "fat", copy |-> 0, cluster |-> last, value |-> c]
               /\ s[5] = [to |-> "fat", copy |-> 1, cluster |-> last, value |-> c]
               /\ s[6] = [to |-> "fat", copy |-> 0, cluster |-> c, value |-> EOC]
               /\ s[7] = [to |-> "fat", copy |-> 1, cluster |-> c, value |-> EOC]
  <1> DEFINE mark == WriteEntry(c, EOC)
             zero == WriteCluster(c, DirSector(ZeroSector))
             link == WriteEntry(last, c)
             three == mark \o zero
             five == three \o link
             s == five \o mark
  <1>1. ExtensionWrites(c, last) = s
    BY DEF ExtensionWrites
  <1>2. /\ mark \in Seq(Write) /\ link \in Seq(Write)
    BY WriteEntryType DEF FatValue
  <1>3. zero \in Seq(Write)
    BY SectorTypes, DirSectorType, WriteClusterType
  <1>4. /\ Len(mark) = 2 /\ Len(link) = 2 /\ Len(zero) = 1
        /\ mark[1] = [to |-> "fat", copy |-> 0, cluster |-> c, value |-> EOC]
        /\ mark[2] = [to |-> "fat", copy |-> 1, cluster |-> c, value |-> EOC]
        /\ zero[1] = [to |-> "data", cluster |-> c, value |-> DirSector(ZeroSector)]
        /\ link[1] = [to |-> "fat", copy |-> 0, cluster |-> last, value |-> c]
        /\ link[2] = [to |-> "fat", copy |-> 1, cluster |-> last, value |-> c]
    BY DEF WriteEntry, WriteCluster
  <1> HIDE DEF mark, zero, link
  <1>5. /\ three \in Seq(Write) /\ Len(three) = 3
        /\ three[1] = mark[1] /\ three[2] = mark[2] /\ three[3] = zero[1]
    <2>1. /\ three \in Seq(Write) /\ Len(three) = Len(mark) + Len(zero)
          /\ \A i \in 1..(Len(mark) + Len(zero)) :
                three[i] = IF i <= Len(mark) THEN mark[i] ELSE zero[i - Len(mark)]
      BY <1>2, <1>3, ConcatProperties
    <2> HIDE DEF three
    <2>2. Len(mark) + Len(zero) = 3 /\ Len(mark) = 2
      BY <1>4
    <2> QED
      BY <2>1, <2>2
  <1> HIDE DEF three
  <1>6. /\ five \in Seq(Write) /\ Len(five) = 5
        /\ five[1] = mark[1] /\ five[2] = mark[2] /\ five[3] = zero[1]
        /\ five[4] = link[1] /\ five[5] = link[2]
    <2>1. /\ five \in Seq(Write) /\ Len(five) = Len(three) + Len(link)
          /\ \A i \in 1..(Len(three) + Len(link)) :
                five[i] = IF i <= Len(three) THEN three[i] ELSE link[i - Len(three)]
      BY <1>2, <1>5, ConcatProperties
    <2> HIDE DEF five
    <2>2. Len(three) + Len(link) = 5 /\ Len(three) = 3
      BY <1>4, <1>5
    <2> QED
      BY <1>5, <2>1, <2>2
  <1> HIDE DEF five
  <1>7. /\ s \in Seq(Write) /\ Len(s) = 7
        /\ s[1] = mark[1] /\ s[2] = mark[2] /\ s[3] = zero[1]
        /\ s[4] = link[1] /\ s[5] = link[2] /\ s[6] = mark[1] /\ s[7] = mark[2]
    <2>1. /\ s \in Seq(Write) /\ Len(s) = Len(five) + Len(mark)
          /\ \A i \in 1..(Len(five) + Len(mark)) :
                s[i] = IF i <= Len(five) THEN five[i] ELSE mark[i - Len(five)]
      BY <1>2, <1>6, ConcatProperties
    <2> HIDE DEF s
    <2>2. Len(five) + Len(mark) = 7 /\ Len(five) = 5
      BY <1>4, <1>6
    <2> QED
      BY <1>6, <2>1, <2>2
  <1> HIDE DEF s
  <1> QED
    BY <1>1, <1>4, <1>7

LEMMA SaveSequence ==
    ASSUME NEW image \in Seq(Sector), NEW clusters
    PROVE  LET s == SaveWrites(image, clusters)
           IN  /\ Len(s) = Len(image)
               /\ \A k \in 1..Len(image) :
                     s[k] = [to |-> "data", cluster |-> clusters[k], value |-> DirSector(image[k])]
  <1>1. Len(image) \in Nat
    BY LenProperties
  <1> QED
    BY <1>1, LenProperties DEF SaveWrites

LEMMA PlaceChains ==
    ASSUME TypeInv, Quiet, NEW L, ChainsAt(L), PlaceEntry
    PROVE  ChainsAt(L)'
  <1> DEFINE n == LfnCount(op.short, op.name)
  <1>1. /\ pc = "place" /\ pc' = "save" /\ io = <<>>
        /\ img' = Insert(img, op.slot, op.name, NewEntry)
        /\ op'.kind = op.kind /\ op'.short = op.short /\ op'.blocks = op.blocks
        /\ op'.slot = op.slot + n
        /\ UNCHANGED <<fat, data, cwd, dirc, cur, chain>>
    BY DEF PlaceEntry, disk, TypeInv, TypeOK, Quiet
  <1>2. io' = SaveWrites(img', dirc)
    BY DEF PlaceEntry
  <1>3. ~MarkToCome /\ ~MarkToCome'
    BY <1>1 DEF MarkToCome
  <1>4. /\ Owned(L, fat, data, chain, TRUE) /\ op.kind \in {"create", "mkdir"}
        /\ op.kind = "mkdir" => NewDirectory
    BY <1>1, <1>3 DEF ChainsAt, ClaimInv, Claiming, Inserting
  <1>5. FirstSector' = FirstSector /\ NewEntry' = NewEntry
    BY <1>1 DEF FirstSector, NewEntry, FirstCluster
  <1>6. ClaimInv(L)'
    <2>1. Owned(L, fat, data, chain, ~MarkToCome)'
      BY <1>1, <1>3, <1>4 DEF Owned
    <2>2. op.kind = "mkdir" => NewDirectory'
      BY <1>1, <1>3, <1>4, <1>5 DEF NewDirectory
    <2> QED
      BY <1>1, <1>4, <2>1, <2>2 DEF ClaimInv
  <1>7. Victim = {} /\ Victim' = {}
    BY <1>1, <1>4 DEF Victim, Deleting
  <1>8. DiskInv(L)'
    BY <1>1, <1>7 DEF ChainsAt, DiskInv
  <1>9. LoadInv(L)'
    BY <1>1 DEF ChainsAt, LoadInv, Inserting
  <1>10. /\ \A j, k \in 1..Len(dirc) : dirc[j] = dirc[k] => j = k
         /\ \A k \in 1..Len(dirc) : dirc[k] \in L /\ img[k] = SlotsOf(data[dirc[k]])
    BY <1>1 DEF ChainsAt, LoadInv, Inserting, Extending
  <1>11. /\ op.slot \in Nat /\ n \in Nat /\ op.name \in Seq(Piece)
         /\ img \in Seq(Sector) /\ Len(img) = Len(dirc) /\ Len(dirc) \in Nat
         /\ NewEntry.short = op.short
    BY NamesArePieces, LfnCountType, State DEF NewEntry, Entry
  <1>12. img' \in Seq(Sector) /\ Len(img') = Len(img)
    <2>1. img' \in Seq(Sector)
      <3>1. TypeInv'
        BY TypeNext DEF Next, Work
      <3> QED
        BY <3>1 DEF TypeInv, TypeOK
    <2>2. Len(img') = Len(img)
      BY <1>1, <1>11, LenProperties DEF Insert, MapSlots
    <2> QED
      BY <2>1, <2>2
  <1>13. /\ Run = op.slot..(op.slot + n)
         /\ \A i \in op.slot..(op.slot + n) : i \in 1..Capacity(img) /\ IsFree(At(img, i))
    BY <1>1 DEF ChainsAt, PlaceInv, Run
  <1> HIDE DEF n
  <1>14. op'.slot \in 1..Capacity(img')
    <2>1. Capacity(img') = Capacity(img)
      BY <1>12 DEF Capacity
    <2>2. op.slot + n \in op.slot..(op.slot + n)
      BY <1>11
    <2> QED
      BY <1>1, <1>13, <2>1, <2>2
  <1>15. ASSUME NEW k \in 1..Len(img), NEW e \in SlotNo
         PROVE  LET old == SlotsOf(data[dirc[k]])[e]
                    new == img'[k][e]
                IN  IF Position(k, e) # op'.slot THEN Agree(old, new)
                    ELSE new = NewEntry /\ ~Solid(old)
    <2> DEFINE i == Position(k, e)
               old == SlotsOf(data[dirc[k]])[e]
               new == img'[k][e]
    <2>1. i \in 1..Capacity(img) /\ At(img, i) = img[k][e]
      BY <1>11, PositionAt
    <2>2. old = img[k][e]
      BY <1>10, <1>11
    <2>3. /\ i = op.slot + n => new = NewEntry
          /\ i \in op.slot..(op.slot + n - 1) => new.tag = "lfn"
          /\ i \notin op.slot..(op.slot + n) => new = img[k][e]
      BY <1>1, <1>11, InsertSlots DEF n
    <2> HIDE DEF i, old, new
    <2>4. i \in Nat
      BY <1>11, <2>1, CapacityType
    <2>5. i \in op.slot..(op.slot + n) => ~Solid(old)
      BY <1>13, <2>1, <2>2 DEF IsFree, Solid
    <2>6. CASE i = op.slot + n
      <3>1. i \in op.slot..(op.slot + n)
        BY <1>11, <2>6
      <3> QED
        BY <1>1, <2>3, <2>5, <2>6, <3>1 DEF i, old, new
    <2>7. CASE i \in op.slot..(op.slot + n - 1)
      <3>1. i \in op.slot..(op.slot + n) /\ i # op.slot + n
        BY <1>11, <2>4, <2>7
      <3>2. ~Solid(new)
        BY <2>3, <2>7 DEF Solid
      <3> QED
        BY <1>1, <2>5, <3>1, <3>2 DEF Agree, i, old, new
    <2>8. CASE i \notin op.slot..(op.slot + n)
      <3>1. i # op.slot + n
        BY <1>11, <2>4, <2>8
      <3> QED
        BY <1>1, <2>2, <2>3, <2>8, <3>1 DEF Agree, i, old, new
    <2> QED
      BY <1>11, <2>4, <2>6, <2>7, <2>8
  <1>16. SaveInv(L)'
    <2>1. /\ Len(io') = Len(img')
          /\ \A k \in 1..Len(img') :
                io'[k] = SaveWrites(img', dirc')[Len(img') - Len(io') + k]
      <3>1. Len(io') = Len(img') /\ Len(img') \in Nat /\ dirc' = dirc
        BY <1>1, <1>2, <1>11, <1>12, SaveSequence
      <3>2. \A k \in 1..Len(img') : Len(img') - Len(io') + k = k
        BY <3>1
      <3> QED
        BY <1>2, <3>1, <3>2
    <2>2. \A k \in 1..Len(img') : dirc'[k] \in L /\ ToCome(k)'
      <3>1. Len(img') - Len(io') = 0 /\ Len(img') \in Nat
        BY <1>11, <1>12, <2>1
      <3> QED
        BY <1>1, <1>10, <1>11, <1>12, <3>1 DEF ToCome
    <2>3. \A k \in 1..Len(img') : \A e \in SlotNo : SlotInv(k, e)'
      BY <1>1, <1>4, <1>5, <1>12, <1>15 DEF SlotInv
    <2>4. op'.kind # "none" /\ Len(io') <= Len(img')
      BY <1>1, <1>4, <1>11, <1>12, <2>1
    <2> QED
      BY <1>14, <2>1, <2>2, <2>3, <2>4 DEF SaveInv
  <1>17. ExtendInv(L)' /\ PlaceInv' /\ FreeInv(L)'
    BY <1>1 DEF ExtendInv, PlaceInv, FreeInv
  <1> QED
    BY <1>6, <1>8, <1>9, <1>16, <1>17 DEF ChainsAt

LEMMA ExtendChains ==
    ASSUME TypeInv, Quiet, NEW L, ChainsAt(L), ExtendDir
    PROVE  ChainsAt(L)'
  <1> DEFINE n == Len(dirc)
  <1>1. /\ pc = "extend" /\ pc' = "retry" /\ io = <<>> /\ FoundFree # 0
        /\ UNCHANGED <<fat, data, cwd, op, cur, chain>>
    BY DEF ExtendDir, disk, Quiet
  <1>2. /\ io' = ExtensionWrites(FoundFree, dirc[n])
        /\ img' = Append(img, ZeroSector) /\ dirc' = Append(dirc, FoundFree)
    BY DEF ExtendDir
  <1>3. ~MarkToCome /\ ~MarkToCome'
    BY <1>1 DEF MarkToCome
  <1>4. /\ Owned(L, fat, data, chain, TRUE) /\ op.kind \in {"create", "mkdir"}
        /\ op.kind = "mkdir" => NewDirectory
    BY <1>1, <1>3 DEF ChainsAt, ClaimInv, Claiming, Inserting
  <1>5. Victim = {} /\ Victim' = {}
    BY <1>1 DEF Victim, Deleting
  <1>6. PICK c \in Cluster : c = FoundFree
    BY <1>1, FoundFreeType
  <1>7. /\ c \in Cluster /\ fat[c] = 0 /\ c \notin L /\ ~Begins(data, c)
        /\ \A x \in Cluster : fat[x] # c
    BY <1>1, <1>5, <1>6, FreeBelongsToNothing
  <1>8. /\ n \in Nat /\ n >= 1 /\ Len(img) = n /\ dirc \in Seq(Cluster) /\ img \in Seq(Sector)
        /\ dirc[n] \in Cluster
    <2>1. dirc # <<>> /\ dirc \in Seq(Cluster) /\ Len(img) = n /\ img \in Seq(Sector)
      BY <1>1, State DEF TypeInv, Loaded
    <2> QED
      BY <2>1, Ends
  <1>9. PICK last \in Cluster : last = dirc[n]
    BY <1>8
  <1>10. /\ Len(dirc') = n + 1 /\ dirc'[n + 1] = c
         /\ \A k \in 1..n : dirc'[k] = dirc[k]
         /\ Len(img') = n + 1 /\ img'[n + 1] = ZeroSector
         /\ \A k \in 1..n : img'[k] = img[k]
    <2>1. ZeroSector \in Sector
      BY SectorTypes
    <2>2. dirc' = Append(dirc, c) /\ img' = Append(img, ZeroSector)
      BY <1>2, <1>6
    <2>3. Len(dirc) = n /\ Len(img) = n /\ dirc \in Seq(Cluster) /\ img \in Seq(Sector)
      BY <1>8
    <2> HIDE DEF n
    <2>4. /\ Len(dirc') = n + 1 /\ dirc'[n + 1] = c
          /\ \A k \in 1..n : dirc'[k] = dirc[k]
      BY <2>2, <2>3, AppendProperties
    <2>5. /\ Len(img') = n + 1 /\ img'[n + 1] = ZeroSector
          /\ \A k \in 1..n : img'[k] = img[k]
      BY <2>1, <2>2, <2>3, AppendProperties
    <2> QED
      BY <2>4, <2>5
  <1>11. io' = ExtensionWrites(c, last) /\ Len(io') = 7 /\ io' \in Seq(Write)
    BY <1>2, <1>6, <1>9, ExtensionSequence
  <1>12. \A k \in 1..n : dirc[k] \in L /\ img[k] = SlotsOf(data[dirc[k]])
    BY <1>1 DEF ChainsAt, LoadInv, Inserting, Extending
  <1>13. \A j, k \in 1..n : dirc[j] = dirc[k] => j = k
    BY <1>1 DEF ChainsAt, LoadInv
  <1> HIDE DEF n
  <1>14. LoadInv(L)'
    <2>1. Extending'
      <3>1. pc' = "retry"
        BY <1>1
      <3>2. Len(io') = 7
        BY <1>11
      <3> QED
        BY <3>1, <3>2 DEF Extending
    <2>2. ASSUME NEW k \in 1..(n + 1)
          PROVE  k = n + 1 \/ (dirc'[k] \in L /\ img'[k] = SlotsOf(data[dirc'[k]]))
      <3>1. k = n + 1 \/ k \in 1..n
        BY <1>8
      <3> QED
        BY <1>10, <1>12, <3>1
    <2>3. ASSUME NEW j \in 1..(n + 1), NEW k \in 1..(n + 1), dirc'[j] = dirc'[k] PROVE j = k
      <3>1. (j = n + 1 \/ j \in 1..n) /\ (k = n + 1 \/ k \in 1..n)
        BY <1>8
      <3>2. \A i \in 1..n : dirc'[i] # c
        BY <1>7, <1>10, <1>12
      <3> QED
        BY <1>10, <1>13, <2>3, <3>1, <3>2
    <2> QED
      BY <1>1, <1>10, <2>1, <2>2, <2>3 DEF LoadInv
  <1>15. ExtendInv(L)'
    <2>1. io' = SubSeq(ExtensionWrites(c, last), 8 - Len(io'), 7)
      <3>1. ExtensionWrites(c, last) \in Seq(Write) /\ Len(ExtensionWrites(c, last)) = 7
        BY ExtensionSequence
      <3>2. SubSeq(ExtensionWrites(c, last), 1, 7) = ExtensionWrites(c, last)
        BY <3>1, SubSeqFull
      <3> QED
        BY <1>11, <3>2
    <2>2. dirc'[(n + 1) - 1] = last
      <3>1. (n + 1) - 1 = n /\ n \in 1..n
        BY <1>8
      <3> QED
        BY <1>9, <1>10, <3>1 DEF n
    <2>3. \A k \in 1..Len(chain) : c # chain[k]
      BY <1>4, <1>7 DEF Owned
    <2>4. n + 1 > 1
      BY <1>8
    <2>5. dirc'[Len(dirc')] = c /\ img'[Len(dirc')] = ZeroSector /\ dirc'[Len(dirc') - 1] = last
          /\ Len(dirc') > 1 /\ Len(io') = 7
      BY <1>10, <1>11, <2>2, <2>4
    <2>6. /\ c \notin L /\ ~Begins(data, c)' /\ \A x \in Cluster : fat'[x] # c
          /\ \A k \in 1..Len(chain') : c # chain'[k]
      BY <1>1, <1>7, <2>3
    <2>7. pc' = "retry" /\ ~(Len(io') < 7) /\ Len(io') # 4 /\ Len(io') <= 7
      <3>1. pc' = "retry"
        BY <1>1
      <3>2. Len(io') = 7
        BY <1>11
      <3> QED
        BY <3>1, <3>2
    <2> QED
      BY <2>1, <2>5, <2>6, <2>7 DEF ExtendInv
  <1>16. ClaimInv(L)'
    <2>1. Owned(L, fat, data, chain, ~MarkToCome)'
      BY <1>1, <1>3, <1>4 DEF Owned
    <2>2. op.kind = "mkdir" => NewDirectory'
      BY <1>1, <1>3, <1>4 DEF NewDirectory, FirstSector
    <2> QED
      BY <1>1, <1>4, <2>1, <2>2 DEF ClaimInv
  <1>17. DiskInv(L)'
    BY <1>1, <1>5 DEF ChainsAt, DiskInv
  <1>18. PlaceInv' /\ SaveInv(L)' /\ FreeInv(L)'
    BY <1>1 DEF PlaceInv, SaveInv, FreeInv
  <1> QED
    BY <1>14, <1>15, <1>16, <1>17, <1>18 DEF ChainsAt

LEMMA FreeChains ==
    ASSUME TypeInv, NEW L, ChainsAt(L), FreeCluster
    PROVE  ChainsAt(L)'
  <1>1. /\ pc \in {"free", "abort"} /\ io = <<>> /\ cur # 0
        /\ cur' = IF InRange(fat[cur]) THEN fat[cur] ELSE 0
        /\ UNCHANGED <<fat, data, cwd, pc, op, img, dirc, chain>>
    BY DEF FreeCluster, NextToFree, disk
  <1>2. io' = WriteEntry(cur, 0)
    BY DEF FreeCluster
  <1>3. Victim' = Victim
    BY <1>1 DEF Victim, Deleting
  <1>4. Freeable(L, fat, data, Victim, cur)
    <2>1. \A c : io # WriteEntry(c, 0)
      BY <1>1, EntryWrites
    <2> QED
      BY <1>1, <2>1 DEF ChainsAt, FreeInv
  <1>5. PICK c \in Cluster : c = cur
    BY <1>4 DEF Freeable
  <1>6. FreeInv(L)'
    <2>1. /\ io' = WriteEntry(c, 0) /\ Freeable(L, fat, data, Victim, c)
          /\ cur' = IF InRange(fat[c]) THEN fat[c] ELSE 0
      BY <1>1, <1>2, <1>4, <1>5
    <2>2. /\ io' = WriteEntry(c, 0) /\ Freeable(L, fat, data, Victim, c)'
          /\ cur' = IF InRange(fat'[c]) THEN fat'[c] ELSE 0
      BY <1>1, <1>3, <2>1
    <2> QED
      BY <1>1, <2>2 DEF ChainsAt, FreeInv, InRange
  <1>7. DiskInv(L)'
    BY <1>1, <1>3 DEF ChainsAt, DiskInv
  <1>8. LoadInv(L)'
    BY <1>1 DEF ChainsAt, LoadInv, Inserting, Extending
  <1>9. ClaimInv(L)' /\ ExtendInv(L)' /\ PlaceInv' /\ SaveInv(L)'
    BY <1>1 DEF ClaimInv, Claiming, Inserting, ExtendInv, PlaceInv, SaveInv
  <1> QED
    BY <1>6, <1>7, <1>8, <1>9 DEF ChainsAt

(* The place on the disk of a slot of the image. *)
LEMMA ImagePlace ==
    ASSUME NEW image \in Seq(Sector), NEW clusters \in Seq(Cluster),
           Len(image) = Len(clusters), NEW d \in Region,
           NEW i \in 1..Capacity(image),
           \A k \in 1..Len(clusters) : image[k] = SlotsOf(d[clusters[k]])
    PROVE  \E k \in 1..Len(clusters), e \in SlotNo :
              /\ Position(k, e) = i
              /\ <<clusters[k], e>> \in Spot
              /\ EntryOf(d, <<clusters[k], e>>) = At(image, i)
  <1>1. PICK k \in 1..Len(image), e \in SlotNo : Position(k, e) = i
    BY SlotPlace
  <1>2. At(image, i) = image[k][e]
    BY <1>1, PositionAt
  <1>3. clusters[k] \in Cluster /\ k \in 1..Len(clusters)
    BY ElementOfSeq
  <1>4. EntryOf(d, <<clusters[k], e>>) = SlotsOf(d[clusters[k]])[e]
    BY DEF EntryOf
  <1> QED
    BY <1>1, <1>2, <1>3, <1>4 DEF Spot

LEMMA DeleteChains ==
    ASSUME TypeInv, RestInv, Quiet, NEW L, ChainsAt(L), NEW name \in Name, DeleteFile(name)
    PROVE  ChainsAt(L)'
  <1>1. /\ pc = "idle" /\ pc' = "free" /\ io = <<>>
        /\ dirc' = DirChain(cwd) /\ img' = Load(cwd)
        /\ op'.kind = "delete" /\ op'.slot = Find(Load(cwd), name) /\ op'.slot # 0
        /\ At(img', op'.slot).tag = "file" /\ cur' = At(img', op'.slot).cluster
        /\ UNCHANGED <<fat, data, cwd, chain, io>>
    BY DEF DeleteFile, Start, disk, Quiet
  <1>2. DiskAt(L, fat, data, {}) /\ cwd \in Parents(data)
    BY <1>1 DEF ChainsAt, DiskInv, Victim, Deleting
  <1>3. /\ dirc' \in Seq(Cluster) /\ img' \in Seq(Sector) /\ Len(img') = Len(dirc')
        /\ \A k \in 1..Len(dirc') : dirc'[k] \in L /\ img'[k] = SlotsOf(data[dirc'[k]])
        /\ \A j, k \in 1..Len(dirc') : dirc'[j] = dirc'[k] => j = k
    <2>1. data \in [Cluster -> SectorData] /\ cwd \in Cluster
      BY State DEF Region
    <2> QED
      BY <1>1, <1>2, <2>1, StartLoads, LoadType
  <1>4. op'.slot \in 1..Capacity(img')
    BY <1>1, <1>3, FindType, VisibleType
  <1>5. PICK k0 \in 1..Len(dirc'), e0 \in SlotNo :
           /\ Position(k0, e0) = op'.slot
           /\ <<dirc'[k0], e0>> \in Spot
           /\ EntryOf(data, <<dirc'[k0], e0>>) = At(img', op'.slot)
    <2>1. data \in Region
      BY State
    <2> QED
      BY <1>3, <1>4, <2>1, ImagePlace
  <1>6. PICK p \in Spot : p = <<dirc'[k0], e0>>
    BY <1>5
  <1>7. /\ p \in Shown(data) /\ EntryOf(data, p).tag = "file" /\ EntryOf(data, p).cluster = cur'
    BY <1>1, <1>5, <1>6 DEF Shown, IsVisible
  <1>8. p \in Victim'
    <2>1. p[1] = dirc'[k0] /\ p[2] = e0
      BY <1>6
    <2> QED
      BY <1>1, <1>5, <2>1 DEF Victim, Deleting
  <1>9. DiskInv(L)'
    <2>1. PICK X \in SUBSET Spot : X = Victim'
      BY DEF Victim
    <2>2. DiskAt(L, fat, data, X)
      BY <1>2, OtherVictims
    <2> QED
      BY <1>1, <1>2, <2>1, <2>2 DEF DiskInv
  <1>10. ASSUME cur' # 0 PROVE Freeable(L, fat, data, Victim', cur')
    <2>1. data \in Region
      BY State
    <2>2. cur' \in Cluster
      BY <1>7, <1>10, <2>1, ShownType
    <2>3. cur' \notin L
      BY <1>2, <1>7 DEF DiskAt, TwoWorlds
    <2>4. fat[cur'] # 0
      BY <1>2, <1>7, <1>10 DEF DiskAt, Leads
    <2>5. \A x \in Cluster : fat[x] # cur'
      BY <1>2, <1>7, <2>2 DEF DiskAt, Disjoint, Begins
    <2>6. \A q \in Shown(data) \ Victim' : EntryOf(data, q).cluster # cur'
      BY <1>2, <1>7, <1>8, <1>10 DEF DiskAt, Disjoint
    <2> QED
      BY <2>2, <2>3, <2>4, <2>5, <2>6 DEF Freeable
  <1>11. FreeInv(L)'
    BY <1>1, <1>4, <1>10 DEF FreeInv
  <1>12. LoadInv(L)'
    BY <1>1, <1>3 DEF LoadInv
  <1>13. ClaimInv(L)' /\ ExtendInv(L)' /\ PlaceInv' /\ SaveInv(L)'
    BY <1>1 DEF ClaimInv, Claiming, Inserting, ExtendInv, PlaceInv, SaveInv
  <1> QED
    BY <1>9, <1>11, <1>12, <1>13 DEF ChainsAt

LEMMA MarkChains ==
    ASSUME TypeInv, NEW L, ChainsAt(L), MarkEntry
    PROVE  ChainsAt(L)'
  <1>1. /\ pc = "free" /\ pc' = "save" /\ io = <<>>
        /\ img' = MarkDeleted(img, op.slot)
        /\ UNCHANGED <<fat, data, cwd, op, dirc, cur, chain>>
    BY DEF MarkEntry, disk
  <1>2. io' = SaveWrites(img', dirc)
    BY DEF MarkEntry
  <1>3. op.kind = "delete" /\ op.slot \in 1..Capacity(img) /\ At(img, op.slot).tag = "file"
    BY <1>1 DEF ChainsAt, FreeInv
  <1>4. Victim' = Victim
    BY <1>1 DEF Victim, Deleting
  <1>5. DiskInv(L)'
    BY <1>1, <1>4 DEF ChainsAt, DiskInv
  <1>6. LoadInv(L)'
    BY <1>1 DEF ChainsAt, LoadInv, Inserting
  <1>7. \A k \in 1..Len(dirc) : dirc[k] \in L /\ img[k] = SlotsOf(data[dirc[k]])
    BY <1>1 DEF ChainsAt, LoadInv, Inserting, Extending
  <1>8. /\ img \in Seq(Sector) /\ Len(img) = Len(dirc) /\ Len(dirc) \in Nat
        /\ img' \in Seq(Sector) /\ Len(img') = Len(img)
    BY <1>1, State, MarkDeletedType
  <1>9. ASSUME NEW k \in 1..Len(img), NEW e \in SlotNo
        PROVE  LET old == SlotsOf(data[dirc[k]])[e]
                   new == img'[k][e]
               IN  IF Position(k, e) # op.slot THEN Agree(old, new)
                   ELSE ~Solid(new) /\ old.tag = "file"
    <2> DEFINE old == SlotsOf(data[dirc[k]])[e]
               new == img'[k][e]
    <2>1. At(img, Position(k, e)) = img[k][e]
      BY <1>8, PositionAt
    <2>2. old = img[k][e]
      BY <1>7, <1>8
    <2>3. /\ Position(k, e) = op.slot => new.tag = "del"
          /\ Position(k, e) # op.slot =>
                new = img[k][e] \/ (new.tag = "del" /\ HasLfnAttr(img[k][e]))
      BY <1>1, <1>3, <1>8, DeleteSlots
    <2> HIDE DEF old, new
    <2>4. CASE Position(k, e) = op.slot
      BY <1>3, <2>1, <2>2, <2>3, <2>4 DEF Solid, old, new
    <2>5. CASE Position(k, e) # op.slot
      BY <2>2, <2>3, <2>5 DEF Agree, Solid, HasLfnAttr, old, new
    <2> QED
      BY <2>4, <2>5
  <1>10. SaveInv(L)'
    <2>1. /\ Len(io') = Len(img')
          /\ \A k \in 1..Len(img') :
                io'[k] = SaveWrites(img', dirc')[Len(img') - Len(io') + k]
      <3>1. Len(io') = Len(img') /\ Len(img') \in Nat /\ dirc' = dirc
        BY <1>1, <1>2, <1>8, SaveSequence
      <3>2. \A k \in 1..Len(img') : Len(img') - Len(io') + k = k
        BY <3>1
      <3> QED
        BY <1>2, <3>1, <3>2
    <2>2. \A k \in 1..Len(img') : dirc'[k] \in L /\ ToCome(k)'
      <3>1. Len(img') - Len(io') = 0 /\ Len(img') \in Nat
        BY <1>8, <2>1
      <3> QED
        BY <1>1, <1>7, <1>8, <3>1 DEF ToCome
    <2>3. \A k \in 1..Len(img') : \A e \in SlotNo : SlotInv(k, e)'
      BY <1>1, <1>3, <1>8, <1>9 DEF SlotInv
    <2>4. op'.kind # "none" /\ Len(io') <= Len(img') /\ op'.slot \in 1..Capacity(img')
      BY <1>1, <1>3, <1>8, <2>1 DEF Capacity
    <2> QED
      BY <2>1, <2>2, <2>3, <2>4 DEF SaveInv
  <1>11. ClaimInv(L)'
    BY <1>1, <1>3 DEF ClaimInv, Claiming, Inserting
  <1>12. ExtendInv(L)' /\ PlaceInv' /\ FreeInv(L)'
    BY <1>1 DEF ExtendInv, PlaceInv, FreeInv
  <1> QED
    BY <1>5, <1>6, <1>10, <1>11, <1>12 DEF ChainsAt

(* The victim, as long as it is shown. *)
LEMMA VictimOnDisk ==
    ASSUME TypeInv, NEW L, ChainsAt(L), NEW p \in Shown(data), p \in Victim
    PROVE  /\ op.kind = "delete" /\ pc \in {"free", "save"}
           /\ pc = "free" => EntryOf(data, p) = At(img, op.slot)
           /\ pc = "save" => io # <<>> /\ ~EntryWritten(op.slot)
  <1>1. op.kind = "delete" /\ pc \in {"free", "save"}
    BY DEF Victim, Deleting
  <1>2. PICK k \in 1..Len(dirc) : p[1] = dirc[k] /\ Position(k, p[2]) = op.slot
    BY DEF Victim
  <1>3. /\ data \in Region /\ img \in Seq(Sector) /\ Len(img) = Len(dirc)
        /\ dirc \in Seq(Cluster) /\ Len(img) \in Nat
    BY State
  <1>4. p[2] \in SlotNo /\ EntryOf(data, p) = SlotsOf(data[dirc[k]])[p[2]]
    BY <1>2, <1>3, ShownType DEF EntryOf
  <1>5. At(img, op.slot) = img[k][p[2]]
    BY <1>2, <1>3, <1>4, PositionAt
  <1>6. pc = "free" => EntryOf(data, p) = At(img, op.slot)
    BY <1>2, <1>4, <1>5 DEF ChainsAt, LoadInv, Extending
  <1>7. ASSUME pc = "save", io = <<>> \/ EntryWritten(op.slot)
        PROVE  FALSE
    <2>1. ~Solid(img[k][p[2]])
      BY <1>1, <1>2, <1>3, <1>4, <1>7 DEF ChainsAt, SaveInv, SlotInv
    <2>2. EntryOf(data, p) = img[k][p[2]]
      <3>1. CASE io = <<>>
        <4>1. Len(io) = 0 /\ ~ToCome(k)
          <5>1. Len(io) = 0
            BY <3>1
          <5> QED
            BY <1>2, <1>3, <5>1 DEF ToCome
        <4> QED
          BY <1>2, <1>3, <1>4, <1>7, <4>1 DEF ChainsAt, SaveInv
      <3>2. CASE EntryWritten(op.slot)
        <4>1. /\ Image(data, dirc) \in Seq(Sector) /\ Len(Image(data, dirc)) = Len(dirc)
              /\ Image(data, dirc)[k] = SlotsOf(data[dirc[k]])
          BY <1>3, ImageType DEF Region, Image
        <4>2. At(Image(data, dirc), op.slot) = Image(data, dirc)[k][p[2]]
          BY <1>2, <1>4, <4>1, PositionAt
        <4> QED
          BY <1>4, <1>5, <3>2, <4>1, <4>2 DEF EntryWritten
      <3> QED
        BY <1>7, <3>1, <3>2
    <2> QED
      BY <2>1, <2>2 DEF Shown, IsVisible, Solid
  <1> QED
    BY <1>1, <1>6, <1>7

LEMMA ReturnChains ==
    ASSUME TypeInv, NEW L, ChainsAt(L), Return
    PROVE  ChainsAt(L)'
  <1>1. /\ io = <<>> /\ pc \in {"save", "abort"} /\ pc' = "idle"
        /\ UNCHANGED <<fat, data, cwd>>
    BY DEF Return, Finish, disk
  <1>2. Victim' = {}
    BY <1>1 DEF Victim, Deleting
  <1>3. DiskAt(L, fat, data, {})
    <2>1. CASE ~Deleting
      BY <2>1 DEF ChainsAt, DiskInv, Victim
    <2>2. CASE Deleting
      <3>1. \A p \in Shown(data) : p \notin Victim
        BY <1>1, VictimOnDisk
      <3>2. PICK X \in SUBSET Spot : X = Victim
        BY DEF Victim
      <3>3. DiskAt(L, fat, data, X) /\ \A p \in Shown(data) \ {} : p \notin X
        BY <3>1, <3>2 DEF ChainsAt, DiskInv
      <3> QED
        BY <3>3, OtherVictims
    <2> QED
      BY <2>1, <2>2
  <1>4. DiskInv(L)'
    BY <1>1, <1>2, <1>3 DEF ChainsAt, DiskInv
  <1> QED
    BY <1>1, <1>4, AtEase

LEMMA ChangeChains ==
    ASSUME TypeInv, NEW L, ChainsAt(L), NEW d \in Cluster, ChangeDir(d)
    PROVE  ChainsAt(L)'
  <1>1. /\ pc = "idle" /\ pc' = "idle" /\ cwd' = d /\ UNCHANGED <<fat, data, op, dirc>>
    BY DEF ChangeDir, disk, ram
  <1>2. DiskAt(L, fat, data, {}) /\ cwd \in Parents(data)
    BY <1>1 DEF ChainsAt, DiskInv, Victim, Deleting
  <1>3. data \in Region /\ cwd \in Cluster
    BY State
  <1>4. /\ DirChain(cwd) \in Seq(Cluster) /\ Load(cwd) \in Seq(Sector)
        /\ Len(Load(cwd)) = Len(DirChain(cwd))
        /\ \A k \in 1..Len(DirChain(cwd)) :
              /\ DirChain(cwd)[k] \in L
              /\ Load(cwd)[k] = SlotsOf(data[DirChain(cwd)[k]])
    BY <1>2, <1>3, StartLoads, LoadType DEF Region
  <1>5. ASSUME NEW i \in 1..Capacity(Load(cwd))
        PROVE  \E p \in L \X SlotNo : p \in Spot /\ EntryOf(data, p) = At(Load(cwd), i)
    <2>1. PICK k \in 1..Len(DirChain(cwd)), e \in SlotNo :
             /\ Position(k, e) = i
             /\ <<DirChain(cwd)[k], e>> \in Spot
             /\ EntryOf(data, <<DirChain(cwd)[k], e>>) = At(Load(cwd), i)
      BY <1>3, <1>4, ImagePlace
    <2>2. <<DirChain(cwd)[k], e>> \in L \X SlotNo
      BY <1>4
    <2> QED
      BY <2>1, <2>2
  <1>6. d \in Parents(data)
    <2>1. CASE \E i \in Visible(Load(cwd)) :
                  At(Load(cwd), i).tag = "dir" /\ d = At(Load(cwd), i).cluster
      <3>1. PICK i \in 1..Capacity(Load(cwd)) :
               /\ IsVisible(At(Load(cwd), i)) /\ At(Load(cwd), i).tag = "dir"
               /\ d = At(Load(cwd), i).cluster
        BY <1>4, <2>1, VisibleType
      <3>2. PICK p \in Spot : EntryOf(data, p) = At(Load(cwd), i)
        BY <1>5
      <3> QED
        BY <3>1, <3>2 DEF Parents, Shown
    <2>2. CASE d = Parent(Load(cwd)) /\ d # 0
      <3> DEFINE ups == {i \in 1..Count(Load(cwd)) : At(Load(cwd), i).tag = "dotdot"}
      <3>1. ups # {} /\ d = At(Load(cwd), Least(ups)).cluster
        BY <2>2 DEF Parent
      <3>2. Count(Load(cwd)) \in 0..Capacity(Load(cwd)) /\ Capacity(Load(cwd)) \in Nat
        BY <1>4, CountRange, CapacityType
      <3>3. ups \in SUBSET Nat
        BY <3>2
      <3>4. Least(ups) \in ups
        <4> HIDE DEF ups
        <4> QED
          BY <3>1, <3>3, LeastInSet
      <3>7. PICK low \in ups : low = Least(ups)
        BY <3>4
      <3>8. low \in 1..Count(Load(cwd)) /\ At(Load(cwd), low).tag = "dotdot"
            /\ d = At(Load(cwd), low).cluster
        BY <3>1, <3>7
      <3>9. low \in 1..Capacity(Load(cwd))
        BY <3>2, <3>8
      <3>5. PICK i \in 1..Capacity(Load(cwd)) :
               At(Load(cwd), i).tag = "dotdot" /\ d = At(Load(cwd), i).cluster
        BY <3>8, <3>9
      <3>6. PICK p \in L \X SlotNo : EntryOf(data, p) = At(Load(cwd), i)
        BY <1>5
      <3> QED
        BY <1>2, <3>5, <3>6 DEF DiskAt, TwoWorlds
    <2>3. CASE d = Root
      BY <2>3 DEF Parents
    <2> QED
      BY <2>1, <2>2, <2>3 DEF ChangeDir
  <1>7. DiskInv(L)'
    BY <1>1, <1>2, <1>6 DEF DiskInv, Victim, Deleting
  <1> QED
    BY <1>1, <1>7, AtEase

-----------------------------------------------------------------------------
(* Formatting, starting and losing power. *)

(* A disk that was just formatted shows nothing. *)
LEMMA FreshDisk ==
    ASSUME NEW f \in Table32, NEW d \in Region,
           \A c \in Cluster : f[c] = IF c = Root THEN EOC ELSE 0,
           d = [Blank EXCEPT ![Root] = DirSector(RootSector)]
    PROVE  DiskAt({Root}, f, d, {}) /\ Root \in Parents(d) /\ Shown(d) = {}
  <1>1. Root \in Cluster /\ EOC \notin Cluster /\ EOC # 0 /\ 0 \notin Cluster
    BY Values
  <1>2. \A c \in Cluster : d[c] = IF c = Root THEN DirSector(RootSector) ELSE Junk
    BY <1>1 DEF Blank
  <1>3. ASSUME NEW p \in Spot
        PROVE  /\ ~IsVisible(EntryOf(d, p))
               /\ EntryOf(d, p).tag = "dotdot" => EntryOf(d, p).cluster = Root
    <2>1. p[1] \in Cluster /\ p[2] \in SlotNo
      BY EntryType
    <2>2. CASE p[1] = Root
      <3>1. EntryOf(d, p) = RootSector[p[2]]
        BY <1>2, <2>1, <2>2 DEF EntryOf, SlotsOf, DirSector
      <3>2. RootSector[p[2]] \in {Dot(Root), DotDot(Root), Volume, End}
        BY <2>1 DEF RootSector, SlotNo
      <3> QED
        BY <3>1, <3>2 DEF Dot, DotDot, Volume, End, IsVisible
    <2>3. CASE p[1] # Root
      <3>1. EntryOf(d, p) = ZeroSector[p[2]]
        BY <1>2, <2>1, <2>3 DEF EntryOf, SlotsOf, Junk
      <3>2. EntryOf(d, p) = End
        BY <2>1, <3>1 DEF ZeroSector, SlotNo
      <3> QED
        BY <3>2 DEF End, IsVisible
    <2> QED
      BY <2>2, <2>3
  <1>4. Shown(d) = {}
    BY <1>3 DEF Shown
  <1>5. Parents(d) = {Root}
    BY <1>4 DEF Parents
  <1>6. \A c \in Cluster : f[c] \notin Cluster
    BY <1>1
  <1>7. TwoWorlds({Root}, f, d)
    <2>1. f[Root] # 0 /\ d[Root].tag = "dir"
      BY <1>1, <1>2 DEF DirSector
    <2>2. \A p \in {Root} \X SlotNo :
             EntryOf(d, p).tag = "dotdot" => EntryOf(d, p).cluster \in Parents(d)
      BY <1>1, <1>3, <1>5 DEF Spot
    <2> QED
      BY <1>1, <1>4, <1>6, <2>1, <2>2 DEF TwoWorlds
  <1>8. Disjoint(f, d)
    BY <1>4, <1>6 DEF Disjoint, Begins
  <1>9. Leads(f, d, {})
    BY <1>4, <1>6 DEF Leads
  <1> QED
    BY <1>4, <1>5, <1>7, <1>8, <1>9 DEF DiskAt

LEMMA FormattedDisk ==
    ASSUME TypeInv, FormatInv, pc = "format", io = <<>>
    PROVE  /\ boot = "fat32"
           /\ DiskAt({Root}, fat, data, {}) /\ Root \in Parents(data) /\ Shown(data) = {}
  <1>1. \A k \in 1..7 : Rest(k) = <<>> => k = 7
    BY RestSteps
  <1>2. FormatWrites # <<>>
    BY <1>1, FormatSequence
  <1>3. PICK k \in 2..7 :
           /\ boot = "fat32" /\ io = Rest(k)
           /\ k > 2 => \A c \in Cluster : fat[c] = IF c = Root /\ k > 4 THEN EOC ELSE 0
           /\ data = IF k = 7 THEN [Blank EXCEPT ![Root] = DirSector(RootSector)] ELSE Blank
    BY <1>2 DEF FormatInv
  <1>4. k = 7
    BY <1>1, <1>3
  <1>5. /\ \A c \in Cluster : fat[c] = IF c = Root THEN EOC ELSE 0
        /\ data = [Blank EXCEPT ![Root] = DirSector(RootSector)]
    <2>1. 7 > 2 /\ 7 > 4
      OBVIOUS
    <2> QED
      BY <1>3, <1>4, <2>1
  <1>6. fat \in Table32 /\ data \in Region
    BY State
  <1>7. PICK d \in Region : d = data
    BY <1>6
  <1>8. DiskAt({Root}, fat, d, {}) /\ Root \in Parents(d) /\ Shown(d) = {}
    BY <1>5, <1>6, <1>7, FreshDisk
  <1> QED
    BY <1>3, <1>7, <1>8

LEMMA FormatDoneChains ==
    ASSUME TypeInv, RestInv, FormatInv, FormatDone
    PROVE  ChainsAt({Root})'
  <1>1. /\ pc = "format" /\ io = <<>> /\ pc' = "idle" /\ UNCHANGED <<fat, data, cwd>>
    BY DEF FormatDone, disk
  <1>2. cwd = Root
    BY <1>1 DEF RestInv
  <1>3. DiskAt({Root}, fat, data, {}) /\ Root \in Parents(data)
    BY <1>1, FormattedDisk
  <1>4. Victim' = {}
    BY <1>1 DEF Victim, Deleting
  <1>5. DiskInv({Root})'
    BY <1>1, <1>2, <1>3, <1>4 DEF DiskInv
  <1> QED
    BY <1>1, <1>5, AtEase

LEMMA BootChains ==
    ASSUME TypeInv, NEW L, ChainsAt(L), boot = "fat32", Boot
    PROVE  ChainsAt(L)'
  <1>1. /\ pc = "off" /\ pc' = "idle" /\ UNCHANGED <<fat, data, cwd, op, dirc>>
    BY DEF Boot, disk
  <1>2. DiskInv(L)'
    BY <1>1 DEF ChainsAt, DiskInv, Victim, Deleting
  <1> QED
    BY <1>1, <1>2, AtEase

(* A power cut that leaves nothing half done. *)
LEMMA CutChains ==
    ASSUME TypeInv, NEW L, ChainsAt(L), ~DeleteHalfDone, PowerCut
    PROVE  ChainsAt(L)'
  <1>1. /\ pc' = "off" /\ cwd' = Root /\ UNCHANGED <<fat, data>>
    BY DEF PowerCut, disk
  <1>2. Victim' = {}
    BY <1>1 DEF Victim, Deleting
  <1>3. DiskAt(L, fat, data, Victim)
    BY DEF ChainsAt, DiskInv
  <1>4. ASSUME NEW p \in Shown(data), p \in Victim
        PROVE  EntryOf(data, p).cluster = 0 \/ fat[EntryOf(data, p).cluster] # 0
    <2>1. op.kind = "delete" /\ pc \in {"free", "save"}
      BY <1>4, VictimOnDisk
    <2>2. CASE pc = "free"
      <3>1. cur = At(img, op.slot).cluster
        BY <2>1, <2>2 DEF DeleteHalfDone
      <3>2. EntryOf(data, p) = At(img, op.slot)
        BY <1>4, <2>2, VictimOnDisk
      <3>3. EntryOf(data, p).cluster = cur
        BY <3>1, <3>2
      <3>4. cur # 0 => fat[cur] # 0
        <4>1. CASE cur # 0 => Freeable(L, fat, data, Victim, cur)
          BY <4>1 DEF Freeable
        <4>2. CASE \E c \in Cluster : cur = IF InRange(fat[c]) THEN fat[c] ELSE 0
          BY <1>3, <4>2 DEF DiskAt, Leads, InRange
        <4> QED
          BY <2>2, <4>1, <4>2 DEF ChainsAt, FreeInv
      <3> QED
        BY <3>3, <3>4
    <2>3. CASE pc = "save"
      <3>1. ~EntryWritten(op.slot)
        BY <1>4, <2>3, VictimOnDisk
      <3> QED
        BY <2>1, <2>3, <3>1 DEF DeleteHalfDone
    <2> QED
      BY <2>1, <2>2, <2>3
  <1>5. DiskAt(L, fat, data, {})
    <2>1. PICK X \in SUBSET Spot : X = Victim
      BY DEF Victim
    <2>2. /\ DiskAt(L, fat, data, X)
          /\ \A p \in Shown(data) \ {} :
                p \notin X \/ EntryOf(data, p).cluster = 0 \/ fat[EntryOf(data, p).cluster] # 0
      BY <1>3, <1>4, <2>1
    <2> QED
      BY <2>2, OtherVictims
  <1>6. DiskInv(L)'
    BY <1>1, <1>2, <1>5 DEF DiskInv, Parents
  <1> QED
    BY <1>1, <1>6, AtEase

LEMMA CutFormat ==
    ASSUME TypeInv, FormatInv, pc = "format", boot = "fat32", ~FormatHalfDone, PowerCut
    PROVE  ChainsAt({Root})'
  <1>1. /\ pc' = "off" /\ cwd' = Root /\ UNCHANGED <<fat, data>>
    BY DEF PowerCut, disk
  <1>2. DiskAt({Root}, fat, data, {}) /\ Root \in Parents(data)
    BY FormattedDisk DEF FormatHalfDone
  <1>3. Victim' = {}
    BY <1>1 DEF Victim, Deleting
  <1>4. DiskInv({Root})'
    BY <1>1, <1>2, <1>3 DEF DiskInv
  <1> QED
    BY <1>1, <1>4, AtEase

-----------------------------------------------------------------------------
(* The sector writes. *)

LEMMA WriteStep ==
    ASSUME TypeInv, DiskWrite
    PROVE  /\ io # <<>> /\ io' = Tail(io) /\ Head(io) = io[1] /\ io[1] \in Write
           /\ Len(io) \in Nat \ {0} /\ Len(io') = Len(io) - 1
           /\ \A j \in 1..Len(io') : j + 1 \in 1..Len(io) /\ io'[j] = io[j + 1]
           /\ UNCHANGED <<hint, pc, op, img, dirc, chain, cur, cwd, cuts, torn, lost>>
           /\ Victim' = Victim
  <1>1. /\ io # <<>> /\ io' = Tail(io)
        /\ UNCHANGED <<hint, pc, op, img, dirc, chain, cur, cwd, cuts, torn, lost>>
    BY DEF DiskWrite
  <1>2. io \in Seq(Write)
    BY State
  <1>3. Head(io) = io[1] /\ io[1] \in Write /\ Len(io) \in Nat \ {0}
    BY <1>1, <1>2, Ends, HeadTailProperties
  <1>4. Len(io') = Len(io) - 1 /\ \A j \in 1..Len(io') : io'[j] = io[j + 1]
    BY <1>1, <1>2, <1>3, HeadTailProperties
  <1>5. \A j \in 1..Len(io') : j + 1 \in 1..Len(io)
    BY <1>3, <1>4
  <1>6. Victim' = Victim
    BY <1>1 DEF Victim, Deleting
  <1> QED
    BY <1>1, <1>3, <1>4, <1>5, <1>6

LEMMA SectorStep ==
    ASSUME TypeInv, DiskWrite, NEW w, w = io[1]
    PROVE  /\ w.to = "fat" => /\ w.cluster \in Cluster /\ data' = data /\ boot' = boot
                              /\ w.copy = 0 => fat' = [fat EXCEPT ![w.cluster] = w.value]
                              /\ w.copy # 0 => fat' = fat
           /\ w.to = "data" => /\ w.cluster \in Cluster /\ w.value \in SectorData
                               /\ data' = [data EXCEPT ![w.cluster] = w.value]
                               /\ fat' = fat /\ boot' = boot
           /\ fat' \in Table32 /\ data' \in Region
  <1>1. w = Head(io) /\ w \in Write
    BY WriteStep
  <1>2. /\ fat' = Written(fat, 0, w)
        /\ data' = IF w.to = "data" THEN [data EXCEPT ![w.cluster] = w.value] ELSE data
        /\ boot' = IF w.to = "boot" THEN "fat32" ELSE boot
    BY <1>1 DEF DiskWrite
  <1>3. /\ w.to = "fat" => w.cluster \in Cluster
        /\ w.to = "data" => w.cluster \in Cluster /\ w.value \in SectorData
    BY <1>1 DEF Write
  <1>4. fat \in Table32 /\ data \in Region
    BY State
  <1>5. fat' \in Table32
    BY <1>1, <1>2, <1>4, WrittenType DEF Table32
  <1>6. data' \in Region
    BY <1>2, <1>3, <1>4 DEF Region
  <1> QED
    BY <1>2, <1>3, <1>5, <1>6 DEF Written

LEMMA AllocWrite ==
    ASSUME TypeInv, NEW L, ChainsAt(L), DiskWrite, pc = "alloc"
    PROVE  ChainsAt(L)'
  <1> DEFINE n == Len(chain)
  <1>1. /\ io # <<>> /\ io' = Tail(io) /\ Head(io) = io[1] /\ io[1] \in Write
        /\ UNCHANGED <<pc, op, img, dirc, chain, cur, cwd>> /\ Victim' = Victim
    BY WriteStep
  <1>2. chain # <<>>
    BY <1>1 DEF ChainsAt, ClaimInv, Marking
  <1>3. n \in Nat /\ n >= 1 /\ chain[n] \in Cluster
    BY <1>2, State
  <1>4. PICK c \in Cluster : c = chain[n]
    BY <1>3
  <1>5. io = WriteEntry(c, EOC) \/ io = Tail(WriteEntry(c, EOC))
    BY <1>1, <1>4 DEF ChainsAt, ClaimInv, Marking
  <1>6. /\ op.kind \in {"create", "mkdir"}
        /\ op.kind = "mkdir" => NewDirectory
    BY DEF ChainsAt, ClaimInv, Claiming, Inserting
  <1>7. fat \in Table32 /\ data \in Region
    BY State
  <1>8. data' = data /\ fat' = IF io = WriteEntry(c, EOC) THEN [fat EXCEPT ![c] = EOC] ELSE fat
    <2>1. CASE io = WriteEntry(c, EOC)
      <3>1. io[1] = [to |-> "fat", copy |-> 0, cluster |-> c, value |-> EOC]
        BY <1>1, <2>1, EntryWrites
      <3> QED
        BY <2>1, <3>1, SectorStep
    <2>2. CASE io = Tail(WriteEntry(c, EOC))
      <3>1. io[1] = [to |-> "fat", copy |-> 1, cluster |-> c, value |-> EOC]
            /\ io # WriteEntry(c, EOC)
        BY <1>1, <2>2, EntryWrites
      <3> QED
        BY <3>1, SectorStep
    <2> QED
      BY <1>5, <2>1, <2>2
  <1>9. Marking' /\ ~MarkToCome'
    <2>1. io' = <<>> \/ io' = Tail(WriteEntry(c, EOC))
      BY <1>1, <1>5, EntryWrites
    <2>2. Len(io') = 0 \/ Len(io') = 1
      <3>1. io' = <<>> => Len(io') = 0
        OBVIOUS
      <3>2. Len(Tail(WriteEntry(c, EOC))) = 1
        BY EntryWrites
      <3> QED
        BY <2>1, <3>1, <3>2
    <2>3. Marking'
      BY <1>1, <1>2, <1>4, <2>1 DEF Marking
    <2>4. Len(io') # 2
      BY <2>2
    <2> QED
      BY <2>3, <2>4 DEF MarkToCome
  <1>10. MarkToCome <=> io = WriteEntry(c, EOC)
    <2>1. Len(WriteEntry(c, EOC)) = 2 /\ Len(Tail(WriteEntry(c, EOC))) = 1
      BY EntryWrites
    <2> QED
      BY <1>5, <2>1 DEF MarkToCome
  <1>11. fat'[c] # 0 /\ (n = 1 => fat'[c] = EOC \/ op.kind # "mkdir")
         /\ (\A x \in Cluster : fat'[x] = fat[x] \/ (x = c /\ fat'[x] = EOC))
    <2>1. CASE io = WriteEntry(c, EOC)
      <3>1. fat'[c] = EOC /\ \A x \in Cluster : x # c => fat'[x] = fat[x]
        BY <1>7, <1>8, <2>1 DEF Table32
      <3> QED
        BY <3>1, Values
    <2>2. CASE io # WriteEntry(c, EOC)
      <3>1. Owned(L, fat, data, chain, TRUE) /\ ~MarkToCome
        BY <1>10, <2>2 DEF ChainsAt, ClaimInv, Claiming, Inserting
      <3>2. n \in 1..n
        BY <1>3
      <3>3. fat[c] # 0
        BY <1>4, <3>1, <3>2 DEF Owned
      <3>4. n = 1 /\ op.kind = "mkdir" => fat[c] = EOC
        BY <1>2, <1>4, <1>6, <3>1 DEF NewDirectory
      <3> QED
        BY <1>8, <2>2, <3>3, <3>4
    <2> QED
      BY <2>1, <2>2
  <1>12. Owned(L, fat, data, chain, ~MarkToCome)
    BY DEF ChainsAt, ClaimInv, Claiming, Inserting
  <1>13. Owned(L, fat', data, chain, TRUE)
    <2>1. ASSUME NEW k \in 1..n
          PROVE  /\ chain[k] \notin L /\ ~Begins(data, chain[k]) /\ fat'[chain[k]] # 0
                 /\ \A x \in Cluster : fat'[x] = chain[k] => k > 1 /\ x = chain[k - 1]
      <3>1. chain[k] \in Cluster
        BY State
      <3>2. chain[k] \notin L /\ ~Begins(data, chain[k])
        BY <1>12 DEF Owned
      <3>3. fat'[chain[k]] # 0
        <4>1. CASE k = n
          BY <1>4, <1>11, <4>1
        <4>2. CASE k # n
          <5>1. k < n
            BY <1>3, <4>2
          <5>2. fat[chain[k]] # 0
            BY <1>12, <5>1 DEF Owned
          <5> QED
            BY <1>11, <3>1, <5>2, Values
        <4> QED
          BY <4>1, <4>2
      <3>4. ASSUME NEW x \in Cluster, fat'[x] = chain[k]
            PROVE  k > 1 /\ x = chain[k - 1]
        <4>1. fat[x] = chain[k]
          BY <1>11, <3>1, <3>4, Values
        <4> QED
          BY <1>12, <4>1 DEF Owned
      <3> QED
        BY <3>2, <3>3, <3>4
    <2>2. \A j, k \in 1..n : chain[j] = chain[k] => j = k
      BY <1>12 DEF Owned
    <2> QED
      BY <2>1, <2>2 DEF Owned
  <1>14. op.kind = "mkdir" => NewDirectory'
    <2> SUFFICES ASSUME op.kind = "mkdir" PROVE NewDirectory'
      OBVIOUS
    <2>1. Len(chain) <= 1
      BY <1>6 DEF NewDirectory
    <2>2. n = 1 /\ chain[1] = c
      <3>1. n \in Nat /\ n >= 1 /\ n <= 1
        BY <1>3, <2>1
      <3>2. chain[n] = c
        BY <1>4
      <3> HIDE DEF n
      <3>3. n = 1
        BY <3>1
      <3> QED
        BY <3>2, <3>3
    <2>3. fat'[chain[1]] = EOC
      BY <1>11, <2>2
    <2>4. pc' = "alloc" /\ chain' = chain
      BY <1>1
    <2> HIDE DEF n
    <2> QED
      BY <2>1, <2>3, <2>4 DEF NewDirectory
  <1>15. ClaimInv(L)'
    <2>1. Owned(L, fat, data, chain, ~MarkToCome)'
      BY <1>1, <1>8, <1>9, <1>13 DEF Owned
    <2> QED
      BY <1>1, <1>6, <1>9, <1>14, <2>1 DEF ClaimInv
  <1>16. DiskInv(L)'
    <2>1. DiskAt(L, fat, data, {}) /\ Victim = {} /\ cwd \in Parents(data)
      BY DEF ChainsAt, DiskInv, Victim, Deleting
    <2>2. DiskAt(L, fat', data, {})
      BY <1>7, <1>8, <2>1, MarkDisk
    <2> QED
      BY <1>1, <1>8, <2>1, <2>2 DEF DiskInv
  <1>17. LoadInv(L)'
    BY <1>1, <1>8 DEF ChainsAt, LoadInv, Inserting, Extending
  <1>18. ExtendInv(L)' /\ PlaceInv' /\ SaveInv(L)' /\ FreeInv(L)'
    BY <1>1 DEF ExtendInv, PlaceInv, SaveInv, FreeInv
  <1> QED
    BY <1>15, <1>16, <1>17, <1>18 DEF ChainsAt

LEMMA ChainWrite ==
    ASSUME TypeInv, NEW L, ChainsAt(L), DiskWrite, pc \in {"free", "abort"}
    PROVE  ChainsAt(L)'
  <1>1. /\ io # <<>> /\ io' = Tail(io) /\ Head(io) = io[1]
        /\ UNCHANGED <<pc, op, img, dirc, chain, cur, cwd>> /\ Victim' = Victim
    BY WriteStep
  <1>2. PICK X \in SUBSET Spot : X = Victim
    BY DEF Victim
  <1>3. DiskAt(L, fat, data, X) /\ cwd \in Parents(data)
    BY <1>2 DEF ChainsAt, DiskInv
  <1>4. fat \in Table32 /\ data \in Region
    BY State
  <1>5. /\ data' = data /\ DiskAt(L, fat', data, X)
        /\ io' = <<>> \/ \E c \in Cluster : io' = Tail(WriteEntry(c, 0))
        /\ cur # 0 => Freeable(L, fat', data, X, cur)
    <2>1. CASE \E c \in Cluster : io = Tail(WriteEntry(c, 0))
      <3>1. PICK c \in Cluster : io = Tail(WriteEntry(c, 0))
        BY <2>1
      <3>2. io[1] = [to |-> "fat", copy |-> 1, cluster |-> c, value |-> 0] /\ io' = <<>>
            /\ io # WriteEntry(c, 0)
        BY <1>1, <3>1, EntryWrites
      <3>3. fat' = fat /\ data' = data
        BY <3>2, SectorStep
      <3>4. \A d \in Cluster : io # WriteEntry(d, 0)
        BY <3>1, EntryWrites
      <3>5. cur # 0 => Freeable(L, fat, data, Victim, cur)
        BY <3>4 DEF ChainsAt, FreeInv
      <3> QED
        BY <1>2, <1>3, <3>2, <3>3, <3>5
    <2>2. CASE ~(\E c \in Cluster : io = Tail(WriteEntry(c, 0)))
      <3>1. PICK c \in Cluster :
               /\ io = WriteEntry(c, 0) /\ Freeable(L, fat, data, Victim, c)
               /\ cur = IF InRange(fat[c]) THEN fat[c] ELSE 0
        BY <1>1, <2>2 DEF ChainsAt, FreeInv
      <3>2. io[1] = [to |-> "fat", copy |-> 0, cluster |-> c, value |-> 0]
        BY <1>1, <3>1, EntryWrites
      <3>3. fat' = [fat EXCEPT ![c] = 0] /\ data' = data
        BY <3>2, SectorStep
      <3>4. Freeable(L, fat, data, X, c)
        BY <1>2, <3>1
      <3>5. /\ DiskAt(L, [fat EXCEPT ![c] = 0], data, X)
            /\ fat[c] \in Cluster => Freeable(L, [fat EXCEPT ![c] = 0], data, X, fat[c])
        BY <1>3, <1>4, <3>4, ZeroDisk
      <3>6. cur # 0 => fat[c] \in Cluster /\ cur = fat[c]
        BY <3>1 DEF InRange
      <3> QED
        BY <1>1, <3>1, <3>3, <3>5, <3>6
    <2> QED
      BY <2>1, <2>2
  <1>6. DiskInv(L)'
    BY <1>1, <1>2, <1>3, <1>5 DEF DiskInv
  <1>7. FreeInv(L)'
    BY <1>1, <1>2, <1>5 DEF ChainsAt, FreeInv
  <1>8. LoadInv(L)'
    BY <1>1, <1>5 DEF ChainsAt, LoadInv, Inserting, Extending
  <1>9. ClaimInv(L)' /\ ExtendInv(L)' /\ PlaceInv' /\ SaveInv(L)'
    BY <1>1 DEF ClaimInv, Claiming, Inserting, ExtendInv, PlaceInv, SaveInv
  <1> QED
    BY <1>6, <1>7, <1>8, <1>9 DEF ChainsAt

LEMMA NameWrite ==
    ASSUME TypeInv, NEW L, ChainsAt(L), DiskWrite, pc = "name"
    PROVE  ChainsAt(L)'
  <1> DEFINE n == Len(chain)
  <1>1. /\ io # <<>> /\ io[1] \in Write
        /\ Len(io) \in Nat \ {0} /\ Len(io') = Len(io) - 1
        /\ \A j \in 1..Len(io') : j + 1 \in 1..Len(io) /\ io'[j] = io[j + 1]
        /\ UNCHANGED <<pc, op, img, dirc, chain, cur, cwd>> /\ Victim' = Victim
    BY WriteStep
  <1>2. PICK w \in Write : w = io[1]
    BY <1>1
  <1>3. 1 \in 1..Len(io)
    BY <1>1
  <1>4. LinkWrite(w) \/ ContentWrite(w)
    BY <1>2, <1>3 DEF ChainsAt, ClaimInv
  <1>5. ~MarkToCome /\ ~MarkToCome'
    BY <1>1 DEF MarkToCome
  <1>6. /\ op.kind \in {"create", "mkdir"}
        /\ op.kind = "mkdir" => NewDirectory
        /\ Owned(L, fat, data, chain, TRUE)
    BY <1>5 DEF ChainsAt, ClaimInv, Claiming, Inserting
  <1>7. /\ fat \in Table32 /\ data \in Region
        /\ n \in Nat /\ \A k \in 1..n : chain[k] \in Cluster
    BY State
  <1>8. DiskAt(L, fat, data, {}) /\ Victim = {} /\ cwd \in Parents(data)
    BY DEF ChainsAt, DiskInv, Victim, Deleting
  <1>9. Root \in L
    BY <1>8 DEF DiskAt, TwoWorlds
  <1>10. FirstSector' = FirstSector
    BY <1>1 DEF FirstSector
  <1>11. /\ DiskAt(L, fat', data', {}) /\ cwd \in Parents(data')
         /\ \A x \in L : data'[x] = data[x]
         /\ Owned(L, fat', data', chain, TRUE)
         /\ op.kind = "mkdir" => Len(io) = 1 /\ fat' = fat /\ data'[chain[1]] = FirstSector
    <2>1. CASE LinkWrite(w)
      <3>1. PICK k \in 1..(n - 1) :
               w.to = "fat" /\ w.cluster = chain[k] /\ w.value = chain[k + 1]
        BY <2>1 DEF LinkWrite
      <3>2. k \in 1..n /\ k + 1 \in 1..n /\ k + 1 > 1 /\ (k + 1) - 1 = k
        BY <1>7
      <3>3. data' = data /\ (fat' = fat \/ fat' = [fat EXCEPT ![chain[k]] = chain[k + 1]])
        BY <1>2, <3>1, SectorStep
      <3>4. op.kind # "mkdir"
        BY <1>2, <1>3, <1>6, <3>1 DEF NewDirectory
      <3>5. CASE fat' = fat
        BY <1>6, <1>8, <3>3, <3>4, <3>5
      <3>6. CASE fat' = [fat EXCEPT ![chain[k]] = chain[k + 1]]
        <4>1. PICK c \in Cluster, v \in Cluster : c = chain[k] /\ v = chain[k + 1]
          BY <1>7, <3>2
        <4>2. c \notin L /\ v \notin L /\ fat[v] # 0 /\ ~Begins(data, v) /\ v # Root
          BY <1>6, <1>9, <3>2, <4>1 DEF Owned
        <4>3. \A x \in Cluster : fat[x] = v => x = c
          BY <1>6, <3>2, <4>1 DEF Owned
        <4>4. DiskAt(L, fat', data, {})
          BY <1>7, <1>8, <3>6, <4>1, <4>2, <4>3, LinkDisk
        <4>5. fat'[c] = v /\ \A x \in Cluster : x # c => fat'[x] = fat[x]
          BY <1>7, <3>6, <4>1 DEF Table32
        <4>6. ASSUME NEW m \in 1..n
              PROVE  /\ chain[m] \notin L /\ ~Begins(data, chain[m]) /\ fat'[chain[m]] # 0
                     /\ \A x \in Cluster : fat'[x] = chain[m] => m > 1 /\ x = chain[m - 1]
          <5>1. chain[m] \notin L /\ ~Begins(data, chain[m]) /\ fat[chain[m]] # 0
                /\ chain[m] \in Cluster
            BY <1>6, <1>7 DEF Owned
          <5>2. fat'[chain[m]] # 0
            BY <4>5, <5>1, Values
          <5>3. ASSUME NEW x \in Cluster, fat'[x] = chain[m]
                PROVE  m > 1 /\ x = chain[m - 1]
            <6>1. CASE x = c
              <7>1. chain[m] = chain[k + 1]
                BY <4>1, <4>5, <5>3, <6>1
              <7>2. m = k + 1
                BY <1>6, <3>2, <7>1 DEF Owned
              <7> QED
                BY <3>2, <4>1, <6>1, <7>2
            <6>2. CASE x # c
              BY <1>6, <4>5, <5>3, <6>2 DEF Owned
            <6> QED
              BY <6>1, <6>2
          <5> QED
            BY <5>1, <5>2, <5>3
        <4>7. Owned(L, fat', data, chain, TRUE)
          BY <1>6, <4>6 DEF Owned
        <4> QED
          BY <1>8, <3>3, <3>4, <4>4, <4>7
      <3> QED
        BY <3>3, <3>5, <3>6
    <2>2. CASE ContentWrite(w)
      <3>1. PICK k \in 1..n : w.cluster = chain[k]
        BY <2>2 DEF ContentWrite
      <3>2. w.to = "data" /\ (w.value = FirstSector \/ (op.kind = "create" /\ w.value.tag = "data"))
        BY <2>2 DEF ContentWrite
      <3>3. /\ w.cluster \in Cluster /\ w.value \in SectorData
            /\ data' = [data EXCEPT ![w.cluster] = w.value] /\ fat' = fat
        BY <1>2, <3>2, SectorStep
      <3>4. PICK c \in Cluster, v \in SectorData : c = w.cluster /\ v = w.value
        BY <3>3
      <3>5. c \notin L
        BY <1>6, <3>1, <3>4 DEF Owned
      <3>6. \A e \in SlotNo : ~IsVisible(SlotsOf(v)[e])
        <4> TAKE e \in SlotNo
        <4>1. CASE v = FirstSector
          <5>1. SlotsOf(v)[e] \in {Dot(chain[1]), DotDot(cwd), End}
            BY <4>1 DEF FirstSector, DirSector, SlotsOf, NewDirSector, SlotNo
          <5> QED
            BY <5>1 DEF Dot, DotDot, End, IsVisible
        <4>2. CASE v.tag = "data"
          BY <4>2 DEF SlotsOf, ZeroSector, SlotNo, End, IsVisible
        <4> QED
          BY <3>2, <3>4, <4>1, <4>2
      <3>7. /\ DiskAt(L, fat, data', {}) /\ Parents(data') = Parents(data)
            /\ \A x : Begins(data', x) <=> Begins(data, x)
        <4>0. PICK d2 : d2 = data'
          OBVIOUS
        <4>1. PICK f \in Table32, d \in Region : f = fat /\ d = data
          BY <1>7
        <4>2. DiskAt(L, f, d, {}) /\ Stored(d, c, v, d2)
          BY <1>8, <3>3, <3>4, <4>0, <4>1 DEF Stored
        <4>3. c \in Cluster \ L
          BY <3>5
        <4>4. DiskAt(L, f, d2, {}) /\ Alike(d, d2)
          BY <3>6, <4>2, <4>3, WriteOutside
        <4> QED
          BY <4>0, <4>1, <4>4 DEF Alike
      <3>8. \A x \in L : data'[x] = data[x]
        BY <1>7, <1>8, <3>3, <3>4, <3>5 DEF DiskAt, TwoWorlds, Region
      <3>9. Owned(L, fat', data', chain, TRUE)
        BY <1>6, <3>3, <3>7 DEF Owned
      <3>10. ASSUME op.kind = "mkdir"
             PROVE  Len(io) = 1 /\ data'[chain[1]] = FirstSector
        <4>1. n <= 1
          BY <1>6, <3>10 DEF NewDirectory
        <4>2. k = 1
          BY <1>7, <4>1
        <4>3. Len(io) = 1
          BY <1>3, <1>6, <3>10 DEF NewDirectory
        <4>4. data'[chain[1]] = v
          BY <1>7, <3>1, <3>3, <3>4, <4>2 DEF Region
        <4> QED
          BY <3>2, <3>4, <3>10, <4>3, <4>4
      <3> QED
        BY <1>8, <3>3, <3>7, <3>8, <3>9, <3>10
    <2> QED
      BY <1>4, <2>1, <2>2
  <1>12. op.kind = "mkdir" => NewDirectory'
    <2> SUFFICES ASSUME op.kind = "mkdir" PROVE NewDirectory'
      OBVIOUS
    <2>1. Len(chain') <= 1 /\ chain' # <<>> /\ fat'[chain'[1]] = EOC
      BY <1>1, <1>5, <1>6, <1>11 DEF NewDirectory
    <2>2. data'[chain'[1]] = FirstSector'
      BY <1>1, <1>10, <1>11
    <2>3. Len(io') = 0
      <3>1. Len(io) = 1
        BY <1>11
      <3>2. Len(io') = Len(io) - 1
        BY <1>1
      <3> QED
        BY <3>1, <3>2
    <2>4. \A j \in 1..Len(io') : FALSE
      BY <2>3
    <2> HIDE DEF n
    <2> QED
      BY <2>1, <2>2, <2>4 DEF NewDirectory
  <1>13. ClaimInv(L)'
    <2>1. Owned(L, fat, data, chain, ~MarkToCome)'
      BY <1>1, <1>5, <1>11 DEF Owned
    <2>2. \A j \in 1..Len(io') : LinkWrite(io[j])' \/ ContentWrite(io[j])'
      <3> TAKE j \in 1..Len(io')
      <3>1. PICK x : x = io[j + 1]
        OBVIOUS
      <3>2. LinkWrite(x) \/ ContentWrite(x)
        BY <1>1, <3>1 DEF ChainsAt, ClaimInv
      <3>3. io'[j] = x
        BY <1>1, <3>1
      <3>4. LinkWrite(x) => LinkWrite(io[j])'
        BY <1>1, <3>3 DEF LinkWrite
      <3>5. ContentWrite(x) => ContentWrite(io[j])'
        BY <1>1, <1>10, <3>3 DEF ContentWrite
      <3> QED
        BY <3>2, <3>4, <3>5
    <2> QED
      BY <1>1, <1>6, <1>12, <2>1, <2>2 DEF ClaimInv
  <1>14. DiskInv(L)'
    BY <1>1, <1>8, <1>11 DEF DiskInv
  <1>15. LoadInv(L)'
    BY <1>1, <1>11 DEF ChainsAt, LoadInv, Inserting, Extending
  <1>16. ExtendInv(L)' /\ PlaceInv' /\ SaveInv(L)' /\ FreeInv(L)'
    BY <1>1 DEF ExtendInv, PlaceInv, SaveInv, FreeInv
  <1> QED
    BY <1>13, <1>14, <1>15, <1>16 DEF ChainsAt

(* The writes of dir_extend, one by one. *)
RetryAt(m, n, c, last) ==
    /\ n > 1 /\ n = Len(dirc) /\ c = dirc[n] /\ last = dirc[n - 1]
    /\ Len(io) = 8 - m /\ Len(io') = 7 - m
    /\ io' # <<>> => io' = SubSeq(ExtensionWrites(c, last), m + 1, 7)
    /\ m \in {1, 6} => data' = data /\ fat' = [fat EXCEPT ![c] = EOC]
    /\ m \in {2, 5, 7} => data' = data /\ fat' = fat
    /\ m = 3 => fat' = fat /\ data' = [data EXCEPT ![c] = DirSector(ZeroSector)]
    /\ m = 4 => data' = data /\ fat' = [fat EXCEPT ![last] = c]

LEMMA RetryStep ==
    ASSUME TypeInv, NEW L, ChainsAt(L), DiskWrite, pc = "retry"
    PROVE  \E m \in 1..7, n \in Nat, c \in Cluster, last \in Cluster :
              RetryAt(m, n, c, last)
  <1>1. /\ io # <<>> /\ io' = Tail(io) /\ Head(io) = io[1]
        /\ Len(io) \in Nat \ {0} /\ Len(io') = Len(io) - 1
    BY WriteStep
  <1>2. PICK n : n = Len(dirc)
    OBVIOUS
  <1>3. n \in Nat /\ \A k \in 1..n : dirc[k] \in Cluster
    BY <1>2, State
  <1>4. /\ n > 1 /\ Len(io) <= 7
        /\ io = SubSeq(ExtensionWrites(dirc[n], dirc[n - 1]), 8 - Len(io), 7)
    BY <1>1, <1>2 DEF ChainsAt, ExtendInv
  <1>5. PICK c \in Cluster, last \in Cluster : c = dirc[n] /\ last = dirc[n - 1]
    <2>1. n \in 1..n /\ n - 1 \in 1..n
      BY <1>3, <1>4
    <2> QED
      BY <1>3, <2>1
  <1>6. PICK m : m = 8 - Len(io)
    OBVIOUS
  <1>7. m \in 1..7 /\ Len(io) = 8 - m /\ Len(io') = 7 - m
    BY <1>1, <1>4, <1>6
  <1>8. PICK s : s = ExtensionWrites(c, last)
    OBVIOUS
  <1>9. s \in Seq(Write) /\ Len(s) = 7 /\ io = SubSeq(s, m, 7)
    BY <1>4, <1>5, <1>6, <1>8, ExtensionSequence
  <1>10. Head(io) = s[m] /\ Tail(io) = SubSeq(s, m + 1, 7)
    <2>1. m \in 1..(7 + 1) /\ m <= 7
      BY <1>7
    <2> QED
      BY <1>9, <2>1, SuffixSteps
  <1>11. io[1] = s[m] /\ io' = SubSeq(s, m + 1, 7)
    BY <1>1, <1>10
  <1>12. /\ s[1] = [to |-> "fat", copy |-> 0, cluster |-> c, value |-> EOC]
         /\ s[2] = [to |-> "fat", copy |-> 1, cluster |-> c, value |-> EOC]
         /\ s[3] = [to |-> "data", cluster |-> c, value |-> DirSector(ZeroSector)]
         /\ s[4] = [to |-> "fat", copy |-> 0, cluster |-> last, value |-> c]
         /\ s[5] = [to |-> "fat", copy |-> 1, cluster |-> last, value |-> c]
         /\ s[6] = [to |-> "fat", copy |-> 0, cluster |-> c, value |-> EOC]
         /\ s[7] = [to |-> "fat", copy |-> 1, cluster |-> c, value |-> EOC]
    BY <1>8, ExtensionSequence
  <1>13. m \in {1, 6} => data' = data /\ fat' = [fat EXCEPT ![c] = EOC]
    <2> SUFFICES ASSUME m \in {1, 6} PROVE data' = data /\ fat' = [fat EXCEPT ![c] = EOC]
      OBVIOUS
    <2>1. io[1] = [to |-> "fat", copy |-> 0, cluster |-> c, value |-> EOC]
      BY <1>11, <1>12
    <2> QED
      BY <2>1, SectorStep
  <1>14. m \in {2, 5, 7} => data' = data /\ fat' = fat
    <2> SUFFICES ASSUME m \in {2, 5, 7} PROVE data' = data /\ fat' = fat
      OBVIOUS
    <2>1. io[1].to = "fat" /\ io[1].copy = 1
      BY <1>11, <1>12
    <2> QED
      BY <2>1, SectorStep
  <1>15. m = 3 => fat' = fat /\ data' = [data EXCEPT ![c] = DirSector(ZeroSector)]
    <2> SUFFICES ASSUME m = 3
                 PROVE  fat' = fat /\ data' = [data EXCEPT ![c] = DirSector(ZeroSector)]
      OBVIOUS
    <2>1. io[1] = [to |-> "data", cluster |-> c, value |-> DirSector(ZeroSector)]
      BY <1>11, <1>12
    <2> QED
      BY <2>1, SectorStep
  <1>16. m = 4 => data' = data /\ fat' = [fat EXCEPT ![last] = c]
    <2> SUFFICES ASSUME m = 4 PROVE data' = data /\ fat' = [fat EXCEPT ![last] = c]
      OBVIOUS
    <2>1. io[1] = [to |-> "fat", copy |-> 0, cluster |-> last, value |-> c]
      BY <1>11, <1>12
    <2> QED
      BY <2>1, SectorStep
  <1>17. n > 1 /\ n = Len(dirc) /\ io' = SubSeq(ExtensionWrites(c, last), m + 1, 7)
    BY <1>2, <1>4, <1>8, <1>11
  <1>18. RetryAt(m, n, c, last)
    BY <1>5, <1>7, <1>13, <1>14, <1>15, <1>16, <1>17 DEF RetryAt
  <1> QED
    BY <1>3, <1>7, <1>18

(* What they leave, M being the clusters of directories then. *)
RetryLeaves(M, m, n, c) ==
    /\ DiskAt(M, fat', data', {}) /\ Parents(data) \subseteq Parents(data')
    /\ Owned(M, fat', data', chain, TRUE)
    /\ op.kind = "mkdir" => fat'[chain[1]] = EOC /\ data'[chain[1]] = FirstSector
    /\ \A k \in 1..n :
          (m < 4 /\ k = n) \/ (dirc[k] \in M /\ img[k] = SlotsOf(data'[dirc[k]]))
    /\ m < 4 => /\ c \notin M /\ ~Begins(data', c) /\ \A x \in Cluster : fat'[x] # c
                /\ fat'[c] = EOC
                /\ m = 3 => data'[c] = DirSector(ZeroSector)

LEMMA RetryHolds ==
    ASSUME TypeInv, NEW L, ChainsAt(L), DiskWrite, pc = "retry", NEW M,
           NEW m \in 1..7, NEW n \in Nat, NEW c \in Cluster, NEW last \in Cluster,
           RetryAt(m, n, c, last), RetryLeaves(M, m, n, c)
    PROVE  ChainsAt(M)'
  <1>0. /\ n > 1 /\ n = Len(dirc) /\ c = dirc[n] /\ last = dirc[n - 1]
        /\ Len(io) = 8 - m /\ Len(io') = 7 - m
        /\ io' # <<>> => io' = SubSeq(ExtensionWrites(c, last), m + 1, 7)
    BY DEF RetryAt
  <1>1. /\ io # <<>> /\ UNCHANGED <<pc, op, img, dirc, chain, cur, cwd>> /\ Victim' = Victim
    BY WriteStep
  <1>2. DiskInv(M)'
    <2>1. Victim = {} /\ cwd \in Parents(data)
      BY DEF ChainsAt, DiskInv, Victim, Deleting
    <2> QED
      BY <1>1, <2>1 DEF DiskInv, RetryLeaves
  <1>3. FirstSector' = FirstSector /\ ~MarkToCome /\ ~MarkToCome'
    BY <1>1 DEF FirstSector, MarkToCome
  <1>4. op.kind \in {"create", "mkdir"} /\ (op.kind = "mkdir" => NewDirectory)
    BY DEF ChainsAt, ClaimInv, Claiming, Inserting
  <1>5. Owned(M, fat, data, chain, ~MarkToCome)'
    BY <1>1, <1>3 DEF Owned, RetryLeaves
  <1>6. op.kind = "mkdir" => NewDirectory'
    BY <1>1, <1>3, <1>4 DEF NewDirectory, RetryLeaves
  <1>7. ClaimInv(M)'
    BY <1>1, <1>4, <1>5, <1>6 DEF ClaimInv
  <1>8. Extending' <=> m < 4
    <2>1. Len(io') > 3 <=> m < 4
      BY <1>0
    <2> QED
      BY <1>1, <2>1 DEF Extending
  <1>9. LoadInv(M)'
    <2>1. \A j, k \in 1..Len(dirc) : dirc[j] = dirc[k] => j = k
      BY DEF ChainsAt, LoadInv
    <2>2. \A k \in 1..Len(dirc') :
             \/ Extending' /\ k = Len(dirc')
             \/ dirc'[k] \in M /\ img'[k] = SlotsOf(data'[dirc'[k]])
      BY <1>0, <1>1, <1>8 DEF RetryLeaves
    <2> QED
      BY <1>1, <2>1, <2>2 DEF LoadInv
  <1>10. ExtendInv(M)'
    <2> SUFFICES ASSUME io' # <<>> PROVE ExtendInv(M)'
      BY DEF ExtendInv
    <2>1. img[n] = ZeroSector
      BY <1>0, <1>1 DEF ChainsAt, ExtendInv
    <2>2. m < 4 => \A k \in 1..Len(chain) : c # chain[k]
      <3>1. m < 4 => Len(io) > 3
        BY <1>0
      <3> QED
        BY <1>0, <1>1, <3>1 DEF ChainsAt, ExtendInv
    <2>3. /\ Len(io') <= 7 /\ 8 - Len(io') = m + 1
          /\ Len(io') > 3 <=> m < 4
          /\ Len(io') = 4 <=> m = 3
      BY <1>0
    <2>4. io' = SubSeq(ExtensionWrites(c, last), 8 - Len(io'), 7)
      BY <1>0, <2>3
    <2> DEFINE k2 == Len(dirc')
    <2>5. k2 = n /\ dirc'[k2] = c /\ dirc'[k2 - 1] = last /\ img'[k2] = ZeroSector
      BY <1>0, <1>1, <2>1
    <2>6. m < 4 => /\ c \notin M /\ ~Begins(data, c)' /\ \A x \in Cluster : fat'[x] # c
                   /\ \A k \in 1..Len(chain') : c # chain'[k]
                   /\ fat'[c] = EOC
                   /\ m = 3 => data'[c] = DirSector(ZeroSector)
      BY <1>1, <2>2 DEF RetryLeaves
    <2>7. k2 > 1
      BY <1>0, <2>5
    <2> QED
      BY <2>3, <2>4, <2>5, <2>6, <2>7 DEF ExtendInv
  <1>11. PlaceInv' /\ SaveInv(M)' /\ FreeInv(M)'
    BY <1>1 DEF PlaceInv, SaveInv, FreeInv
  <1> QED
    BY <1>2, <1>7, <1>9, <1>10, <1>11 DEF ChainsAt

LEMMA RetryWrite ==
    ASSUME TypeInv, NEW L \in SUBSET Cluster, ChainsAt(L), DiskWrite, pc = "retry"
    PROVE  \E M \in SUBSET Cluster : ChainsAt(M)'
  <1>1. PICK m \in 1..7, n \in Nat, c \in Cluster, last \in Cluster : RetryAt(m, n, c, last)
    BY RetryStep
  <1>2. /\ n > 1 /\ n = Len(dirc) /\ c = dirc[n] /\ last = dirc[n - 1]
        /\ Len(io) = 8 - m /\ Len(io') = 7 - m
        /\ io' # <<>> => io' = SubSeq(ExtensionWrites(c, last), m + 1, 7)
    BY <1>1 DEF RetryAt
  <1>3. PICK f \in Table32, d \in Region : f = fat /\ d = data
    BY State
  <1>4. PICK g \in Table32, e \in Region : g = fat' /\ e = data'
    <2>1. PICK w : w = io[1]
      OBVIOUS
    <2> QED
      BY <2>1, SectorStep
  <1>5. /\ m \in {1, 6} => e = d /\ g = [f EXCEPT ![c] = EOC]
        /\ m \in {2, 5, 7} => e = d /\ g = f
        /\ m = 3 => g = f /\ Stored(d, c, DirSector(ZeroSector), e)
        /\ m = 4 => e = d /\ g = [f EXCEPT ![last] = c]
    BY <1>1, <1>3, <1>4 DEF RetryAt, Stored
  <1>6. DiskAt(L, f, d, {})
    BY <1>3 DEF ChainsAt, DiskInv, Victim, Deleting
  <1>7. /\ Owned(L, f, d, chain, TRUE)
        /\ op.kind = "mkdir" => /\ chain # <<>> /\ f[chain[1]] = EOC /\ d[chain[1]] = FirstSector
    <2>1. ~MarkToCome
      BY DEF MarkToCome
    <2> QED
      BY <1>3, <2>1 DEF ChainsAt, ClaimInv, Claiming, Inserting, NewDirectory
  <1>8. /\ \A k \in 1..n : (m <= 4 /\ k = n) \/ (dirc[k] \in L /\ img[k] = SlotsOf(d[dirc[k]]))
        /\ \A j, k \in 1..n : dirc[j] = dirc[k] => j = k
        /\ \A k \in 1..n : dirc[k] \in Cluster
    <2>1. Extending => m <= 4
      <3>1. Len(io) > 3 <=> m <= 4
        BY <1>2
      <3> QED
        BY <3>1 DEF Extending
    <2>2. \A k \in 1..n : dirc[k] \in Cluster
      BY <1>2, State
    <2> QED
      BY <1>2, <1>3, <2>1, <2>2 DEF ChainsAt, LoadInv, Inserting
  <1>9. /\ img[n] = ZeroSector
        /\ m <= 4 => /\ c \notin L /\ ~Begins(d, c) /\ \A x \in Cluster : f[x] # c
                     /\ \A k \in 1..Len(chain) : c # chain[k]
                     /\ m > 1 => f[c] = EOC
                     /\ m = 4 => d[c] = DirSector(ZeroSector)
    <2>1. /\ Len(io) > 3 <=> m <= 4
          /\ Len(io) < 7 <=> m > 1
          /\ Len(io) = 4 <=> m = 4
          /\ Len(io) # 0
      BY <1>2
    <2>2. io # <<>>
      BY <2>1
    <2> QED
      BY <1>2, <1>3, <2>1, <2>2 DEF ChainsAt, ExtendInv
  <1>10. \A k \in 1..Len(chain) : chain[k] \in Cluster
    BY State
  <1>11. chain # <<>> => 1 \in 1..Len(chain)
    BY State
  <1>12. Root \in L /\ L \subseteq Cluster
    BY <1>6 DEF DiskAt, TwoWorlds
  <1>13. SlotsOf(DirSector(ZeroSector)) = ZeroSector /\ DirSector(ZeroSector) \in SectorData
    BY SectorTypes, DirSectorType DEF SlotsOf, DirSector
  <1>14. CASE m \in {1, 6}
    <2>1. g[c] = EOC /\ (\A x \in Cluster : x # c => g[x] = f[x]) /\ e = d
      BY <1>5, <1>14 DEF Table32
    <2>2. DiskAt(L, g, e, {})
      <3>1. g = [f EXCEPT ![c] = EOC] /\ e = d
        BY <1>5, <1>14
      <3> QED
        BY <1>6, <3>1, MarkDisk
    <2>3. \A x \in Cluster : g[x] \in Cluster => g[x] = f[x]
      BY <2>1, Values
    <2>4. \A x \in Cluster : f[x] # 0 => g[x] # 0
      BY <2>1, Values
    <2>5. Owned(L, g, e, chain, TRUE)
      BY <1>7, <1>10, <2>1, <2>3, <2>4 DEF Owned
    <2>6. op.kind = "mkdir" => g[chain[1]] = EOC /\ e[chain[1]] = FirstSector
      BY <1>7, <1>10, <1>11, <2>1
    <2>7. \A k \in 1..n : (m < 4 /\ k = n) \/ (dirc[k] \in L /\ img[k] = SlotsOf(e[dirc[k]]))
      BY <1>8, <1>14, <2>1
    <2>8. m < 4 => /\ c \notin L /\ ~Begins(e, c) /\ \A x \in Cluster : g[x] # c
                   /\ g[c] = EOC
                   /\ m = 3 => e[c] = DirSector(ZeroSector)
      BY <1>9, <1>14, <2>1, <2>3
    <2>9. Parents(d) \subseteq Parents(e)
      BY <2>1
    <2>10. RetryLeaves(L, m, n, c)
      BY <1>3, <1>4, <2>2, <2>5, <2>6, <2>7, <2>8, <2>9 DEF RetryLeaves
    <2> QED
      BY <1>1, <2>10, RetryHolds
  <1>15. CASE m \in {2, 5, 7}
    <2>1. g = f /\ e = d
      BY <1>5, <1>15
    <2>2. \A k \in 1..n : (m < 4 /\ k = n) \/ (dirc[k] \in L /\ img[k] = SlotsOf(e[dirc[k]]))
      BY <1>8, <1>15, <2>1
    <2>3. m < 4 => /\ c \notin L /\ ~Begins(e, c) /\ \A x \in Cluster : g[x] # c
                   /\ g[c] = EOC
                   /\ m = 3 => e[c] = DirSector(ZeroSector)
      BY <1>9, <1>15, <2>1
    <2>4. DiskAt(L, g, e, {}) /\ Parents(d) \subseteq Parents(e)
      BY <1>6, <2>1
    <2>5. Owned(L, g, e, chain, TRUE) /\ (op.kind = "mkdir" => g[chain[1]] = EOC /\ e[chain[1]] = FirstSector)
      BY <1>7, <2>1
    <2>10. RetryLeaves(L, m, n, c)
      BY <1>3, <1>4, <2>2, <2>3, <2>4, <2>5 DEF RetryLeaves
    <2> QED
      BY <1>1, <2>10, RetryHolds
  <1>16. CASE m = 3
    <2>1. g = f /\ Stored(d, c, DirSector(ZeroSector), e)
      BY <1>5, <1>16
    <2>2. e[c] = DirSector(ZeroSector) /\ \A x \in Cluster : x # c => e[x] = d[x]
      BY <2>1 DEF Stored, Region
    <2>3. c \in Cluster \ L
      BY <1>9, <1>16
    <2>4. \A i \in SlotNo : ~IsVisible(SlotsOf(DirSector(ZeroSector))[i])
      BY <1>13 DEF ZeroSector, SlotNo, End, IsVisible
    <2>5. DiskAt(L, f, e, {}) /\ Alike(d, e)
      BY <1>6, <1>13, <2>1, <2>3, <2>4, WriteOutside
    <2>6. Owned(L, g, e, chain, TRUE)
      BY <1>7, <2>1, <2>5 DEF Owned, Alike
    <2>7. op.kind = "mkdir" => g[chain[1]] = EOC /\ e[chain[1]] = FirstSector
      <3>1. chain # <<>> => chain[1] \in Cluster /\ chain[1] # c
        BY <1>9, <1>10, <1>11, <1>16
      <3> QED
        BY <1>7, <2>1, <2>2, <3>1
    <2>8. \A k \in 1..n : (m < 4 /\ k = n) \/ (dirc[k] \in L /\ img[k] = SlotsOf(e[dirc[k]]))
      <3>1. \A k \in 1..n : k # n => dirc[k] # c
        BY <1>2, <1>8
      <3> QED
        BY <1>8, <1>16, <2>2, <3>1
    <2>9. m < 4 => /\ c \notin L /\ ~Begins(e, c) /\ \A x \in Cluster : g[x] # c
                   /\ g[c] = EOC
                   /\ m = 3 => e[c] = DirSector(ZeroSector)
      BY <1>9, <1>16, <2>1, <2>2, <2>5 DEF Alike
    <2>10. RetryLeaves(L, m, n, c)
      <3>1. DiskAt(L, g, e, {}) /\ Parents(d) \subseteq Parents(e)
        BY <2>1, <2>5 DEF Alike
      <3> QED
        BY <1>3, <1>4, <2>6, <2>7, <2>8, <2>9, <3>1 DEF RetryLeaves
    <2> QED
      BY <1>1, <2>10, RetryHolds
  <1>17. CASE m = 4
    <2> DEFINE M == L \cup {c}
    <2>1. e = d /\ g = [f EXCEPT ![last] = c]
      BY <1>5, <1>17
    <2>2. /\ c \notin L /\ ~Begins(d, c) /\ \A x \in Cluster : f[x] # c
          /\ \A k \in 1..Len(chain) : c # chain[k]
          /\ f[c] = EOC /\ d[c] = DirSector(ZeroSector)
      BY <1>9, <1>17
    <2>3. last \in L
      <3>1. n - 1 \in 1..n /\ n - 1 # n
        BY <1>2
      <3> QED
        BY <1>2, <1>8, <3>1
    <2>4. g[last] = c /\ \A x \in Cluster : x # last => g[x] = f[x]
      BY <2>1 DEF Table32
    <2>5. DiskAt(M, f, d, {})
      <3>1. d[c].tag = "dir"
        BY <2>2 DEF DirSector
      <3>2. \A i \in SlotNo : SlotsOf(d[c])[i].tag # "dotdot"
        BY <1>13, <2>2 DEF ZeroSector, SlotNo, End
      <3>3. f[c] # 0 /\ f[c] \notin Cluster
        BY <2>2, Values
      <3> QED
        BY <1>6, <2>2, <3>1, <3>2, <3>3, JoinDisk
    <2>6. DiskAt(M, g, e, {})
      <3>1. last \in M /\ c \in M /\ f[c] # 0 /\ c # Root
        BY <1>12, <2>2, <2>3, Values
      <3> HIDE DEF M
      <3> QED
        BY <2>1, <2>2, <2>5, <3>1, LinkDisk
    <2>7. \A k \in 1..Len(chain) : chain[k] # last /\ chain[k] \notin M
      BY <1>7, <2>2, <2>3 DEF Owned
    <2>8. Owned(M, g, e, chain, TRUE)
      <3>1. ASSUME NEW k \in 1..Len(chain)
            PROVE  /\ chain[k] \notin M /\ ~Begins(e, chain[k]) /\ g[chain[k]] # 0
                   /\ \A x \in Cluster : g[x] = chain[k] => k > 1 /\ x = chain[k - 1]
        <4>1. ~Begins(e, chain[k]) /\ f[chain[k]] # 0
          BY <1>7, <2>1 DEF Owned
        <4>2. g[chain[k]] = f[chain[k]]
          BY <1>10, <2>4, <2>7
        <4>3. \A x \in Cluster : g[x] = chain[k] => f[x] = chain[k]
          BY <2>2, <2>4
        <4> QED
          BY <1>7, <2>7, <4>1, <4>2, <4>3 DEF Owned
      <3>2. \A j, k \in 1..Len(chain) : chain[j] = chain[k] => j = k
        BY <1>7 DEF Owned
      <3> HIDE DEF M
      <3> QED
        BY <3>1, <3>2 DEF Owned
    <2>9. op.kind = "mkdir" => g[chain[1]] = EOC /\ e[chain[1]] = FirstSector
      <3>1. chain # <<>> => chain[1] \in Cluster /\ chain[1] # last
        BY <1>10, <1>11, <2>7
      <3> QED
        BY <1>7, <2>1, <2>4, <3>1
    <2>10. \A k \in 1..n : dirc[k] \in M /\ img[k] = SlotsOf(e[dirc[k]])
      <3> TAKE k \in 1..n
      <3>1. CASE k = n
        BY <1>2, <1>9, <1>13, <2>1, <2>2, <3>1
      <3>2. CASE k # n
        BY <1>8, <2>1, <3>2
      <3> QED
        BY <3>1, <3>2
    <2>11. RetryLeaves(M, m, n, c)
      <3>1. ~(m < 4) /\ Parents(d) \subseteq Parents(e)
        BY <1>17, <2>1
      <3> HIDE DEF M
      <3> QED
        BY <1>3, <1>4, <2>6, <2>8, <2>9, <2>10, <3>1 DEF RetryLeaves
    <2>12. M \in SUBSET Cluster
      OBVIOUS
    <2> HIDE DEF M
    <2>13. ChainsAt(M)'
      BY <1>1, <2>11, RetryHolds
    <2> QED
      BY <2>12, <2>13
  <1>18. m \in {1, 6} \/ m \in {2, 5, 7} \/ m = 3 \/ m = 4
    OBVIOUS
  <1> QED
    BY <1>14, <1>15, <1>16, <1>17, <1>18

(* The write of dir_save for the sector k. *)
SaveAt(k) ==
    /\ k \in 1..Len(img) /\ fat' = fat
    /\ Stored(data, dirc[k], DirSector(img[k]), data')
    /\ \A x \in 1..Len(img) : (ToCome(x) <=> x >= k) /\ (ToCome(x)' <=> x > k)
    /\ Len(io') <= Len(img)
    /\ \A j \in 1..Len(io') : io'[j] = SaveWrites(img, dirc)[Len(img) - Len(io') + j]

LEMMA SaveStep ==
    ASSUME TypeInv, NEW L, ChainsAt(L), DiskWrite, pc = "save"
    PROVE  \E k \in Nat : SaveAt(k)
  <1>1. /\ io # <<>> /\ io' = Tail(io) /\ UNCHANGED <<img, dirc>>
        /\ Len(io) \in Nat \ {0} /\ Len(io') = Len(io) - 1
        /\ \A j \in 1..Len(io') : j + 1 \in 1..Len(io) /\ io'[j] = io[j + 1]
    BY WriteStep
  <1>2. PICK n, q : n = Len(img) /\ q = Len(io)
    OBVIOUS
  <1>3. /\ q <= n
        /\ \A j \in 1..q : io[j] = SaveWrites(img, dirc)[n - q + j]
    BY <1>2 DEF ChainsAt, SaveInv
  <1>4. n \in Nat /\ q \in Nat \ {0} /\ Len(io') = q - 1
    BY <1>1, <1>2, State
  <1>5. PICK k : k = n - q + 1
    OBVIOUS
  <1>6. k \in 1..n /\ k \in Nat
    BY <1>3, <1>4, <1>5
  <1>7. io[1] = [to |-> "data", cluster |-> dirc[k], value |-> DirSector(img[k])]
    <2>1. io[1] = SaveWrites(img, dirc)[k]
      BY <1>3, <1>4, <1>5
    <2>2. img \in Seq(Sector)
      BY State
    <2> QED
      BY <1>2, <1>6, <2>1, <2>2, SaveSequence
  <1>8. fat' = fat /\ data' = [data EXCEPT ![dirc[k]] = DirSector(img[k])]
    BY <1>7, SectorStep
  <1>9. \A x \in 1..n : (ToCome(x) <=> x >= k) /\ (ToCome(x)' <=> x > k)
    <2> TAKE x \in 1..n
    <2>1. ToCome(x) <=> x > n - q
      BY <1>2 DEF ToCome
    <2>2. ToCome(x)' <=> x > n - (q - 1)
      BY <1>1, <1>2 DEF ToCome
    <2> QED
      BY <1>4, <1>5, <2>1, <2>2
  <1>10. Len(io') <= n
    BY <1>3, <1>4
  <1>11. \A j \in 1..Len(io') : io'[j] = SaveWrites(img, dirc)[n - Len(io') + j]
    <2> TAKE j \in 1..Len(io')
    <2>1. io'[j] = io[j + 1] /\ j + 1 \in 1..q
      BY <1>1, <1>2
    <2>2. n - q + (j + 1) = n - Len(io') + j
      BY <1>4
    <2> QED
      BY <1>3, <2>1, <2>2
  <1>12. SaveAt(k)
    BY <1>2, <1>6, <1>8, <1>9, <1>10, <1>11 DEF SaveAt, Stored
  <1> QED
    BY <1>6, <1>12

LEMMA SaveHolds ==
    ASSUME TypeInv, NEW L, ChainsAt(L), DiskWrite, pc = "save", NEW k \in Nat, SaveAt(k),
           NEW M, L \subseteq M, DiskAt(M, fat, data', Victim),
           Parents(data) \subseteq Parents(data'),
           Claiming' => M = L /\ Alike(data, data')
    PROVE  ChainsAt(M)'
  <1>1. /\ UNCHANGED <<pc, op, img, dirc, chain, cur, cwd>> /\ Victim' = Victim
    BY WriteStep
  <1>2. /\ fat' = fat /\ k \in 1..Len(img)
        /\ \A x \in 1..Len(img) : (ToCome(x) <=> x >= k) /\ (ToCome(x)' <=> x > k)
        /\ data' = [data EXCEPT ![dirc[k]] = DirSector(img[k])]
    BY DEF SaveAt, Stored
  <1>3. DiskInv(M)'
    BY <1>1, <1>2 DEF ChainsAt, DiskInv
  <1>4. NewEntry' = NewEntry /\ FirstSector' = FirstSector
    BY <1>1 DEF NewEntry, FirstCluster, FirstSector
  <1>5. /\ img \in Seq(Sector) /\ Len(img) = Len(dirc) /\ Len(dirc) \in Nat
        /\ \A x \in 1..Len(dirc) : dirc[x] \in Cluster
        /\ \A x \in 1..Len(img) : img[x] \in Sector
        /\ data \in Region
    BY State
  <1>6. /\ \A j, x \in 1..Len(img) : dirc[j] = dirc[x] => j = x
        /\ \A x \in 1..Len(img) : dirc[x] \in L
        /\ \A x \in 1..Len(img) : ToCome(x) \/ SlotsOf(data[dirc[x]]) = img[x]
        /\ \A x \in 1..Len(img) : \A e \in SlotNo : SlotInv(x, e)
        /\ op.kind # "none" /\ op.slot \in 1..Capacity(img)
    BY <1>5 DEF ChainsAt, LoadInv, SaveInv
  <1>7. data'[dirc[k]] = DirSector(img[k])
    BY <1>2, <1>5 DEF Region
  <1>8. \A x \in 1..Len(img) : x # k => data'[dirc[x]] = data[dirc[x]]
    BY <1>2, <1>5, <1>6 DEF Region
  <1>9. ClaimInv(M)'
    <2> SUFFICES ASSUME Claiming'
                 PROVE  /\ op.kind \in {"create", "mkdir"}
                        /\ Owned(M, fat, data, chain, ~MarkToCome)'
                        /\ op.kind = "mkdir" => NewDirectory'
      BY <1>1 DEF ClaimInv
    <2>1. M = L /\ Alike(data, data')
      OBVIOUS
    <2>2. Claiming
      <3>1. op.kind # "delete" /\ EntryToCome'
        BY <1>1 DEF Claiming, Inserting
      <3>2. PICK x \in 1..Len(img), e \in SlotNo : Position(x, e) = op.slot /\ ToCome(x)'
        BY <1>1, <3>1 DEF EntryToCome
      <3>3. ToCome(x)
        BY <1>2, <1>5, <3>2
      <3> QED
        BY <3>1, <3>2, <3>3 DEF Claiming, EntryToCome
    <2>3. /\ op.kind \in {"create", "mkdir"} /\ ~MarkToCome /\ ~MarkToCome'
          /\ Owned(L, fat, data, chain, TRUE)
          /\ op.kind = "mkdir" => NewDirectory
      BY <1>1, <2>2 DEF ChainsAt, ClaimInv, MarkToCome
    <2>4. Owned(M, fat, data, chain, ~MarkToCome)'
      BY <1>1, <1>2, <2>1, <2>3 DEF Owned, Alike
    <2>5. op.kind = "mkdir" => NewDirectory'
      <3> SUFFICES ASSUME op.kind = "mkdir" PROVE NewDirectory'
        OBVIOUS
      <3>1. /\ Len(chain) <= 1 /\ chain # <<>> /\ fat[chain[1]] = EOC
            /\ data[chain[1]] = FirstSector
        BY <2>3 DEF NewDirectory
      <3>2. 1 \in 1..Len(chain) /\ chain[1] \in Cluster
        BY <3>1, State
      <3>3. chain[1] \notin L /\ dirc[k] \in L
        BY <1>2, <1>6, <2>3, <3>2 DEF Owned
      <3>4. data'[chain[1]] = FirstSector
        BY <1>2, <1>5, <3>1, <3>2, <3>3 DEF Region
      <3> QED
        BY <1>1, <1>2, <1>4, <2>3, <3>1, <3>4 DEF NewDirectory
    <2> QED
      BY <1>1, <2>3, <2>4, <2>5
  <1>10. LoadInv(M)'
    BY <1>1 DEF ChainsAt, LoadInv, Inserting
  <1>11. SaveInv(M)'
    <2>1. /\ op'.kind # "none" /\ Len(io') <= Len(img')
          /\ \A j \in 1..Len(io') : io'[j] = SaveWrites(img', dirc')[Len(img') - Len(io') + j]
          /\ op'.slot \in 1..Capacity(img')
      BY <1>1, <1>6 DEF SaveAt
    <2>2. SlotsOf(data'[dirc[k]]) = img[k]
      BY <1>7 DEF SlotsOf, DirSector
    <2>3. \A x \in 1..Len(img) : ToCome(x)' \/ SlotsOf(data'[dirc[x]]) = img[x]
      <3> TAKE x \in 1..Len(img)
      <3>1. CASE x = k
        BY <2>2, <3>1
      <3>2. CASE x # k
        <4>1. ~ToCome(x)' => ~ToCome(x)
          BY <1>2, <1>5, <3>2
        <4> QED
          BY <1>6, <1>8, <3>2, <4>1
      <3> QED
        BY <3>1, <3>2
    <2>4. ASSUME NEW x \in 1..Len(img), NEW e \in SlotNo
          PROVE  SlotInv(x, e)'
      <3>1. SlotInv(x, e)
        BY <1>6
      <3>2. ToCome(x)' => ToCome(x) /\ x # k
        BY <1>2, <1>5
      <3>3. ToCome(x)' => data'[dirc[x]] = data[dirc[x]]
        BY <1>8, <3>2
      <3> QED
        BY <1>1, <1>4, <3>1, <3>2, <3>3 DEF SlotInv
    <2>5. \A x \in 1..Len(img) : dirc[x] \in M
      BY <1>6
    <2> QED
      BY <1>1, <2>1, <2>3, <2>4, <2>5 DEF SaveInv
  <1>12. ExtendInv(M)' /\ PlaceInv' /\ FreeInv(M)'
    BY <1>1 DEF ExtendInv, PlaceInv, FreeInv
  <1> QED
    BY <1>3, <1>9, <1>10, <1>11, <1>12 DEF ChainsAt

LEMMA SaveWrite ==
    ASSUME TypeInv, NEW L \in SUBSET Cluster, ChainsAt(L), DiskWrite, pc = "save"
    PROVE  \E M \in SUBSET Cluster : ChainsAt(M)'
  <1>1. PICK k \in Nat : SaveAt(k)
    BY SaveStep
  <1>2. /\ fat' = fat /\ k \in 1..Len(img) /\ ToCome(k) /\ ~ToCome(k)'
        /\ \A x \in 1..Len(img) : ToCome(x)' => x > k
    BY <1>1 DEF SaveAt
  <1>3. UNCHANGED <<pc, op, img, dirc, chain, cur, cwd>>
    BY WriteStep
  <1>4. PICK f \in Table32, d \in Region : f = fat /\ d = data
    BY State
  <1>5. PICK X, e : X = Victim /\ e = data'
    OBVIOUS
  <1>6. /\ img \in Seq(Sector) /\ Len(img) = Len(dirc) /\ Len(img) \in Nat
        /\ \A x \in 1..Len(img) : img[x] \in Sector
    BY State
  <1>7. PICK c \in L, s \in Sector : c = dirc[k] /\ s = img[k]
    BY <1>2, <1>6 DEF ChainsAt, SaveInv
  <1>8. DiskAt(L, f, d, X) /\ Stored(d, c, DirSector(s), e)
    BY <1>1, <1>4, <1>5, <1>7 DEF SaveAt, ChainsAt, DiskInv
  <1>9. \A i \in SlotNo : SlotInv(k, i)
    BY <1>2 DEF ChainsAt, SaveInv
  <1>10. \A i \in SlotNo : Position(k, i) # op.slot => Agree(SlotsOf(d[c])[i], s[i])
    BY <1>2, <1>4, <1>7, <1>9 DEF SlotInv
  <1>11. op.kind \in {"create", "mkdir", "delete"}
    <2>1. op.kind # "none"
      BY DEF ChainsAt, SaveInv
    <2> QED
      BY <2>1, State
  <1>12. CASE \A i \in SlotNo : Position(k, i) # op.slot
    <2>1. DiskAt(L, f, e, X) /\ Alike(d, e)
      <3>1. \A i \in SlotNo : Agree(SlotsOf(d[c])[i], s[i])
        BY <1>10, <1>12
      <3> QED
        BY <1>8, <3>1, WriteDirectory
    <2>2. DiskAt(L, fat, data', Victim) /\ Alike(data, data')
      BY <1>4, <1>5, <2>1
    <2>3. Parents(data) \subseteq Parents(data')
      BY <2>2 DEF Alike
    <2> QED
      BY <1>1, <2>2, <2>3, SaveHolds
  <1>13. ASSUME NEW i \in SlotNo, Position(k, i) = op.slot
         PROVE  \E M \in SUBSET Cluster : ChainsAt(M)'
    <2>1. \A j \in SlotNo \ {i} : Agree(SlotsOf(d[c])[j], s[j])
      <3> TAKE j \in SlotNo \ {i}
      <3>1. k \in Nat \ {0}
        BY <1>2
      <3>2. Position(k, j) # op.slot
        BY <1>13, <3>1, PositionsApart
      <3> QED
        BY <1>10, <3>2
    <2>2. ~EntryToCome'
      <3> SUFFICES ASSUME EntryToCome' PROVE FALSE
        OBVIOUS
      <3>1. PICK x \in 1..Len(img), j \in SlotNo : Position(x, j) = op.slot /\ ToCome(x)'
        BY <1>3 DEF EntryToCome
      <3>2. x > k /\ x \in Nat \ {0} /\ k \in Nat \ {0}
        BY <1>2, <1>6, <3>1
      <3>3. x = k
        BY <1>13, <3>1, <3>2, PositionsApart
      <3> QED
        BY <3>2, <3>3
    <2>3. ~Claiming'
      BY <1>3, <2>2 DEF Claiming, Inserting
    <2>4. CASE op.kind = "delete"
      <3>1. SlotsOf(d[c])[i].tag = "file" /\ ~Solid(s[i])
        BY <1>2, <1>4, <1>7, <1>9, <1>13, <2>4 DEF SlotInv
      <3>2. DiskAt(L, f, e, X) /\ Without(d, <<c, i>>, e)
        BY <1>8, <2>1, <3>1, RemoveEntry
      <3>3. DiskAt(L, fat, data', Victim) /\ Parents(data) \subseteq Parents(data')
        BY <1>4, <1>5, <3>2 DEF Without
      <3> QED
        BY <1>1, <2>3, <3>3, SaveHolds
    <2>5. ASSUME op.kind # "delete"
          PROVE  \E M \in SUBSET Cluster : ChainsAt(M)'
      <3>1. ~Solid(SlotsOf(d[c])[i]) /\ s[i] = NewEntry
        BY <1>2, <1>4, <1>7, <1>9, <1>13, <2>5 DEF SlotInv
      <3>2. /\ Owned(L, f, d, chain, TRUE) /\ X = {}
            /\ op.kind = "mkdir" => NewDirectory
        <4>1. Claiming /\ ~MarkToCome
          BY <1>2, <1>13, <2>5 DEF Claiming, EntryToCome, MarkToCome
        <4> QED
          BY <1>4, <1>5, <2>5, <4>1 DEF ChainsAt, ClaimInv, Victim, Deleting
      <3>3. PICK v : v = FirstCluster
        OBVIOUS
      <3>4. v # 0 => chain # <<>> /\ 1 \in 1..Len(chain) /\ v = chain[1] /\ v \in Cluster
        BY <3>3, State DEF FirstCluster
      <3>5. v # 0 => /\ v \notin L /\ ~Begins(d, v) /\ f[v] # 0 /\ v # Root
                     /\ \A x \in Cluster : f[x] # v
        <4> SUFFICES ASSUME v # 0
                     PROVE  /\ v \notin L /\ ~Begins(d, v) /\ f[v] # 0 /\ v # Root
                            /\ \A x \in Cluster : f[x] # v
          OBVIOUS
        <4>1. Root \in L
          BY <1>8 DEF DiskAt, TwoWorlds
        <4> QED
          BY <3>2, <3>4, <4>1 DEF Owned
      <3>6. /\ s[i].cluster = v /\ IsVisible(s[i])
            /\ s[i].tag = IF op.kind = "mkdir" THEN "dir" ELSE "file"
        BY <3>1, <3>3 DEF NewEntry, Entry, IsVisible
      <3>7. CASE op.kind = "create"
        <4>1. s[i].tag = "dir" <=> s[i].cluster \in L
          <5>1. 0 \notin L
            BY Values
          <5> QED
            BY <3>5, <3>6, <3>7, <5>1
        <4>2. DiskAt(L, f, e, X) /\ Added(d, e)
          BY <1>8, <2>1, <3>1, <3>5, <3>6, <4>1, AddEntry
        <4>3. DiskAt(L, fat, data', Victim) /\ Parents(data) \subseteq Parents(data')
          BY <1>4, <1>5, <4>2 DEF Added
        <4> QED
          BY <1>1, <2>3, <4>3, SaveHolds
      <3>8. CASE op.kind = "mkdir"
        <4> DEFINE M == L \cup {v}
        <4>1. chain # <<>> /\ f[chain[1]] = EOC /\ d[chain[1]] = FirstSector
          BY <1>4, <3>2, <3>8 DEF NewDirectory, MarkToCome
        <4>2. v # 0 /\ v = chain[1] /\ v \in Cluster
          <5>1. v = chain[1] /\ 1 \in 1..Len(chain)
            BY <3>3, <4>1, State DEF FirstCluster
          <5>2. v \in Cluster
            BY <5>1, State
          <5> QED
            BY <5>1, <5>2, Values
        <4>3. DiskAt(M, f, d, X)
          <5>1. d[v].tag = "dir" /\ f[v] # 0 /\ f[v] \notin Cluster
            BY <4>1, <4>2, Values DEF FirstSector, DirSector
          <5>2. \A j \in SlotNo : SlotsOf(d[v])[j].tag = "dotdot" => SlotsOf(d[v])[j].cluster = cwd
            <6> TAKE j \in SlotNo
            <6>1. SlotsOf(d[v]) = NewDirSector(chain[1], cwd)
              BY <4>1, <4>2 DEF FirstSector, DirSector, SlotsOf
            <6>2. NewDirSector(chain[1], cwd)[j] =
                     IF j = 1 THEN Dot(chain[1]) ELSE IF j = 2 THEN DotDot(cwd) ELSE End
              BY DEF NewDirSector, SlotNo
            <6>3. Dot(chain[1]).tag # "dotdot" /\ DotDot(cwd).cluster = cwd /\ End.tag # "dotdot"
              BY DEF Dot, DotDot, End
            <6> QED
              BY <6>1, <6>2, <6>3
          <5>3. cwd \in Parents(d)
            BY <1>4 DEF ChainsAt, DiskInv
          <5> QED
            BY <1>8, <3>5, <4>2, <5>1, <5>2, <5>3, JoinDisk
        <4>4. M \in SUBSET Cluster /\ L \subseteq M /\ c \in M /\ v \in M
          BY <4>2
        <4> HIDE DEF M
        <4>5. s[i].tag = "dir" <=> s[i].cluster \in M
          BY <3>6, <3>8, <4>4
        <4>6. DiskAt(M, f, e, X) /\ Added(d, e)
          BY <1>8, <2>1, <3>1, <3>5, <3>6, <4>3, <4>4, <4>5, AddEntry
        <4>7. DiskAt(M, fat, data', Victim) /\ Parents(data) \subseteq Parents(data')
          BY <1>4, <1>5, <4>6 DEF Added
        <4>8. ChainsAt(M)'
          BY <1>1, <2>3, <4>4, <4>7, SaveHolds
        <4> QED
          BY <4>4, <4>8
      <3> QED
        BY <1>11, <2>5, <3>7, <3>8
    <2> QED
      BY <2>4, <2>5
  <1> QED
    BY <1>12, <1>13

(* One write of the format. *)
LEMMA FormatProgress ==
    ASSUME TypeInv, FormatInv, DiskWrite, pc = "format"
    PROVE  FormatInv'
  <1> DEFINE w == Head(io)
  <1>1. /\ io' = Tail(io) /\ io # <<>> /\ pc' = pc
        /\ fat' = Written(fat, 0, w)
        /\ data' = IF w.to = "data" THEN [data EXCEPT ![w.cluster] = w.value] ELSE data
        /\ boot' = IF w.to = "boot" THEN "fat32" ELSE boot
    BY DEF DiskWrite
  <1>2. PICK k \in 1..6 :
          /\ io = Rest(k) /\ data = Blank
          /\ k # 1 => boot = "fat32"
          /\ k > 2 => \A c \in Cluster : fat[c] = IF c = Root /\ k > 4 THEN EOC ELSE 0
    <2>1. CASE boot = "blank"
      <3>1. io = FormatWrites /\ data = Blank
        BY <2>1 DEF FormatInv
      <3>2. io = Rest(1) /\ 1 \in 1..6
        BY <3>1, FormatSequence
      <3> QED
        BY <3>1, <3>2
    <2>2. CASE boot # "blank"
      <3>1. PICK k \in 2..7 :
               /\ io = Rest(k) /\ boot = "fat32"
               /\ k > 2 => \A c \in Cluster : fat[c] = IF c = Root /\ k > 4 THEN EOC ELSE 0
               /\ data = IF k = 7 THEN [Blank EXCEPT ![Root] = DirSector(RootSector)] ELSE Blank
        BY <2>2 DEF FormatInv
      <3>2. k # 7
        <4>1. Rest(7) = <<>>
          BY RestSteps
        <4> QED
          BY <1>1, <3>1, <4>1
      <3>3. k \in 1..6
        BY <3>2
      <3> QED
        BY <3>1, <3>2, <3>3
    <2> QED
      BY <2>1, <2>2
  <1>3. w = FormatWrites[k] /\ io' = Rest(k + 1)
    <2>1. k \in 1..7 /\ k < 7
      OBVIOUS
    <2>2. Head(Rest(k)) = FormatWrites[k] /\ Tail(Rest(k)) = Rest(k + 1)
      BY <2>1, RestSteps
    <2> QED
      BY <1>1, <1>2, <2>2
  <1> HIDE DEF w
  <1>4. fat \in Table32 /\ Root \in Cluster
    BY State, Values
  <1>5. /\ boot' = "fat32"
        /\ k + 1 > 2 => \A c \in Cluster : fat'[c] = IF c = Root /\ k + 1 > 4 THEN EOC ELSE 0
        /\ data' = IF k + 1 = 7 THEN [Blank EXCEPT ![Root] = DirSector(RootSector)] ELSE Blank
    <2>1. CASE k = 1
      <3>1. w.to = "boot"
        BY <1>3, <2>1, FormatSequence
      <3> QED
        BY <1>1, <1>2, <2>1, <3>1
    <2>2. CASE k = 2
      <3>1. w.to = "zero" /\ w.copy = 0
        BY <1>3, <2>2, FormatSequence
      <3>2. fat' = [c \in Cluster |-> 0]
        BY <1>1, <3>1 DEF Written
      <3> QED
        BY <1>1, <1>2, <2>2, <3>1, <3>2
    <2>3. CASE k = 3
      <3>1. w.to = "zero" /\ w.copy = 1
        BY <1>3, <2>3, FormatSequence
      <3>2. fat' = fat
        BY <1>1, <3>1 DEF Written
      <3> QED
        BY <1>1, <1>2, <2>3, <3>1, <3>2
    <2>4. CASE k = 4
      <3>1. w.to = "fat" /\ w.copy = 0 /\ w.cluster = Root /\ w.value = EOC
        BY <1>3, <2>4, FormatSequence
      <3>2. fat' = [fat EXCEPT ![Root] = EOC]
        BY <1>1, <3>1 DEF Written
      <3>3. \A c \in Cluster : fat'[c] = IF c = Root THEN EOC ELSE 0
        BY <1>2, <1>4, <2>4, <3>2 DEF Table32
      <3> QED
        BY <1>1, <1>2, <2>4, <3>1, <3>3
    <2>5. CASE k = 5
      <3>1. w.to = "fat" /\ w.copy = 1
        BY <1>3, <2>5, FormatSequence
      <3>2. fat' = fat
        BY <1>1, <3>1 DEF Written
      <3> QED
        BY <1>1, <1>2, <2>5, <3>1, <3>2
    <2>6. CASE k = 6
      <3>1. w.to = "data" /\ w.cluster = Root /\ w.value = DirSector(RootSector)
        BY <1>3, <2>6, FormatSequence
      <3>2. fat' = fat
        BY <1>1, <3>1 DEF Written
      <3> QED
        BY <1>1, <1>2, <2>6, <3>1, <3>2
    <2> QED
      BY <2>1, <2>2, <2>3, <2>4, <2>5, <2>6
  <1>6. k + 1 \in 2..7
    OBVIOUS
  <1>7. boot' # "blank"
    BY <1>5
  <1> QED
    BY <1>1, <1>3, <1>5, <1>6, <1>7 DEF FormatInv

LEMMA RestNext ==
    ASSUME TypeInv, RestInv, [Next]_vars
    PROVE  RestInv'
  <1>1. CASE DiskWrite
    BY <1>1 DEF DiskWrite, RestInv
  <1>2. CASE \/ AllocCluster \/ AllocFails \/ WriteContents
             \/ ChooseShort \/ SearchRun \/ PlaceEntry \/ ExtendDir \/ InsertFails
             \/ FreeCluster \/ MarkEntry \/ Return
    <2>1. \/ pc' \notin {"off", "format", "idle"}
          \/ pc' = "idle" /\ chain' = <<>>
      BY <1>2 DEF AllocCluster, AllocFails, WriteContents, ChooseShort, SearchRun, PlaceEntry,
         ExtendDir, InsertFails, FreeCluster, MarkEntry, Return, Finish
    <2> QED
      BY <2>1 DEF RestInv
  <1>3. CASE FormatDone \/ Boot \/ PowerCut
    BY <1>3 DEF FormatDone, Boot, PowerCut, RestInv
  <1>4. CASE Call
    <2>1. pc = "idle" /\ chain' = chain /\ pc' \notin {"off", "format"}
      BY <1>4 DEF Call, CreateFile, CreateDir, DeleteFile, ChangeDir, ram
    <2> QED
      BY <2>1 DEF RestInv
  <1>5. CASE UNCHANGED vars
    BY <1>5 DEF vars, ram, RestInv
  <1> QED
    BY <1>1, <1>2, <1>3, <1>4, <1>5 DEF Next, Work

(* Once formatted, always formatted. *)
LEMMA StaysFormatted ==
    ASSUME boot = "fat32", pc # "format", [Next]_vars
    PROVE  boot' = "fat32" /\ pc' # "format"
  <1>1. CASE Work
    BY <1>1 DEF Work, DiskWrite, FormatDone, AllocCluster, AllocFails, WriteContents, ChooseShort,
       SearchRun, PlaceEntry, ExtendDir, InsertFails, FreeCluster, MarkEntry, Return, Finish, disk
  <1>2. CASE Call
    BY <1>2 DEF Call, CreateFile, CreateDir, DeleteFile, ChangeDir, disk, ram
  <1>3. CASE Boot \/ PowerCut
    BY <1>3 DEF Boot, PowerCut, disk
  <1>4. CASE UNCHANGED vars
    BY <1>4 DEF vars, disk, ram
  <1> QED
    BY <1>1, <1>2, <1>3, <1>4 DEF Next

(* What can happen before that. *)
LEMMA BeforeFormatted ==
    ASSUME TypeInv, Quiet, FormatInv, ~Mounted, [Next]_vars
    PROVE  \/ pc = "format" /\ (DiskWrite \/ FormatDone)
           \/ PowerCut /\ pc = "format"
           \/ Boot /\ boot = "blank" /\ pc = "off"
           \/ UNCHANGED vars
  <1>1. boot \in {"blank", "fat32"}
    BY DEF TypeInv, TypeOK
  <1>2. pc = "format" \/ (pc = "off" /\ boot = "blank")
    BY <1>1 DEF Mounted, FormatInv
  <1>3. pc = "off" => io = <<>>
    BY DEF Quiet
  <1>4. CASE Work
    BY <1>2, <1>3, <1>4 DEF Work, DiskWrite, FormatDone, AllocCluster, AllocFails, WriteContents,
       ChooseShort, SearchRun, PlaceEntry, ExtendDir, InsertFails, FreeCluster, MarkEntry, Return
  <1>5. CASE Call
    BY <1>2, <1>5 DEF Call, CreateFile, CreateDir, DeleteFile, ChangeDir
  <1>6. CASE Boot \/ PowerCut
    BY <1>2, <1>6 DEF Boot, PowerCut
  <1> QED
    BY <1>4, <1>5, <1>6 DEF Next

LEMMA FormatNext ==
    ASSUME TypeInv, Quiet, FormatInv, [Next]_vars
    PROVE  FormatInv'
  <1>1. CASE Mounted
    <2>1. boot' = "fat32" /\ pc' # "format"
      BY <1>1, StaysFormatted DEF Mounted
    <2> QED
      BY <2>1 DEF FormatInv
  <1>2. CASE pc = "format" /\ DiskWrite
    BY <1>2, FormatProgress
  <1>3. CASE pc = "format" /\ FormatDone
    <2>1. boot = "fat32"
      BY <1>3, FormattedDisk DEF FormatDone
    <2>2. boot' = "fat32" /\ pc' = "idle"
      BY <1>3, <2>1 DEF FormatDone, disk
    <2> QED
      BY <2>2 DEF FormatInv
  <1>4. CASE PowerCut
    <2>1. pc' = "off" /\ UNCHANGED <<boot, data>>
      BY <1>4 DEF PowerCut, disk
    <2> QED
      BY <2>1 DEF FormatInv
  <1>5. CASE Boot /\ boot = "blank" /\ pc = "off"
    <2>1. pc' = "format" /\ io' = FormatWrites /\ UNCHANGED <<boot, data>>
      BY <1>5 DEF Boot, disk
    <2> QED
      BY <1>5, <2>1 DEF FormatInv
  <1>6. CASE UNCHANGED vars
    BY <1>6 DEF vars, disk, ram, FormatInv
  <1> QED
    BY <1>1, <1>2, <1>3, <1>4, <1>5, <1>6, BeforeFormatted
-----------------------------------------------------------------------------
(* The invariant of the chains is inductive.                                 *)

LEMMA ChainInit == TypeInv /\ Init => ChainInv
  <1> SUFFICES ASSUME TypeInv, Init
               PROVE  ChainInv
    OBVIOUS
  <1>1. boot = "blank" /\ pc = "off" /\ chain = <<>> /\ cwd = Root /\ data = Blank
    BY DEF Init, Blank
  <1>2. ~Mounted
    BY <1>1 DEF Mounted
  <1> QED
    BY <1>1, <1>2 DEF ChainInv, RestInv, FormatInv

(* A sector write of a running operation. *)
LEMMA WriteChains ==
    ASSUME TypeInv, Quiet, NEW L \in SUBSET Cluster, ChainsAt(L), pc # "format", DiskWrite
    PROVE  \E M \in SUBSET Cluster : ChainsAt(M)'
  <1>1. io # <<>>
    BY DEF DiskWrite
  <1>2. pc # "search"
    BY <1>1 DEF ChainsAt, ClaimInv
  <1>3. pc \in {"alloc", "name", "retry", "save", "free", "abort"}
    BY <1>1, <1>2 DEF Quiet, TypeInv, TypeOK
  <1>4. CASE pc \in {"alloc", "name", "free", "abort"}
    <2>1. ChainsAt(L)'
      BY <1>4, AllocWrite, NameWrite, ChainWrite
    <2> QED
      BY <2>1
  <1>5. CASE pc = "retry"
    BY <1>5, RetryWrite
  <1>6. CASE pc = "save"
    BY <1>6, SaveWrite
  <1> QED
    BY <1>3, <1>4, <1>5, <1>6

(* On a formatted disk, a step keeps the chains and tears nothing apart. *)
LEMMA MountedNext ==
    ASSUME TypeInv, Quiet, RestInv, Mounted, torn' = {},
           NEW L \in SUBSET Cluster, ChainsAt(L), [Next]_vars
    PROVE  \E M \in SUBSET Cluster : ChainsAt(M)'
  <1>1. boot = "fat32" /\ pc # "format"
    BY DEF Mounted
  <1>2. ASSUME ChainsAt(L)'
        PROVE  \E M \in SUBSET Cluster : ChainsAt(M)'
    BY <1>2
  <1>3. CASE Work
    <2>1. ~FormatDone
      BY <1>1 DEF FormatDone
    <2>2. CASE DiskWrite
      BY <1>1, <2>2, WriteChains
    <2>3. CASE AllocCluster \/ AllocFails \/ WriteContents \/ ChooseShort \/ SearchRun
      <3>1. ChainsAt(L)'
        BY <2>3, AllocChains, FailChains, ContentsChains, ShortChains, SearchChains
      <3> QED
        BY <3>1
    <2>4. CASE PlaceEntry \/ ExtendDir \/ InsertFails \/ FreeCluster \/ MarkEntry \/ Return
      <3>1. ChainsAt(L)'
        BY <2>4, PlaceChains, ExtendChains, FailChains, FreeChains, MarkChains, ReturnChains
      <3> QED
        BY <3>1
    <2> QED
      BY <1>3, <2>1, <2>2, <2>3, <2>4 DEF Work
  <1>4. CASE Call
    <2>1. ASSUME NEW name \in Name, NEW blocks \in Contents, CreateFile(name, blocks)
          PROVE  ChainsAt(L)'
      BY <2>1, CreateChains
    <2>2. ASSUME NEW name \in Name, CreateDir(name)
          PROVE  ChainsAt(L)'
      BY <2>2, CreateChains
    <2>3. ASSUME NEW name \in Name, DeleteFile(name)
          PROVE  ChainsAt(L)'
      BY <2>3, DeleteChains
    <2>4. ASSUME NEW d \in Cluster, ChangeDir(d)
          PROVE  ChainsAt(L)'
      BY <2>4, ChangeChains
    <2>5. ChainsAt(L)'
      BY <1>4, <2>1, <2>2, <2>3, <2>4 DEF Call
    <2> QED
      BY <2>5
  <1>5. CASE Boot
    <2>1. ChainsAt(L)'
      BY <1>1, <1>5, BootChains
    <2> QED
      BY <2>1
  <1>6. CASE PowerCut
    <2>1. torn' = torn \cup HalfDone
      BY <1>6 DEF PowerCut
    <2>2. ~DeleteHalfDone
      BY <2>1 DEF HalfDone
    <2>3. ChainsAt(L)'
      BY <1>6, <2>2, CutChains
    <2> QED
      BY <2>3
  <1>7. CASE UNCHANGED vars
    <2>1. UNCHANGED <<fat, data, cwd, pc, op, img, dirc, chain, cur, io>>
      BY <1>7 DEF vars, disk, ram
    <2>2. Victim' = Victim /\ NewEntry' = NewEntry /\ FirstSector' = FirstSector
      BY <2>1 DEF Victim, Deleting, NewEntry, FirstCluster, FirstSector, NewDirSector
    <2>3. DiskInv(L)' /\ FreeInv(L)' /\ PlaceInv'
      BY <2>1, <2>2 DEF ChainsAt, DiskInv, FreeInv, PlaceInv, Run
    <2>4. LoadInv(L)' /\ ExtendInv(L)'
      BY <2>1 DEF ChainsAt, LoadInv, Extending, Inserting, ExtendInv
    <2>5. SaveInv(L)'
      BY <2>1, <2>2 DEF ChainsAt, SaveInv, ToCome, SlotInv
    <2>6. ClaimInv(L)'
      BY <2>1, <2>2 DEF ChainsAt, ClaimInv, Claiming, Inserting, EntryToCome, ToCome, MarkToCome,
         NewDirectory, Marking, LinkWrite, ContentWrite
    <2>7. ChainsAt(L)'
      BY <2>3, <2>4, <2>5, <2>6 DEF ChainsAt
    <2> QED
      BY <2>7
  <1> QED
    BY <1>3, <1>4, <1>5, <1>6, <1>7 DEF Next

(* The first steps on a disk: until the format is done there are no chains. *)
LEMMA UnmountedNext ==
    ASSUME TypeInv, Quiet, RestInv, FormatInv, ~Mounted, Mounted', torn' = {}, [Next]_vars
    PROVE  ChainsAt({Root})'
  <1>1. boot \in {"blank", "fat32"}
    BY DEF TypeInv, TypeOK
  <1>2. CASE pc = "format" /\ DiskWrite
    <2>1. pc' = "format"
      BY <1>2 DEF DiskWrite
    <2> QED
      BY <2>1 DEF Mounted
  <1>3. CASE pc = "format" /\ FormatDone
    BY <1>3, FormatDoneChains
  <1>4. CASE PowerCut /\ pc = "format"
    <2>1. boot' = boot /\ torn' = torn \cup HalfDone
      BY <1>4 DEF PowerCut, disk
    <2>2. boot = "fat32" /\ ~FormatHalfDone
      BY <2>1 DEF Mounted, HalfDone
    <2> QED
      BY <1>4, <2>2, CutFormat
  <1>5. CASE Boot /\ boot = "blank" /\ pc = "off"
    <2>1. boot' = "blank"
      BY <1>5 DEF Boot, disk
    <2> QED
      BY <2>1 DEF Mounted
  <1>6. CASE UNCHANGED vars
    <2>1. boot' = boot /\ pc' = pc
      BY <1>6 DEF vars, disk, ram
    <2> QED
      BY <2>1 DEF Mounted
  <1> QED
    BY <1>2, <1>3, <1>4, <1>5, <1>6, BeforeFormatted

LEMMA TornStays ==
    ASSUME [Next]_vars
    PROVE  torn \subseteq torn'
  <1>1. CASE Work
    BY <1>1 DEF Work, DiskWrite, FormatDone, AllocCluster, AllocFails, WriteContents, ChooseShort,
       SearchRun, PlaceEntry, ExtendDir, InsertFails, FreeCluster, MarkEntry, Return, Finish
  <1>2. CASE Call
    BY <1>2 DEF Call, CreateFile, CreateDir, DeleteFile, ChangeDir
  <1>3. CASE Boot \/ PowerCut
    BY <1>3 DEF Boot, PowerCut
  <1>4. CASE UNCHANGED vars
    BY <1>4 DEF vars
  <1> QED
    BY <1>1, <1>2, <1>3, <1>4 DEF Next

LEMMA ChainNext == TypeInv /\ MirrorInv /\ ChainInv /\ [Next]_vars => ChainInv'
  <1> SUFFICES ASSUME TypeInv, MirrorInv, ChainInv, [Next]_vars
               PROVE  ChainInv'
    OBVIOUS
  <1>1. Quiet /\ RestInv /\ RestInv'
    BY RestNext DEF MirrorInv, ChainInv
  <1>2. torn' = {} => torn = {}
    BY TornStays
  <1>3. ASSUME torn' = {}
        PROVE  FormatInv'
    BY <1>1, <1>2, <1>3, FormatNext DEF ChainInv
  <1>4. ASSUME torn' = {}, Mounted'
        PROVE  (\E L \in SUBSET Cluster : ChainsAt(L))'
    <2>1. torn = {} /\ FormatInv
      BY <1>2, <1>4 DEF ChainInv
    <2>2. CASE Mounted
      <3>1. PICK L \in SUBSET Cluster : ChainsAt(L)
        BY <2>1, <2>2 DEF ChainInv
      <3>2. \E M \in SUBSET Cluster : ChainsAt(M)'
        BY <1>1, <1>4, <2>2, <3>1, MountedNext
      <3> QED
        BY <3>2
    <2>3. CASE ~Mounted
      <3>1. ChainsAt({Root})'
        BY <1>1, <1>4, <2>1, <2>3, UnmountedNext
      <3>2. {Root} \in SUBSET Cluster
        BY Values
      <3> QED
        BY <3>1, <3>2
    <2> QED
      BY <2>2, <2>3
  <1> QED
    BY <1>1, <1>3, <1>4 DEF ChainInv
LEMMA ChainInvariant == Spec => [](TypeInv /\ MirrorInv /\ ChainInv)
  <1>1. Init => TypeInv /\ MirrorInv /\ ChainInv
    BY TypeInit, MirrorInit, ChainInit
  <1>2. (TypeInv /\ MirrorInv /\ ChainInv) /\ [Next]_vars => (TypeInv /\ MirrorInv /\ ChainInv)'
    BY TypeNext, MirrorNext, ChainNext
  <1> QED
    BY <1>1, <1>2, PTL DEF Spec

(* What the invariant says of the entries the properties speak of. *)
LEMMA EntriesShown ==
    /\ Entries \subseteq Shown(data)
    /\ \A p \in Entries : EntryAt(p) = EntryOf(data, p) /\ fat[p[1]] # 0
    /\ Entries \cap Victim \subseteq Doomed
  <1>1. \A p \in Entries :
           /\ p \in Spot /\ IsVisible(EntryOf(data, p))
           /\ EntryAt(p) = EntryOf(data, p) /\ fat[p[1]] # 0
    BY DEF Entries, EntriesOf, EntryAt, EntryOf, Spot, SlotNo
  <1> QED
    BY <1>1 DEF Shown, Victim, Doomed

LEMMA ChainMeaning == TypeInv /\ ChainInv => ChainsDisjoint /\ NoDangling
  <1> SUFFICES ASSUME TypeInv, ChainInv
               PROVE  ChainsDisjoint /\ NoDangling
    OBVIOUS
  <1> SUFFICES ASSUME Mounted, torn = {}
               PROVE  ChainsDisjoint /\ NoDangling
    BY DEF ChainsDisjoint, NoDangling
  <1>1. PICK L \in SUBSET Cluster : ChainsAt(L)
    BY DEF ChainInv
  <1>2. DiskAt(L, fat, data, Victim) /\ cwd \in Parents(data)
    BY <1>1 DEF ChainsAt, DiskInv
  <1>3. TwoWorlds(L, fat, data) /\ Disjoint(fat, data) /\ Leads(fat, data, Victim)
    BY <1>2 DEF DiskAt
  <1>4. fat \in Table32 /\ data \in Region
    BY State
  <1>5. \A h \in Heads : h \in Cluster /\ Begins(data, h)
    <2> SUFFICES ASSUME NEW p \in Entries, EntryAt(p).cluster # 0
                 PROVE  EntryAt(p).cluster \in Cluster /\ Begins(data, EntryAt(p).cluster)
      BY DEF Heads
    <2>1. p \in Shown(data) /\ EntryAt(p) = EntryOf(data, p)
      BY EntriesShown
    <2>2. EntryOf(data, p).cluster \in Cluster \cup {0}
      BY <1>4, <2>1, ShownType
    <2> QED
      BY <2>1, <2>2 DEF Begins
  <1>6. ChainsDisjoint
    <2>1. \A p, q \in Entries :
             p # q /\ EntryAt(p).cluster = EntryAt(q).cluster => EntryAt(p).cluster = 0
      BY <1>3, EntriesShown DEF Disjoint
    <2>2. \A c, d \in Cluster : InRange(fat[c]) /\ fat[c] = fat[d] => c = d
      BY <1>3 DEF Disjoint, InRange
    <2>3. \A c \in Cluster : fat[c] \notin Heads \cup {Root}
      BY <1>3, <1>5, Values DEF Disjoint
    <2>4. Root \notin Heads
      BY <1>3, <1>5 DEF Disjoint
    <2> QED
      BY <2>1, <2>2, <2>3, <2>4 DEF ChainsDisjoint
  <1>7. NoDangling
    <2>1. \A p \in Entries \ Doomed : EntryAt(p).cluster # 0 => fat[EntryAt(p).cluster] # 0
      <3> TAKE p \in Entries \ Doomed
      <3>1. p \in Shown(data) \ Victim /\ EntryAt(p) = EntryOf(data, p)
        BY EntriesShown
      <3> QED
        BY <1>3, <3>1 DEF Leads
    <2>2. \A c \in Cluster : InRange(fat[c]) => fat[fat[c]] # 0
      BY <1>3 DEF Leads, InRange
    <2>3. fat[Root] # 0 /\ fat[cwd] # 0
      <3>1. Parents(data) \subseteq L /\ Root \in Parents(data)
        BY <1>3, <1>4, ParentsType DEF Parents
      <3> QED
        BY <1>2, <1>3, <3>1 DEF TwoWorlds
    <2> QED
      BY <2>1, <2>2, <2>3 DEF NoDangling
  <1> QED
    BY <1>6, <1>7

(* No cluster belongs to two chains, at any moment and however the power     *)
(* fails: not two files, not a file and a directory, not a chain that is     *)
(* still being built and one that is there.                                  *)
THEOREM NoClusterIsShared == Spec => []ChainsDisjoint
  <1>1. TypeInv /\ MirrorInv /\ ChainInv => ChainsDisjoint
    BY ChainMeaning
  <1> QED
    BY <1>1, ChainInvariant, PTL

(* No entry, link or current directory leads to a free cluster, but the      *)
(* entry that is being deleted: its chain is freed before the entry goes.    *)
THEOREM NothingDangles == Spec => []NoDangling
  <1>1. TypeInv /\ MirrorInv /\ ChainInv => NoDangling
    BY ChainMeaning
  <1> QED
    BY <1>1, ChainInvariant, PTL

-----------------------------------------------------------------------------
(* Where the sector writes go.                                               *)

LEMMA OnlyWritesStore ==
    ASSUME [Next]_vars, ~DiskWrite
    PROVE  data' = data
  <1>1. CASE Work
    BY <1>1 DEF Work, FormatDone, AllocCluster, AllocFails, WriteContents, ChooseShort,
       SearchRun, PlaceEntry, ExtendDir, InsertFails, FreeCluster, MarkEntry, Return, disk
  <1>2. CASE Call
    BY <1>2 DEF Call, CreateFile, CreateDir, DeleteFile, ChangeDir, disk
  <1>3. CASE Boot \/ PowerCut
    BY <1>3 DEF Boot, PowerCut, disk
  <1>4. CASE UNCHANGED vars
    BY <1>4 DEF vars, disk
  <1> QED
    BY <1>1, <1>2, <1>3, <1>4 DEF Next

WritesInside(c) ==
    /\ fat[c] # 0
    /\ \/ c \in {dirc[k] : k \in 1..Len(dirc)}
       \/ c \in {chain[k] : k \in 1..Len(chain)}

LEMMA WriteIsInside ==
    ASSUME TypeInv, MirrorInv, ChainInv, Mounted, torn = {}, DiskWrite,
           NEW c \in Cluster, data'[c] # data[c]
    PROVE  WritesInside(c)
  <1>1. PICK L \in SUBSET Cluster : ChainsAt(L)
    BY DEF ChainInv
  <1>2. /\ io # <<>> /\ Len(io) \in Nat \ {0} /\ io' = Tail(io) /\ Head(io) = io[1]
    BY WriteStep
  <1>3. fat \in Table32 /\ data \in Region
    BY State
  <1>4. TwoWorlds(L, fat, data)
    BY <1>1 DEF ChainsAt, DiskInv, DiskAt
  <1>5. CASE pc = "alloc"
    <2>1. PICK x : io = WriteEntry(x, EOC) \/ io = Tail(WriteEntry(x, EOC))
      BY <1>1, <1>2, <1>5 DEF ChainsAt, ClaimInv, Marking
    <2>2. io[1].to = "fat"
      BY <2>1 DEF WriteEntry
    <2> QED
      BY <2>2, SectorStep
  <1>6. CASE pc \in {"free", "abort"}
    <2>1. PICK x : io = WriteEntry(x, 0) \/ io = Tail(WriteEntry(x, 0))
      BY <1>1, <1>2, <1>6 DEF ChainsAt, FreeInv
    <2>2. io[1].to = "fat"
      BY <2>1 DEF WriteEntry
    <2> QED
      BY <2>2, SectorStep
  <1>7. CASE pc = "name"
    <2>1. PICK w : w = io[1]
      OBVIOUS
    <2>2. LinkWrite(w) \/ ContentWrite(w)
      BY <1>1, <1>2, <1>7, <2>1 DEF ChainsAt, ClaimInv
    <2>3. w.to = "data" /\ w.cluster = c
      <3>1. w.to = "fat" \/ w.to = "data"
        BY <2>2 DEF LinkWrite, ContentWrite
      <3>2. w.to # "fat"
        BY <2>1, SectorStep
      <3>3. w.to = "data"
        BY <3>1, <3>2
      <3>4. data' = [data EXCEPT ![w.cluster] = w.value]
        BY <2>1, <3>3, SectorStep
      <3> QED
        BY <1>3, <3>3, <3>4 DEF Region
    <2>4. PICK k \in 1..Len(chain) : chain[k] = c
      BY <2>2, <2>3 DEF LinkWrite, ContentWrite
    <2>5. Owned(L, fat, data, chain, TRUE)
      BY <1>1, <1>7 DEF ChainsAt, ClaimInv, Claiming, Inserting, MarkToCome
    <2>6. fat[c] # 0
      BY <2>4, <2>5 DEF Owned
    <2> QED
      BY <2>4, <2>6 DEF WritesInside
  <1>8. CASE pc = "retry"
    <2>1. PICK m \in 1..7, n \in Nat, x \in Cluster, last \in Cluster : RetryAt(m, n, x, last)
      BY <1>1, <1>8, RetryStep
    <2>2. m = 3 /\ data' = [data EXCEPT ![x] = DirSector(ZeroSector)] /\ x = dirc[n]
          /\ n = Len(dirc) /\ n > 1 /\ Len(io) = 8 - m
      BY <2>1 DEF RetryAt
    <2>3. c = x /\ Len(io) = 5
      BY <1>3, <2>2 DEF Region
    <2>4. fat[dirc[Len(dirc)]] = EOC
      BY <1>1, <1>2, <1>8, <2>3 DEF ChainsAt, ExtendInv
    <2>5. fat[c] # 0
      BY <2>2, <2>3, <2>4, Values
    <2>6. n \in 1..Len(dirc)
      BY <2>2
    <2> QED
      BY <2>2, <2>3, <2>5, <2>6 DEF WritesInside
  <1>9. CASE pc = "save"
    <2>1. PICK k \in Nat : SaveAt(k)
      BY <1>1, <1>9, SaveStep
    <2>2. k \in 1..Len(img) /\ data' = [data EXCEPT ![dirc[k]] = DirSector(img[k])]
      BY <2>1 DEF SaveAt, Stored
    <2>3. c = dirc[k] /\ k \in 1..Len(dirc)
      BY <1>3, <2>2, State DEF Region
    <2>4. dirc[k] \in L
      BY <1>1, <1>9, <2>2 DEF ChainsAt, SaveInv
    <2>5. fat[c] # 0
      BY <1>4, <2>3, <2>4 DEF TwoWorlds
    <2> QED
      BY <2>3, <2>5 DEF WritesInside
  <1>10. pc \in {"alloc", "name", "retry", "save", "free", "abort"}
    <2>1. pc # "search"
      BY <1>1, <1>2 DEF ChainsAt, ClaimInv
    <2> QED
      BY <1>2, <2>1 DEF MirrorInv, Quiet, TypeInv, TypeOK, Mounted
  <1> QED
    BY <1>5, <1>6, <1>7, <1>8, <1>9, <1>10

(* A write to the data region goes to a cluster in use, of the directory or  *)
(* of the chain that the running operation works on.                         *)
THEOREM WritesStayInside == Spec => NeverOverwrites
  <1> DEFINE Good == \A c \in Cluster : data'[c] # data[c] /\ Mounted /\ torn = {} => WritesInside(c)
  <1>1. TypeInv /\ MirrorInv /\ ChainInv /\ [Next]_vars => Good
    BY OnlyWritesStore, WriteIsInside
  <1>2. Good <=> \A c \in Cluster :
                    data'[c] # data[c] /\ Mounted /\ torn = {} =>
                      /\ fat[c] # 0
                      /\ \/ c \in {dirc[k] : k \in 1..Len(dirc)}
                         \/ c \in {chain[k] : k \in 1..Len(chain)}
    BY DEF WritesInside
  <1> QED
    BY <1>1, <1>2, ChainInvariant, PTL DEF Spec, NeverOverwrites

-----------------------------------------------------------------------------
(* When a creation gives up.                                                 *)

LEMMA FullTable ==
    ASSUME TypeInv, FoundFree = 0
    PROVE  Used = Cluster
  <1>1. hint \in Cluster \cup {3} /\ LastCluster \in Nat /\ LastCluster >= 2
    BY SlotAssumption DEF TypeInv, TypeOK, SlotAssumption, LastCluster
  <1>2. From \in Nat /\ From >= 2 /\ From <= LastCluster
    BY <1>1 DEF From, InRange, Cluster
  <1>3. ASSUME NEW lo, NEW hi, Free(lo, hi) # {}
        PROVE  Least(Free(lo, hi)) # 0
    <2>1. Free(lo, hi) \subseteq Nat /\ Free(lo, hi) \subseteq Cluster
      BY DEF Free, Cluster
    <2>2. Least(Free(lo, hi)) \in Free(lo, hi)
      BY <1>3, <2>1, LeastInSet
    <2> QED
      BY <2>1, <2>2, Values
  <1>4. Free(From, LastCluster) = {} /\ Free(2, From - 1) = {}
    BY <1>3 DEF FoundFree
  <1>5. ASSUME NEW c \in Cluster
        PROVE  fat[c] # 0
    <2>1. c \in From..LastCluster \/ c \in 2..(From - 1)
      BY <1>2 DEF Cluster
    <2> QED
      BY <1>4, <2>1 DEF Free
  <1> QED
    BY <1>5 DEF Used

LEMMA ChainBound ==
    ASSUME NEW f, NEW c, NEW max \in Nat
    PROVE  Len(Chain(f, c, max)) <= max
  <1> DEFINE at == Walk(c, Links(f))
             lens == {n \in 0..max : \A k \in 1..n : at[k - 1] \in Cluster}
             len == Greatest(lens)
  <1>1. 0 \in lens /\ lens \in SUBSET (0..max)
    BY SMT
  <1>2. len \in lens
    <2> HIDE DEF lens
    <2> QED
      BY <1>1, GreatestInSet
  <1>3. len \in Nat /\ len <= max
    BY <1>2
  <1>4. Chain(f, c, max) = [k \in 1..len |-> at[k - 1]]
    BY DEF Chain
  <1> HIDE DEF at, len
  <1>5. Len(Chain(f, c, max)) = len
    BY <1>3, <1>4
  <1> QED
    BY <1>3, <1>5

(* What dir_load read, before dir_extend. *)
DirShort == pc \in {"alloc", "name", "search", "extend"} => Len(dirc) <= DIR_MAX_CLUSTERS

LEMMA ShortInit == Init => DirShort
  BY DEF Init, DirShort

LEMMA ShortNext == DirShort /\ [Next]_vars => DirShort'
  <1> SUFFICES ASSUME DirShort, [Next]_vars
               PROVE  DirShort'
    OBVIOUS
  <1>1. CASE DiskWrite \/ AllocCluster \/ WriteContents \/ ChooseShort \/ SearchRun
    BY <1>1 DEF DirShort, DiskWrite, AllocCluster, WriteContents, ChooseShort, SearchRun
  <1>2. CASE FormatDone \/ AllocFails \/ PlaceEntry \/ ExtendDir \/ InsertFails
    BY <1>2 DEF DirShort, FormatDone, AllocFails, PlaceEntry, ExtendDir, InsertFails, Finish
  <1>3. CASE FreeCluster \/ MarkEntry \/ Return
    BY <1>3 DEF DirShort, FreeCluster, MarkEntry, Return, Finish
  <1>4. CASE Call
    <2>1. ASSUME NEW name, NEW blocks, CreateFile(name, blocks) \/ CreateDir(name)
          PROVE  dirc' = DirChain(cwd)
      BY <2>1 DEF CreateFile, CreateDir, Start
    <2>2. Len(DirChain(cwd)) <= DIR_MAX_CLUSTERS
      BY ChainBound, DiskAssumption DEF DirChain, DiskAssumption
    <2>3. ASSUME NEW name, DeleteFile(name)
          PROVE  pc' = "free"
      BY <2>3 DEF DeleteFile
    <2>4. ASSUME NEW d, ChangeDir(d)
          PROVE  pc' = "idle"
      BY <2>4 DEF ChangeDir, ram
    <2> QED
      BY <1>4, <2>1, <2>2, <2>3, <2>4 DEF DirShort, Call
  <1>5. CASE Boot \/ PowerCut
    BY <1>5 DEF DirShort, Boot, PowerCut
  <1>6. CASE UNCHANGED vars
    BY <1>6 DEF DirShort, vars, ram
  <1> QED
    BY <1>1, <1>2, <1>3, <1>4, <1>5, <1>6 DEF Next, Work

(* After dir_extend the last sector of the image is empty, and a search that *)
(* still finds nothing wants more than such a sector.                        *)
Roomy ==
    /\ pc = "retry" => img # <<>> /\ img[Len(img)] = ZeroSector
    /\ pc = "fail" => LfnCount(op.short, op.name) >= ENTRIES_PER_SECTOR

LEMMA EmptySectorHasRoom ==
    ASSUME NEW image \in Seq(Sector), Len(image) # 0, image[Len(image)] = ZeroSector,
           NEW need \in 1..ENTRIES_PER_SECTOR
    PROVE  FreeRun(image, need) # 0
  <1> DEFINE n == Len(image)
             starts == {i \in 1..Capacity(image) :
                          /\ i + need - 1 <= Capacity(image)
                          /\ \A j \in i..(i + need - 1) : IsFree(At(image, j))}
             first == Position(n, 1)
  <1>1. n \in Nat \ {0} /\ n \in 1..n /\ ENTRIES_PER_SECTOR \in Nat \ {0} /\ need \in Nat \ {0}
    BY LenProperties, SlotAssumption, SMT DEF SlotAssumption
  <1>2. first = (n - 1) * ENTRIES_PER_SECTOR + 1
    BY DEF Position
  <1>3. /\ Capacity(image) = (n - 1) * ENTRIES_PER_SECTOR + ENTRIES_PER_SECTOR
        /\ (n - 1) * ENTRIES_PER_SECTOR \in Nat
    <2> HIDE DEF n
    <2>1. Capacity(image) = n * ENTRIES_PER_SECTOR
      BY DEF Capacity, n
    <2> QED
      BY <1>1, <2>1, SMT
  <1> HIDE DEF first
  <1>4. first \in 1..Capacity(image) /\ first + need - 1 <= Capacity(image)
    BY <1>1, <1>2, <1>3
  <1>5. ASSUME NEW j \in first..(first + need - 1)
        PROVE  IsFree(At(image, j))
    <2> DEFINE e == j - (n - 1) * ENTRIES_PER_SECTOR
    <2>1. e \in SlotNo
      BY <1>1, <1>2, <1>3 DEF SlotNo
    <2>2. Position(n, e) = j
      BY <1>1, <1>2, <1>3 DEF Position
    <2>3. At(image, j) = image[n][e]
      BY <1>1, <2>1, <2>2, PositionAt
    <2>4. image[n][e] = End
      BY <2>1 DEF ZeroSector, SlotNo
    <2> QED
      BY <2>3, <2>4 DEF IsFree, End
  <1>6. first \in starts
    BY <1>4, <1>5
  <1>7. starts \subseteq Nat \ {0}
    BY <1>1, <1>3
  <1> HIDE DEF starts
  <1>8. Least(starts) \in Nat \ {0}
    BY <1>6, <1>7, LeastInSet
  <1>9. FreeRun(image, need) = Least(starts)
    BY <1>6 DEF FreeRun, starts
  <1> QED
    BY <1>8, <1>9

LEMMA RoomyInit == Init => Roomy
  BY DEF Init, Roomy

LEMMA RoomyNext == TypeInv /\ Roomy /\ [Next]_vars => Roomy'
  <1> SUFFICES ASSUME TypeInv, Roomy, [Next]_vars
               PROVE  Roomy'
    OBVIOUS
  <1>1. CASE SearchRun
    <2>1. op'.short = op.short /\ op'.name = op.name /\ img' = img
      BY <1>1 DEF SearchRun, TypeInv, TypeOK
    <2>2. CASE pc' = "fail"
      <3> DEFINE n == LfnCount(op.short, op.name)
      <3>1. pc = "retry" /\ FreeRun(img, n + 1) = 0
        BY <1>1, <2>2 DEF SearchRun, TypeInv, TypeOK
      <3>2. n \in Nat
        BY NamesArePieces, LfnCountType DEF TypeInv
      <3>3. /\ img \in Seq(Sector) /\ Len(img) # 0
            /\ img[Len(img)] = ZeroSector /\ ENTRIES_PER_SECTOR \in Nat
        BY <3>1, State, EmptyLen, SlotAssumption DEF Roomy, SlotAssumption
      <3> HIDE DEF n
      <3>4. n + 1 \notin 1..ENTRIES_PER_SECTOR
        BY <3>1, <3>3, EmptySectorHasRoom
      <3>5. n >= ENTRIES_PER_SECTOR
        BY <3>2, <3>3, <3>4
      <3> QED
        BY <2>1, <2>2, <3>5 DEF Roomy, n
    <2>3. pc' \in {"place", "extend", "fail"}
      BY <1>1 DEF SearchRun
    <2> QED
      BY <2>2, <2>3 DEF Roomy
  <1>2. CASE ExtendDir
    <2>1. img \in Seq(Sector) /\ img' = Append(img, ZeroSector) /\ pc' = "retry"
      BY <1>2, State DEF ExtendDir
    <2> QED
      BY <2>1 DEF Roomy
  <1>3. CASE DiskWrite
    BY <1>3 DEF DiskWrite, Roomy
  <1>4. CASE \/ FormatDone \/ AllocCluster \/ AllocFails \/ WriteContents \/ ChooseShort
             \/ PlaceEntry \/ InsertFails
    BY <1>4 DEF FormatDone, AllocCluster, AllocFails, WriteContents, ChooseShort, PlaceEntry,
       InsertFails, Finish, Roomy
  <1>5. CASE FreeCluster \/ MarkEntry \/ Return
    BY <1>5 DEF FreeCluster, MarkEntry, Return, Finish, Roomy
  <1>6. CASE Call
    BY <1>6 DEF Call, CreateFile, CreateDir, DeleteFile, ChangeDir, Roomy, ram
  <1>7. CASE Boot \/ PowerCut
    BY <1>7 DEF Boot, PowerCut, Roomy
  <1>8. CASE UNCHANGED vars
    BY <1>8 DEF vars, ram, Roomy
  <1> QED
    BY <1>1, <1>2, <1>3, <1>4, <1>5, <1>6, <1>7, <1>8 DEF Next, Work

LEMMA GivingUp ==
    ASSUME TypeInv, DirShort, Roomy, [Next]_vars,
           pc \in {"alloc", "extend", "fail"}, pc' \in {"idle", "abort"}
    PROVE  \/ Used = Cluster
           \/ pc = "fail" /\ LfnCount(op.short, op.name) >= ENTRIES_PER_SECTOR
           \/ pc = "extend" /\ Len(dirc) = DIR_MAX_CLUSTERS
  <1>1. AllocFails \/ InsertFails
    <2>1. CASE Work
      BY <2>1 DEF Work, DiskWrite, FormatDone, AllocCluster, WriteContents, ChooseShort,
         SearchRun, PlaceEntry, ExtendDir, FreeCluster, MarkEntry, Return
    <2>2. CASE Call \/ Boot \/ PowerCut
      BY <2>2 DEF Call, CreateFile, CreateDir, DeleteFile, ChangeDir, Boot, PowerCut
    <2>3. CASE UNCHANGED vars
      BY <2>3 DEF vars, ram
    <2> QED
      BY <2>1, <2>2, <2>3 DEF Next
  <1>2. CASE FoundFree = 0
    BY <1>2, FullTable
  <1>3. CASE FoundFree # 0
    <2>1. InsertFails
      BY <1>1, <1>3 DEF AllocFails
    <2>2. pc = "fail" \/ (pc = "extend" /\ ~(Len(dirc) < DIR_MAX_CLUSTERS))
      BY <1>3, <2>1 DEF InsertFails
    <2>3. Len(dirc) \in Nat /\ DIR_MAX_CLUSTERS \in Nat
      BY State, DiskAssumption DEF DiskAssumption
    <2>4. pc = "extend" => Len(dirc) <= DIR_MAX_CLUSTERS
      BY DEF DirShort
    <2>5. pc = "fail" => LfnCount(op.short, op.name) >= ENTRIES_PER_SECTOR
      BY DEF Roomy
    <2> QED
      BY <2>2, <2>3, <2>4, <2>5
  <1> QED
    BY <1>2, <1>3

(* A creation gives up only when no cluster is free, in the whole FAT and    *)
(* wherever the hint stands, when the directory can take no more of them, or *)
(* when it took one more and an entry with its LFN slots does not even fit   *)
(* into an empty cluster.                                                    *)
THEOREM NoEarlyGivingUp == Spec => GivesUpOnlyWhenFull
  <1> DEFINE I == TypeInv /\ DirShort /\ Roomy
  <1>1. Init => I
    BY TypeInit, ShortInit, RoomyInit
  <1>2. I /\ [Next]_vars => I'
    BY TypeNext, ShortNext, RoomyNext
  <1>3. I /\ [Next]_vars
          => (pc \in {"alloc", "extend", "fail"} /\ pc' \in {"idle", "abort"}
                => \/ Used = Cluster
                   \/ pc = "fail" /\ LfnCount(op.short, op.name) >= ENTRIES_PER_SECTOR
                   \/ pc = "extend" /\ Len(dirc) = DIR_MAX_CLUSTERS)
    BY GivingUp
  <1> HIDE DEF I
  <1> QED
    BY <1>1, <1>2, <1>3, PTL DEF Spec, GivesUpOnlyWhenFull

-----------------------------------------------------------------------------
(* Complete files.                                                           *)

(* s is the chain of a file of n blocks that begins at c.                    *)
NextIn(s, k) == IF k < Len(s) THEN s[k + 1] ELSE EOC
Held(f, d, c, n, s) ==
    /\ s \in Seq(Cluster) /\ Len(s) = n
    /\ c = IF s = <<>> THEN 0 ELSE s[1]
    /\ \A k \in 1..Len(s) : f[s[k]] = NextIn(s, k) /\ d[s[k]].tag = "data"

(* An entry, if it is a file's, has the blocks it promises; so have all but  *)
(* those in X.                                                               *)
HasFile(f, d, x) == x.tag = "file" => \E s : Held(f, d, x.cluster, x.size, s)
FilesAt(f, d, X) == \A p \in Shown(d) \ X : HasFile(f, d, EntryOf(d, p))

(* A file stays out of a set of clusters that nothing outside leads to. *)
LEMMA HeldAvoids ==
    ASSUME NEW f, NEW d, NEW c, NEW n, NEW s, Held(f, d, c, n, s),
           NEW Z, c \notin Z, \A y \in Cluster : f[y] \in Z => y \in Z
    PROVE  \A k \in 1..Len(s) : s[k] \in Cluster \ Z
  <1>1. /\ s \in Seq(Cluster) /\ Len(s) \in Nat
        /\ \A k \in 1..Len(s) : s[k] \in Cluster /\ f[s[k]] = NextIn(s, k)
    BY LenProperties, ElementOfSeq DEF Held
  <1> DEFINE hits == {k \in 1..Len(s) : s[k] \in Z}
  <1>2. ASSUME hits # {}
        PROVE  FALSE
    <2>1. hits \subseteq Nat
      OBVIOUS
    <2> DEFINE k == Least(hits)
    <2>2. k \in hits /\ \A j \in hits : k <= j
      <3> HIDE DEF hits
      <3> QED
        BY <1>2, <2>1, LeastInSet
    <2>3. k \in 1..Len(s) /\ s[k] \in Z
      BY <2>2
    <2> HIDE DEF k
    <2>4. CASE k = 1
      <3>1. c = s[1]
        BY <1>1, <2>3, <2>4, EmptyLen DEF Held
      <3> QED
        BY <2>3, <2>4, <3>1
    <2>5. CASE k # 1
      <3>1. k - 1 \in 1..Len(s) /\ k - 1 < Len(s) /\ (k - 1) + 1 = k
        BY <1>1, <2>3, <2>5
      <3>2. f[s[k - 1]] = s[k]
        BY <1>1, <3>1 DEF NextIn
      <3>3. s[k - 1] \in Z
        BY <1>1, <2>3, <3>1, <3>2
      <3>4. k - 1 \in hits
        BY <3>1, <3>3
      <3> QED
        BY <2>2, <3>1, <3>4
    <2> QED
      BY <2>4, <2>5
  <1> QED
    BY <1>1, <1>2

LEMMA HeldKept ==
    ASSUME NEW f, NEW d, NEW c, NEW n, NEW s, Held(f, d, c, n, s),
           NEW Z, c \notin Z, \A y \in Cluster : f[y] \in Z => y \in Z,
           NEW f2, NEW d2,
           \A y \in Cluster \ Z : f2[y] = f[y] /\ d2[y].tag = d[y].tag
    PROVE  Held(f2, d2, c, n, s)
  <1>1. \A k \in 1..Len(s) : s[k] \in Cluster \ Z
    BY HeldAvoids
  <1> QED
    BY <1>1 DEF Held

(* What a step leaves alone: all of the FAT and of the data region but at   *)
(* the clusters Z; nothing outside leads there, and no file entry does.   *)
Untouched(f, d, X, Z, f2, d2) ==
    /\ \A y \in Cluster : f[y] \in Z => y \in Z
    /\ \A y \in Cluster \ Z : f2[y] = f[y] /\ d2[y] = d[y]
    /\ \A p \in Shown(d) \ X : EntryOf(d, p).tag = "file" => EntryOf(d, p).cluster \notin Z

(* It shows no more than before, but the entry x perhaps. *)
ShowsOnly(d, d2, x) ==
    \A p \in Shown(d2) :
       \/ p \in Shown(d) /\ EntryOf(d2, p) = EntryOf(d, p)
       \/ EntryOf(d2, p) = x

LEMMA FilesKept ==
    ASSUME NEW f, NEW d, NEW X, FilesAt(f, d, X), NEW Z, NEW f2, NEW d2,
           Untouched(f, d, X, Z, f2, d2), NEW x, ShowsOnly(d, d2, x), HasFile(f2, d2, x)
    PROVE  FilesAt(f2, d2, X)
  <1> SUFFICES ASSUME NEW p \in Shown(d2) \ X
               PROVE  HasFile(f2, d2, EntryOf(d2, p))
    BY DEF FilesAt
  <1>1. CASE EntryOf(d2, p) = x
    BY <1>1
  <1>2. CASE p \in Shown(d) /\ EntryOf(d2, p) = EntryOf(d, p)
    <2> SUFFICES ASSUME EntryOf(d, p).tag = "file"
                 PROVE  \E s : Held(f2, d2, EntryOf(d, p).cluster, EntryOf(d, p).size, s)
      BY <1>2 DEF HasFile
    <2>1. PICK s : Held(f, d, EntryOf(d, p).cluster, EntryOf(d, p).size, s)
      BY <1>2 DEF FilesAt, HasFile
    <2>2. EntryOf(d, p).cluster \notin Z
      BY <1>2 DEF Untouched
    <2>3. Held(f2, d2, EntryOf(d, p).cluster, EntryOf(d, p).size, s)
      BY <2>1, <2>2, HeldKept DEF Untouched
    <2> QED
      BY <2>3
  <1> QED
    BY <1>1, <1>2 DEF ShowsOnly

(* What a directory shows is no file to begin with. *)
NoFile == [tag |-> "end"]

LEMMA StoredShows ==
    ASSUME NEW d \in Region, NEW c \in Cluster, NEW v \in SectorData,
           NEW d2, Stored(d, c, v, d2), NEW p \in Shown(d2)
    PROVE  \/ p \in Shown(d) /\ EntryOf(d2, p) = EntryOf(d, p)
           \/ /\ p[1] = c /\ p[2] \in SlotNo /\ EntryOf(d2, p) = SlotsOf(v)[p[2]]
              /\ IsVisible(SlotsOf(v)[p[2]])
  <1>1. d2 \in Region /\ p \in Spot /\ IsVisible(EntryOf(d2, p)) /\ p[2] \in SlotNo
    BY DEF Shown, Stored, Region, Spot
  <1>2. EntryOf(d2, p) = IF p[1] = c THEN SlotsOf(v)[p[2]] ELSE EntryOf(d, p)
    BY <1>1, EntryWrite
  <1> QED
    BY <1>1, <1>2 DEF Shown

LEMMA ShowsNothingNew ==
    ASSUME NEW d \in Region, NEW c \in Cluster, NEW v \in SectorData,
           NEW d2, Stored(d, c, v, d2), \A e \in SlotNo : ~IsVisible(SlotsOf(v)[e]), NEW x
    PROVE  ShowsOnly(d, d2, x)
  BY StoredShows DEF ShowsOnly

(* What is on the disk of the file that is being created, and what is still  *)
(* to be written: the clusters are marked; each is linked and has its block, *)
(* or a write that does so has been issued; all of it is on the disk before  *)
(* the entry is.                                                             *)
MarkedInv ==
    pc = "alloc" =>
        \A k \in 1..Len(chain) : k < Len(chain) \/ ~MarkToCome => fat[chain[k]] = EOC
LinkToCome(k) ==
    \E j \in 1..Len(io) : io[j].to = "fat" /\ io[j].copy = 0 /\ io[j].cluster = chain[k]
BlockToCome(k) == \E j \in 1..Len(io) : io[j].to = "data" /\ io[j].cluster = chain[k]
BlockWrite(w) ==
    \E k \in 1..Len(chain) : w.cluster = chain[k] /\ w.value = DataSector(op.blocks[k])
BlocksInv ==
    pc = "name" /\ op.kind = "create" =>
        /\ Len(chain) = Len(op.blocks)
        /\ \A k \in 1..Len(chain) :
              /\ fat[chain[k]] = NextIn(chain, k) \/ LinkToCome(k)
              /\ data[chain[k]] = DataSector(op.blocks[k]) \/ BlockToCome(k)
        /\ \A j \in 1..Len(io) : io[j].to = "data" => BlockWrite(io[j])
Filled(d, s, b) == \A k \in 1..Len(s) : d[s[k]] = DataSector(b[k])
ReadyInv ==
    /\ op.kind = "create"
    /\ pc \in {"search", "extend", "retry", "place"} \/ (pc = "save" /\ EntryToCome)
    => Held(fat, data, FirstCluster, Len(op.blocks), chain) /\ Filled(data, chain, op.blocks)

(* As long as its first cluster is the next one to be freed, the file that   *)
(* is being deleted is complete.                                             *)
WholeVictim ==
    pc = "free" =>
        IF cur = At(img, op.slot).cluster
        THEN io = <<>> /\ FilesAt(fat, data, {})
        ELSE At(img, op.slot).cluster # 0

FilesInv == FilesAt(fat, data, Victim) /\ MarkedInv /\ BlocksInv /\ ReadyInv /\ WholeVictim

(* A sector write changes nothing where a file is. *)
FilesApart == \E Z : Untouched(fat, data, Victim, Z, fat', data')

(* A step in RAM. *)
LEMMA SameFiles ==
    ASSUME FilesAt(fat, data, Victim), UNCHANGED <<fat, data>>,
           \A p \in Shown(data) \cap Victim : p \in Victim'
    PROVE  FilesAt(fat, data, Victim)'
  <1>1. PICK X, Y : X = Victim /\ Y = Victim'
    OBVIOUS
  <1>2. FilesAt(fat, data, X) /\ \A p \in Shown(data) \cap X : p \in Y
    BY <1>1
  <1>3. FilesAt(fat, data, Y)
    BY <1>2 DEF FilesAt
  <1>4. FilesAt(fat', data', Y)
    BY <1>3
  <1> QED
    BY <1>1, <1>4

LEMMA NotDeleting ==
    ASSUME op.kind # "delete" \/ pc \notin {"free", "save"}
    PROVE  Victim = {}
  BY DEF Victim, Deleting

(* What a creation keeps while it works in RAM. *)
LEMMA CreateFiles ==
    ASSUME TypeInv, RestInv, Quiet, NEW L, ChainsAt(L), FilesInv, NEW name, NEW blocks,
           CreateFile(name, blocks) \/ CreateDir(name)
    PROVE  FilesInv'
  <1>1. /\ pc = "idle" /\ pc' \in {"alloc", "name"} /\ chain = <<>> /\ io = <<>>
        /\ pc' = "name" => op'.kind = "create" /\ op'.blocks = <<>>
        /\ UNCHANGED <<fat, data, chain, io>>
    BY DEF CreateFile, CreateDir, Start, Quiet, RestInv, disk
  <1>2. Victim = {}
    BY <1>1, NotDeleting
  <1>3. FilesAt(fat, data, Victim)'
    BY <1>1, <1>2, SameFiles DEF FilesInv
  <1>4. MarkedInv' /\ BlocksInv'
    <2>1. Len(chain') = 0 /\ Len(io') = 0
      BY <1>1
    <2> QED
      BY <1>1, <2>1 DEF MarkedInv, BlocksInv
  <1>5. ReadyInv' /\ WholeVictim'
    BY <1>1 DEF ReadyInv, WholeVictim
  <1> QED
    BY <1>3, <1>4, <1>5 DEF FilesInv

LEMMA AllocFiles ==
    ASSUME TypeInv, NEW L, ChainsAt(L), FilesInv, AllocCluster
    PROVE  FilesInv'
  <1> DEFINE n == Len(chain)
  <1>1. /\ pc = "alloc" /\ pc' = "alloc" /\ io = <<>>
        /\ chain' = Append(chain, FoundFree) /\ io' = WriteEntry(FoundFree, EOC)
        /\ UNCHANGED <<fat, data>>
    BY DEF AllocCluster, disk
  <1>2. Victim = {}
    BY <1>1, NotDeleting
  <1>3. FilesAt(fat, data, Victim)'
    BY <1>1, <1>2, SameFiles DEF FilesInv
  <1>4. MarkedInv'
    <2>1. MarkToCome' /\ ~MarkToCome
      <3>1. Len(io) = 0 /\ Len(io') = 2
        BY <1>1 DEF WriteEntry
      <3> QED
        BY <1>1, <3>1 DEF MarkToCome
    <2>2. /\ chain \in Seq(Cluster) /\ n \in Nat /\ Len(chain') = n + 1
          /\ \A k \in 1..n : chain'[k] = chain[k]
      BY <1>1, State
    <2>3. ASSUME NEW k \in 1..Len(chain'), k < Len(chain')
          PROVE  fat[chain'[k]] = EOC
      <3>1. k \in 1..n
        BY <2>2, <2>3
      <3> QED
        BY <1>1, <2>1, <2>2, <3>1 DEF FilesInv, MarkedInv
    <2> QED
      BY <1>1, <2>1, <2>3 DEF MarkedInv
  <1>5. BlocksInv' /\ ReadyInv' /\ WholeVictim'
    BY <1>1 DEF BlocksInv, ReadyInv, WholeVictim
  <1> QED
    BY <1>3, <1>4, <1>5 DEF FilesInv

LEMMA FailFiles ==
    ASSUME NEW L, ChainsAt(L), FilesInv, AllocFails \/ InsertFails
    PROVE  FilesInv'
  <1>1. /\ pc \in {"alloc", "extend", "fail"} /\ pc' \in {"idle", "abort"}
        /\ UNCHANGED <<fat, data>>
    BY DEF AllocFails, InsertFails, Finish, disk
  <1>2. Victim = {}
    BY <1>1, NotDeleting
  <1>3. FilesAt(fat, data, Victim)'
    BY <1>1, <1>2, SameFiles DEF FilesInv
  <1> QED
    BY <1>1, <1>3 DEF FilesInv, MarkedInv, BlocksInv, ReadyInv, WholeVictim

(* The writes of a new file link each cluster and fill each. *)
FillsAll(c, b, w) ==
    /\ \A k \in 1..Len(c) : k < Len(c) =>
          \E j \in 1..Len(w) : w[j].to = "fat" /\ w[j].copy = 0 /\ w[j].cluster = c[k]
    /\ \A k \in 1..Len(c) : \E j \in 1..Len(w) : w[j].to = "data" /\ w[j].cluster = c[k]
    /\ \A j \in 1..Len(w) : w[j].to = "data" =>
          \E k \in 1..Len(c) : w[j].cluster = c[k] /\ w[j].value = DataSector(b[k])

LEMMA ContentsPresent ==
    ASSUME NEW c \in Seq(Cluster), NEW blocks \in Seq(Block), Len(blocks) = Len(c)
    PROVE  FillsAll(c, blocks, LinkWrites(c) \o BlockWrites(c, blocks))
  <1> DEFINE a == LinkWrites(c)
             b == BlockWrites(c, blocks)
             n == Len(c)
             w == a \o b
  <1>1. a \in Seq(Write) /\ b \in Seq(Write) /\ n \in Nat
    BY LinkWritesType, BlockWritesType, LenProperties
  <1>2. /\ Len(a) \in Nat /\ Len(b) \in Nat /\ Len(w) = Len(a) + Len(b)
        /\ \A i \in 1..(Len(a) + Len(b)) : w[i] = IF i <= Len(a) THEN a[i] ELSE b[i - Len(a)]
    BY <1>1, ConcatProperties, LenProperties
  <1>3. ASSUME NEW k \in 1..n, k < n
        PROVE  \E j \in 1..Len(a) : a[j].to = "fat" /\ a[j].copy = 0 /\ a[j].cluster = c[k]
    <2> DEFINE m == 2 * (n - 1)
    <2>1. m \in Nat
      BY <1>1, <1>3
    <2>2. Len(a) = m
      <3>1. a = [x \in 1..m |-> a[x]]
        BY <1>1 DEF LinkWrites
      <3> HIDE DEF m, a
      <3> QED
        BY <2>1, <3>1, LenProperties
    <2>3. 2 * k - 1 \in 1..m /\ ((2 * k - 1) + 1) \div 2 = k /\ ((2 * k - 1) + 1) % 2 = 0
      BY <1>1, <1>3, SMT
    <2>4. a[2 * k - 1] = [to |-> "fat", copy |-> 0, cluster |-> c[k], value |-> c[k + 1]]
      BY <2>3 DEF LinkWrites
    <2>5. PICK j : j = 2 * k - 1
      OBVIOUS
    <2>6. j \in 1..Len(a) /\ a[j] = [to |-> "fat", copy |-> 0, cluster |-> c[k], value |-> c[k + 1]]
      BY <2>2, <2>3, <2>4, <2>5
    <2>7. j \in 1..Len(a) /\ a[j].to = "fat" /\ a[j].copy = 0 /\ a[j].cluster = c[k]
      BY <2>6
    <2> HIDE DEF a, m
    <2> QED
      BY <2>7
  <1>4. ASSUME NEW k \in 1..n
        PROVE  k \in 1..Len(b) /\ b[k].to = "data" /\ b[k].cluster = c[k]
    <2>1. b = [x \in 1..n |-> [to |-> "data", cluster |-> c[x], value |-> DataSector(blocks[x])]]
      BY DEF BlockWrites
    <2>2. Len(b) = n
      BY <1>1, <2>1, LenProperties
    <2> HIDE DEF b
    <2> QED
      BY <2>1, <2>2
  <1> HIDE DEF a, b, w
  <1>5. ASSUME NEW k \in 1..n, k < n
        PROVE  \E j \in 1..Len(w) : w[j].to = "fat" /\ w[j].copy = 0 /\ w[j].cluster = c[k]
    <2>1. PICK j \in 1..Len(a) : a[j].to = "fat" /\ a[j].copy = 0 /\ a[j].cluster = c[k]
      BY <1>3, <1>5
    <2>2. j \in 1..Len(w) /\ w[j] = a[j]
      BY <1>2
    <2> QED
      BY <2>1, <2>2
  <1>6. ASSUME NEW k \in 1..n
        PROVE  \E j \in 1..Len(w) : w[j].to = "data" /\ w[j].cluster = c[k]
    <2>1. k \in 1..Len(b) /\ b[k].to = "data" /\ b[k].cluster = c[k]
      BY <1>4
    <2>2. Len(a) + k \in 1..Len(w) /\ ~(Len(a) + k <= Len(a)) /\ (Len(a) + k) - Len(a) = k
      BY <1>2, <2>1
    <2>3. w[Len(a) + k] = b[k]
      BY <1>2, <2>2
    <2> QED
      BY <2>1, <2>2, <2>3
  <1>7. ASSUME NEW j \in 1..Len(w), w[j].to = "data"
        PROVE  \E k \in 1..n : w[j].cluster = c[k] /\ w[j].value = DataSector(blocks[k])
    <2>1. w[j].to = "fat" \/ \E k \in 1..n : w[j].cluster = c[k] /\ w[j].value = DataSector(blocks[k])
      BY ContentWrites DEF w, a, b
    <2> QED
      BY <1>7, <2>1
  <1> QED
    BY <1>5, <1>6, <1>7 DEF FillsAll, a, b, w

LEMMA ContentsFiles ==
    ASSUME TypeInv, NEW L, ChainsAt(L), FilesInv, WriteContents
    PROVE  FilesInv'
  <1>1. /\ pc = "alloc" /\ pc' = "name" /\ io = <<>> /\ Len(chain) = Needed
        /\ op.kind = "create" => io' = LinkWrites(chain) \o BlockWrites(chain, op.blocks)
        /\ UNCHANGED <<fat, data, op, chain>>
    BY DEF WriteContents, disk
  <1>2. Victim = {}
    BY <1>1, NotDeleting
  <1>3. FilesAt(fat, data, Victim)'
    BY <1>1, <1>2, SameFiles DEF FilesInv
  <1>4. BlocksInv'
    <2> SUFFICES ASSUME op.kind = "create"
                 PROVE  BlocksInv'
      BY <1>1 DEF BlocksInv
    <2>1. /\ chain \in Seq(Cluster) /\ op.blocks \in Seq(Block) /\ Len(chain) = Len(op.blocks)
          /\ Len(chain) \in Nat
      BY <1>1, State DEF Needed
    <2>2. PICK w : w = LinkWrites(chain) \o BlockWrites(chain, op.blocks)
      OBVIOUS
    <2>3. io' = w
      BY <1>1, <2>2
    <2>4. /\ \A k \in 1..Len(chain) : k < Len(chain) =>
               \E j \in 1..Len(w) : w[j].to = "fat" /\ w[j].copy = 0 /\ w[j].cluster = chain[k]
          /\ \A k \in 1..Len(chain) :
               \E j \in 1..Len(w) : w[j].to = "data" /\ w[j].cluster = chain[k]
          /\ \A j \in 1..Len(w) : w[j].to = "data" => BlockWrite(w[j])
      <3>1. FillsAll(chain, op.blocks, w)
        BY <2>1, <2>2, ContentsPresent
      <3> QED
        BY <3>1 DEF FillsAll, BlockWrite
    <2>6. ~MarkToCome
      <3>1. Len(io) = 0
        BY <1>1
      <3> QED
        BY <3>1 DEF MarkToCome
    <2>7. \A k \in 1..Len(chain) : fat[chain[k]] = EOC
      BY <1>1, <2>6 DEF FilesInv, MarkedInv
    <2>8. \A k \in 1..Len(chain) : fat'[chain'[k]] = NextIn(chain', k) \/ LinkToCome(k)'
      <3> TAKE k \in 1..Len(chain)
      <3>1. CASE k < Len(chain)
        BY <1>1, <2>3, <2>4, <3>1 DEF LinkToCome
      <3>2. CASE ~(k < Len(chain))
        BY <1>1, <2>7, <3>2 DEF NextIn
      <3> QED
        BY <3>1, <3>2
    <2>9. \A k \in 1..Len(chain) : BlockToCome(k)'
      BY <1>1, <2>3, <2>4 DEF BlockToCome
    <2> QED
      BY <1>1, <2>1, <2>3, <2>4, <2>8, <2>9 DEF BlocksInv, BlockWrite
  <1> QED
    BY <1>1, <1>3, <1>4 DEF FilesInv, MarkedInv, ReadyInv, WholeVictim

LEMMA ShortFiles ==
    ASSUME TypeInv, NEW L, ChainsAt(L), FilesInv, ChooseShort
    PROVE  FilesInv'
  <1>1. /\ pc = "name" /\ pc' = "search" /\ io = <<>>
        /\ op'.kind = op.kind /\ op'.blocks = op.blocks
        /\ UNCHANGED <<fat, data, chain>>
    BY DEF ChooseShort, disk, TypeInv, TypeOK
  <1>2. Victim = {}
    BY <1>1, NotDeleting
  <1>3. FilesAt(fat, data, Victim)'
    BY <1>1, <1>2, SameFiles DEF FilesInv
  <1>4. ReadyInv'
    <2> SUFFICES ASSUME op.kind = "create"
                 PROVE  Held(fat, data, FirstCluster, Len(op.blocks), chain)
                        /\ Filled(data, chain, op.blocks)
      BY <1>1 DEF ReadyInv, FirstCluster
    <2>1. Len(io) = 0
      BY <1>1
    <2>2. /\ Len(chain) = Len(op.blocks)
          /\ \A k \in 1..Len(chain) :
                fat[chain[k]] = NextIn(chain, k) /\ data[chain[k]] = DataSector(op.blocks[k])
      BY <1>1, <2>1 DEF FilesInv, BlocksInv, LinkToCome, BlockToCome
    <2>3. chain \in Seq(Cluster)
      BY State
    <2> QED
      BY <2>2, <2>3, DataSectorTag DEF Held, FirstCluster, Filled
  <1> QED
    BY <1>1, <1>3, <1>4 DEF FilesInv, MarkedInv, BlocksInv, WholeVictim

LEMMA SearchFiles ==
    ASSUME TypeInv, NEW L, ChainsAt(L), FilesInv, SearchRun
    PROVE  FilesInv'
  <1>1. /\ pc \in {"search", "retry"} /\ pc' \in {"place", "extend", "fail"}
        /\ op'.kind = op.kind /\ op'.blocks = op.blocks
        /\ UNCHANGED <<fat, data, chain>>
    BY DEF SearchRun, disk, TypeInv, TypeOK
  <1>2. Victim = {}
    BY <1>1, NotDeleting
  <1>3. FilesAt(fat, data, Victim)'
    BY <1>1, <1>2, SameFiles DEF FilesInv
  <1>4. ReadyInv'
    BY <1>1 DEF FilesInv, ReadyInv, FirstCluster
  <1> QED
    BY <1>1, <1>3, <1>4 DEF FilesInv, MarkedInv, BlocksInv, WholeVictim

LEMMA ExtendFiles ==
    ASSUME TypeInv, NEW L, ChainsAt(L), FilesInv, ExtendDir
    PROVE  FilesInv'
  <1>1. /\ pc = "extend" /\ pc' = "retry" /\ UNCHANGED <<fat, data, chain, op>>
    BY DEF ExtendDir, disk
  <1>2. Victim = {}
    BY <1>1, NotDeleting
  <1>3. FilesAt(fat, data, Victim)'
    BY <1>1, <1>2, SameFiles DEF FilesInv
  <1>4. ReadyInv'
    BY <1>1 DEF FilesInv, ReadyInv, FirstCluster
  <1> QED
    BY <1>1, <1>3, <1>4 DEF FilesInv, MarkedInv, BlocksInv, WholeVictim

LEMMA PlaceFiles ==
    ASSUME TypeInv, NEW L, ChainsAt(L), FilesInv, PlaceEntry
    PROVE  FilesInv'
  <1>1. /\ pc = "place" /\ pc' = "save"
        /\ op'.kind = op.kind /\ op'.blocks = op.blocks
        /\ UNCHANGED <<fat, data, chain>>
    BY DEF PlaceEntry, disk, TypeInv, TypeOK
  <1>2. Victim = {}
    BY <1>1, NotDeleting
  <1>3. FilesAt(fat, data, Victim)'
    BY <1>1, <1>2, SameFiles DEF FilesInv
  <1>4. ReadyInv'
    BY <1>1 DEF FilesInv, ReadyInv, FirstCluster
  <1> QED
    BY <1>1, <1>3, <1>4 DEF FilesInv, MarkedInv, BlocksInv, WholeVictim

LEMMA ChangeFiles ==
    ASSUME TypeInv, FilesInv, (\E d : ChangeDir(d)) \/ Boot
    PROVE  FilesInv'
  <1>1. /\ pc \in {"idle", "off"} /\ pc' \in {"idle", "format"} /\ UNCHANGED <<fat, data>>
    BY DEF ChangeDir, Boot, disk, ram
  <1>2. Victim = {}
    BY <1>1, NotDeleting
  <1>3. FilesAt(fat, data, Victim)'
    BY <1>1, <1>2, SameFiles DEF FilesInv
  <1> QED
    BY <1>1, <1>3 DEF FilesInv, MarkedInv, BlocksInv, ReadyInv, WholeVictim

(* The deletion. *)
LEMMA DeleteFiles ==
    ASSUME TypeInv, Quiet, NEW L, ChainsAt(L), FilesInv, NEW name, DeleteFile(name)
    PROVE  FilesInv'
  <1>1. /\ pc = "idle" /\ pc' = "free" /\ io = <<>> /\ io' = <<>>
        /\ op'.kind = "delete" /\ op'.slot = Find(Load(cwd), name) /\ img' = Load(cwd)
        /\ cur' = At(Load(cwd), Find(Load(cwd), name)).cluster
        /\ UNCHANGED <<fat, data>>
    BY DEF DeleteFile, Start, Quiet, disk
  <1>2. Victim = {}
    BY <1>1, NotDeleting
  <1>3. FilesAt(fat, data, Victim)'
    BY <1>1, <1>2, SameFiles DEF FilesInv
  <1>4. WholeVictim'
    BY <1>1, <1>2 DEF WholeVictim, FilesInv
  <1> QED
    BY <1>1, <1>3, <1>4 DEF FilesInv, MarkedInv, BlocksInv, ReadyInv

LEMMA FreeFiles ==
    ASSUME TypeInv, NEW L, ChainsAt(L), FilesInv, FreeCluster
    PROVE  FilesInv'
  <1>1. /\ pc \in {"free", "abort"} /\ io = <<>> /\ cur # 0
        /\ cur' = IF InRange(fat[cur]) THEN fat[cur] ELSE 0
        /\ UNCHANGED <<fat, data, pc, op, img, dirc, chain>>
    BY DEF FreeCluster, NextToFree, disk
  <1>2. Victim' = Victim
    BY <1>1 DEF Victim, Deleting
  <1>3. FilesAt(fat, data, Victim)'
    BY <1>1, <1>2, SameFiles DEF FilesInv
  <1>4. WholeVictim'
    <2> SUFFICES ASSUME pc = "free"
                 PROVE  WholeVictim'
      BY <1>1 DEF WholeVictim
    <2> DEFINE h == At(img, op.slot).cluster
    <2>1. h # 0
      BY <1>1 DEF FilesInv, WholeVictim
    <2>2. Begins(data, h)
      <3>1. /\ img \in Seq(Sector) /\ dirc \in Seq(Cluster) /\ Len(img) = Len(dirc)
            /\ data \in Region
        BY State
      <3>2. op.slot \in 1..Capacity(img) /\ At(img, op.slot).tag = "file"
        BY DEF ChainsAt, FreeInv
      <3>3. \A k \in 1..Len(dirc) : img[k] = SlotsOf(data[dirc[k]])
        BY DEF ChainsAt, LoadInv, Extending
      <3>4. PICK k \in 1..Len(dirc), e \in SlotNo :
               /\ <<dirc[k], e>> \in Spot
               /\ EntryOf(data, <<dirc[k], e>>) = At(img, op.slot)
        BY <3>1, <3>2, <3>3, ImagePlace
      <3>5. <<dirc[k], e>> \in Shown(data)
        BY <3>2, <3>4 DEF Shown, IsVisible
      <3> QED
        BY <3>4, <3>5 DEF Begins
    <2>3. cur \in Cluster
      BY <1>1, State
    <2>4. Disjoint(fat, data)
      BY DEF ChainsAt, DiskInv, DiskAt
    <2>5. cur' # h
      BY <1>1, <2>1, <2>2, <2>3, <2>4 DEF Disjoint, InRange
    <2> QED
      BY <1>1, <2>1, <2>5 DEF WholeVictim
  <1> QED
    BY <1>1, <1>3, <1>4 DEF FilesInv, MarkedInv, BlocksInv, ReadyInv

LEMMA MarkFiles ==
    ASSUME TypeInv, NEW L, ChainsAt(L), FilesInv, MarkEntry
    PROVE  FilesInv'
  <1>1. /\ pc = "free" /\ pc' = "save" /\ UNCHANGED <<fat, data, op, dirc>>
    BY DEF MarkEntry, disk
  <1>2. op.kind = "delete"
    BY <1>1 DEF ChainsAt, FreeInv
  <1>3. Victim' = Victim
    BY <1>1, <1>2 DEF Victim, Deleting
  <1>4. FilesAt(fat, data, Victim)'
    BY <1>1, <1>3, SameFiles DEF FilesInv
  <1> QED
    BY <1>1, <1>2, <1>4 DEF FilesInv, MarkedInv, BlocksInv, ReadyInv, WholeVictim

LEMMA ReturnFiles ==
    ASSUME TypeInv, NEW L, ChainsAt(L), FilesInv, Return
    PROVE  FilesInv'
  <1>1. /\ io = <<>> /\ pc \in {"save", "abort"} /\ pc' = "idle" /\ UNCHANGED <<fat, data>>
    BY DEF Return, Finish, disk
  <1>2. \A p \in Shown(data) : p \notin Victim
    BY <1>1, VictimOnDisk
  <1>3. FilesAt(fat, data, Victim)'
    BY <1>1, <1>2, SameFiles DEF FilesInv
  <1> QED
    BY <1>1, <1>3 DEF FilesInv, MarkedInv, BlocksInv, ReadyInv, WholeVictim

LEMMA CutFiles ==
    ASSUME TypeInv, NEW L, ChainsAt(L), FilesInv, ~DeleteHalfDone, PowerCut
    PROVE  FilesInv'
  <1>1. pc' = "off" /\ UNCHANGED <<fat, data>>
    BY DEF PowerCut, disk
  <1>2. Victim' = {}
    BY <1>1 DEF Victim, Deleting
  <1>3. FilesAt(fat, data, {})
    <2>1. CASE pc = "free"
      <3>1. op.kind = "delete"
        BY <2>1 DEF ChainsAt, FreeInv
      <3>2. cur = At(img, op.slot).cluster
        BY <2>1, <3>1 DEF DeleteHalfDone
      <3> QED
        BY <2>1, <3>2 DEF FilesInv, WholeVictim
    <2>2. CASE pc # "free"
      <3>1. ASSUME NEW p \in Shown(data), p \in Victim
            PROVE  FALSE
        <4>1. pc = "save" /\ op.kind = "delete" /\ ~EntryWritten(op.slot)
          BY <2>2, <3>1, VictimOnDisk
        <4> QED
          BY <4>1 DEF DeleteHalfDone
      <3> QED
        BY <3>1 DEF FilesInv, FilesAt
    <2> QED
      BY <2>1, <2>2
  <1>4. FilesAt(fat, data, Victim)'
    <2>1. FilesAt(fat', data', {})
      BY <1>1, <1>3
    <2> QED
      BY <1>2, <2>1
  <1> QED
    BY <1>1, <1>4 DEF FilesInv, MarkedInv, BlocksInv, ReadyInv, WholeVictim

(* The disk as formatted shows no entries. *)
LEMMA FormatDoneFiles ==
    ASSUME TypeInv, FormatInv, pc = "format", boot = "fat32", io = <<>>, FormatDone \/ PowerCut
    PROVE  FilesInv'
  <1>1. pc' \in {"idle", "off"} /\ data' = data
    BY DEF FormatDone, PowerCut, disk
  <1>2. Shown(data') = {}
    <2>1. Shown(data) = {}
      BY FormattedDisk
    <2>2. PICK d : d = data
      OBVIOUS
    <2> QED
      BY <1>1, <2>1, <2>2
  <1>3. FilesAt(fat, data, Victim)'
    <2>1. FilesAt(fat', data', Victim')
      BY <1>2 DEF FilesAt
    <2> QED
      BY <2>1
  <1> QED
    BY <1>1, <1>3 DEF FilesInv, MarkedInv, BlocksInv, ReadyInv, WholeVictim

(* The sector writes. *)
LEMMA WriteFiles ==
    ASSUME TypeInv, DiskWrite, FilesAt(fat, data, Victim),
           NEW Z, Untouched(fat, data, Victim, Z, fat', data'),
           NEW x, ShowsOnly(data, data', x), HasFile(fat', data', x)
    PROVE  FilesAt(fat, data, Victim)' /\ FilesApart
  <1>1. PICK f, d, X, g, e : f = fat /\ d = data /\ X = Victim /\ g = fat' /\ e = data'
    OBVIOUS
  <1>2. /\ FilesAt(f, d, X) /\ Untouched(f, d, X, Z, g, e) /\ ShowsOnly(d, e, x)
        /\ HasFile(g, e, x)
    BY <1>1
  <1>3. FilesAt(g, e, X)
    BY <1>2, FilesKept
  <1>4. Victim' = Victim
    BY WriteStep
  <1> QED
    BY <1>1, <1>3, <1>4 DEF FilesApart

(* A write of the FAT shows nothing new. *)
LEMMA TableFiles ==
    ASSUME TypeInv, DiskWrite, FilesAt(fat, data, Victim), data' = data,
           NEW Z, Untouched(fat, data, Victim, Z, fat', data)
    PROVE  FilesAt(fat, data, Victim)' /\ FilesApart
  <1>1. Untouched(fat, data, Victim, Z, fat', data')
    <2>1. PICK e : e = data'
      OBVIOUS
    <2> QED
      BY <2>1
  <1>2. ShowsOnly(data, data', NoFile)
    <2>1. PICK d : d = data
      OBVIOUS
    <2>2. ShowsOnly(d, d, NoFile)
      BY DEF ShowsOnly
    <2> QED
      BY <2>1, <2>2
  <1>3. HasFile(fat', data', NoFile)
    BY DEF HasFile, NoFile
  <1> QED
    BY <1>1, <1>2, <1>3, WriteFiles

LEMMA OwnedApart ==
    ASSUME NEW L, NEW f, NEW d, NEW s, Len(s) \in Nat, NEW marked, Owned(L, f, d, s, marked),
           NEW X, NEW g, NEW e, NEW Z, Z = {s[k] : k \in 1..Len(s)},
           \A y \in Cluster \ Z : g[y] = f[y] /\ e[y] = d[y]
    PROVE  Untouched(f, d, X, Z, g, e)
  <1>1. ASSUME NEW y \in Cluster, f[y] \in Z
        PROVE  y \in Z
    <2>1. PICK k \in 1..Len(s) : f[y] = s[k]
      BY <1>1
    <2>2. k > 1 /\ y = s[k - 1]
      BY <2>1 DEF Owned
    <2>3. k - 1 \in 1..Len(s)
      BY <2>2
    <2> QED
      BY <2>2, <2>3
  <1>2. ASSUME NEW p \in Shown(d) \ X
        PROVE  EntryOf(d, p).cluster \notin Z
    BY DEF Owned, Begins
  <1> QED
    BY <1>1, <1>2 DEF Untouched

LEMMA DirsApart ==
    ASSUME NEW L, NEW f, NEW d, TwoWorlds(L, f, d), NEW X, NEW g, NEW e,
           \A y \in Cluster \ L : g[y] = f[y] /\ e[y] = d[y]
    PROVE  Untouched(f, d, X, L, g, e)
  BY DEF TwoWorlds, Untouched

LEMMA ClusterApart ==
    ASSUME NEW f, NEW d, NEW X, NEW c, \A y \in Cluster : f[y] # c,
           \A p \in Shown(d) \ X : EntryOf(d, p).cluster # c, NEW g, NEW e,
           \A y \in Cluster \ {c} : g[y] = f[y] /\ e[y] = d[y]
    PROVE  Untouched(f, d, X, {c}, g, e)
  BY DEF Untouched

LEMMA AllocWriteFiles ==
    ASSUME TypeInv, NEW L, ChainsAt(L), FilesInv, DiskWrite, pc = "alloc"
    PROVE  FilesInv' /\ FilesApart
  <1> DEFINE n == Len(chain)
  <1>1. /\ io # <<>> /\ io' = Tail(io) /\ Head(io) = io[1] /\ io[1] \in Write
        /\ UNCHANGED <<pc, op, img, dirc, chain, cur>>
    BY WriteStep
  <1>2. chain # <<>>
    BY <1>1 DEF ChainsAt, ClaimInv, Marking
  <1>3. n \in Nat /\ n >= 1 /\ chain[n] \in Cluster
    BY <1>2, State
  <1>4. PICK c \in Cluster : c = chain[n]
    BY <1>3
  <1>5. io = WriteEntry(c, EOC) \/ io = Tail(WriteEntry(c, EOC))
    BY <1>1, <1>4 DEF ChainsAt, ClaimInv, Marking
  <1>6. fat \in Table32
    BY State
  <1>7. /\ data' = data /\ Len(io') # 2
        /\ fat' = [fat EXCEPT ![c] = EOC] \/ (fat' = fat /\ ~MarkToCome)
    <2>1. CASE io = WriteEntry(c, EOC)
      <3>1. io[1] = [to |-> "fat", copy |-> 0, cluster |-> c, value |-> EOC] /\ Len(io') = 1
        BY <1>1, <2>1, EntryWrites
      <3> QED
        BY <2>1, <3>1, SectorStep
    <2>2. CASE io = Tail(WriteEntry(c, EOC))
      <3>1. io[1] = [to |-> "fat", copy |-> 1, cluster |-> c, value |-> EOC] /\ Len(io) = 1
        BY <1>1, <2>2, EntryWrites
      <3>2. Len(io') = 0
        BY <3>1, WriteStep
      <3> QED
        BY <3>1, <3>2, SectorStep DEF MarkToCome
    <2> QED
      BY <1>5, <2>1, <2>2
  <1>8. \A y \in Cluster : y # c => fat'[y] = fat[y]
    BY <1>6, <1>7 DEF Table32
  <1>9. FilesAt(fat, data, Victim)' /\ FilesApart
    <2>1. PICK Z : Z = {chain[k] : k \in 1..Len(chain)}
      OBVIOUS
    <2>2. c \in Z
      BY <1>3, <1>4, <2>1
    <2>3. \A y \in Cluster \ Z : fat'[y] = fat[y] /\ data[y] = data[y]
      BY <1>8, <2>2
    <2>4. Owned(L, fat, data, chain, ~MarkToCome)
      BY DEF ChainsAt, ClaimInv, Claiming, Inserting
    <2>5. Untouched(fat, data, Victim, Z, fat', data)
      BY <1>3, <2>1, <2>3, <2>4, OwnedApart
    <2> QED
      BY <1>7, <2>5, TableFiles DEF FilesInv
  <1>10. MarkedInv'
    <2>1. ~MarkToCome'
      BY <1>7 DEF MarkToCome
    <2>2. ASSUME NEW k \in 1..n
          PROVE  fat'[chain[k]] = EOC
      <3>1. chain[k] \in Cluster
        BY State
      <3>2. CASE fat' = fat /\ ~MarkToCome
        BY <3>2 DEF FilesInv, MarkedInv
      <3>3. CASE fat' = [fat EXCEPT ![c] = EOC]
        <4>1. k < n \/ k = n
          BY <1>3
        <4>2. k < n => fat[chain[k]] = EOC
          BY DEF FilesInv, MarkedInv
        <4> QED
          BY <1>4, <1>6, <3>1, <3>3, <4>1, <4>2 DEF Table32
      <3> QED
        BY <1>7, <3>2, <3>3
    <2> QED
      BY <1>1, <2>2 DEF MarkedInv
  <1> QED
    BY <1>1, <1>9, <1>10 DEF FilesInv, BlocksInv, ReadyInv, WholeVictim

LEMMA ChainWriteFiles ==
    ASSUME TypeInv, NEW L, ChainsAt(L), FilesInv, DiskWrite, pc \in {"free", "abort"}
    PROVE  FilesInv' /\ FilesApart
  <1>1. /\ io # <<>> /\ io' = Tail(io) /\ Head(io) = io[1]
        /\ UNCHANGED <<pc, op, img, dirc, chain, cur>>
    BY WriteStep
  <1>2. fat \in Table32
    BY State
  <1>3. FilesAt(fat, data, Victim)' /\ FilesApart
    <2>1. CASE \E c \in Cluster : io = Tail(WriteEntry(c, 0))
      <3>1. PICK c \in Cluster : io = Tail(WriteEntry(c, 0))
        BY <2>1
      <3>2. io[1] = [to |-> "fat", copy |-> 1, cluster |-> c, value |-> 0]
        BY <1>1, <3>1, EntryWrites
      <3>3. fat' = fat /\ data' = data
        BY <3>2, SectorStep
      <3>4. Untouched(fat, data, Victim, {}, fat', data)
        BY <3>3 DEF Untouched
      <3> QED
        BY <3>3, <3>4, TableFiles DEF FilesInv
    <2>2. CASE ~(\E c \in Cluster : io = Tail(WriteEntry(c, 0)))
      <3>1. PICK c \in Cluster : io = WriteEntry(c, 0) /\ Freeable(L, fat, data, Victim, c)
        BY <1>1, <2>2 DEF ChainsAt, FreeInv
      <3>2. io[1] = [to |-> "fat", copy |-> 0, cluster |-> c, value |-> 0]
        BY <1>1, <3>1, EntryWrites
      <3>3. fat' = [fat EXCEPT ![c] = 0] /\ data' = data
        BY <3>2, SectorStep
      <3>4. \A y \in Cluster \ {c} : fat'[y] = fat[y]
        BY <1>2, <3>3 DEF Table32
      <3>5. Untouched(fat, data, Victim, {c}, fat', data)
        BY <3>1, <3>4, ClusterApart DEF Freeable
      <3> QED
        BY <3>3, <3>5, TableFiles DEF FilesInv
    <2> QED
      BY <2>1, <2>2
  <1>4. WholeVictim'
    BY <1>1 DEF FilesInv, WholeVictim
  <1> QED
    BY <1>1, <1>3, <1>4 DEF FilesInv, MarkedInv, BlocksInv, ReadyInv

(* A block of a file or the first sector of a directory is no entry. *)
LEMMA ContentsShowNothing ==
    ASSUME NEW v, v = FirstSector \/ v.tag = "data", NEW e \in SlotNo
    PROVE  ~IsVisible(SlotsOf(v)[e])
  <1>1. CASE v = FirstSector
    <2>1. SlotsOf(v)[e] \in {Dot(chain[1]), DotDot(cwd), End}
      BY <1>1 DEF FirstSector, DirSector, SlotsOf, NewDirSector, SlotNo
    <2> QED
      BY <2>1 DEF Dot, DotDot, End, IsVisible
  <1>2. CASE v.tag = "data"
    BY <1>2 DEF SlotsOf, ZeroSector, SlotNo, End, IsVisible
  <1> QED
    BY <1>1, <1>2

(* One of the writes of a new file: what it does, and what is left to do. *)
LEMMA LinkProgress ==
    ASSUME TypeInv, DiskWrite, NEW L, Owned(L, fat, data, chain, TRUE),
           NEW w, w = io[1], LinkWrite(w) \/ ContentWrite(w),
           NEW k \in 1..Len(chain), fat[chain[k]] = NextIn(chain, k) \/ LinkToCome(k)
    PROVE  fat'[chain[k]] = NextIn(chain, k) \/ LinkToCome(k)'
  <1>1. /\ Len(io) \in Nat \ {0} /\ Len(io') = Len(io) - 1
        /\ \A j \in 1..Len(io') : j + 1 \in 1..Len(io) /\ io'[j] = io[j + 1]
        /\ chain' = chain /\ w \in Write
    BY WriteStep
  <1>2. fat \in Table32 /\ chain[k] \in Cluster /\ Len(chain) \in Nat
    BY State
  <1>3. CASE w.to = "fat" /\ w.copy = 0 /\ w.cluster = chain[k]
    <2>1. LinkWrite(w)
      BY <1>3 DEF ContentWrite
    <2>2. PICK m \in 1..(Len(chain) - 1) : w.cluster = chain[m] /\ w.value = chain[m + 1]
      BY <2>1 DEF LinkWrite
    <2>3. m \in 1..Len(chain) /\ m < Len(chain)
      BY <1>2
    <2>4. m = k
      BY <1>3, <2>2, <2>3 DEF Owned
    <2>5. w.value = NextIn(chain, k)
      BY <2>2, <2>3, <2>4 DEF NextIn
    <2>6. fat' = [fat EXCEPT ![chain[k]] = w.value]
      BY <1>3, SectorStep
    <2> QED
      BY <1>2, <2>5, <2>6 DEF Table32
  <1>4. CASE ~(w.to = "fat" /\ w.copy = 0 /\ w.cluster = chain[k])
    <2>1. fat'[chain[k]] = fat[chain[k]]
      <3>1. CASE w.to = "fat" /\ w.copy = 0
        <4>1. w.cluster # chain[k] /\ fat' = [fat EXCEPT ![w.cluster] = w.value]
          BY <1>4, <3>1, SectorStep
        <4> QED
          BY <1>2, <4>1 DEF Table32
      <3>2. CASE w.to = "fat" /\ w.copy # 0
        BY <3>2, SectorStep
      <3>3. CASE w.to = "data"
        BY <3>3, SectorStep
      <3> QED
        BY <3>1, <3>2, <3>3 DEF LinkWrite, ContentWrite
    <2>2. ASSUME LinkToCome(k)
          PROVE  LinkToCome(k)'
      <3>1. PICK j \in 1..Len(io) : io[j].to = "fat" /\ io[j].copy = 0 /\ io[j].cluster = chain[k]
        BY <2>2 DEF LinkToCome
      <3>2. j # 1
        BY <1>4, <3>1
      <3>3. j - 1 \in 1..Len(io') /\ (j - 1) + 1 = j
        BY <1>1, <3>2
      <3>4. io'[j - 1] = io[j]
        BY <1>1, <3>3
      <3> QED
        BY <1>1, <3>1, <3>3, <3>4 DEF LinkToCome
    <2> QED
      BY <2>1, <2>2
  <1> QED
    BY <1>3, <1>4

LEMMA BlockProgress ==
    ASSUME TypeInv, DiskWrite, NEW L, Owned(L, fat, data, chain, TRUE),
           NEW w, w = io[1], w.to = "data" => BlockWrite(w), LinkWrite(w) \/ ContentWrite(w),
           NEW k \in 1..Len(chain), data[chain[k]] = DataSector(op.blocks[k]) \/ BlockToCome(k)
    PROVE  data'[chain[k]] = DataSector(op.blocks[k]) \/ BlockToCome(k)'
  <1>1. /\ Len(io) \in Nat \ {0} /\ Len(io') = Len(io) - 1
        /\ \A j \in 1..Len(io') : j + 1 \in 1..Len(io) /\ io'[j] = io[j + 1]
        /\ chain' = chain
    BY WriteStep
  <1>2. data \in Region /\ chain[k] \in Cluster
    BY State
  <1>3. CASE w.to = "data" /\ w.cluster = chain[k]
    <2>1. data' = [data EXCEPT ![chain[k]] = w.value]
      BY <1>3, SectorStep
    <2>2. data'[chain[k]] = w.value
      BY <1>2, <2>1 DEF Region
    <2>3. PICK m \in 1..Len(chain) : w.cluster = chain[m] /\ w.value = DataSector(op.blocks[m])
      BY <1>3 DEF BlockWrite
    <2>4. m = k
      BY <1>3, <2>3 DEF Owned
    <2> QED
      BY <2>2, <2>3, <2>4
  <1>4. CASE ~(w.to = "data" /\ w.cluster = chain[k])
    <2>1. data'[chain[k]] = data[chain[k]]
      <3>1. CASE w.to = "data"
        <4>1. w.cluster # chain[k] /\ data' = [data EXCEPT ![w.cluster] = w.value]
          BY <1>4, <3>1, SectorStep
        <4> QED
          BY <1>2, <4>1 DEF Region
      <3>2. CASE w.to = "fat"
        BY <3>2, SectorStep
      <3> QED
        BY <3>1, <3>2 DEF LinkWrite, ContentWrite
    <2>2. ASSUME BlockToCome(k)
          PROVE  BlockToCome(k)'
      <3>1. PICK j \in 1..Len(io) : io[j].to = "data" /\ io[j].cluster = chain[k]
        BY <2>2 DEF BlockToCome
      <3>2. j # 1
        BY <1>4, <3>1
      <3>3. j - 1 \in 1..Len(io') /\ (j - 1) + 1 = j
        BY <1>1, <3>2
      <3>4. io'[j - 1] = io[j]
        BY <1>1, <3>3
      <3> QED
        BY <1>1, <3>1, <3>3, <3>4 DEF BlockToCome
    <2> QED
      BY <2>1, <2>2
  <1> QED
    BY <1>3, <1>4

LEMMA NameWriteFiles ==
    ASSUME TypeInv, NEW L, ChainsAt(L), FilesInv, DiskWrite, pc = "name"
    PROVE  FilesInv' /\ FilesApart
  <1>1. /\ io # <<>> /\ io[1] \in Write
        /\ Len(io) \in Nat \ {0} /\ Len(io') = Len(io) - 1
        /\ \A j \in 1..Len(io') : j + 1 \in 1..Len(io) /\ io'[j] = io[j + 1]
        /\ UNCHANGED <<pc, op, img, dirc, chain, cur, cwd>>
    BY WriteStep
  <1>2. PICK w \in Write : w = io[1]
    BY <1>1
  <1>3. 1 \in 1..Len(io)
    BY <1>1
  <1>4. LinkWrite(w) \/ ContentWrite(w)
    BY <1>2, <1>3 DEF ChainsAt, ClaimInv
  <1>5. Owned(L, fat, data, chain, TRUE)
    <2>1. ~MarkToCome
      BY DEF MarkToCome
    <2> QED
      BY <2>1 DEF ChainsAt, ClaimInv, Claiming, Inserting
  <1>6. fat \in Table32 /\ data \in Region /\ Len(chain) \in Nat
    BY State
  <1>7. FilesAt(fat, data, Victim)
    BY DEF FilesInv
  <1>8. PICK Z : Z = {chain[k] : k \in 1..Len(chain)}
    OBVIOUS
  <1>9. FilesAt(fat, data, Victim)' /\ FilesApart
    <2>1. CASE LinkWrite(w)
      <3>1. PICK k \in 1..(Len(chain) - 1) :
               w.to = "fat" /\ w.cluster = chain[k] /\ w.value = chain[k + 1]
        BY <2>1 DEF LinkWrite
      <3>2. w.cluster \in Z
        BY <1>6, <1>8, <3>1
      <3>3. data' = data /\ (fat' = fat \/ fat' = [fat EXCEPT ![w.cluster] = w.value])
        BY <1>2, <3>1, SectorStep
      <3>4. \A y \in Cluster \ Z : fat'[y] = fat[y]
        BY <1>6, <3>2, <3>3 DEF Table32
      <3>5. Untouched(fat, data, Victim, Z, fat', data)
        BY <1>5, <1>6, <1>8, <3>4, OwnedApart
      <3> QED
        BY <1>7, <3>3, <3>5, TableFiles
    <2>2. CASE ContentWrite(w)
      <3>1. w.to = "data" /\ w.cluster \in Z
        BY <1>8, <2>2 DEF ContentWrite
      <3>2. w.value = FirstSector \/ w.value.tag = "data"
        BY <2>2 DEF ContentWrite
      <3>3. /\ w.cluster \in Cluster /\ w.value \in SectorData
            /\ data' = [data EXCEPT ![w.cluster] = w.value] /\ fat' = fat
        BY <1>2, <3>1, SectorStep
      <3>4. PICK e : e = data'
        OBVIOUS
      <3>5. ShowsOnly(data, data', NoFile)
        <4>1. PICK d \in Region, c \in Cluster, v \in SectorData :
                 d = data /\ c = w.cluster /\ v = w.value
          BY <1>6, <3>3
        <4>2. Stored(d, c, v, e)
          BY <3>3, <3>4, <4>1 DEF Stored
        <4>3. \A s \in SlotNo : ~IsVisible(SlotsOf(v)[s])
          BY <3>2, <4>1, ContentsShowNothing
        <4>4. ShowsOnly(d, e, NoFile)
          BY <4>2, <4>3, ShowsNothingNew
        <4> QED
          BY <3>4, <4>1, <4>4
      <3>6. \A y \in Cluster \ Z : fat[y] = fat[y] /\ e[y] = data[y]
        BY <1>6, <3>1, <3>3, <3>4 DEF Region
      <3>7. Untouched(fat, data, Victim, Z, fat, e)
        BY <1>5, <1>6, <1>8, <3>6, OwnedApart
      <3>8. Untouched(fat, data, Victim, Z, fat', data')
        BY <3>3, <3>4, <3>7
      <3>9. HasFile(fat', data', NoFile)
        BY DEF HasFile, NoFile
      <3> QED
        BY <1>7, <3>5, <3>8, <3>9, WriteFiles
    <2> QED
      BY <1>4, <2>1, <2>2
  <1>10. BlocksInv'
    <2> SUFFICES ASSUME op.kind = "create"
                 PROVE  /\ Len(chain) = Len(op.blocks)
                        /\ \A k \in 1..Len(chain) :
                              /\ fat'[chain[k]] = NextIn(chain, k) \/ LinkToCome(k)'
                              /\ data'[chain[k]] = DataSector(op.blocks[k]) \/ BlockToCome(k)'
                        /\ \A j \in 1..Len(io') : io'[j].to = "data" => BlockWrite(io'[j])
      BY <1>1 DEF BlocksInv, BlockWrite
    <2>1. /\ Len(chain) = Len(op.blocks)
          /\ \A k \in 1..Len(chain) :
                /\ fat[chain[k]] = NextIn(chain, k) \/ LinkToCome(k)
                /\ data[chain[k]] = DataSector(op.blocks[k]) \/ BlockToCome(k)
          /\ \A j \in 1..Len(io) : io[j].to = "data" => BlockWrite(io[j])
      BY DEF FilesInv, BlocksInv
    <2>2. ASSUME NEW k \in 1..Len(chain)
          PROVE  /\ fat'[chain[k]] = NextIn(chain, k) \/ LinkToCome(k)'
                 /\ data'[chain[k]] = DataSector(op.blocks[k]) \/ BlockToCome(k)'
      <3>1. fat[chain[k]] = NextIn(chain, k) \/ LinkToCome(k)
        BY <2>1
      <3>2. data[chain[k]] = DataSector(op.blocks[k]) \/ BlockToCome(k)
        BY <2>1
      <3>3. w.to = "data" => BlockWrite(w)
        BY <1>2, <1>3, <2>1
      <3>4. fat'[chain[k]] = NextIn(chain, k) \/ LinkToCome(k)'
        BY <1>2, <1>4, <1>5, <3>1, LinkProgress
      <3>5. data'[chain[k]] = DataSector(op.blocks[k]) \/ BlockToCome(k)'
        BY <1>2, <1>4, <1>5, <3>2, <3>3, BlockProgress
      <3> QED
        BY <3>4, <3>5
    <2>3. ASSUME NEW j \in 1..Len(io'), io'[j].to = "data"
          PROVE  BlockWrite(io'[j])
      BY <1>1, <2>1, <2>3
    <2> QED
      BY <2>1, <2>2, <2>3
  <1> QED
    BY <1>1, <1>9, <1>10 DEF FilesInv, MarkedInv, ReadyInv, WholeVictim

(* A write where the new file is not. *)
LEMMA NewFileKept ==
    ASSUME TypeInv, Held(fat, data, FirstCluster, Len(op.blocks), chain),
           Filled(data, chain, op.blocks),
           NEW Z, FirstCluster \notin Z, Untouched(fat, data, Victim, Z, fat', data')
    PROVE  Held(fat', data', FirstCluster, Len(op.blocks), chain) /\ Filled(data', chain, op.blocks)
  <1>1. PICK f, d, X, g, e, c, n, s :
           /\ f = fat /\ d = data /\ X = Victim /\ g = fat' /\ e = data'
           /\ c = FirstCluster /\ n = Len(op.blocks) /\ s = chain
    OBVIOUS
  <1>2. Held(f, d, c, n, s) /\ c \notin Z /\ Untouched(f, d, X, Z, g, e)
    BY <1>1
  <1>3. Held(g, e, c, n, s)
    BY <1>2, HeldKept DEF Untouched
  <1>4. \A k \in 1..Len(s) : s[k] \in Cluster \ Z
    BY <1>2, HeldAvoids DEF Untouched
  <1> QED
    BY <1>1, <1>2, <1>3, <1>4 DEF Filled, Untouched

LEMMA DirectoryFiles ==
    ASSUME TypeInv, DiskWrite, FilesInv, pc \in {"retry", "save"},
           NEW Z, Untouched(fat, data, Victim, Z, fat', data'),
           op.kind = "create" /\ (pc = "retry" \/ EntryToCome') =>
               (pc = "retry" \/ EntryToCome) /\ FirstCluster \notin Z,
           NEW x, ShowsOnly(data, data', x), HasFile(fat', data', x)
    PROVE  FilesInv' /\ FilesApart
  <1>1. UNCHANGED <<pc, op, img, dirc, chain, cur>>
    BY WriteStep
  <1>2. FilesAt(fat, data, Victim)' /\ FilesApart
    BY WriteFiles DEF FilesInv
  <1>3. ReadyInv'
    <2> SUFFICES ASSUME op.kind = "create", pc = "retry" \/ EntryToCome'
                 PROVE  Held(fat', data', FirstCluster, Len(op.blocks), chain)
                        /\ Filled(data', chain, op.blocks)
      BY <1>1 DEF ReadyInv, FirstCluster
    <2>1. Held(fat, data, FirstCluster, Len(op.blocks), chain) /\ Filled(data, chain, op.blocks)
      BY DEF FilesInv, ReadyInv
    <2> QED
      BY <2>1, NewFileKept
  <1> QED
    BY <1>1, <1>2, <1>3 DEF FilesInv, MarkedInv, BlocksInv, WholeVictim

LEMMA RetryWriteFiles ==
    ASSUME TypeInv, NEW L, ChainsAt(L), FilesInv, DiskWrite, pc = "retry"
    PROVE  FilesInv' /\ FilesApart
  <1>1. PICK m \in 1..7, n \in Nat, c \in Cluster, last \in Cluster : RetryAt(m, n, c, last)
    BY RetryStep
  <1>2. /\ n > 1 /\ n = Len(dirc) /\ c = dirc[n] /\ last = dirc[n - 1] /\ Len(io) = 8 - m
    BY <1>1 DEF RetryAt
  <1>3. PICK f \in Table32, d \in Region : f = fat /\ d = data
    BY State
  <1>4. PICK g, e, X : g = fat' /\ e = data' /\ X = Victim
    OBVIOUS
  <1>5. /\ m \in {1, 6} => e = d /\ g = [f EXCEPT ![c] = EOC]
        /\ m \in {2, 5, 7} => e = d /\ g = f
        /\ m = 3 => g = f /\ Stored(d, c, DirSector(ZeroSector), e)
        /\ m = 4 => e = d /\ g = [f EXCEPT ![last] = c]
    BY <1>1, <1>3, <1>4 DEF RetryAt, Stored
  <1>6. TwoWorlds(L, f, d)
    BY <1>3 DEF ChainsAt, DiskInv, DiskAt
  <1>7. \A k \in 1..Len(chain) : chain[k] \notin L /\ chain[k] \in Cluster
    <2>1. ~MarkToCome
      BY DEF MarkToCome
    <2> QED
      BY <2>1, State DEF ChainsAt, ClaimInv, Claiming, Inserting, Owned
  <1>8. FirstCluster = 0 \/ \E k \in 1..Len(chain) : FirstCluster = chain[k]
    <2>1. chain # <<>> => 1 \in 1..Len(chain)
      BY State
    <2> QED
      BY <2>1 DEF FirstCluster
  <1>9. L \subseteq Cluster
    BY <1>6 DEF TwoWorlds
  <1>10. CASE m \in {1, 3}
    <2>1. /\ ~Begins(d, c) /\ \A x \in Cluster : f[x] # c
          /\ \A k \in 1..Len(chain) : c # chain[k]
      <3>1. Len(io) > 3 /\ io # <<>>
        <4>1. Len(io) > 3 /\ Len(io) # 0
          BY <1>2, <1>10
        <4> QED
          BY <4>1
      <3> QED
        BY <1>2, <1>3, <3>1 DEF ChainsAt, ExtendInv
    <2>2. \A y \in Cluster \ {c} : g[y] = f[y] /\ e[y] = d[y]
      <3>1. CASE m = 1
        BY <1>5, <3>1 DEF Table32
      <3>2. CASE m = 3
        BY <1>5, <3>2 DEF Stored, Region
      <3> QED
        BY <1>10, <3>1, <3>2
    <2>3. Untouched(f, d, X, {c}, g, e)
      <3>1. \A p \in Shown(d) \ X : EntryOf(d, p).cluster # c
        BY <2>1 DEF Begins
      <3> QED
        BY <2>1, <2>2, <3>1, ClusterApart
    <2>4. FirstCluster \notin {c}
      BY <1>8, <2>1, Values
    <2>5. ShowsOnly(d, e, NoFile)
      <3>1. CASE m = 1
        BY <1>5, <3>1 DEF ShowsOnly
      <3>2. CASE m = 3
        <4>1. SlotsOf(DirSector(ZeroSector)) = ZeroSector /\ DirSector(ZeroSector) \in SectorData
          BY SectorTypes, DirSectorType DEF SlotsOf, DirSector
        <4>2. \A i \in SlotNo : ~IsVisible(SlotsOf(DirSector(ZeroSector))[i])
          BY <4>1 DEF ZeroSector, SlotNo, End, IsVisible
        <4>3. Stored(d, c, DirSector(ZeroSector), e)
          BY <1>5, <3>2
        <4> QED
          BY <4>1, <4>2, <4>3, ShowsNothingNew
      <3> QED
        BY <1>10, <3>1, <3>2
    <2>6. HasFile(fat', data', NoFile)
      BY DEF HasFile, NoFile
    <2> QED
      BY <1>3, <1>4, <2>3, <2>4, <2>5, <2>6, DirectoryFiles
  <1>11. CASE m \in {2, 4, 5, 6, 7}
    <2>1. e = d /\ \A y \in Cluster \ L : g[y] = f[y]
      <3>1. CASE m \in {2, 5, 7}
        BY <1>5, <3>1
      <3>2. CASE m = 4
        <4>1. n - 1 \in 1..Len(dirc) /\ n - 1 # Len(dirc)
          BY <1>2
        <4>2. last \in L
          BY <1>2, <4>1 DEF ChainsAt, LoadInv, Inserting
        <4> QED
          BY <1>5, <3>2, <4>2 DEF Table32
      <3>3. CASE m = 6
        <4>1. n \in 1..Len(dirc) /\ ~(Len(io) > 3)
          BY <1>2, <3>3
        <4>2. ~Extending
          BY <4>1 DEF Extending
        <4>3. c \in L
          BY <1>2, <4>1, <4>2 DEF ChainsAt, LoadInv, Inserting
        <4> QED
          BY <1>5, <3>3, <4>3 DEF Table32
      <3> QED
        BY <1>11, <3>1, <3>2, <3>3
    <2>2. Untouched(f, d, X, L, g, e)
      BY <1>6, <2>1, DirsApart
    <2>3. FirstCluster \notin L
      BY <1>7, <1>8, <1>9, Values
    <2>4. ShowsOnly(d, e, NoFile)
      BY <2>1 DEF ShowsOnly
    <2>5. HasFile(fat', data', NoFile)
      BY DEF HasFile, NoFile
    <2> QED
      BY <1>3, <1>4, <2>2, <2>3, <2>4, <2>5, DirectoryFiles
  <1> QED
    BY <1>10, <1>11

LEMMA SaveWriteFiles ==
    ASSUME TypeInv, NEW L, ChainsAt(L), FilesInv, DiskWrite, pc = "save"
    PROVE  FilesInv' /\ FilesApart
  <1>0. PICK X, e : X = Victim /\ e = data'
    OBVIOUS
  <1>1. PICK k \in Nat : SaveAt(k)
    BY SaveStep
  <1>2. /\ fat' = fat /\ k \in 1..Len(img) /\ ToCome(k)
        /\ \A x \in 1..Len(img) : (ToCome(x) <=> x >= k) /\ (ToCome(x)' <=> x > k)
    BY <1>1 DEF SaveAt
  <1>3. UNCHANGED <<pc, op, img, dirc, chain, cur, cwd>>
    BY WriteStep
  <1>4. PICK f \in Table32, d \in Region : f = fat /\ d = data
    BY State
  <1>5. /\ Len(img) \in Nat /\ Len(img) = Len(dirc) /\ \A x \in 1..Len(img) : img[x] \in Sector
    BY State
  <1>6. TwoWorlds(L, f, d)
    BY <1>0, <1>4 DEF ChainsAt, DiskInv, DiskAt
  <1>7. PICK c \in L, s \in Sector : c = dirc[k] /\ s = img[k]
    BY <1>2, <1>5 DEF ChainsAt, SaveInv
  <1>8. c \in Cluster /\ d[c].tag = "dir" /\ L \subseteq Cluster
    BY <1>6 DEF TwoWorlds
  <1>9. PICK v \in SectorData : v = DirSector(s) /\ SlotsOf(v) = s /\ v.tag = "dir"
    BY DirSectorType DEF SlotsOf, DirSector
  <1>10. Stored(d, c, v, e)
    BY <1>1, <1>0, <1>4, <1>7, <1>9 DEF SaveAt
  <1>11. \A i \in SlotNo : SlotInv(k, i)
    BY <1>2 DEF ChainsAt, SaveInv
  <1>12. Untouched(f, d, X, L, fat', e)
    <2>1. \A y \in Cluster \ L : f[y] = f[y] /\ e[y] = d[y]
      BY <1>10 DEF Stored, Region
    <2>2. Untouched(f, d, X, L, f, e)
      BY <1>6, <2>1, DirsApart
    <2> QED
      BY <1>2, <1>0, <1>4, <2>2
  <1>13. ASSUME EntryToCome, op.kind = "create"
         PROVE  /\ FirstCluster \notin L
                /\ Held(fat', data', FirstCluster, Len(op.blocks), chain)
    <2>1. Claiming /\ ~MarkToCome
      BY <1>13 DEF Claiming, MarkToCome
    <2>2. \A j \in 1..Len(chain) : chain[j] \notin L
      BY <2>1 DEF ChainsAt, ClaimInv, Owned
    <2>3. FirstCluster \notin L
      <3>1. chain # <<>> => 1 \in 1..Len(chain)
        BY State
      <3> QED
        BY <1>8, <2>2, <3>1, Values DEF FirstCluster
    <2>4. Held(fat, data, FirstCluster, Len(op.blocks), chain) /\ Filled(data, chain, op.blocks)
      BY <1>13 DEF FilesInv, ReadyInv
    <2>5. Untouched(fat, data, Victim, L, fat', data')
      BY <1>0, <1>4, <1>12
    <2> QED
      BY <2>3, <2>4, <2>5, NewFileKept
  <1>14. EntryToCome' => EntryToCome
    <2> SUFFICES ASSUME EntryToCome' PROVE EntryToCome
      OBVIOUS
    <2>1. PICK x \in 1..Len(img), j \in SlotNo : Position(x, j) = op.slot /\ ToCome(x)'
      BY <1>3 DEF EntryToCome
    <2>2. ToCome(x)
      <3>1. x > k
        BY <1>2, <2>1
      <3>2. x >= k
        BY <1>5, <2>1, <3>1
      <3> QED
        BY <1>2, <2>1, <3>2
    <2> QED
      BY <2>1, <2>2 DEF EntryToCome
  <1> DEFINE here == \E i \in SlotNo : Position(k, i) = op.slot
  <1>15. ASSUME NEW p \in Shown(e)
         PROVE  \/ p \in Shown(d) /\ EntryOf(e, p) = EntryOf(d, p)
                \/ here /\ op.kind # "delete" /\ EntryOf(e, p) = NewEntry
    <2>1. CASE p \in Shown(d) /\ EntryOf(e, p) = EntryOf(d, p)
      BY <2>1
    <2>2. CASE /\ p[1] = c /\ p[2] \in SlotNo /\ EntryOf(e, p) = s[p[2]]
               /\ IsVisible(s[p[2]])
      <3>1. PICK i \in SlotNo : i = p[2]
        BY <2>2
      <3>2. Solid(s[i])
        BY <2>2, <3>1 DEF IsVisible, Solid
      <3>3. p \in Spot /\ EntryOf(d, p) = SlotsOf(d[c])[i]
        BY <2>2, <3>1 DEF Shown, EntryOf
      <3>4. CASE Position(k, i) # op.slot
        <4>1. Agree(SlotsOf(d[c])[i], s[i])
          BY <1>2, <1>0, <1>4, <1>7, <1>11, <3>4 DEF SlotInv
        <4>2. SlotsOf(d[c])[i] = s[i]
          BY <3>2, <4>1 DEF Agree
        <4>3. p \in Shown(d) /\ EntryOf(e, p) = EntryOf(d, p)
          BY <2>2, <3>1, <3>3, <4>2 DEF Shown
        <4> QED
          BY <4>3
      <3>5. CASE Position(k, i) = op.slot
        <4>1. op.kind # "delete" /\ s[i] = NewEntry
          BY <1>7, <1>11, <3>2, <3>5 DEF SlotInv
        <4> QED
          BY <2>2, <3>1, <3>5, <4>1
      <3> QED
        BY <3>4, <3>5
    <2> QED
      BY <1>9, <1>10, <1>8, <2>1, <2>2, StoredShows
  <1>16. CASE here /\ op.kind # "delete"
    <2>1. EntryToCome
      BY <1>2, <1>16 DEF EntryToCome
    <2>2. op.kind \in {"create", "mkdir"}
      <3>1. Claiming
        BY <1>16, <2>1 DEF Claiming
      <3> QED
        BY <3>1 DEF ChainsAt, ClaimInv
    <2>3. HasFile(fat', data', NewEntry)
      <3>1. CASE op.kind = "mkdir"
        <4>1. NewEntry.tag = "dir"
          BY <3>1 DEF NewEntry, Entry
        <4> QED
          BY <4>1 DEF HasFile
      <3>2. CASE op.kind = "create"
        <4>1. NewEntry.cluster = FirstCluster /\ NewEntry.size = Len(op.blocks)
          BY DEF NewEntry, Entry
        <4>2. Held(fat', data', NewEntry.cluster, NewEntry.size, chain)
          BY <1>13, <2>1, <3>2, <4>1
        <4> QED
          BY <4>2 DEF HasFile
      <3> QED
        BY <2>2, <3>1, <3>2
    <2>4. ShowsOnly(data, data', NewEntry)
      <3>1. PICK x : x = NewEntry
        OBVIOUS
      <3> HIDE DEF here
      <3>2. ShowsOnly(d, e, x)
        BY <1>15, <3>1 DEF ShowsOnly
      <3> QED
        BY <1>0, <1>4, <3>1, <3>2
    <2>5. Untouched(fat, data, Victim, L, fat', data')
      BY <1>0, <1>4, <1>12
    <2>6. op.kind = "create" /\ EntryToCome' => EntryToCome /\ FirstCluster \notin L
      BY <1>13, <1>14
    <2> QED
      BY <2>3, <2>4, <2>5, <2>6, DirectoryFiles
  <1>17. CASE ~(here /\ op.kind # "delete")
    <2>1. ShowsOnly(d, e, NoFile)
      <3> HIDE DEF here
      <3> QED
        BY <1>15, <1>17 DEF ShowsOnly
    <2>2. HasFile(fat', data', NoFile)
      BY DEF HasFile, NoFile
    <2>3. Untouched(fat, data, Victim, L, fat', data')
      BY <1>0, <1>4, <1>12
    <2>4. op.kind = "create" /\ EntryToCome' => EntryToCome /\ FirstCluster \notin L
      BY <1>13, <1>14
    <2>5. ShowsOnly(data, data', NoFile)
      BY <1>0, <1>4, <2>1
    <2> QED
      BY <2>2, <2>3, <2>4, <2>5, DirectoryFiles
  <1> QED
    BY <1>16, <1>17

LEMMA WritesFiles ==
    ASSUME TypeInv, Quiet, NEW L, ChainsAt(L), FilesInv, pc # "format", DiskWrite
    PROVE  FilesInv' /\ FilesApart
  <1>1. io # <<>>
    BY DEF DiskWrite
  <1>2. pc # "search"
    BY <1>1 DEF ChainsAt, ClaimInv
  <1>3. pc \in {"alloc", "name", "retry", "save", "free", "abort"}
    BY <1>1, <1>2 DEF Quiet, TypeInv, TypeOK
  <1> QED
    BY <1>3, AllocWriteFiles, NameWriteFiles, RetryWriteFiles, SaveWriteFiles, ChainWriteFiles

(* On a formatted disk, a step keeps the files complete. *)
LEMMA MountedFiles ==
    ASSUME TypeInv, Quiet, RestInv, Mounted, torn' = {}, NEW L, ChainsAt(L), FilesInv, [Next]_vars
    PROVE  FilesInv'
  <1>1. boot = "fat32" /\ pc # "format"
    BY DEF Mounted
  <1>2. CASE Work
    <2>1. ~FormatDone
      BY <1>1 DEF FormatDone
    <2>2. CASE DiskWrite
      BY <1>1, <2>2, WritesFiles
    <2>3. CASE AllocCluster \/ AllocFails \/ WriteContents \/ ChooseShort \/ SearchRun
      BY <2>3, AllocFiles, FailFiles, ContentsFiles, ShortFiles, SearchFiles
    <2>4. CASE PlaceEntry \/ ExtendDir \/ InsertFails \/ FreeCluster \/ MarkEntry \/ Return
      BY <2>4, PlaceFiles, ExtendFiles, FailFiles, FreeFiles, MarkFiles, ReturnFiles
    <2> QED
      BY <1>2, <2>1, <2>2, <2>3, <2>4 DEF Work
  <1>3. CASE Call
    <2>1. ASSUME NEW name \in Name, NEW blocks \in Contents, CreateFile(name, blocks)
          PROVE  FilesInv'
      BY <2>1, CreateFiles
    <2>2. ASSUME NEW name \in Name, CreateDir(name)
          PROVE  FilesInv'
      BY <2>2, CreateFiles
    <2>3. ASSUME NEW name \in Name, DeleteFile(name)
          PROVE  FilesInv'
      BY <2>3, DeleteFiles
    <2>4. ASSUME NEW d \in Cluster, ChangeDir(d)
          PROVE  FilesInv'
      BY <2>4, ChangeFiles
    <2> QED
      BY <1>3, <2>1, <2>2, <2>3, <2>4 DEF Call
  <1>4. CASE Boot
    BY <1>4, ChangeFiles
  <1>5. CASE PowerCut
    <2>1. torn' = torn \cup HalfDone
      BY <1>5 DEF PowerCut
    <2>2. ~DeleteHalfDone
      BY <2>1 DEF HalfDone
    <2> QED
      BY <1>5, <2>2, CutFiles
  <1>6. CASE UNCHANGED vars
    <2>1. UNCHANGED <<fat, data, pc, op, img, dirc, chain, cur, io>>
      BY <1>6 DEF vars, disk, ram
    <2>2. Victim' = Victim
      BY <2>1 DEF Victim, Deleting
    <2>3. FilesAt(fat, data, Victim)'
      <3>1. \A p \in Shown(data) \cap Victim : p \in Victim'
        BY <2>2
      <3> QED
        BY <2>1, <3>1, SameFiles DEF FilesInv
    <2>4. MarkedInv' /\ WholeVictim'
      <3>1. PICK f, d : f = fat /\ d = data
        OBVIOUS
      <3>2. FilesAt(f, d, {}) <=> FilesAt(fat', data', {})
        BY <2>1, <3>1
      <3> QED
        BY <2>1, <3>1, <3>2 DEF FilesInv, MarkedInv, MarkToCome, WholeVictim
    <2>5. BlocksInv' /\ ReadyInv'
      BY <2>1 DEF FilesInv, BlocksInv, LinkToCome, BlockToCome, BlockWrite, ReadyInv,
         EntryToCome, ToCome, FirstCluster
    <2> QED
      BY <2>3, <2>4, <2>5 DEF FilesInv
  <1> QED
    BY <1>2, <1>3, <1>4, <1>5, <1>6 DEF Next

LEMMA UnmountedFiles ==
    ASSUME TypeInv, Quiet, RestInv, FormatInv, ~Mounted, Mounted', torn' = {}, [Next]_vars
    PROVE  FilesInv'
  <1>1. boot \in {"blank", "fat32"}
    BY DEF TypeInv, TypeOK
  <1>2. CASE pc = "format" /\ DiskWrite
    <2>1. pc' = "format"
      BY <1>2 DEF DiskWrite
    <2> QED
      BY <2>1 DEF Mounted
  <1>3. CASE pc = "format" /\ FormatDone
    <2>1. boot' = boot /\ io = <<>>
      BY <1>3 DEF FormatDone, disk
    <2>2. boot = "fat32"
      BY <2>1 DEF Mounted
    <2> QED
      BY <1>3, <2>1, <2>2, FormatDoneFiles
  <1>4. CASE PowerCut /\ pc = "format"
    <2>1. boot' = boot /\ torn' = torn \cup HalfDone
      BY <1>4 DEF PowerCut, disk
    <2>2. boot = "fat32" /\ ~FormatHalfDone
      BY <2>1 DEF Mounted, HalfDone
    <2>3. io = <<>>
      BY <1>4, <2>2 DEF FormatHalfDone
    <2> QED
      BY <1>4, <2>2, <2>3, FormatDoneFiles
  <1>5. CASE Boot /\ boot = "blank" /\ pc = "off"
    <2>1. boot' = "blank"
      BY <1>5 DEF Boot, disk
    <2> QED
      BY <2>1 DEF Mounted
  <1>6. CASE UNCHANGED vars
    <2>1. boot' = boot /\ pc' = pc
      BY <1>6 DEF vars, disk, ram
    <2> QED
      BY <2>1 DEF Mounted
  <1> QED
    BY <1>2, <1>3, <1>4, <1>5, <1>6, BeforeFormatted

FileInv == torn = {} /\ Mounted => FilesInv

LEMMA FileInit == Init => FileInv
  BY DEF Init, FileInv, Mounted

LEMMA FileNext == TypeInv /\ MirrorInv /\ ChainInv /\ FileInv /\ [Next]_vars => FileInv'
  <1> SUFFICES ASSUME TypeInv, MirrorInv, ChainInv, FileInv, [Next]_vars, torn' = {}, Mounted'
               PROVE  FilesInv'
    BY DEF FileInv
  <1>1. Quiet /\ RestInv /\ torn = {} /\ FormatInv
    BY TornStays DEF MirrorInv, ChainInv
  <1>2. CASE Mounted
    <2>1. PICK L \in SUBSET Cluster : ChainsAt(L)
      BY <1>1, <1>2 DEF ChainInv
    <2>2. FilesInv
      BY <1>1, <1>2 DEF FileInv
    <2> QED
      BY <1>1, <1>2, <2>1, <2>2, MountedFiles
  <1>3. CASE ~Mounted
    BY <1>1, <1>3, UnmountedFiles
  <1> QED
    BY <1>2, <1>3

LEMMA FileInvariant == Spec => [](TypeInv /\ MirrorInv /\ ChainInv /\ FileInv)
  <1>1. Init => TypeInv /\ MirrorInv /\ ChainInv /\ FileInv
    BY TypeInit, MirrorInit, ChainInit, FileInit
  <1>2. (TypeInv /\ MirrorInv /\ ChainInv /\ FileInv) /\ [Next]_vars
            => (TypeInv /\ MirrorInv /\ ChainInv /\ FileInv)'
    BY TypeNext, MirrorNext, ChainNext, FileNext
  <1> QED
    BY <1>1, <1>2, PTL DEF Spec

-----------------------------------------------------------------------------
(* What is held is what fat32_read_file walks.                               *)
LEMMA HeldIsWalked ==
    ASSUME NEW f, NEW d, NEW c, NEW n, NEW s, Held(f, d, c, n, s), NEW max \in Nat, n <= max
    PROVE  /\ Len(Chain(f, c, max)) = n
           /\ \A k \in 1..n : Chain(f, c, max)[k] = s[k]
  <1> DEFINE t == Chain(f, c, max)
             m == Len(t)
  <1>1. t \in Seq(Cluster) /\ m \in Nat
    BY ChainType, LenProperties
  <1>2. t = <<>> <=> m = 0
    BY <1>1, EmptyLen
  <1>3. \A k \in 1..m : t[k] \in Cluster
    BY <1>1, ElementOfSeq
  <1>4. /\ m <= max
        /\ m # 0 => t[1] = c
        /\ \A k \in 1..(m - 1) : t[k + 1] = f[t[k]]
        /\ m < max /\ m # 0 => f[t[m]] \notin Cluster
        /\ m < max /\ m = 0 => c \notin Cluster
    BY <1>2, ChainSteps
  <1>5. /\ n \in Nat /\ Len(s) = n /\ s \in Seq(Cluster)
        /\ \A k \in 1..n : s[k] \in Cluster /\ f[s[k]] = NextIn(s, k)
    BY LenProperties, ElementOfSeq DEF Held
  <1>6. c = IF n = 0 THEN 0 ELSE s[1]
    BY <1>5, EmptyLen DEF Held
  <1>7. \A k \in 1..n : k < n => f[s[k]] = s[k + 1]
    BY <1>5 DEF NextIn
  <1>8. n # 0 => f[s[n]] = EOC
    BY <1>5 DEF NextIn
  <1> HIDE DEF t, m
  <1> DEFINE apart == {k \in Nat : k \in 1..m /\ k \in 1..n /\ t[k] # s[k]}
  <1>9. apart = {}
    <2> SUFFICES ASSUME apart # {} PROVE FALSE
      OBVIOUS
    <2> DEFINE k == Least(apart)
    <2>1. k \in apart /\ \A y \in apart : k <= y
      BY LeastInSet
    <2> HIDE DEF k
    <2>2. CASE k = 1
      BY <1>1, <1>4, <1>5, <1>6, <2>1, <2>2
    <2>3. CASE k # 1
      <3>1. /\ k - 1 \in Nat /\ k - 1 \in 1..m /\ k - 1 \in 1..n /\ k - 1 < n
            /\ k - 1 \in 1..(m - 1) /\ (k - 1) + 1 = k
        BY <1>1, <1>5, <2>1, <2>3
      <3>2. t[k - 1] = s[k - 1]
        BY <2>1, <3>1
      <3>3. t[k] = f[t[k - 1]] /\ s[k] = f[s[k - 1]]
        BY <1>4, <1>7, <3>1
      <3> QED
        BY <2>1, <3>2, <3>3
    <2> QED
      BY <2>2, <2>3
  <1>10. ~(m > n)
    <2> SUFFICES ASSUME m > n PROVE FALSE
      OBVIOUS
    <2>1. CASE n = 0
      BY <1>1, <1>3, <1>4, <1>6, <2>1, Values
    <2>2. CASE n # 0
      <3>1. n \in 1..m /\ n \in 1..n /\ n \in 1..(m - 1) /\ n + 1 \in 1..m
        BY <1>1, <1>5, <2>2
      <3>2. t[n] = s[n] /\ t[n + 1] = f[t[n]] /\ t[n + 1] \in Cluster
        BY <1>3, <1>4, <1>5, <1>9, <3>1
      <3> QED
        BY <1>8, <2>2, <3>2, Values
    <2> QED
      BY <2>1, <2>2
  <1>11. ~(m < n)
    <2> SUFFICES ASSUME m < n PROVE FALSE
      OBVIOUS
    <2>1. m < max
      BY <1>1, <1>5
    <2>2. CASE m = 0
      <3>1. n # 0 /\ 1 \in 1..n
        BY <1>1, <1>5
      <3> QED
        BY <1>4, <1>5, <1>6, <2>1, <2>2, <3>1
    <2>3. CASE m # 0
      <3>1. m \in 1..m /\ m \in 1..n /\ m + 1 \in 1..n
        BY <1>1, <1>5, <2>3
      <3>2. t[m] = s[m]
        BY <1>1, <1>9, <3>1
      <3>3. f[s[m]] = s[m + 1] /\ s[m + 1] \in Cluster
        BY <1>5, <1>7, <3>1
      <3> QED
        BY <1>4, <2>1, <2>3, <3>2, <3>3
    <2> QED
      BY <2>2, <2>3
  <1>12. m = n
    BY <1>1, <1>5, <1>10, <1>11
  <1>13. \A k \in 1..n : t[k] = s[k]
    BY <1>5, <1>9, <1>12
  <1> QED
    BY <1>12, <1>13 DEF t, m

LEMMA NoPigeonHole ==
    ASSUME NEW S, IsFiniteSet(S), NEW T, IsFiniteSet(T), NEW g \in [S -> T],
           \A x, y \in S : g[x] = g[y] => x = y
    PROVE  ~(Cardinality(T) < Cardinality(S))
  <1> SUFFICES ASSUME Cardinality(T) < Cardinality(S) PROVE FALSE
    OBVIOUS
  <1>1. \E x, y \in S : x # y /\ g[x] = g[y]
    BY FS_PigeonHole
  <1> QED
    BY <1>1

(* A file is no longer than the disk. *)
LEMMA HeldFits ==
    ASSUME NEW f, NEW d, NEW c, NEW n, NEW s, Held(f, d, c, n, s),
           \A x, y \in Cluster : f[x] \in Cluster /\ f[x] = f[y] => x = y,
           \A x \in Cluster : f[x] \in Cluster => f[x] # c
    PROVE  n \in Nat /\ n <= DataClusters
  <1>1. n \in Nat /\ Len(s) = n /\ s \in Seq(Cluster) /\ \A k \in 1..n : s[k] \in Cluster
    BY LenProperties, ElementOfSeq DEF Held
  <1>2. DataClusters \in Nat
    BY SlotAssumption DEF SlotAssumption
  <1>3. ASSUME n # 0
        PROVE  \A j, k \in 1..n : s[j] = s[k] => j = k
    <2>1. c \in Cluster
      <3>1. s # <<>> /\ 1 \in 1..n
        BY <1>1, <1>3, EmptyLen
      <3> QED
        BY <1>1, <3>1 DEF Held
    <2>2. n <= n
      BY <1>1
    <2>3. Len(Chain(f, c, n)) = n /\ \A k \in 1..n : Chain(f, c, n)[k] = s[k]
      BY <1>1, <2>2, HeldIsWalked
    <2>4. \A j, k \in 1..n : Chain(f, c, n)[j] = Chain(f, c, n)[k] => j = k
      <3>1. \A x \in Cluster : f[x] # c
        BY <2>1
      <3> QED
        BY <1>1, <2>1, <2>3, <3>1, ChainApart
    <2> QED
      BY <2>3, <2>4
  <1>4. CASE n = 0
    BY <1>2, <1>4
  <1>5. CASE n # 0
    <2>1. IsFiniteSet(1..n) /\ Cardinality(1..n) = n
      BY <1>1, <1>5, FS_Interval
    <2>2. IsFiniteSet(Cluster) /\ Cardinality(Cluster) = DataClusters
      <3>1. LastCluster = DataClusters + 1 /\ 2 \in Int /\ LastCluster \in Int
        BY <1>2 DEF LastCluster
      <3>2. IsFiniteSet(2..LastCluster)
            /\ Cardinality(2..LastCluster) = IF 2 > LastCluster THEN 0 ELSE LastCluster - 2 + 1
        BY <3>1, FS_Interval
      <3>3. Cardinality(2..LastCluster) = DataClusters
        BY <1>2, <3>1, <3>2
      <3> QED
        BY <3>2, <3>3 DEF Cluster
    <2> DEFINE g == [k \in 1..n |-> s[k]]
    <2>3. g \in [1..n -> Cluster] /\ \A j, k \in 1..n : g[j] = g[k] => j = k
      BY <1>1, <1>3, <1>5
    <2> HIDE DEF g
    <2>4. ~(Cardinality(Cluster) < Cardinality(1..n))
      BY <2>1, <2>2, <2>3, NoPigeonHole
    <2> QED
      BY <1>1, <1>2, <2>1, <2>2, <2>4
  <1> QED
    BY <1>4, <1>5

LEMMA FileMeaning == TypeInv /\ ChainInv /\ FileInv => ChainsComplete
  <1> SUFFICES ASSUME TypeInv, ChainInv, FileInv, Mounted, torn = {}
               PROVE  ChainsComplete
    BY DEF ChainsComplete
  <1>1. PICK L \in SUBSET Cluster : ChainsAt(L)
    BY DEF ChainInv
  <1>2. DiskAt(L, fat, data, Victim)
    BY <1>1 DEF ChainsAt, DiskInv
  <1>3. TwoWorlds(L, fat, data) /\ Disjoint(fat, data)
    BY <1>2 DEF DiskAt
  <1>4. FilesAt(fat, data, Victim)
    BY DEF FileInv, FilesInv
  <1>5. data \in Region
    BY State
  <1>6. DIR_MAX_CLUSTERS \in Nat /\ DataClusters \in Nat
    BY DiskAssumption, SlotAssumption DEF DiskAssumption, SlotAssumption
  <1>7. ASSUME NEW d \in Dirs, NEW k \in 1..Len(DirChain(d))
        PROVE  data[DirChain(d)[k]].tag = "dir"
    <2>1. d \in Parents(data)
      <3>1. \A p \in Entries : p \in Shown(data)
        BY EntriesShown
      <3> QED
        BY <3>1 DEF Dirs, DirsOf, Entries, Parents
    <2>2. DirChain(d)[k] \in L
      BY <1>2, <1>5, <1>6, <2>1, DirectoryChain DEF DirChain
    <2> QED
      BY <1>3, <2>2 DEF TwoWorlds
  <1>8. ASSUME NEW p \in Entries \ Doomed, EntryAt(p).tag = "file"
        PROVE  LET c == Chain(fat, EntryAt(p).cluster, DataClusters)
               IN  /\ Len(c) = EntryAt(p).size
                   /\ \A k \in 1..Len(c) : data[c[k]].tag = "data"
    <2>1. PICK x : x = EntryAt(p)
      OBVIOUS
    <2>2. p \in Shown(data) \ Victim /\ x = EntryOf(data, p)
      BY <2>1, EntriesShown
    <2>3. PICK s : Held(fat, data, x.cluster, x.size, s)
      BY <1>4, <1>8, <2>1, <2>2 DEF FilesAt, HasFile
    <2>4. \A y \in Cluster : fat[y] \in Cluster => fat[y] # x.cluster
      <3>1. Begins(data, x.cluster)
        BY <2>2 DEF Begins
      <3> QED
        BY <1>3, <3>1 DEF Disjoint
    <2>5. x.size \in Nat /\ x.size <= DataClusters
      BY <1>3, <2>3, <2>4, HeldFits DEF Disjoint
    <2>6. /\ Len(Chain(fat, x.cluster, DataClusters)) = x.size
          /\ \A k \in 1..x.size : Chain(fat, x.cluster, DataClusters)[k] = s[k]
      BY <1>6, <2>3, <2>5, HeldIsWalked
    <2>7. \A k \in 1..x.size : data[s[k]].tag = "data"
      BY <2>3 DEF Held
    <2> QED
      BY <2>1, <2>6, <2>7
  <1> QED
    BY <1>7, <1>8 DEF ChainsComplete

(* What an entry promises is on the disk, at any moment and however the      *)
(* power fails: a file's chain is as long as its size and holds data, a      *)
(* directory's clusters hold directory sectors.  An entry under deletion     *)
(* promises nothing any more.                                                *)
THEOREM FilesAreComplete == Spec => []ChainsComplete
  <1>1. TypeInv /\ MirrorInv /\ ChainInv /\ FileInv => ChainsComplete
    BY FileMeaning
  <1> QED
    BY <1>1, FileInvariant, PTL
-----------------------------------------------------------------------------
(* Every cluster in use is accounted for.                                    *)

(* The clusters the running operation answers for: those of the chain it has *)
(* not given an entry yet, the one it adds to the directory and has not      *)
(* linked yet, those it is about to free.                                    *)
Freeing == pc \in {"free", "abort"}
Mine ==
    {c \in Cluster :
        \/ Claiming /\ \E k \in 1..Len(chain) : c = chain[k]
        \/ Extending /\ c = dirc[Len(dirc)]
        \/ Freeing /\ (c = cur \/ (Len(io) = 2 /\ c = io[1].cluster))}

(* A cluster in use is the root, or something leads to it, or the operation  *)
(* (M) or a failed creation (gone) is why.                                   *)
Follows(f, c) == \E x \in Cluster : f[x] = c
PlacedIn(f, d, gone, M) ==
    \A c \in Cluster : f[c] # 0 =>
        c = Root \/ Begins(d, c) \/ Follows(f, c) \/ c \in gone \/ c \in M

(* What a failed creation left allocated stays so, and nothing leads there.  *)
Stray(f, d, M, c) == f[c] # 0 /\ ~Begins(d, c) /\ ~Follows(f, c) /\ c \notin M
LostIn(f, d, gone, M) == \A c \in gone : Stray(f, d, M, c)

(* The entry under deletion has lost its chain, or is about to.              *)
FreedIn(f, d, X, M) ==
    \A p \in Shown(d) \cap X :
        LET v == EntryOf(d, p).cluster IN v = 0 \/ f[v] = 0 \/ v \in M

(* No link is overwritten: what is marked or linked next ends a chain.       *)
LastDir == dirc[Len(dirc)]
EndInv ==
    /\ pc \in {"alloc", "name", "search", "extend"} /\ Len(dirc) < DIR_MAX_CLUSTERS =>
          fat[LastDir] \notin Cluster
    /\ Extending => fat[dirc[Len(dirc) - 1]] \notin Cluster
    /\ pc = "retry" /\ io # <<>> => fat[LastDir] \notin Cluster
    /\ MarkToCome => fat[chain[Len(chain)]] \notin Cluster
    /\ pc = "name" =>
          \A k \in 1..Len(chain) :
              fat[chain[k]] \in Cluster => k < Len(chain) /\ fat[chain[k]] = chain[k + 1]

(* A creation that gives up after its contents are written gives back a      *)
(* linked chain.                                                             *)
Linked == \A k \in 1..Len(chain) : k < Len(chain) => fat[chain[k]] = chain[k + 1]
LinkedInv == pc = "fail" => Linked

SpaceInv ==
    /\ PlacedIn(fat, data, lost, Mine)
    /\ LostIn(fat, data, lost, Mine)
    /\ FreedIn(fat, data, Victim, Mine)
    /\ EndInv
    /\ LinkedInv

(* What a step owes: the FAT f, the data region d, what is lost and what is  *)
(* being worked on become g, e, gone and N.                                  *)
Keeps(f, d, M, g, e, gone, N) ==
    /\ \A x \in Cluster : f[x] \in Cluster => g[x] = f[x] \/ f[x] \in N
    /\ \A c \in Cluster : f[c] = 0 /\ g[c] # 0 => c \in N
    /\ \A c \in M \ N : g[c] # 0 => Begins(e, c) \/ Follows(g, c) \/ c \in gone
    /\ \A c \in Cluster : Begins(d, c) => Begins(e, c) \/ g[c] = 0 \/ c \in N
Spares(f, d, M, g, e, N) ==
    /\ \A c \in Cluster : f[c] # 0 /\ g[c] = 0 => c \in M
    /\ \A c \in Cluster : Begins(e, c) => Begins(d, c) \/ c \in M
    /\ \A c \in Cluster : Follows(g, c) => Follows(f, c) \/ c \in M
    /\ \A c \in N : c \in M \/ f[c] = 0 \/ Begins(d, c) \/ Follows(f, c)

LEMMA PlacedStep ==
    ASSUME NEW f, NEW d, NEW gone, NEW M, PlacedIn(f, d, gone, M),
           NEW g, NEW e, NEW gone2, NEW N, gone \subseteq gone2,
           Keeps(f, d, M, g, e, gone2, N)
    PROVE  PlacedIn(g, e, gone2, N)
<1> SUFFICES ASSUME NEW c \in Cluster, g[c] # 0, c \notin N
    PROVE  c = Root \/ Begins(e, c) \/ Follows(g, c) \/ c \in gone2
    BY DEF PlacedIn
<1>1. f[c] # 0
    BY DEF Keeps
<1>2. c = Root \/ Begins(d, c) \/ Follows(f, c) \/ c \in gone \/ c \in M
    BY <1>1 DEF PlacedIn
<1>3. ASSUME Follows(f, c) PROVE Follows(g, c)
    BY <1>3 DEF Keeps, Follows
<1> QED BY <1>2, <1>3 DEF Keeps

LEMMA LostStep ==
    ASSUME NEW f, NEW d, NEW gone, gone \subseteq Cluster, NEW M, LostIn(f, d, gone, M),
           NEW g, NEW e, NEW gone2, NEW N, Spares(f, d, M, g, e, N),
           \A c \in gone2 \ gone : Stray(g, e, N, c)
    PROVE  LostIn(g, e, gone2, N)
<1> SUFFICES ASSUME NEW c \in gone PROVE Stray(g, e, N, c)
    BY DEF LostIn
<1>1. c \in Cluster /\ Stray(f, d, M, c)
    BY DEF LostIn
<1> QED BY <1>1 DEF Spares, Stray

(* A step in RAM. *)
LEMMA SpaceInRam ==
    ASSUME SpaceInv, lost \subseteq Cluster, UNCHANGED <<fat, data>>,
           \A c \in Mine \ Mine' : Begins(data, c) \/ Follows(fat, c) \/ c \in lost',
           \A c \in Mine' \ Mine : fat[c] = 0 \/ Begins(data, c) \/ Follows(fat, c),
           lost \subseteq lost', \A c \in lost' \ lost : Stray(fat, data, Mine', c)
    PROVE  PlacedIn(fat, data, lost, Mine)' /\ LostIn(fat, data, lost, Mine)'
<1>1. PICK f, d, M, N, l : f = fat /\ d = data /\ M = Mine /\ N = Mine' /\ l = lost'
    OBVIOUS
<1>2. fat' = f /\ data' = d
    BY <1>1
<1>3. /\ \A c \in M \ N : Begins(d, c) \/ Follows(f, c) \/ c \in l
      /\ \A c \in N \ M : f[c] = 0 \/ Begins(d, c) \/ Follows(f, c)
      /\ \A c \in l \ lost : Stray(f, d, N, c)
    BY <1>1
<1>4. Keeps(f, d, M, f, d, l, N) /\ Spares(f, d, M, f, d, N)
    BY <1>3 DEF Keeps, Spares
<1>5. PlacedIn(f, d, lost, M) /\ LostIn(f, d, lost, M)
    BY <1>1 DEF SpaceInv
<1>6. PlacedIn(f, d, l, N)
    BY <1>1, <1>4, <1>5, PlacedStep
<1>7. LostIn(f, d, l, N)
    BY <1>1, <1>3, <1>4, <1>5, LostStep
<1> QED BY <1>1, <1>2, <1>6, <1>7

(* A sector write. *)
LEMMA SpaceOnDisk ==
    ASSUME SpaceInv, lost \subseteq Cluster, lost' = lost,
           Keeps(fat, data, Mine, fat', data', lost, Mine'),
           Spares(fat, data, Mine, fat', data', Mine')
    PROVE  PlacedIn(fat, data, lost, Mine)' /\ LostIn(fat, data, lost, Mine)'
<1>1. PICK f, d, M, N, g, e :
          f = fat /\ d = data /\ M = Mine /\ N = Mine' /\ g = fat' /\ e = data'
    OBVIOUS
<1>2. Keeps(f, d, M, g, e, lost, N) /\ Spares(f, d, M, g, e, N)
    BY <1>1
<1>3. PlacedIn(f, d, lost, M) /\ LostIn(f, d, lost, M)
    BY <1>1 DEF SpaceInv
<1>4. PlacedIn(g, e, lost, N)
    BY <1>2, <1>3, PlacedStep
<1>5. LostIn(g, e, lost, N)
    BY <1>2, <1>3, LostStep
<1> QED BY <1>1, <1>4, <1>5

LEMMA LostType ==
    ASSUME TypeInv
    PROVE  lost \subseteq Cluster
  BY DEF TypeInv, TypeOK

(* When nothing is under deletion. *)
LEMMA NothingFreed ==
    ASSUME pc' \notin {"free", "save"} \/ op'.kind # "delete"
    PROVE  FreedIn(fat, data, Victim, Mine)'
  BY DEF FreedIn, Victim, Deleting

LEMMA ChainEnd ==
    ASSUME TypeInv
    PROVE  LET s == DirChain(cwd)
           IN  Len(s) < DIR_MAX_CLUSTERS => fat[s[Len(s)]] \notin Cluster
  <1>1. DIR_MAX_CLUSTERS \in Nat /\ cwd \in Cluster /\ data \in [Cluster -> SectorData]
    BY State, DiskAssumption DEF DiskAssumption, Region
  <1>2. DirChain(cwd) # <<>>
    BY <1>1, LoadType
  <1> QED
    BY <1>1, <1>2, ChainSteps DEF DirChain

LEMMA CreateSpace ==
    ASSUME TypeInv, RestInv, Quiet, SpaceInv, NEW name, NEW blocks,
           CreateFile(name, blocks) \/ CreateDir(name)
    PROVE  SpaceInv'
  <1>1. /\ pc = "idle" /\ pc' \in {"alloc", "name"} /\ chain = <<>> /\ io = <<>>
        /\ dirc' = DirChain(cwd)
        /\ UNCHANGED <<fat, data, lost, chain, io>>
    BY DEF CreateFile, CreateDir, Start, Quiet, RestInv, disk
  <1>2. Len(chain) = 0 /\ Len(chain') = 0 /\ Len(io') = 0
    BY <1>1
  <1>3. Mine = {} /\ Mine' = {}
    BY <1>1, <1>2 DEF Mine, Claiming, Inserting, Extending, Freeing
  <1>4. PlacedIn(fat, data, lost, Mine)' /\ LostIn(fat, data, lost, Mine)'
    BY <1>1, <1>3, SpaceInRam, LostType
  <1>5. EndInv'
    BY <1>1, <1>2, ChainEnd DEF EndInv, LastDir, Extending, MarkToCome
  <1> QED
    BY <1>1, <1>4, <1>5, NothingFreed DEF SpaceInv, LinkedInv

LEMMA AllocSpace ==
    ASSUME TypeInv, NEW L, ChainsAt(L), SpaceInv, AllocCluster
    PROVE  SpaceInv'
  <1>1. /\ pc = "alloc" /\ pc' = "alloc" /\ FoundFree # 0
        /\ chain' = Append(chain, FoundFree)
        /\ UNCHANGED <<fat, data, lost, dirc>>
    BY DEF AllocCluster, disk
  <1>2. PICK c \in Cluster : c = FoundFree /\ fat[c] = 0
    BY <1>1, FreeBelongsToNothing
  <1>3. PICK n : n = Len(chain)
    OBVIOUS
  <1>4. /\ n \in Nat /\ Len(chain') = n + 1 /\ chain'[n + 1] = c
        /\ \A k \in 1..n : chain'[k] = chain[k] /\ chain[k] \in Cluster
    BY <1>1, <1>2, <1>3, State, AppendProperties
  <1>5. Claiming /\ Claiming' /\ ~Extending /\ ~Extending' /\ ~Freeing /\ ~Freeing'
    BY <1>1 DEF Claiming, Inserting, Extending, Freeing
  <1>6. Mine' = Mine \cup {c}
    <2>1. /\ Mine = {x \in Cluster : \E k \in 1..n : x = chain[k]}
          /\ Mine' = {x \in Cluster : \E k \in 1..(n + 1) : x = chain'[k]}
      BY <1>3, <1>4, <1>5 DEF Mine
    <2>2. 1..(n + 1) = 1..n \cup {n + 1}
      BY <1>4
    <2> QED
      BY <1>4, <2>1, <2>2
  <1>7. PlacedIn(fat, data, lost, Mine)' /\ LostIn(fat, data, lost, Mine)'
    BY <1>1, <1>2, <1>6, SpaceInRam, LostType
  <1>8. EndInv'
    <2>1. fat'[chain'[Len(chain')]] \notin Cluster
      BY <1>1, <1>2, <1>4, Values
    <2> QED
      BY <1>1, <1>5, <2>1 DEF EndInv, SpaceInv, LastDir
  <1> QED
    BY <1>1, <1>7, <1>8, NothingFreed DEF SpaceInv, LinkedInv

(* Once its contents are written, the chain of a new file is linked. *)
LEMMA ChainIsLinked ==
    ASSUME TypeInv, NEW L, ChainsAt(L), FilesInv, LinkedInv,
           \/ pc \in {"search", "extend", "retry", "place", "fail"}
           \/ pc = "save" /\ op.kind # "delete" /\ EntryToCome
    PROVE  Linked
  <1>1. Claiming
    BY DEF Claiming, Inserting
  <1>2. op.kind \in {"create", "mkdir"} /\ (op.kind = "mkdir" => Len(chain) <= 1)
    BY <1>1 DEF ChainsAt, ClaimInv, NewDirectory
  <1>3. Len(chain) \in Nat
    BY State
  <1>4. CASE op.kind = "mkdir"
    BY <1>2, <1>3, <1>4 DEF Linked
  <1>5. CASE pc = "fail"
    BY <1>5 DEF LinkedInv
  <1>6. CASE op.kind = "create" /\ pc # "fail"
    <2>1. Held(fat, data, FirstCluster, Len(op.blocks), chain)
      BY <1>6 DEF FilesInv, ReadyInv
    <2> QED
      BY <2>1 DEF Held, NextIn, Linked
  <1> QED
    BY <1>2, <1>4, <1>5, <1>6

(* A creation that fails: the disk is full, or the directory. *)
LEMMA FailSpace ==
    ASSUME TypeInv, Quiet, NEW L, ChainsAt(L), FilesInv, SpaceInv, AllocFails \/ InsertFails
    PROVE  SpaceInv'
  <1>1. /\ pc \in {"alloc", "extend", "fail"} /\ pc' \in {"idle", "abort"}
        /\ UNCHANGED <<fat, data>>
        /\ pc' = "idle" => chain = <<>>
        /\ pc' = "abort" => chain # <<>> /\ cur' = chain[1] /\ UNCHANGED <<chain, io>>
    BY DEF AllocFails, InsertFails, Finish, disk
  <1>2. io = <<>>
    BY <1>1 DEF AllocFails, InsertFails, Quiet
  <1>3. PICK n : n = Len(chain)
    OBVIOUS
  <1>4. /\ n \in Nat /\ (chain = <<>> <=> n = 0) /\ Len(io) = 0
        /\ \A k \in 1..n : chain[k] \in Cluster
    BY <1>2, <1>3, State
  <1>5. Claiming /\ ~Extending /\ ~Freeing /\ ~Claiming' /\ ~Extending' /\ (Freeing' <=> pc' = "abort")
    BY <1>1 DEF Claiming, Inserting, Extending, Freeing
  <1>6. Mine = {c \in Cluster : \E k \in 1..n : c = chain[k]}
    BY <1>3, <1>5 DEF Mine
  <1>7. Mine' = {c \in Cluster : n # 0 /\ c = chain[1]}
    <2>1. pc' = "abort" => Len(io') = 0
      BY <1>1, <1>4
    <2> QED
      BY <1>1, <1>4, <1>5, <2>1 DEF Mine
  <1>8. /\ \A k \in 1..n : ~Begins(data, chain[k]) /\ fat[chain[k]] # 0
        /\ \A k \in 1..n : \A x \in Cluster : fat[x] = chain[k] => k > 1 /\ x = chain[k - 1]
        /\ \A j, k \in 1..n : chain[j] = chain[k] => j = k
    <2>1. ~MarkToCome
      BY <1>4 DEF MarkToCome
    <2> QED
      BY <1>3, <1>5, <2>1 DEF ChainsAt, ClaimInv, Owned
  <1>9. ASSUME NEW k \in 1..n, k > 1
        PROVE  /\ chain[k] \notin Mine'
               /\ chain[k] \in lost' \/ Follows(fat, chain[k])
               /\ chain[k] \in lost' \ lost => ~Follows(fat, chain[k])
    <2>0. 1 \in 1..n /\ k - 1 \in 1..n /\ k - 1 < n /\ k \in 2..n /\ n # 0
      BY <1>4, <1>9
    <2>1. chain[k] \notin Mine'
      BY <1>7, <1>8, <1>9, <2>0
    <2>2. CASE AllocFails
      <3>1. pc = "alloc" /\ chain # <<>>
        BY <1>4, <2>0, <2>2 DEF AllocFails
      <3>2. lost' = lost \cup {chain[j] : j \in 2..n}
        BY <1>3, <2>2, <3>1 DEF AllocFails
      <3>3. fat[chain[k - 1]] = EOC
        BY <1>3, <2>0, <3>1 DEF FilesInv, MarkedInv
      <3>4. ~Follows(fat, chain[k])
        BY <1>4, <1>8, <3>3, Values DEF Follows
      <3> QED
        BY <2>0, <2>1, <3>2, <3>4
    <2>3. CASE InsertFails
      <3>1. UNCHANGED lost /\ pc \in {"extend", "fail"}
        BY <2>3 DEF InsertFails
      <3>2. fat[chain[k - 1]] = chain[k]
        <4>1. Linked
          BY <3>1, ChainIsLinked DEF SpaceInv
        <4> QED
          BY <1>3, <2>0, <4>1 DEF Linked
      <3>3. Follows(fat, chain[k])
        BY <1>4, <2>0, <3>2 DEF Follows
      <3> QED
        BY <2>1, <3>1, <3>3
    <2> QED
      BY <2>2, <2>3
  <1>10. lost \subseteq lost' /\ \A c \in lost' \ lost : \E k \in 1..n : k > 1 /\ c = chain[k]
    <2>1. CASE AllocFails
      <3>1. lost' = lost \/ lost' = lost \cup {chain[j] : j \in 2..n}
        BY <1>3, <2>1 DEF AllocFails
      <3> QED
        BY <1>4, <3>1
    <2>2. CASE InsertFails
      BY <2>2 DEF InsertFails
    <2> QED
      BY <2>1, <2>2
  <1>11. PlacedIn(fat, data, lost, Mine)' /\ LostIn(fat, data, lost, Mine)'
    <2>1. ASSUME NEW c \in Mine \ Mine'
          PROVE  Begins(data, c) \/ Follows(fat, c) \/ c \in lost'
      <3>1. PICK k \in 1..n : c = chain[k]
        BY <1>6, <2>1
      <3>2. k > 1
        BY <1>4, <1>7, <2>1, <3>1
      <3> QED
        BY <1>9, <3>1, <3>2
    <2>2. Mine' \subseteq Mine
      BY <1>4, <1>6, <1>7
    <2>3. \A c \in lost' \ lost : Stray(fat, data, Mine', c)
      BY <1>8, <1>9, <1>10 DEF Stray
    <2> QED
      BY <1>1, <1>10, <2>1, <2>2, <2>3, SpaceInRam, LostType
  <1> QED
    BY <1>1, <1>5, <1>11, NothingFreed DEF SpaceInv, EndInv, LinkedInv, MarkToCome

(* Steps of a creation that leave its clusters as they are. *)
LEMMA SameClaims ==
    ASSUME TypeInv, SpaceInv, UNCHANGED <<fat, data, lost, chain>>,
           Claiming, Claiming', ~Extending, ~Extending', ~Freeing, ~Freeing'
    PROVE  PlacedIn(fat, data, lost, Mine)' /\ LostIn(fat, data, lost, Mine)'
  <1>1. Mine = {c \in Cluster : \E k \in 1..Len(chain) : c = chain[k]} /\ Mine' = Mine
    BY DEF Mine
  <1> QED
    BY <1>1, SpaceInRam, LostType

LEMMA ContentsSpace ==
    ASSUME TypeInv, NEW L, ChainsAt(L), FilesInv, SpaceInv, WriteContents
    PROVE  SpaceInv'
  <1>1. /\ pc = "alloc" /\ pc' = "name" /\ io = <<>>
        /\ UNCHANGED <<fat, data, lost, chain, dirc>>
    BY DEF WriteContents, disk
  <1>2. Claiming /\ Claiming' /\ ~Extending /\ ~Extending' /\ ~Freeing /\ ~Freeing'
    BY <1>1 DEF Claiming, Inserting, Extending, Freeing
  <1>3. \A k \in 1..Len(chain) : fat[chain[k]] = EOC
    <2>1. ~MarkToCome
      <3>1. Len(io) = 0
        BY <1>1
      <3> QED
        BY <3>1 DEF MarkToCome
    <2> QED
      BY <1>1, <2>1 DEF FilesInv, MarkedInv
  <1>4. EndInv'
    <2>1. \A k \in 1..Len(chain') : fat'[chain'[k]] \notin Cluster
      BY <1>1, <1>3, Values
    <2> QED
      BY <1>1, <1>2, <2>1 DEF EndInv, SpaceInv, LastDir, MarkToCome
  <1> QED
    BY <1>1, <1>2, <1>4, SameClaims, NothingFreed DEF SpaceInv, LinkedInv

LEMMA ShortSpace ==
    ASSUME TypeInv, SpaceInv, ChooseShort
    PROVE  SpaceInv'
  <1>1. /\ pc = "name" /\ pc' = "search"
        /\ UNCHANGED <<fat, data, lost, chain, dirc>>
    BY DEF ChooseShort, disk
  <1>2. Claiming /\ Claiming' /\ ~Extending /\ ~Extending' /\ ~Freeing /\ ~Freeing'
    BY <1>1 DEF Claiming, Inserting, Extending, Freeing
  <1>3. EndInv'
    BY <1>1, <1>2 DEF EndInv, SpaceInv, LastDir, MarkToCome
  <1> QED
    BY <1>1, <1>2, <1>3, SameClaims, NothingFreed DEF SpaceInv, LinkedInv

LEMMA SearchSpace ==
    ASSUME TypeInv, NEW L, ChainsAt(L), FilesInv, SpaceInv, SearchRun
    PROVE  SpaceInv'
  <1>1. /\ pc \in {"search", "retry"} /\ pc' \in {"place", "extend", "fail"}
        /\ pc' = "extend" => pc = "search"
        /\ io = <<>> /\ UNCHANGED <<fat, data, lost, chain, dirc, io>>
    BY DEF SearchRun, disk
  <1>2. Claiming /\ Claiming' /\ ~Extending /\ ~Extending' /\ ~Freeing /\ ~Freeing'
    <2>1. Len(io) = 0
      BY <1>1
    <2> QED
      BY <1>1, <2>1 DEF Claiming, Inserting, Extending, Freeing
  <1>3. EndInv'
    BY <1>1, <1>2 DEF EndInv, SpaceInv, LastDir, MarkToCome
  <1>4. Linked'
    <2>1. Linked
      BY <1>1, ChainIsLinked DEF SpaceInv
    <2> QED
      BY <1>1, <2>1 DEF Linked
  <1> QED
    BY <1>1, <1>2, <1>3, <1>4, SameClaims, NothingFreed DEF SpaceInv, LinkedInv

LEMMA PlaceSpace ==
    ASSUME TypeInv, TypeInv', NEW L, ChainsAt(L), ChainsAt(L)', SpaceInv, PlaceEntry
    PROVE  SpaceInv'
  <1>1. /\ pc = "place" /\ pc' = "save" /\ op'.kind = op.kind
        /\ io' = SaveWrites(img', dirc)
        /\ UNCHANGED <<fat, data, lost, chain, dirc>>
    BY DEF PlaceEntry, disk
  <1>2. op'.kind \in {"create", "mkdir"}
    BY <1>1 DEF ChainsAt, ClaimInv, Claiming, Inserting
  <1>3. EntryToCome'
    <2>1. op'.slot \in 1..Capacity(img')
      BY <1>1 DEF ChainsAt, SaveInv
    <2>2. img' \in Seq(Sector)
      BY DEF TypeInv, TypeOK
    <2>3. PICK k \in 1..Len(img'), e \in SlotNo : Position(k, e) = op'.slot
      BY <2>1, <2>2, SlotPlace
    <2>4. Len(io') = Len(img') /\ Len(img') \in Nat
      BY <1>1, <2>2, SaveSequence, LenProperties
    <2>5. k > Len(img') - Len(io')
      BY <2>4
    <2> QED
      BY <2>3, <2>5 DEF EntryToCome, ToCome
  <1>4. Claiming /\ Claiming' /\ ~Extending /\ ~Extending' /\ ~Freeing /\ ~Freeing'
    BY <1>1, <1>2, <1>3 DEF Claiming, Inserting, Extending, Freeing
  <1>5. EndInv'
    BY <1>1, <1>4 DEF EndInv, MarkToCome
  <1> QED
    BY <1>1, <1>2, <1>4, <1>5, SameClaims, NothingFreed DEF SpaceInv, LinkedInv

LEMMA ExtendSpace ==
    ASSUME TypeInv, Quiet, NEW L, ChainsAt(L), SpaceInv, ExtendDir
    PROVE  SpaceInv'
  <1>1. /\ pc = "extend" /\ pc' = "retry" /\ FoundFree # 0 /\ Len(dirc) < DIR_MAX_CLUSTERS
        /\ dirc' = Append(dirc, FoundFree)
        /\ io' = ExtensionWrites(FoundFree, LastDir)
        /\ UNCHANGED <<fat, data, lost, chain>>
    BY DEF ExtendDir, disk, LastDir
  <1>2. PICK c \in Cluster : c = FoundFree /\ fat[c] = 0
    BY <1>1, FreeBelongsToNothing
  <1>3. PICK n : n = Len(dirc)
    OBVIOUS
  <1>4. /\ n \in Nat /\ n # 0 /\ Len(dirc') = n + 1 /\ dirc'[n + 1] = c
        /\ dirc'[n] = LastDir /\ LastDir \in Cluster
    <2>1. n \in Nat \ {0} /\ dirc \in Seq(Cluster)
      BY <1>1, <1>3, State, Ends DEF TypeInv, Loaded
    <2>2. n \in 1..n
      BY <2>1
    <2> QED
      BY <1>1, <1>2, <1>3, <2>1, <2>2, State, AppendProperties DEF LastDir
  <1>5. Len(io') = 7
    BY <1>1, <1>2, <1>4, ExtensionSequence
  <1>6. Claiming /\ Claiming' /\ ~Extending /\ Extending' /\ ~Freeing /\ ~Freeing'
    BY <1>1, <1>5 DEF Claiming, Inserting, Extending, Freeing
  <1>7. Mine' = Mine \cup {c}
    BY <1>1, <1>2, <1>4, <1>6 DEF Mine
  <1>8. PlacedIn(fat, data, lost, Mine)' /\ LostIn(fat, data, lost, Mine)'
    BY <1>1, <1>2, <1>7, SpaceInRam, LostType
  <1>9. EndInv'
    <2>1. fat[LastDir] \notin Cluster
      BY <1>1 DEF SpaceInv, EndInv
    <2>2. /\ fat'[dirc'[Len(dirc') - 1]] \notin Cluster
          /\ fat'[dirc'[Len(dirc')]] \notin Cluster
      BY <1>1, <1>2, <1>4, <2>1, Values
    <2> QED
      BY <1>1, <2>2 DEF EndInv, LastDir, MarkToCome
  <1> QED
    BY <1>1, <1>8, <1>9, NothingFreed DEF SpaceInv, LinkedInv

(* The deletion.  What it is about to free is what the entry names. *)
LEMMA DeleteSpace ==
    ASSUME TypeInv, Quiet, NEW L, ChainsAt(L), SpaceInv, NEW name, DeleteFile(name)
    PROVE  SpaceInv'
  <1>1. /\ pc = "idle" /\ pc' = "free" /\ io = <<>> /\ io' = <<>>
        /\ dirc' = DirChain(cwd) /\ img' = Load(cwd)
        /\ op'.kind = "delete" /\ op'.slot = Find(Load(cwd), name) /\ op'.slot # 0
        /\ At(img', op'.slot).tag = "file" /\ cur' = At(img', op'.slot).cluster
        /\ UNCHANGED <<fat, data, lost>>
    BY DEF DeleteFile, Start, disk, Quiet
  <1>2. DiskAt(L, fat, data, {}) /\ cwd \in Parents(data)
    BY <1>1 DEF ChainsAt, DiskInv, Victim, Deleting
  <1>3. /\ dirc' \in Seq(Cluster) /\ img' \in Seq(Sector) /\ Len(img') = Len(dirc')
        /\ \A k \in 1..Len(dirc') : img'[k] = SlotsOf(data[dirc'[k]])
    <2>1. data \in [Cluster -> SectorData] /\ cwd \in Cluster
      BY State DEF Region
    <2> QED
      BY <1>1, <1>2, <2>1, StartLoads, LoadType
  <1>4. op'.slot \in 1..Capacity(img')
    BY <1>1, <1>3, FindType, VisibleType
  <1>5. Begins(data, cur')
    <2>1. data \in Region
      BY State
    <2>2. PICK k \in 1..Len(dirc'), e \in SlotNo :
             /\ <<dirc'[k], e>> \in Spot
             /\ EntryOf(data, <<dirc'[k], e>>) = At(img', op'.slot)
      BY <1>3, <1>4, <2>1, ImagePlace
    <2>3. PICK p \in Spot : p = <<dirc'[k], e>>
      BY <2>2
    <2>4. EntryOf(data, p).tag = "file" /\ EntryOf(data, p).cluster = cur'
      BY <1>1, <2>2, <2>3
    <2> QED
      BY <2>4 DEF Begins, Shown, IsVisible
  <1>6. ~Claiming /\ ~Extending /\ ~Freeing /\ ~Claiming' /\ ~Extending' /\ Freeing' /\ Len(io') = 0
    BY <1>1 DEF Claiming, Inserting, Extending, Freeing
  <1>7. Mine = {} /\ Mine' = {c \in Cluster : c = cur'}
    BY <1>6 DEF Mine
  <1>8. PlacedIn(fat, data, lost, Mine)' /\ LostIn(fat, data, lost, Mine)'
    BY <1>1, <1>5, <1>7, SpaceInRam, LostType
  <1>9. FreedIn(fat, data, Victim, Mine)'
    <2>1. PICK d, X : d = data /\ X = Victim'
      OBVIOUS
    <2>2. d \in Region
      BY <2>1, State
    <2>3. ASSUME NEW p \in Shown(d) \cap X
          PROVE  EntryOf(d, p).cluster = 0 \/ EntryOf(d, p).cluster \in Mine'
      <3>1. PICK k \in 1..Len(dirc') :
               p \in Spot /\ p[1] = dirc'[k] /\ Position(k, p[2]) = op'.slot
        BY <1>1, <2>1, <2>3 DEF Victim, Deleting
      <3>2. p[2] \in SlotNo
        BY <2>2, <2>3, ShownType
      <3>3. At(img', op'.slot) = img'[k][p[2]]
        BY <1>3, <3>1, <3>2, PositionAt
      <3>4. EntryOf(d, p) = img'[k][p[2]]
        BY <1>3, <2>1, <3>1 DEF EntryOf
      <3>5. EntryOf(d, p).cluster = cur' /\ EntryOf(d, p).cluster \in Cluster \cup {0}
        BY <1>1, <2>2, <2>3, <3>3, <3>4, ShownType
      <3> QED
        BY <1>7, <3>5
    <2>4. FreedIn(fat', d, X, Mine')
      BY <2>3 DEF FreedIn
    <2> QED
      BY <1>1, <2>1, <2>4
  <1> QED
    BY <1>1, <1>6, <1>8, <1>9 DEF SpaceInv, EndInv, LinkedInv, MarkToCome

(* A deletion goes on. *)
LEMMA FreedStep ==
    ASSUME NEW f, NEW d, NEW X, NEW M, FreedIn(f, d, X, M), NEW g, NEW e, NEW N,
           \A p \in Shown(e) \cap X : p \in Shown(d) /\ EntryOf(e, p) = EntryOf(d, p),
           \A c \in Cluster : f[c] = 0 \/ c \in M => g[c] = 0 \/ c \in N,
           \A p \in Shown(d) : EntryOf(d, p).cluster \in Cluster \cup {0}
    PROVE  FreedIn(g, e, X, N)
  BY DEF FreedIn

LEMMA StillFreed ==
    ASSUME TypeInv, SpaceInv, UNCHANGED <<fat, data>>, Victim' = Victim, Mine \subseteq Mine'
    PROVE  FreedIn(fat, data, Victim, Mine)'
  <1>1. PICK f, d, X, M, N : f = fat /\ d = data /\ X = Victim /\ M = Mine /\ N = Mine'
    OBVIOUS
  <1>2. FreedIn(f, d, X, M)
    BY <1>1 DEF SpaceInv
  <1>3. FreedIn(f, d, X, N)
    BY <1>1, <1>2 DEF FreedIn
  <1> QED
    BY <1>1, <1>3

LEMMA FreeSpace ==
    ASSUME TypeInv, SpaceInv, FreeCluster
    PROVE  SpaceInv'
  <1>1. /\ pc \in {"free", "abort"} /\ io = <<>> /\ cur # 0
        /\ cur' = IF InRange(fat[cur]) THEN fat[cur] ELSE 0
        /\ io' = WriteEntry(cur, 0)
        /\ UNCHANGED <<fat, data, pc, op, dirc, chain, lost>>
    BY DEF FreeCluster, NextToFree, disk
  <1>2. PICK c \in Cluster : c = cur
    BY <1>1, State
  <1>3. Len(io) = 0 /\ Len(io') = 2 /\ io'[1].cluster = c
    BY <1>1, <1>2 DEF WriteEntry
  <1>4. ~Claiming /\ ~Extending /\ Freeing /\ ~Claiming' /\ ~Extending' /\ Freeing'
    BY <1>1 DEF Claiming, Inserting, Extending, Freeing
  <1>5. Mine = {c} /\ Mine' = {x \in Cluster : x = c \/ x = cur'}
    BY <1>2, <1>3, <1>4 DEF Mine
  <1>6. cur' \in Cluster => Follows(fat, cur')
    BY <1>1, <1>2, Values DEF Follows, InRange
  <1>7. PlacedIn(fat, data, lost, Mine)' /\ LostIn(fat, data, lost, Mine)'
    BY <1>1, <1>5, <1>6, SpaceInRam, LostType
  <1>8. FreedIn(fat, data, Victim, Mine)'
    <2>1. Victim' = Victim
      BY <1>1 DEF Victim, Deleting
    <2> QED
      BY <1>1, <1>5, <2>1, StillFreed
  <1> QED
    BY <1>1, <1>4, <1>7, <1>8 DEF SpaceInv, EndInv, LinkedInv, MarkToCome

LEMMA MarkSpace ==
    ASSUME TypeInv, NEW L, ChainsAt(L), SpaceInv, MarkEntry
    PROVE  SpaceInv'
  <1>1. /\ pc = "free" /\ pc' = "save" /\ io = <<>> /\ cur = 0 /\ cur' = 0
        /\ op.kind = "delete"
        /\ UNCHANGED <<fat, data, op, dirc, lost>>
    BY DEF MarkEntry, disk, ChainsAt, FreeInv
  <1>2. ~Claiming /\ ~Extending /\ Freeing /\ ~Claiming' /\ ~Extending' /\ ~Freeing' /\ Len(io) = 0
    BY <1>1 DEF Claiming, Inserting, Extending, Freeing
  <1>3. Mine = {} /\ Mine' = {}
    BY <1>1, <1>2, Values DEF Mine
  <1>4. PlacedIn(fat, data, lost, Mine)' /\ LostIn(fat, data, lost, Mine)'
    BY <1>1, <1>3, SpaceInRam, LostType
  <1>5. FreedIn(fat, data, Victim, Mine)'
    <2>1. Victim' = Victim
      BY <1>1 DEF Victim, Deleting
    <2> QED
      BY <1>1, <1>3, <2>1, StillFreed
  <1> QED
    BY <1>1, <1>2, <1>4, <1>5 DEF SpaceInv, EndInv, LinkedInv, MarkToCome

LEMMA ReturnSpace ==
    ASSUME TypeInv, SpaceInv, Return
    PROVE  SpaceInv'
  <1>1. /\ io = <<>> /\ pc' = "idle" /\ UNCHANGED <<fat, data, lost>>
        /\ pc = "save" \/ (pc = "abort" /\ cur = 0)
    BY DEF Return, Finish, disk
  <1>2. Len(img) \in Nat /\ Len(io) = 0
    BY <1>1, State
  <1>3. ~EntryToCome
    BY <1>2 DEF EntryToCome, ToCome
  <1>4. /\ ~Claiming /\ ~Extending /\ (Freeing => cur = 0)
        /\ ~Claiming' /\ ~Extending' /\ ~Freeing'
    BY <1>1, <1>3 DEF Claiming, Inserting, Extending, Freeing
  <1>5. Mine = {} /\ Mine' = {}
    BY <1>2, <1>4, Values DEF Mine
  <1>6. PlacedIn(fat, data, lost, Mine)' /\ LostIn(fat, data, lost, Mine)'
    BY <1>1, <1>5, SpaceInRam, LostType
  <1> QED
    BY <1>1, <1>4, <1>6, NothingFreed DEF SpaceInv, EndInv, LinkedInv, MarkToCome

LEMMA ChangeSpace ==
    ASSUME TypeInv, SpaceInv, (\E d : ChangeDir(d)) \/ Boot
    PROVE  SpaceInv'
  <1>1. /\ pc \in {"idle", "off"} /\ pc' \in {"idle", "format"} /\ UNCHANGED <<fat, data, lost>>
    BY DEF ChangeDir, Boot, disk, ram
  <1>2. ~Claiming /\ ~Extending /\ ~Freeing /\ ~Claiming' /\ ~Extending' /\ ~Freeing'
    BY <1>1 DEF Claiming, Inserting, Extending, Freeing
  <1>3. Mine = {} /\ Mine' = {}
    BY <1>2 DEF Mine
  <1>4. PlacedIn(fat, data, lost, Mine)' /\ LostIn(fat, data, lost, Mine)'
    BY <1>1, <1>3, SpaceInRam, LostType
  <1> QED
    BY <1>1, <1>2, <1>4, NothingFreed DEF SpaceInv, EndInv, LinkedInv, MarkToCome

(* The disk as formatted: the root, and nothing else. *)
LEMMA FormatDoneSpace ==
    ASSUME TypeInv, FormatInv, FormatDone, boot = "fat32", lost = {}
    PROVE  SpaceInv'
  <1>1. /\ pc = "format" /\ pc' = "idle" /\ io = <<>> /\ lost' = {} /\ UNCHANGED <<fat, data>>
    BY DEF FormatDone, disk
  <1>2. \A c \in Cluster : fat[c] # 0 => c = Root
    <2>1. PICK k \in 2..7 :
             /\ io = Rest(k)
             /\ k > 2 => \A c \in Cluster : fat[c] = IF c = Root /\ k > 4 THEN EOC ELSE 0
      BY <1>1 DEF FormatInv
    <2>2. k > 2
      BY <1>1, <2>1, RestSteps
    <2> QED
      BY <2>1, <2>2
  <1>3. PlacedIn(fat, data, lost, Mine)' /\ LostIn(fat, data, lost, Mine)'
    BY <1>1, <1>2 DEF PlacedIn, LostIn
  <1>4. ~Extending'
    BY <1>1 DEF Extending
  <1> QED
    BY <1>1, <1>3, <1>4, NothingFreed DEF SpaceInv, EndInv, LinkedInv, MarkToCome

(* The sector writes.  A mark or a link goes where no link is. *)
LEMMA TableWrite ==
    ASSUME NEW f \in Table32, NEW d, NEW M, NEW N, N \subseteq M, NEW gone,
           NEW c \in Cluster, NEW v \in FatValue \ {0}, NEW g, g = [f EXCEPT ![c] = v],
           f[c] \notin Cluster \/ f[c] = v, f[c] = 0 => c \in N, v \in Cluster => v \in M,
           \A x \in M \ N : x = v
    PROVE  Keeps(f, d, M, g, d, gone, N) /\ Spares(f, d, M, g, d, N)
  <1>1. g[c] = v /\ \A x \in Cluster : x # c => g[x] = f[x]
    BY DEF Table32
  <1>2. \A x \in M \ N : Follows(g, x)
    BY <1>1 DEF Follows
  <1>3. \A x \in Cluster : Follows(g, x) => Follows(f, x) \/ x \in M
    BY <1>1 DEF Follows
  <1> QED
    BY <1>1, <1>2, <1>3 DEF Keeps, Spares

(* What a creation claims, at a step that changes neither pc nor its chain. *)
LEMMA ClaimsKept ==
    ASSUME Inserting, ~Extending, ~Extending', UNCHANGED <<pc, chain>>
    PROVE  Mine = {c \in Cluster : \E k \in 1..Len(chain) : c = chain[k]} /\ Mine' = Mine
  <1>1. Claiming /\ Claiming' /\ ~Freeing /\ ~Freeing'
    BY DEF Claiming, Inserting, Freeing
  <1> QED
    BY <1>1 DEF Mine

LEMMA AllocWriteSpace ==
    ASSUME TypeInv, NEW L, ChainsAt(L), SpaceInv, DiskWrite, pc = "alloc"
    PROVE  SpaceInv'
  <1>1. /\ io # <<>> /\ io' = Tail(io) /\ UNCHANGED <<pc, chain, dirc, lost>>
    BY WriteStep
  <1>2. chain # <<>>
    BY <1>1 DEF ChainsAt, ClaimInv, Marking
  <1>3. PICK n \in Nat \ {0}, c \in Cluster : n = Len(chain) /\ c = chain[n]
    BY <1>2, State, Ends
  <1>4. io = WriteEntry(c, EOC) \/ io = Tail(WriteEntry(c, EOC))
    BY <1>1, <1>3 DEF ChainsAt, ClaimInv, Marking
  <1>5. /\ data' = data /\ Len(io') # 2
        /\ (fat' = [fat EXCEPT ![c] = EOC] /\ MarkToCome) \/ fat' = fat
    <2>1. CASE io = WriteEntry(c, EOC)
      <3>1. /\ io[1] = [to |-> "fat", copy |-> 0, cluster |-> c, value |-> EOC]
            /\ Len(io) = 2 /\ Len(io') = 1
        BY <1>1, <2>1, EntryWrites
      <3> QED
        BY <3>1, SectorStep DEF MarkToCome
    <2>2. CASE io = Tail(WriteEntry(c, EOC))
      <3>1. io[1] = [to |-> "fat", copy |-> 1, cluster |-> c, value |-> EOC] /\ Len(io) = 1
        BY <1>1, <2>2, EntryWrites
      <3>2. Len(io') = 0
        BY <3>1, WriteStep
      <3> QED
        BY <3>1, <3>2, SectorStep
    <2> QED
      BY <1>4, <2>1, <2>2
  <1>6. Inserting /\ ~Extending /\ ~Extending' /\ ~MarkToCome'
    BY <1>1, <1>5 DEF Inserting, Extending, MarkToCome
  <1>7. c \in Mine /\ Mine' = Mine
    <2>1. n \in 1..Len(chain)
      BY <1>3
    <2> QED
      BY <1>1, <1>3, <1>6, <2>1, ClaimsKept
  <1>8. fat \in Table32 /\ Len(dirc) \in Nat
    BY State
  <1>9. PlacedIn(fat, data, lost, Mine)' /\ LostIn(fat, data, lost, Mine)'
    <2>1. CASE fat' = fat
      BY <1>1, <1>5, <1>7, <2>1, SpaceInRam, LostType
    <2>2. CASE fat' = [fat EXCEPT ![c] = EOC] /\ MarkToCome
      <3>1. PICK f, d, M, g : f \in Table32 /\ f = fat /\ d = data /\ M = Mine /\ g = fat'
        BY <1>8
      <3>2. f[c] \notin Cluster
        BY <1>3, <2>2, <3>1 DEF SpaceInv, EndInv
      <3>3. EOC \in FatValue \ {0} /\ EOC \notin Cluster
        BY Values DEF FatValue
      <3>4. Keeps(f, d, M, g, d, lost, M) /\ Spares(f, d, M, g, d, M)
        BY <1>7, <2>2, <3>1, <3>2, <3>3, TableWrite
      <3> QED
        BY <1>1, <1>5, <1>7, <3>1, <3>4, SpaceOnDisk, LostType
    <2> QED
      BY <1>5, <2>1, <2>2
  <1>10. EndInv'
    <2>1. ASSUME Len(dirc) < DIR_MAX_CLUSTERS
          PROVE  fat'[LastDir] \notin Cluster
      <3>1. fat[LastDir] \notin Cluster
        BY <2>1 DEF SpaceInv, EndInv
      <3>2. LastDir \in Cluster
        BY State, Ends DEF LastDir, TypeInv, Loaded
      <3> QED
        BY <1>5, <1>8, <3>1, <3>2, Values DEF Table32
    <2> QED
      BY <1>1, <1>6, <2>1 DEF EndInv, LastDir
  <1> QED
    BY <1>1, <1>9, <1>10, NothingFreed DEF SpaceInv, LinkedInv

(* free_cluster_chain: what is freed leaves a successor that is freed next. *)
LEMMA ChainWriteSpace ==
    ASSUME TypeInv, NEW L, ChainsAt(L), SpaceInv, DiskWrite, pc \in {"free", "abort"}
    PROVE  SpaceInv'
  <1>1. /\ io # <<>> /\ io' = Tail(io) /\ Len(io') = Len(io) - 1 /\ Len(io) \in Nat
        /\ UNCHANGED <<pc, op, dirc, chain, cur, lost>> /\ Victim' = Victim
    BY WriteStep
  <1>2. ~Claiming /\ ~Extending /\ Freeing /\ ~Claiming' /\ ~Extending' /\ Freeing'
    BY <1>1 DEF Claiming, Inserting, Extending, Freeing
  <1>3. fat \in Table32 /\ data \in Region
    BY State
  <1>4. CASE \E c \in Cluster : io = Tail(WriteEntry(c, 0))
    <2>1. PICK c \in Cluster : io = Tail(WriteEntry(c, 0))
      BY <1>4
    <2>2. /\ io[1] = [to |-> "fat", copy |-> 1, cluster |-> c, value |-> 0]
          /\ Len(io) = 1 /\ Len(io') = 0
      BY <1>1, <2>1, EntryWrites
    <2>3. fat' = fat /\ data' = data
      BY <2>2, SectorStep
    <2>4. Mine' = Mine
      BY <1>1, <1>2, <2>2 DEF Mine
    <2>5. PlacedIn(fat, data, lost, Mine)' /\ LostIn(fat, data, lost, Mine)'
      BY <1>1, <2>3, <2>4, SpaceInRam, LostType
    <2>6. FreedIn(fat, data, Victim, Mine)'
      BY <1>1, <2>3, <2>4, StillFreed
    <2> QED
      BY <1>1, <1>2, <2>5, <2>6 DEF SpaceInv, EndInv, LinkedInv, MarkToCome
  <1>5. CASE ~(\E c \in Cluster : io = Tail(WriteEntry(c, 0)))
    <2>1. PICK c \in Cluster :
             io = WriteEntry(c, 0) /\ cur = IF InRange(fat[c]) THEN fat[c] ELSE 0
      BY <1>1, <1>5 DEF ChainsAt, FreeInv
    <2>2. /\ io[1] = [to |-> "fat", copy |-> 0, cluster |-> c, value |-> 0]
          /\ Len(io) = 2 /\ Len(io') = 1
      BY <1>1, <2>1, EntryWrites
    <2>3. fat' = [fat EXCEPT ![c] = 0] /\ data' = data
      BY <2>2, SectorStep
    <2>4. Mine = {x \in Cluster : x = cur \/ x = c} /\ Mine' = {x \in Cluster : x = cur}
      <3>1. io[1].cluster = c
        BY <2>2
      <3>2. Mine = {x \in Cluster : x = cur \/ x = c}
        BY <1>2, <2>2, <3>1 DEF Mine
      <3>3. Mine' = {x \in Cluster : x = cur}
        <4>1. Len(io') # 2
          BY <2>2
        <4> QED
          BY <1>1, <1>2, <4>1 DEF Mine
      <3> QED
        BY <3>2, <3>3
    <2>5. PICK f \in Table32, d \in Region : f = fat /\ d = data
      BY <1>3
    <2>6. PICK M, N, g, X :
             /\ f = fat /\ d = data /\ M = Mine /\ N = Mine' /\ g = fat' /\ X = Victim
      BY <2>5
    <2>7. /\ g[c] = 0 /\ c \in M /\ \A x \in Cluster : x # c => g[x] = f[x]
          /\ N \subseteq M /\ M \ N \subseteq {c} /\ (f[c] \in Cluster => f[c] \in N)
      BY <2>1, <2>3, <2>4, <2>6 DEF Table32, InRange
    <2>8. Keeps(f, d, M, g, d, lost, N) /\ Spares(f, d, M, g, d, N)
      <3>1. \A x \in Cluster : Follows(g, x) => Follows(f, x)
        BY <2>7, Values DEF Follows
      <3> QED
        BY <2>7, <3>1 DEF Keeps, Spares
    <2>9. PlacedIn(fat, data, lost, Mine)' /\ LostIn(fat, data, lost, Mine)'
      BY <1>1, <2>3, <2>6, <2>8, SpaceOnDisk, LostType
    <2>10. FreedIn(fat, data, Victim, Mine)'
      <3>1. FreedIn(f, d, X, M)
        BY <2>6 DEF SpaceInv
      <3>2. \A p \in Shown(d) : EntryOf(d, p).cluster \in Cluster \cup {0}
        BY ShownType
      <3>3. FreedIn(g, d, X, N)
        BY <2>7, <3>1, <3>2, FreedStep
      <3> QED
        BY <1>1, <2>3, <2>6, <3>3
    <2> QED
      BY <1>1, <1>2, <2>9, <2>10 DEF SpaceInv, EndInv, LinkedInv, MarkToCome
  <1> QED
    BY <1>4, <1>5

LEMMA DataWrite ==
    ASSUME NEW f, NEW d, NEW e, Alike(d, e), NEW M, NEW gone
    PROVE  Keeps(f, d, M, f, e, gone, M) /\ Spares(f, d, M, f, e, M)
  BY DEF Alike, Keeps, Spares

(* A write outside the directories. *)
LEMMA OutsideWrite ==
    ASSUME TypeInv, NEW L, ChainsAt(L), SpaceInv, lost' = lost, Mine' = Mine, fat' = fat,
           NEW c \in Cluster \ L, NEW v \in SectorData, data' = [data EXCEPT ![c] = v],
           \A e \in SlotNo : ~IsVisible(SlotsOf(v)[e])
    PROVE  PlacedIn(fat, data, lost, Mine)' /\ LostIn(fat, data, lost, Mine)'
  <1>0. PICK f \in Table32, d \in Region : f = fat /\ d = data
    BY State
  <1>1. PICK M, e, X : f = fat /\ d = data /\ M = Mine /\ e = data' /\ X = Victim
    BY <1>0
  <1>2. DiskAt(L, f, d, X)
    BY <1>1 DEF ChainsAt, DiskInv
  <1>3. Stored(d, c, v, e)
    BY <1>1 DEF Stored
  <1>4. Alike(d, e)
    BY <1>2, <1>3, WriteOutside
  <1>5. Keeps(f, d, M, f, e, lost, M) /\ Spares(f, d, M, f, e, M)
    BY <1>4, DataWrite
  <1> QED
    BY <1>1, <1>5, SpaceOnDisk, LostType

LEMMA NameWriteSpace ==
    ASSUME TypeInv, NEW L, ChainsAt(L), SpaceInv, DiskWrite, pc = "name"
    PROVE  SpaceInv'
  <1>1. /\ io # <<>> /\ io[1] \in Write /\ Len(io) \in Nat \ {0}
        /\ UNCHANGED <<pc, chain, dirc, lost>>
    BY WriteStep
  <1>2. PICK w \in Write : w = io[1]
    BY <1>1
  <1>3. LinkWrite(w) \/ ContentWrite(w)
    <2>1. 1 \in 1..Len(io)
      BY <1>1
    <2> QED
      BY <1>2, <2>1 DEF ChainsAt, ClaimInv
  <1>4. Inserting /\ Claiming /\ ~Extending /\ ~Extending' /\ ~MarkToCome /\ ~MarkToCome'
    BY <1>1 DEF Inserting, Claiming, Extending, MarkToCome
  <1>5. /\ \A k \in 1..Len(chain) : chain[k] \notin L /\ fat[chain[k]] # 0
        /\ \A j, k \in 1..Len(chain) : chain[j] = chain[k] => j = k
    BY <1>4 DEF ChainsAt, ClaimInv, Owned
  <1>6. fat \in Table32 /\ Len(chain) \in Nat /\ \A k \in 1..Len(chain) : chain[k] \in Cluster
    BY State
  <1>7. Mine = {c \in Cluster : \E k \in 1..Len(chain) : c = chain[k]} /\ Mine' = Mine
    BY <1>1, <1>4, ClaimsKept
  <1>8. \A k \in 1..Len(chain) :
           fat[chain[k]] \in Cluster => k < Len(chain) /\ fat[chain[k]] = chain[k + 1]
    BY DEF SpaceInv, EndInv
  <1>9. /\ LastDir \in Cluster /\ \A k \in 1..Len(chain) : chain[k] # LastDir
        /\ Len(dirc) < DIR_MAX_CLUSTERS => fat[LastDir] \notin Cluster
    <2>1. dirc \in Seq(Cluster) /\ dirc # <<>> /\ Len(dirc) \in Nat
      BY State DEF TypeInv, Loaded
    <2>2. Len(dirc) \in 1..Len(dirc) /\ LastDir \in Cluster
      BY <2>1, Ends DEF LastDir
    <2>3. LastDir \in L
      BY <1>4, <2>2 DEF ChainsAt, LoadInv, LastDir
    <2> QED
      BY <1>5, <2>2, <2>3 DEF SpaceInv, EndInv
  <1>10. CASE data' = data /\ fat' = fat
    <2>1. PlacedIn(fat, data, lost, Mine)' /\ LostIn(fat, data, lost, Mine)'
      BY <1>1, <1>7, <1>10, SpaceInRam, LostType
    <2>2. EndInv'
      BY <1>1, <1>4, <1>8, <1>9, <1>10 DEF EndInv, LastDir
    <2> QED
      BY <1>1, <2>1, <2>2, NothingFreed DEF SpaceInv, LinkedInv
  <1>11. CASE /\ data' = data
              /\ \E k \in 1..(Len(chain) - 1) : fat' = [fat EXCEPT ![chain[k]] = chain[k + 1]]
    <2>1. PICK k \in 1..(Len(chain) - 1) : fat' = [fat EXCEPT ![chain[k]] = chain[k + 1]]
      BY <1>11
    <2>2. k \in 1..Len(chain) /\ k + 1 \in 1..Len(chain) /\ k < Len(chain)
      BY <1>6
    <2>3. PICK c \in Cluster, v \in Cluster : c = chain[k] /\ v = chain[k + 1]
      BY <1>6, <2>2
    <2>4. PICK f, d, M, g : f = fat /\ d = data /\ M = Mine /\ g = fat' /\ f \in Table32
      BY <1>6
    <2>5. /\ f \in Table32 /\ f = fat /\ d = data /\ M = Mine /\ g = fat'
          /\ c = chain[k] /\ v = chain[k + 1]
      BY <2>3, <2>4
    <2>6. c \in M /\ v \in M /\ v \in FatValue \ {0} /\ (f[c] \notin Cluster \/ f[c] = v)
      BY <1>7, <1>8, <2>2, <2>5, Values DEF FatValue
    <2>7. Keeps(f, d, M, g, d, lost, M) /\ Spares(f, d, M, g, d, M)
      BY <2>1, <2>5, <2>6, TableWrite
    <2>8. PlacedIn(fat, data, lost, Mine)' /\ LostIn(fat, data, lost, Mine)'
      BY <1>1, <1>7, <1>11, <2>5, <2>7, SpaceOnDisk, LostType
    <2>9. \A y \in Cluster : g[y] = IF y = c THEN v ELSE f[y]
      BY <2>1, <2>5 DEF Table32
    <2>10. EndInv'
      <3>1. Len(dirc) < DIR_MAX_CLUSTERS => fat'[LastDir] \notin Cluster
        BY <1>9, <2>2, <2>5, <2>9
      <3>2. ASSUME NEW j \in 1..Len(chain), fat'[chain[j]] \in Cluster
            PROVE  j < Len(chain) /\ fat'[chain[j]] = chain[j + 1]
        <4>1. CASE j = k
          BY <2>2, <2>5, <2>9, <4>1
        <4>2. CASE j # k
          <5>1. chain[j] # c /\ chain[j] \in Cluster
            BY <1>5, <1>6, <2>2, <2>5, <4>2
          <5>2. fat'[chain[j]] = fat[chain[j]]
            BY <2>5, <2>9, <5>1
          <5> QED
            BY <1>8, <3>2, <5>2
        <4> QED
          BY <4>1, <4>2
      <3> QED
        BY <1>1, <1>4, <3>1, <3>2 DEF EndInv, LastDir
    <2> QED
      BY <1>1, <2>8, <2>10, NothingFreed DEF SpaceInv, LinkedInv
  <1>12. CASE ContentWrite(w)
    <2>1. PICK k \in 1..Len(chain) : w.to = "data" /\ w.cluster = chain[k]
      BY <1>12 DEF ContentWrite
    <2>2. /\ w.value \in SectorData /\ fat' = fat /\ w.cluster \in Cluster \ L
          /\ data' = [data EXCEPT ![w.cluster] = w.value]
      BY <1>2, <1>5, <2>1, SectorStep
    <2>3. \A e \in SlotNo : ~IsVisible(SlotsOf(w.value)[e])
      BY <1>12, ContentsShowNothing DEF ContentWrite
    <2>4. PlacedIn(fat, data, lost, Mine)' /\ LostIn(fat, data, lost, Mine)'
      BY <1>1, <1>7, <2>2, <2>3, OutsideWrite
    <2>5. EndInv'
      BY <1>1, <1>4, <1>8, <1>9, <2>2 DEF EndInv, LastDir
    <2> QED
      BY <1>1, <2>4, <2>5, NothingFreed DEF SpaceInv, LinkedInv
  <1>13. CASE LinkWrite(w)
    <2>1. PICK k \in 1..(Len(chain) - 1) :
             w.to = "fat" /\ w.cluster = chain[k] /\ w.value = chain[k + 1]
      BY <1>13 DEF LinkWrite
    <2>2. data' = data /\ (fat' = fat \/ fat' = [fat EXCEPT ![chain[k]] = chain[k + 1]])
      BY <1>2, <2>1, SectorStep
    <2> QED
      BY <1>10, <1>11, <2>2
  <1> QED
    BY <1>3, <1>12, <1>13

(* dir_extend: the cluster is marked, zeroed, linked, marked again. *)
LEMMA RetryWriteSpace ==
    ASSUME TypeInv, NEW L, ChainsAt(L), SpaceInv, DiskWrite, pc = "retry"
    PROVE  SpaceInv'
  <1>1. PICK m \in 1..7, n \in Nat, c \in Cluster, last \in Cluster : RetryAt(m, n, c, last)
    BY RetryStep
  <1>2. /\ n > 1 /\ n = Len(dirc) /\ c = dirc[n] /\ last = dirc[n - 1]
        /\ Len(io) = 8 - m /\ Len(io') = 7 - m
    BY <1>1 DEF RetryAt
  <1>3. UNCHANGED <<pc, chain, dirc, lost>> /\ io # <<>>
    BY WriteStep
  <1>4. (Extending <=> m < 5) /\ (Extending' <=> m < 4)
    <2>1. (Len(io) > 3 <=> m < 5) /\ (Len(io') > 3 <=> m < 4)
      BY <1>2
    <2> QED
      BY <1>3, <2>1 DEF Extending
  <1>5. Claiming /\ Claiming' /\ ~Freeing /\ ~Freeing' /\ ~MarkToCome' /\ Inserting
    BY <1>3 DEF Claiming, Inserting, Freeing, MarkToCome
  <1>6. /\ (c \in Mine <=> m < 5 \/ \E k \in 1..Len(chain) : c = chain[k])
        /\ (c \in Mine' <=> m < 4 \/ \E k \in 1..Len(chain) : c = chain[k])
        /\ \A x \in Cluster : x # c => (x \in Mine <=> x \in Mine')
        /\ Mine \subseteq Cluster /\ Mine' \subseteq Cluster
    <2>1. c = LastDir /\ c = LastDir'
      BY <1>2, <1>3 DEF LastDir
    <2> QED
      BY <1>3, <1>4, <1>5, <2>1 DEF Mine, LastDir
  <1>7. Mine' \subseteq Mine /\ (m # 4 => Mine' = Mine) /\ \A x \in Mine \ Mine' : x = c
    BY <1>6
  <1>8. PICK f \in Table32, d \in Region : f = fat /\ d = data
    BY State
  <1>9. /\ m \in {1, 6} => data' = data /\ fat' = [f EXCEPT ![c] = EOC]
        /\ m \in {2, 5, 7} => data' = data /\ fat' = fat
        /\ m = 3 => fat' = fat /\ data' = [data EXCEPT ![c] = DirSector(ZeroSector)]
        /\ m = 4 => data' = data /\ fat' = [f EXCEPT ![last] = c]
    BY <1>1, <1>8 DEF RetryAt
  <1>10. f[c] \notin Cluster
    BY <1>2, <1>3, <1>8 DEF SpaceInv, EndInv, LastDir
  <1>11. /\ m < 5 => c \notin L /\ f[last] \notin Cluster
         /\ ~(m < 5) => f[c] # 0
         /\ f[last] # 0 /\ last # c
    <2>1. n \in 1..Len(dirc) /\ n - 1 \in 1..Len(dirc) /\ n - 1 # n
      BY <1>2
    <2>2. last # c
      BY <1>2, <1>3, <2>1 DEF ChainsAt, LoadInv
    <2>3. last \in L /\ (~(m < 5) => c \in L)
      BY <1>2, <1>4, <1>5, <2>1 DEF ChainsAt, LoadInv
    <2>4. \A x \in L : f[x] # 0
      BY <1>8 DEF ChainsAt, DiskInv, DiskAt, TwoWorlds
    <2>5. m < 5 => c \notin L /\ f[last] \notin Cluster
      <3>1. m < 5 => Extending /\ Len(io) > 3
        BY <1>2, <1>4
      <3>2. m < 5 => c \notin L
        BY <1>2, <1>3, <3>1 DEF ChainsAt, ExtendInv
      <3>3. m < 5 => f[last] \notin Cluster
        BY <1>2, <1>8, <3>1 DEF SpaceInv, EndInv
      <3> QED
        BY <3>2, <3>3
    <2> QED
      BY <2>2, <2>3, <2>4, <2>5
  <1>12. EOC \in FatValue \ {0} /\ EOC \notin Cluster /\ c \in FatValue \ {0}
    BY Values DEF FatValue
  <1>13. PlacedIn(fat, data, lost, Mine)' /\ LostIn(fat, data, lost, Mine)'
    <2>1. CASE m \in {2, 5, 7}
      BY <1>3, <1>7, <1>9, <2>1, SpaceInRam, LostType
    <2>2. CASE m = 3
      <3>1. DirSector(ZeroSector) \in SectorData
        BY SectorTypes, DirSectorType
      <3>2. \A i \in SlotNo : ~IsVisible(SlotsOf(DirSector(ZeroSector))[i])
        BY DEF SlotsOf, DirSector, ZeroSector, SlotNo, End, IsVisible
      <3> QED
        BY <1>3, <1>7, <1>9, <1>11, <2>2, <3>1, <3>2, OutsideWrite
    <2>3. CASE m \in {1, 4, 6}
      <3>1. PICK M, N, g : M = Mine /\ N = Mine' /\ g = fat'
        OBVIOUS
      <3>2. Keeps(f, d, M, g, d, lost, N) /\ Spares(f, d, M, g, d, N)
        <4>1. CASE m \in {1, 6}
          <5>1. g = [f EXCEPT ![c] = EOC] /\ M = N /\ (f[c] = 0 => c \in N)
            BY <1>6, <1>7, <1>9, <1>11, <3>1, <4>1
          <5> QED
            BY <1>10, <1>12, <5>1, TableWrite
        <4>2. CASE m = 4
          <5>1. /\ g = [f EXCEPT ![last] = c] /\ N \subseteq M /\ c \in M
                /\ f[last] \notin Cluster /\ f[last] # 0 /\ \A x \in M \ N : x = c
            BY <1>6, <1>7, <1>9, <1>11, <3>1, <4>2
          <5> QED
            BY <1>12, <5>1, TableWrite
        <4> QED
          BY <2>3, <4>1, <4>2
      <3>3. data' = data
        BY <1>9, <2>3
      <3> QED
        BY <1>3, <1>8, <3>1, <3>2, <3>3, SpaceOnDisk, LostType
    <2> QED
      BY <2>1, <2>2, <2>3
  <1>14. EndInv'
    <2>1. fat'[c] \notin Cluster
      <3>1. CASE m \in {1, 6}
        BY <1>9, <1>12, <3>1 DEF Table32
      <3>2. CASE m = 4
        BY <1>9, <1>10, <1>11, <3>2 DEF Table32
      <3>3. CASE m \in {2, 3, 5, 7}
        BY <1>8, <1>9, <1>10, <3>3
      <3> QED
        BY <3>1, <3>2, <3>3
    <2>2. m < 4 => fat'[last] \notin Cluster
      <3>1. CASE m = 1
        BY <1>9, <1>11, <3>1 DEF Table32
      <3>2. CASE m \in {2, 3}
        BY <1>8, <1>9, <1>11, <3>2
      <3> QED
        BY <3>1, <3>2
    <2>3. dirc'[Len(dirc')] = c /\ dirc'[Len(dirc') - 1] = last
      BY <1>2, <1>3
    <2> QED
      BY <1>3, <1>4, <1>5, <2>1, <2>2, <2>3 DEF EndInv, LastDir
  <1> QED
    BY <1>3, <1>13, <1>14, NothingFreed DEF SpaceInv, LinkedInv

(* dir_save.  What a sector shows once it is written: what it showed, but    *)
(* the entry under deletion, and the new entry if its slot is there.         *)
Here(k) == \E i \in SlotNo : Position(k, i) = op.slot
SaveShows(d, e, X, new) ==
    /\ \A p \in Shown(d) : p \in X \/ (p \in Shown(e) /\ EntryOf(e, p) = EntryOf(d, p))
    /\ \A p \in Shown(e) :
          (p \in Shown(d) /\ EntryOf(e, p) = EntryOf(d, p)) \/ EntryOf(e, p) \in new
    /\ \A x \in new : \E p \in Shown(e) : EntryOf(e, p) = x

LEMMA SaveShown ==
    ASSUME TypeInv, NEW L, ChainsAt(L), DiskWrite, pc = "save", NEW k \in Nat, SaveAt(k)
    PROVE  SaveShows(data, data', Victim,
                     IF Here(k) /\ op.kind # "delete" THEN {NewEntry} ELSE {})
  <1>1. PICK X, e, new :
           /\ X = Victim /\ e = data'
           /\ new = IF Here(k) /\ op.kind # "delete" THEN {NewEntry} ELSE {}
    OBVIOUS
  <1>2. k \in 1..Len(img) /\ ToCome(k)
    BY DEF SaveAt
  <1>3. PICK f \in Table32, d \in Region : f = fat /\ d = data
    BY State
  <1>4. Len(img) = Len(dirc) /\ \A x \in 1..Len(img) : img[x] \in Sector
    BY State
  <1>5. TwoWorlds(L, f, d)
    BY <1>3 DEF ChainsAt, DiskInv, DiskAt
  <1>6. PICK c \in L, s \in Sector : c = dirc[k] /\ s = img[k]
    BY <1>2, <1>4 DEF ChainsAt, SaveInv
  <1>7. c \in Cluster
    BY <1>5 DEF TwoWorlds
  <1>8. PICK v \in SectorData : v = DirSector(s) /\ SlotsOf(v) = s
    BY DirSectorType DEF SlotsOf, DirSector
  <1>9. Stored(d, c, v, e)
    BY <1>1, <1>3, <1>6, <1>8 DEF SaveAt
  <1>10. ASSUME NEW i \in SlotNo
         PROVE  /\ Position(k, i) # op.slot => Agree(SlotsOf(d[c])[i], s[i])
                /\ Position(k, i) = op.slot /\ op.kind = "delete" => ~Solid(s[i])
                /\ Position(k, i) = op.slot /\ op.kind # "delete" =>
                      s[i] = NewEntry /\ ~Solid(SlotsOf(d[c])[i])
    <2>1. SlotInv(k, i)
      BY <1>2 DEF ChainsAt, SaveInv
    <2> QED
      BY <1>2, <1>3, <1>6, <2>1 DEF SlotInv
  <1>11. ASSUME NEW p \in Spot
         PROVE  EntryOf(e, p) = IF p[1] = c THEN s[p[2]] ELSE EntryOf(d, p)
    BY <1>7, <1>8, <1>9, EntryWrite
  <1>12. ASSUME NEW p \in Shown(d)
         PROVE  p \in X \/ (p \in Shown(e) /\ EntryOf(e, p) = EntryOf(d, p))
    <2>1. p \in Spot /\ p[2] \in SlotNo /\ IsVisible(EntryOf(d, p))
      BY ShownType DEF Shown
    <2>2. CASE p[1] # c
      BY <1>11, <2>1, <2>2 DEF Shown
    <2>3. CASE p[1] = c
      <3>1. PICK i \in SlotNo : i = p[2]
        BY <2>1
      <3>2. EntryOf(d, p) = SlotsOf(d[c])[i] /\ EntryOf(e, p) = s[i]
        BY <1>11, <2>1, <2>3, <3>1 DEF EntryOf
      <3>3. Solid(SlotsOf(d[c])[i])
        BY <2>1, <3>2 DEF IsVisible, Solid
      <3>4. CASE Position(k, i) # op.slot
        <4>1. s[i] = SlotsOf(d[c])[i]
          BY <1>10, <3>3, <3>4 DEF Agree
        <4> QED
          BY <2>1, <3>2, <4>1 DEF Shown
      <3>5. CASE Position(k, i) = op.slot
        <4>1. op.kind = "delete"
          BY <1>10, <3>3, <3>5
        <4>2. k \in 1..Len(dirc) /\ p[1] = dirc[k] /\ Position(k, p[2]) = op.slot
          BY <1>2, <1>4, <1>6, <2>3, <3>1, <3>5
        <4> QED
          BY <1>1, <2>1, <4>1, <4>2 DEF Victim, Deleting
      <3> QED
        BY <3>4, <3>5
    <2> QED
      BY <2>2, <2>3
  <1>13. ASSUME NEW p \in Shown(e)
         PROVE  (p \in Shown(d) /\ EntryOf(e, p) = EntryOf(d, p)) \/ EntryOf(e, p) \in new
    <2>1. p \in Spot /\ p[2] \in SlotNo /\ IsVisible(EntryOf(e, p))
      BY DEF Shown, Spot
    <2>2. CASE p[1] # c
      BY <1>11, <2>1, <2>2 DEF Shown
    <2>3. CASE p[1] = c
      <3>1. PICK i \in SlotNo : i = p[2]
        BY <2>1
      <3>2. EntryOf(d, p) = SlotsOf(d[c])[i] /\ EntryOf(e, p) = s[i]
        BY <1>11, <2>1, <2>3, <3>1 DEF EntryOf
      <3>3. Solid(s[i])
        BY <2>1, <3>2 DEF IsVisible, Solid
      <3>4. CASE Position(k, i) # op.slot
        <4>1. s[i] = SlotsOf(d[c])[i]
          BY <1>10, <3>3, <3>4 DEF Agree
        <4> QED
          BY <2>1, <3>2, <4>1 DEF Shown
      <3>5. CASE Position(k, i) = op.slot
        <4>1. op.kind # "delete" /\ s[i] = NewEntry
          BY <1>10, <3>3, <3>5
        <4>2. Here(k)
          BY <3>5 DEF Here
        <4> QED
          BY <1>1, <3>2, <4>1, <4>2
      <3> QED
        BY <3>4, <3>5
    <2> QED
      BY <2>2, <2>3
  <1>14. ASSUME NEW x \in new
         PROVE  \E p \in Shown(e) : EntryOf(e, p) = x
    <2>1. Here(k) /\ op.kind # "delete" /\ x = NewEntry
      BY <1>1, <1>14
    <2>2. PICK i \in SlotNo : Position(k, i) = op.slot
      BY <2>1 DEF Here
    <2>3. s[i] = x /\ IsVisible(x)
      BY <1>10, <2>1, <2>2 DEF NewEntry, Entry, IsVisible
    <2>4. PICK p \in Spot : p = <<c, i>>
      BY <1>7 DEF Spot
    <2>5. EntryOf(e, p) = x
      BY <1>11, <2>3, <2>4
    <2> QED
      BY <2>3, <2>4, <2>5 DEF Shown
  <1>15. SaveShows(d, e, X, new)
    BY <1>12, <1>13, <1>14 DEF SaveShows
  <1> QED
    BY <1>1, <1>3, <1>15

LEMMA SaveWriteSpace ==
    ASSUME TypeInv, NEW L, ChainsAt(L), FilesInv, SpaceInv, DiskWrite, pc = "save"
    PROVE  SpaceInv'
  <1>1. PICK k \in Nat : SaveAt(k)
    BY SaveStep
  <1>2. /\ fat' = fat /\ k \in 1..Len(img) /\ ToCome(k)
        /\ \A x \in 1..Len(img) : (ToCome(x) <=> x >= k) /\ (ToCome(x)' <=> x > k)
    BY <1>1 DEF SaveAt
  <1>3. UNCHANGED <<pc, op, img, dirc, chain, cur, lost>> /\ Victim' = Victim
    BY WriteStep
  <1>4. ~Extending /\ ~Extending' /\ ~Freeing /\ ~Freeing' /\ ~MarkToCome'
    BY <1>3 DEF Extending, Freeing, MarkToCome
  <1>5. PICK f \in Table32, d \in Region : f = fat /\ d = data
    BY State
  <1>6. PICK M, N, e, X, new :
           /\ M = Mine /\ N = Mine' /\ e = data' /\ X = Victim
           /\ new = IF Here(k) /\ op.kind # "delete" THEN {NewEntry} ELSE {}
    OBVIOUS
  <1>7. SaveShows(d, e, X, new)
    <2>1. SaveShows(data, data', Victim, IF Here(k) /\ op.kind # "delete" THEN {NewEntry} ELSE {})
      BY <1>1, SaveShown
    <2> QED
      BY <1>5, <1>6, <2>1
  <1>8. \A c \in Cluster : Begins(e, c) => Begins(d, c) \/ \E x \in new : x.cluster = c
    BY <1>7 DEF SaveShows, Begins
  <1>9. \A c \in Cluster :
           Begins(d, c) => Begins(e, c) \/ \E p \in Shown(d) \cap X : EntryOf(d, p).cluster = c
    BY <1>7 DEF SaveShows, Begins
  <1>10. FreedIn(f, d, X, M)
    BY <1>5, <1>6 DEF SpaceInv
  <1>11. CASE op.kind = "delete"
    <2>1. M = {} /\ N = {} /\ new = {}
      <3>1. ~Claiming /\ ~Claiming'
        BY <1>3, <1>11 DEF Claiming, Inserting
      <3> QED
        BY <1>4, <1>6, <1>11, <3>1 DEF Mine
    <2>2. ASSUME NEW c \in Cluster, Begins(d, c), ~Begins(e, c)
          PROVE  f[c] = 0
      BY <1>9, <1>10, <2>1, <2>2, Values DEF FreedIn
    <2>3. Keeps(f, d, M, f, e, lost, N) /\ Spares(f, d, M, f, e, N)
      BY <1>8, <2>1, <2>2 DEF Keeps, Spares
    <2>4. PlacedIn(fat, data, lost, Mine)' /\ LostIn(fat, data, lost, Mine)'
      BY <1>2, <1>3, <1>5, <1>6, <2>3, SpaceOnDisk, LostType
    <2>5. FreedIn(fat, data, Victim, Mine)'
      <3>1. \A p \in Shown(e) : p \in Shown(d) /\ EntryOf(e, p) = EntryOf(d, p)
        BY <1>7, <2>1 DEF SaveShows
      <3>2. FreedIn(f, e, X, N)
        BY <1>10, <2>1, <3>1 DEF FreedIn
      <3> QED
        BY <1>2, <1>3, <1>5, <1>6, <3>2
    <2> QED
      BY <1>3, <1>4, <2>4, <2>5 DEF SpaceInv, EndInv, LinkedInv
  <1>12. CASE op.kind # "delete"
    <2>1. X = {} /\ Len(img) \in Nat
      BY <1>6, <1>12, NotDeleting, State
    <2>2. \A c \in Cluster : Begins(d, c) => Begins(e, c)
      BY <1>9, <2>1
    <2>3. (EntryToCome' => ~Here(k)) /\ (Here(k) => EntryToCome)
      <3>1. Here(k) => EntryToCome
        BY <1>2 DEF Here, EntryToCome
      <3>2. ASSUME Here(k), EntryToCome' PROVE FALSE
        <4>1. PICK x \in 1..Len(img), j \in SlotNo : Position(x, j) = op.slot /\ ToCome(x)'
          BY <1>3, <3>2 DEF EntryToCome
        <4>2. PICK i \in SlotNo : Position(k, i) = op.slot
          BY <3>2 DEF Here
        <4>3. x = k
          <5>1. x \in Nat \ {0} /\ k \in Nat \ {0}
            BY <1>2, <2>1
          <5> QED
            BY <4>1, <4>2, <5>1, PositionsApart
        <4> QED
          BY <1>2, <2>1, <4>1, <4>3
      <3> QED
        BY <3>1, <3>2
    <2>4. CASE Here(k)
      <3>1. Claiming /\ ~Claiming' /\ ~MarkToCome
        BY <1>3, <1>12, <2>3, <2>4 DEF Claiming, Inserting, MarkToCome
      <3>2. PICK n : n = Len(chain)
        OBVIOUS
      <3>3. /\ n \in Nat /\ (chain = <<>> <=> n = 0)
            /\ \A j \in 1..n : chain[j] \in Cluster
        BY <3>2, State
      <3>4. M = {c \in Cluster : \E j \in 1..n : c = chain[j]} /\ N = {}
        BY <1>4, <1>6, <3>1, <3>2 DEF Mine
      <3>5. new = {NewEntry} /\ NewEntry.cluster = FirstCluster
        BY <1>6, <1>12, <2>4 DEF NewEntry, Entry
      <3>6. ASSUME NEW c \in M
            PROVE  Begins(e, c) \/ Follows(f, c)
        <4>1. PICK j \in 1..n : c = chain[j]
          BY <3>4, <3>6
        <4>2. CASE j = 1
          <5>1. FirstCluster = c
            BY <3>3, <4>1, <4>2 DEF FirstCluster
          <5> QED
            BY <1>7, <3>5, <5>1 DEF SaveShows, Begins
        <4>3. CASE j # 1
          <5>1. j - 1 \in 1..n /\ j - 1 < n /\ (j - 1) + 1 = j
            BY <3>3, <4>3
          <5>2. Linked
            BY <1>12, <2>3, <2>4, ChainIsLinked DEF SpaceInv
          <5>3. fat[chain[j - 1]] = chain[j]
            BY <3>2, <5>1, <5>2 DEF Linked
          <5> QED
            BY <1>5, <3>3, <4>1, <5>1, <5>3 DEF Follows
        <4> QED
          BY <4>2, <4>3
      <3>7. ASSUME NEW c \in Cluster, Begins(e, c), ~Begins(d, c)
            PROVE  c \in M
        <4>1. c = FirstCluster
          BY <1>8, <3>5, <3>7
        <4>2. chain # <<>> /\ c = chain[1]
          BY <4>1, Values DEF FirstCluster
        <4>3. 1 \in 1..n
          BY <3>3, <4>2
        <4> QED
          BY <3>4, <4>2, <4>3
      <3>8. Keeps(f, d, M, f, e, lost, N) /\ Spares(f, d, M, f, e, N)
        BY <2>2, <3>4, <3>6, <3>7 DEF Keeps, Spares
      <3>9. PlacedIn(fat, data, lost, Mine)' /\ LostIn(fat, data, lost, Mine)'
        BY <1>2, <1>3, <1>5, <1>6, <3>8, SpaceOnDisk, LostType
      <3> QED
        BY <1>3, <1>4, <1>12, <3>9, NothingFreed DEF SpaceInv, EndInv, LinkedInv
    <2>5. CASE ~Here(k)
      <3>1. EntryToCome <=> EntryToCome'
        <4>1. ASSUME NEW x \in 1..Len(img), NEW i \in SlotNo, Position(x, i) = op.slot
              PROVE  ToCome(x) <=> ToCome(x)'
          <5>1. x # k
            BY <2>5, <4>1 DEF Here
          <5>2. x >= k <=> x > k
            BY <1>2, <2>1, <5>1
          <5> QED
            BY <1>2, <5>2
        <4> QED
          BY <1>3, <4>1 DEF EntryToCome
      <3>2. Claiming <=> Claiming'
        BY <1>3, <3>1 DEF Claiming, Inserting
      <3>3. N = M /\ new = {}
        BY <1>3, <1>4, <1>6, <2>5, <3>2 DEF Mine
      <3>4. Keeps(f, d, M, f, e, lost, N) /\ Spares(f, d, M, f, e, N)
        BY <1>8, <2>2, <3>3 DEF Keeps, Spares
      <3>5. PlacedIn(fat, data, lost, Mine)' /\ LostIn(fat, data, lost, Mine)'
        BY <1>2, <1>3, <1>5, <1>6, <3>4, SpaceOnDisk, LostType
      <3> QED
        BY <1>3, <1>4, <1>12, <3>5, NothingFreed DEF SpaceInv, EndInv, LinkedInv
    <2> QED
      BY <2>4, <2>5
  <1> QED
    BY <1>11, <1>12

LEMMA WritesSpace ==
    ASSUME TypeInv, Quiet, NEW L, ChainsAt(L), FilesInv, SpaceInv, pc # "format", DiskWrite
    PROVE  SpaceInv'
  <1>1. io # <<>>
    BY DEF DiskWrite
  <1>2. pc # "search"
    BY <1>1 DEF ChainsAt, ClaimInv
  <1>3. pc \in {"alloc", "name", "retry", "save", "free", "abort"}
    BY <1>1, <1>2 DEF Quiet, TypeInv, TypeOK
  <1> QED
    BY <1>3, AllocWriteSpace, NameWriteSpace, RetryWriteSpace, SaveWriteSpace, ChainWriteSpace

LEMMA StillSpace ==
    ASSUME TypeInv, SpaceInv, UNCHANGED vars
    PROVE  SpaceInv'
  <1>1. UNCHANGED <<fat, data, pc, op, img, dirc, chain, cur, io, lost>>
    BY DEF vars, disk, ram
  <1>2. Mine' = Mine
    BY <1>1 DEF Mine, Claiming, Inserting, EntryToCome, ToCome, Extending, Freeing
  <1>3. Victim' = Victim
    BY <1>1 DEF Victim, Deleting
  <1>4. PlacedIn(fat, data, lost, Mine)' /\ LostIn(fat, data, lost, Mine)'
    BY <1>1, <1>2, LostType, SpaceInRam
  <1>5. FreedIn(fat, data, Victim, Mine)'
    BY <1>1, <1>2, <1>3, StillFreed
  <1>6. EndInv' /\ LinkedInv'
    BY <1>1 DEF SpaceInv, EndInv, LastDir, Extending, MarkToCome, LinkedInv, Linked
  <1> QED
    BY <1>4, <1>5, <1>6 DEF SpaceInv

(* On a formatted disk, a step keeps the clusters accounted for. *)
LEMMA MountedSpace ==
    ASSUME TypeInv, TypeInv', Quiet, RestInv, Mounted, NEW L, ChainsAt(L), FilesInv, SpaceInv,
           [Next]_vars, ~PowerCut
    PROVE  SpaceInv'
  <1>1. boot = "fat32" /\ pc # "format"
    BY DEF Mounted
  <1>2. CASE Work
    <2>1. ~FormatDone
      BY <1>1 DEF FormatDone
    <2>2. CASE DiskWrite
      BY <1>1, <2>2, WritesSpace
    <2>3. CASE AllocCluster
      BY <2>3, AllocSpace
    <2>4. CASE AllocFails \/ InsertFails
      BY <2>4, FailSpace
    <2>5. CASE WriteContents \/ ChooseShort \/ SearchRun
      BY <2>5, ContentsSpace, ShortSpace, SearchSpace
    <2>6. CASE PlaceEntry
      <3>1. ChainsAt(L)'
        BY <2>6, PlaceChains
      <3> QED
        BY <2>6, <3>1, PlaceSpace
    <2>7. CASE ExtendDir \/ FreeCluster \/ MarkEntry \/ Return
      BY <2>7, ExtendSpace, FreeSpace, MarkSpace, ReturnSpace
    <2> QED
      BY <1>2, <2>1, <2>2, <2>3, <2>4, <2>5, <2>6, <2>7 DEF Work
  <1>3. CASE Call
    <2>1. ASSUME NEW name \in Name, NEW blocks \in Contents, CreateFile(name, blocks)
          PROVE  SpaceInv'
      BY <2>1, CreateSpace
    <2>2. ASSUME NEW name \in Name, CreateDir(name)
          PROVE  SpaceInv'
      BY <2>2, CreateSpace
    <2>3. ASSUME NEW name \in Name, DeleteFile(name)
          PROVE  SpaceInv'
      BY <2>3, DeleteSpace
    <2>4. ASSUME NEW d \in Cluster, ChangeDir(d)
          PROVE  SpaceInv'
      BY <2>4, ChangeSpace
    <2> QED
      BY <1>3, <2>1, <2>2, <2>3, <2>4 DEF Call
  <1>4. CASE Boot
    BY <1>4, ChangeSpace
  <1>5. CASE UNCHANGED vars
    BY <1>5, StillSpace
  <1> QED
    BY <1>2, <1>3, <1>4, <1>5 DEF Next

(* The power has not failed. *)
LEMMA Uncut ==
    ASSUME TypeInv, [Next]_vars, cuts' = 0
    PROVE  cuts = 0 /\ torn' = torn /\ ~PowerCut
  <1>1. cuts \in Nat
    BY CutsNatural
  <1>2. ~PowerCut
    <2> SUFFICES ASSUME cuts' = cuts + 1 PROVE FALSE
      BY DEF PowerCut
    <2> QED
      BY <1>1
  <1>3. CASE Work
    BY <1>2, <1>3 DEF Work, DiskWrite, FormatDone, AllocCluster, AllocFails, WriteContents, ChooseShort,
       SearchRun, PlaceEntry, ExtendDir, InsertFails, FreeCluster, MarkEntry, Return, Finish
  <1>4. CASE Call
    BY <1>2, <1>4 DEF Call, CreateFile, CreateDir, DeleteFile, ChangeDir
  <1>5. CASE Boot
    BY <1>2, <1>5 DEF Boot
  <1>6. CASE UNCHANGED vars
    BY <1>2, <1>6 DEF vars
  <1> QED
    BY <1>2, <1>3, <1>4, <1>5, <1>6 DEF Next

LEMMA UnmountedSpace ==
    ASSUME TypeInv, Quiet, FormatInv, ~Mounted, lost = {}, [Next]_vars, ~PowerCut
    PROVE  lost' = {} /\ (Mounted' => SpaceInv')
  <1>1. CASE pc = "format" /\ DiskWrite
    <2>1. pc' = "format" /\ lost' = lost
      BY <1>1 DEF DiskWrite
    <2> QED
      BY <2>1 DEF Mounted
  <1>2. CASE pc = "format" /\ FormatDone
    <2>1. io = <<>> /\ lost' = lost
      BY <1>2 DEF FormatDone
    <2>2. boot = "fat32"
      BY <1>2, <2>1, FormattedDisk
    <2> QED
      BY <1>2, <2>1, <2>2, FormatDoneSpace
  <1>3. CASE Boot /\ boot = "blank" /\ pc = "off"
    <2>1. boot' = "blank" /\ lost' = lost
      BY <1>3 DEF Boot, disk
    <2> QED
      BY <2>1 DEF Mounted
  <1>4. CASE UNCHANGED vars
    <2>1. boot' = boot /\ pc' = pc /\ lost' = lost
      BY <1>4 DEF vars, disk, ram
    <2> QED
      BY <2>1 DEF Mounted
  <1> QED
    BY <1>1, <1>2, <1>3, <1>4, BeforeFormatted

AccountInv ==
    cuts = 0 =>
      /\ torn = {}
      /\ ~Mounted => lost = {}
      /\ Mounted => SpaceInv

LEMMA AccountInit == Init => AccountInv
  BY DEF Init, AccountInv, Mounted

LEMMA AccountNext ==
    TypeInv /\ MirrorInv /\ ChainInv /\ FileInv /\ AccountInv /\ [Next]_vars => AccountInv'
  <1> SUFFICES ASSUME TypeInv, MirrorInv, ChainInv, FileInv, AccountInv, [Next]_vars, cuts' = 0
               PROVE  torn' = {} /\ (~Mounted' => lost' = {}) /\ (Mounted' => SpaceInv')
    BY DEF AccountInv
  <1>1. cuts = 0 /\ torn' = torn /\ ~PowerCut
    BY Uncut
  <1>2. torn = {} /\ (~Mounted => lost = {}) /\ (Mounted => SpaceInv)
    BY <1>1 DEF AccountInv
  <1>3. Quiet /\ RestInv /\ FormatInv
    BY <1>2 DEF MirrorInv, ChainInv
  <1>4. TypeInv'
    BY TypeNext
  <1>5. CASE Mounted
    <2>1. PICK L \in SUBSET Cluster : ChainsAt(L)
      BY <1>2, <1>5 DEF ChainInv
    <2>2. FilesInv
      BY <1>2, <1>5 DEF FileInv
    <2>3. SpaceInv'
      BY <1>1, <1>2, <1>3, <1>4, <1>5, <2>1, <2>2, MountedSpace
    <2>4. Mounted'
      BY <1>5, StaysFormatted DEF Mounted
    <2> QED
      BY <1>1, <1>2, <2>3, <2>4
  <1>6. CASE ~Mounted
    BY <1>1, <1>2, <1>3, <1>6, UnmountedSpace
  <1> QED
    BY <1>5, <1>6

LEMMA AccountInvariant == Spec => [](TypeInv /\ MirrorInv /\ ChainInv /\ FileInv /\ AccountInv)
  <1>1. Init => TypeInv /\ MirrorInv /\ ChainInv /\ FileInv /\ AccountInv
    BY TypeInit, MirrorInit, ChainInit, FileInit, AccountInit
  <1>2. (TypeInv /\ MirrorInv /\ ChainInv /\ FileInv /\ AccountInv) /\ [Next]_vars
            => (TypeInv /\ MirrorInv /\ ChainInv /\ FileInv /\ AccountInv)'
    BY TypeNext, MirrorNext, ChainNext, FileNext, AccountNext
  <1> QED
    BY <1>1, <1>2, PTL DEF Spec

LEMMA AccountMeaning == TypeInv /\ ChainInv /\ AccountInv => Accounted
  <1> SUFFICES ASSUME TypeInv, ChainInv, AccountInv, Mounted, cuts = 0, pc = "idle"
               PROVE  Used = {Root} \cup Heads \cup {fat[c] : c \in {u \in Used : InRange(fat[u])}}
                               \cup lost
    BY DEF Accounted
  <1>1. torn = {} /\ SpaceInv
    BY DEF AccountInv
  <1>2. PICK L \in SUBSET Cluster : ChainsAt(L)
    BY <1>1 DEF ChainInv
  <1>3. Victim = {} /\ Mine = {}
    BY NotDeleting DEF Mine, Claiming, Inserting, Extending, Freeing
  <1>4. TwoWorlds(L, fat, data) /\ Leads(fat, data, {})
    BY <1>2, <1>3 DEF ChainsAt, DiskInv, DiskAt
  <1>5. PICK M : M = {} /\ PlacedIn(fat, data, lost, M) /\ LostIn(fat, data, lost, M)
    BY <1>1, <1>3 DEF SpaceInv
  <1>6. data \in Region /\ lost \subseteq Cluster
    BY State, LostType
  <1> DEFINE next == {fat[c] : c \in {u \in Used : InRange(fat[u])}}
  <1>7. ASSUME NEW p \in Shown(data)
        PROVE  p \in Entries
    <2>1. p[1] \in L /\ p[1] \in Cluster /\ p[2] \in SlotNo /\ p = <<p[1], p[2]>>
      BY <1>4, <1>6, <1>7, ShownType DEF TwoWorlds
    <2>2. fat[p[1]] # 0
      BY <1>4, <2>1 DEF TwoWorlds
    <2>3. IsVisible(EntryOf(data, p))
      BY <1>7 DEF Shown
    <2> QED
      BY <2>1, <2>2, <2>3 DEF Entries, EntriesOf, EntryOf, SlotNo
  <1>8. ASSUME NEW c \in Used
        PROVE  c \in {Root} \cup Heads \cup next \cup lost
    <2>1. c \in Cluster /\ c # 0
      BY <1>8, Values DEF Used
    <2>2. c = Root \/ Begins(data, c) \/ Follows(fat, c) \/ c \in lost
      BY <1>5, <1>8 DEF Used, PlacedIn
    <2>3. ASSUME Begins(data, c)
          PROVE  c \in Heads
      <3>1. PICK p \in Shown(data) : EntryOf(data, p).cluster = c
        BY <2>3 DEF Begins
      <3> QED
        BY <1>7, <2>1, <3>1 DEF Heads, EntryAt
    <2>4. ASSUME Follows(fat, c)
          PROVE  c \in next
      <3>1. PICK x \in Cluster : fat[x] = c
        BY <2>4 DEF Follows
      <3> QED
        BY <2>1, <3>1 DEF Used, InRange
    <2> QED
      BY <2>2, <2>3, <2>4
  <1>9. Root \in Used
    BY <1>4, Values DEF TwoWorlds, Used
  <1>10. ASSUME NEW c \in Heads
         PROVE  c \in Used
    <2>1. PICK p \in Entries : c = EntryAt(p).cluster /\ c # 0
      BY <1>10 DEF Heads
    <2>2. p \in Shown(data) /\ c = EntryOf(data, p).cluster
      BY <2>1, EntriesShown
    <2>3. c \in Cluster
      BY <1>6, <2>1, <2>2, ShownType
    <2> QED
      BY <1>4, <2>1, <2>2, <2>3 DEF Leads, Used
  <1>11. ASSUME NEW c \in next
         PROVE  c \in Used
    BY <1>4, <1>11 DEF Leads, Used, InRange
  <1>12. ASSUME NEW c \in lost
         PROVE  c \in Used
    BY <1>5, <1>6, <1>12 DEF LostIn, Stray, Used
  <1> QED
    BY <1>8, <1>9, <1>10, <1>11, <1>12

(* As long as the power has not failed, every cluster in use between two     *)
(* calls has its reason: it is the root, an entry names it, a cluster in use *)
(* leads to it, or it is one of those a creation on a full disk allocated    *)
(* and could not give back (fat32.c:924-927); and of these none is free.     *)
THEOREM SpaceIsAccounted == Spec => []Accounted
  <1>1. TypeInv /\ ChainInv /\ AccountInv => Accounted
    BY AccountMeaning
  <1> QED
    BY <1>1, AccountInvariant, PTL
=============================================================================
