----------------------------- MODULE DiskProofs -----------------------------
(***************************************************************************)
(* What a disk says of itself, in three parts.                              *)
(*                                                                          *)
(* The names of module Fat32, for every set of names, every spelling and    *)
(* every disk: the directories read back.  The entries of a directory lie   *)
(* side by side, each behind exactly the LFN slots that spell its name; an  *)
(* insertion fills free slots only, a deletion frees the slots of one entry *)
(* and no other, and a save that is under way has some sectors of the old   *)
(* image and some of the new one.                                           *)
(*                                                                          *)
(* The tree of module Fat32Tree: the driver implements FileSystem.  The     *)
(* tree the callers see is the one on the disk, but for an insertion whose  *)
(* entry is not written and a deletion whose entry is; a step of a save     *)
(* leaves every other entry, and every chain a file is read through, alone. *)
(*                                                                          *)
(* The geometry of module Layout, for every drive ATA can describe.  The    *)
(* argument is a contraction: a change of the FAT size by d sectors changes *)
(* the data region by 2 * d sectors, which needs d / 64 sectors of FAT, so  *)
(* the steps of the iteration of compute_layout shrink by 64 each round and *)
(* are below 64 sectors from the fourth round on, whether or not it settles.*)
(***************************************************************************)
EXTENDS Fat32Proofs, Fat32Tree, Layout

-----------------------------------------------------------------------------
(* Directories whose entries read back.                                      *)

SlotsIn(v) == 1..Capacity(v)
EntriesIn(v) == {i \in SlotsIn(v) : IsVisible(At(v, i))}

(* After the first slot that was never used there is no other.               *)
EndLast(v) == \A i, j \in SlotsIn(v) : i < j /\ At(v, i) = End => At(v, j) = End

(* What comes behind an LFN slot belongs to the same entry.                  *)
NoOrphans(v) ==
    \A i \in SlotsIn(v) :
        At(v, i).tag = "lfn" =>
            i + 1 \in SlotsIn(v) /\ At(v, i + 1).tag \in {"lfn", "file", "dir"}

(* The entry in slot i has the name a: its short name spells it, or the LFN  *)
(* slots in front do, and there are no others.                               *)
Spells(v, i, a) ==
    LET s == At(v, i).short
        n == LfnCount(s, a)
    IN  /\ n < i
        /\ \A r \in 1..n : At(v, i - n - 1 + r) = Lfn(a[r], n + 1 - r, Checksum[s])
        /\ i > n + 1 => At(v, i - n - 1).tag # "lfn"

(* The slots of the entries in X aside, every entry shows the name that is   *)
(* spelled there, and no two names match.                                    *)
ShowsNames(v, X) ==
    \A i \in EntriesIn(v) \ X : EntryName(v, i) \in Name /\ Spells(v, i, EntryName(v, i))
Apart(v, X) ==
    \A i, j \in EntriesIn(v) \ X : i # j => ~SameName(EntryName(v, i), EntryName(v, j))

(* Every short name is one that build_short_name tries for the entry's name, *)
(* and when the names leave it a choice, no two are the same.                *)
ShowsShorts(v, X) ==
    /\ \A i \in EntriesIn(v) \ X : At(v, i).short \in Alternatives(EntryName(v, i))
    /\ NamesFit =>
          \A i, j \in EntriesIn(v) \ X : i # j => At(v, i).short # At(v, j).short
Readable(v, X) ==
    EndLast(v) /\ NoOrphans(v) /\ ShowsNames(v, X) /\ Apart(v, X) /\ ShowsShorts(v, X)

(* No entry has the name a.                                                  *)
Lacks(v, a) == \A i \in EntriesIn(v) : ~SameName(EntryName(v, i), a)

(* A short name for a new entry of the name a.                               *)
NewShort(v, short, a) ==
    /\ short \in Alternatives(a)
    /\ NamesFit => \A i \in EntriesIn(v) : At(v, i).short # short

-----------------------------------------------------------------------------
(* The invariant of the directories.                                         *)

(* A directory as the disk has it.                                           *)
DirAt(f, d, c) == Image(d, Chain(f, c, DIR_MAX_CLUSTERS))

(* On the disk all directories read back, but the one being saved.           *)
Busy == IF pc = "save" THEN {cwd} ELSE {}
AllReadable == \A c \in Parents(data) \ Busy : Readable(DirAt(fat, data, c), {})

(* The clusters of the operation's image are those of the directory, and the *)
(* one that is not linked yet.                                               *)
DircInv ==
    Inserting \/ pc \in {"free", "save"} =>
        IF Extending
        THEN dirc = Append(DirChain(cwd), LastDir) /\ Len(dirc) <= DIR_MAX_CLUSTERS
        ELSE dirc = DirChain(cwd)

(* The image reads back; what is inserted is not there, nor is its short     *)
(* name, and it goes into the first run of free slots.                       *)
ShortChosen == pc \in {"search", "extend", "retry", "place", "fail"}
ImageInv ==
    /\ Inserting \/ pc = "free" => Readable(img, {})
    /\ Inserting => op.name \in Name /\ Lacks(img, op.name)
    /\ ShortChosen => NewShort(img, op.short, op.name)
    /\ pc = "place" => op.slot = FreeRun(img, LfnCount(op.short, op.name) + 1)

(* What is being saved is the old image with an entry more, or less; the     *)
(* disk has the new one up to the sector that is written next.               *)
Inserted(old) ==
    LET n == LfnCount(op.short, op.name)
        run == FreeRun(old, n + 1)
    IN  /\ op.name \in Name /\ Lacks(old, op.name) /\ NewShort(old, op.short, op.name)
        /\ run # 0 /\ op.slot = run + n
        /\ img = Insert(old, run, op.name, NewEntry)
Removed(old) == At(old, op.slot).tag = "file" /\ img = MarkDeleted(old, op.slot)
SavedFrom(old) ==
    /\ old \in Seq(Sector) /\ Len(old) = Len(img) /\ Readable(old, {})
    /\ IF op.kind = "delete" THEN Removed(old) ELSE Inserted(old)
    /\ \A k \in 1..Len(img) :
          SlotsOf(data[dirc[k]]) = IF ToCome(k) THEN old[k] ELSE img[k]

ReadInv ==
    /\ AllReadable
    /\ DircInv
    /\ ImageInv
    /\ pc = "save" => \E old : SavedFrom(old)

(* Directories of the same length have the same slots.                       *)
LEMMA SameShape ==
    ASSUME NEW v \in Seq(Sector), NEW w \in Seq(Sector), Len(v) = Len(w)
    PROVE  Capacity(v) \in Nat /\ SlotsIn(w) = SlotsIn(v) /\ Capacity(w) = Capacity(v)
  BY CapacityType DEF SlotsIn, Capacity

(* What an insertion and a deletion leave in each slot, by number. *)
LEMMA InsertAt ==
    ASSUME NEW v \in Seq(Sector), NEW run \in Nat, NEW a \in Seq(Piece), NEW entry,
           NEW i \in SlotsIn(v), Len(Insert(v, run, a, entry)) = Len(v),
           Insert(v, run, a, entry) \in Seq(Sector)
    PROVE  LET n == LfnCount(entry.short, a)
           IN  At(Insert(v, run, a, entry), i) =
                 IF i \in run..(run + n - 1)
                 THEN Lfn(a[i - run + 1], n - (i - run), Checksum[entry.short])
                 ELSE IF i = run + n THEN entry ELSE At(v, i)
  <1> DEFINE w == Insert(v, run, a, entry)
             n == LfnCount(entry.short, a)
  <1>1. PICK k \in 1..Len(v), e \in SlotNo : Position(k, e) = i
    BY SlotPlace DEF SlotsIn
  <1>2. At(v, i) = v[k][e] /\ At(w, i) = w[k][e]
    BY <1>1, PositionAt
  <1>3. w[k][e] =
          IF Position(k, e) \in run..(run + n - 1)
          THEN Lfn(a[Position(k, e) - run + 1], n - (Position(k, e) - run), Checksum[entry.short])
          ELSE IF Position(k, e) = run + n THEN entry ELSE v[k][e]
    BY DEF Insert, MapSlots, SlotNo
  <1> QED
    BY <1>1, <1>2, <1>3

LEMMA MarkedAt ==
    ASSUME NEW v \in Seq(Sector), NEW idx, NEW i \in SlotsIn(v)
    PROVE  At(MarkDeleted(v, idx), i) =
             IF i \in LfnSetOf(v, idx) THEN Deleted(HasLfnAttr(At(v, i))) ELSE At(v, i)
  <1> DEFINE w == MarkDeleted(v, idx)
  <1>1. PICK k \in 1..Len(v), e \in SlotNo : Position(k, e) = i
    BY SlotPlace DEF SlotsIn
  <1>2. w \in Seq(Sector) /\ Len(w) = Len(v)
    BY MarkDeletedType
  <1>3. At(v, i) = v[k][e] /\ At(w, i) = w[k][e]
    <2> HIDE DEF w
    <2> QED
      BY <1>1, <1>2, PositionAt
  <1>4. w[k][e] = IF Position(k, e) \in LfnSetOf(v, idx) THEN Deleted(HasLfnAttr(v[k][e])) ELSE v[k][e]
    BY DEF MarkDeleted, MapSlots, SlotNo
  <1> QED
    BY <1>1, <1>3, <1>4

(* Images are the same when their slots are. *)
LEMMA SlotsTell ==
    ASSUME NEW v \in Seq(Sector), NEW w \in Seq(Sector), Len(v) = Len(w),
           \A k \in 1..Len(v), e \in SlotNo : v[k][e] = w[k][e]
    PROVE  v = w
  <1>1. ASSUME NEW k \in 1..Len(v)
        PROVE  v[k] = w[k]
    <2>1. v[k] \in Sector /\ w[k] \in Sector
      BY <1>1, ElementOfSeq
    <2>2. v[k] = [e \in SlotNo |-> v[k][e]] /\ w[k] = [e \in SlotNo |-> w[k][e]]
      BY <2>1 DEF Sector, SlotNo
    <2>3. \A e \in SlotNo : v[k][e] = w[k][e]
      BY <1>1
    <2> QED
      BY <2>2, <2>3
  <1> QED
    BY <1>1, SeqEqual

(* The names callers may pass. *)
LEMMA NameType ==
    ASSUME NEW a \in Name
    PROVE  /\ a \in Seq(Piece) /\ a # <<>> /\ Len(a) \in Nat \ {0} /\ Len(a) <= MAX_LFN_SETS
           /\ a = [p \in 1..Len(a) |-> a[p]]
           /\ \A s : LfnCount(s, a) \in Nat /\ (LfnCount(s, a) = 0 \/ LfnCount(s, a) = Len(a))
           /\ \A s : LfnCount(s, a) = 0 => ShortDecode[s] = a
  <1>1. a \in Seq(Piece) /\ a # <<>>
    BY NameAssumption DEF NameAssumption
  <1>2. Len(a) \in Nat \ {0}
    BY <1>1, Ends
  <1>3. Len(a) <= MAX_LFN_SETS
    BY LengthAssumption DEF LengthAssumption
  <1> QED
    BY <1>1, <1>2, <1>3, LenProperties DEF LfnCount

-----------------------------------------------------------------------------
(* What is spelled in front of an entry is what the scan makes of it.        *)

LEMMA LfnParts ==
    ASSUME NEW piece, NEW ord, NEW sum
    PROVE  /\ Lfn(piece, ord, sum).tag = "lfn" /\ Lfn(piece, ord, sum).piece = piece
           /\ Lfn(piece, ord, sum).ord = ord /\ Lfn(piece, ord, sum).sum = sum
  BY DEF Lfn

(* The LFN slots that the scan has met at an entry are those in front of it  *)
(* that spell its name.                                                      *)
LEMMA MetIs ==
    ASSUME NEW v \in Seq(Sector), NoOrphans(v), NEW i \in SlotsIn(v), NEW a \in Name,
           Spells(v, i, a)
    PROVE  Met(v, i) = (i - LfnCount(At(v, i).short, a))..(i - 1)
  <1> DEFINE n == LfnCount(At(v, i).short, a)
             lfn(j) == At(v, j).tag = "lfn"
  <1>1. Capacity(v) \in Nat /\ i \in Nat /\ i >= 1 /\ i <= Capacity(v) /\ n \in Nat
    BY CapacityType, NameType DEF SlotsIn
  <1>2. n < i /\ (i > n + 1 => ~lfn(i - n - 1))
    BY DEF Spells
  <1>3. ASSUME NEW r \in 1..n
        PROVE  lfn(i - n - 1 + r)
    <2>1. At(v, i - n - 1 + r) = Lfn(a[r], n + 1 - r, Checksum[At(v, i).short])
      BY DEF Spells
    <2> QED
      BY <2>1, LfnParts
  <1> HIDE DEF n
  <1>4. \A j \in (i - n)..(i - 1) : lfn(j)
    <2> SUFFICES ASSUME NEW j \in (i - n)..(i - 1) PROVE lfn(j)
      OBVIOUS
    <2>1. j - (i - n - 1) \in 1..n /\ i - n - 1 + (j - (i - n - 1)) = j
      BY <1>1
    <2> QED
      BY <1>3, <2>1
  <1>5. (i - n)..(i - 1) \subseteq Met(v, i)
    <2> SUFFICES ASSUME NEW j \in (i - n)..(i - 1) PROVE j \in Met(v, i)
      OBVIOUS
    <2>1. j \in 1..(i - 1) /\ \A m \in j..(i - 1) : m \in (i - n)..(i - 1)
      BY <1>1, <1>2
    <2> QED
      BY <1>4, <2>1 DEF Met
  <1>6. ASSUME NEW j \in Met(v, i), j \notin (i - n)..(i - 1)
        PROVE  FALSE
    <2> DEFINE B == {m \in j..(i - 1) : ~lfn(m)}
    <2>1. j \in 1..(i - 1) /\ lfn(j) /\ \A m \in j..(i - 1) : lfn(m) \/ IsFree(At(v, m))
      BY <1>6 DEF Met
    <2>2. j < i - n /\ i > n + 1 /\ i - n - 1 \in j..(i - 1)
      BY <1>1, <1>2, <1>6, <2>1
    <2>3. B # {} /\ B \in SUBSET Nat
      BY <1>1, <1>2, <2>1, <2>2
    <2> DEFINE m == Least(B)
    <2>4. m \in B /\ \A y \in B : m <= y
      BY <2>3, LeastInSet
    <2> HIDE DEF m, B
    <2>5. m \in j..(i - 1) /\ ~lfn(m)
      BY <2>4 DEF B
    <2>6. m > j /\ m - 1 \in j..(i - 1) /\ m - 1 + 1 = m /\ m - 1 < m
      BY <1>1, <2>1, <2>5
    <2>7. lfn(m - 1)
      BY <1>1, <2>1, <2>4, <2>6 DEF B
    <2>8. m - 1 \in SlotsIn(v)
      BY <1>1, <2>1, <2>6 DEF SlotsIn
    <2>9. At(v, m).tag \in {"lfn", "file", "dir"}
      BY <2>6, <2>7, <2>8 DEF NoOrphans
    <2>10. IsFree(At(v, m))
      BY <2>1, <2>5
    <2> QED
      BY <2>5, <2>9, <2>10 DEF IsFree
  <1>7. Met(v, i) = (i - n)..(i - 1)
    BY <1>5, <1>6
  <1> QED
    BY <1>7 DEF n

(* The name that is spelled is the name that is shown.                       *)
LEMMA SpelledName ==
    ASSUME NEW v \in Seq(Sector), NoOrphans(v), NEW i \in SlotsIn(v), NEW a \in Name,
           Spells(v, i, a)
    PROVE  EntryName(v, i) = a
  <1> DEFINE s == At(v, i).short
             n == LfnCount(s, a)
             pend == Pending(v, i)
             at(p) == {j \in pend : At(v, j).ord + p = n + 1}
             full == {k \in 0..n : \A p \in 1..k : at(p) # {}}
  <1>1. /\ i \in Nat /\ i >= 1 /\ n \in Nat /\ n < i
        /\ n = 0 \/ n = Len(a)
        /\ n = 0 => ShortDecode[s] = a
        /\ n <= MAX_LFN_SETS /\ MAX_LFN_SETS \in Nat
        /\ a = [p \in 1..Len(a) |-> a[p]]
    BY CapacityType, NameType, SlotAssumption DEF SlotsIn, Spells, SlotAssumption
  <1>2. Met(v, i) = (i - n)..(i - 1)
    BY MetIs
  <1>3. \A r \in 1..n : At(v, i - n - 1 + r) = Lfn(a[r], n + 1 - r, Checksum[s])
    BY DEF Spells
  <1> HIDE DEF n, s
  <1>4. pend = (i - n)..(i - 1)
    <2> SUFFICES ASSUME NEW j \in Met(v, i)
                 PROVE  Cardinality({m \in Met(v, i) : m <= j}) <= MAX_LFN_SETS
      BY <1>2 DEF Pending
    <2> DEFINE T == {m \in Met(v, i) : m <= j}
    <2>1. IsFiniteSet((i - n)..(i - 1)) /\ Cardinality((i - n)..(i - 1)) \in Nat
          /\ Cardinality((i - n)..(i - 1)) <= n
      <3>1. i - n \in Int /\ i - 1 \in Int
        BY <1>1
      <3> DEFINE lo == i - n
                 hi == i - 1
      <3>2. IsFiniteSet(lo..hi) /\ Cardinality(lo..hi) = IF lo > hi THEN 0 ELSE hi - lo + 1
        <4> HIDE DEF lo, hi
        <4> QED
          BY <3>1, FS_Interval DEF lo, hi
      <3>3. (IF lo > hi THEN 0 ELSE hi - lo + 1) \in Nat /\ (IF lo > hi THEN 0 ELSE hi - lo + 1) <= n
        BY <1>1
      <3> QED
        BY <3>2, <3>3
    <2>2. T \subseteq (i - n)..(i - 1)
      BY <1>2
    <2>3. Cardinality(T) <= Cardinality((i - n)..(i - 1)) /\ Cardinality(T) \in Nat
      BY <2>1, <2>2, FS_Subset, FS_CardinalityType
    <2> QED
      BY <1>1, <2>1, <2>3
  <1> HIDE DEF pend
  <1>5. CASE n = 0
    <2>1. pend = {}
      BY <1>1, <1>4, <1>5
    <2> QED
      BY <1>1, <1>5, <2>1 DEF EntryName, s, pend
  <1>6. CASE n # 0
    <2>1. n = Len(a) /\ n >= 1
      BY <1>1, <1>6
    <2>2. Cardinality(pend) = n
      <3>1. i - n \in Int /\ i - 1 \in Int /\ ~(i - n > i - 1) /\ (i - 1) - (i - n) + 1 = n
        BY <1>1, <2>1
      <3> QED
        BY <1>4, <3>1, FS_Interval
    <2>3. ASSUME NEW p \in 1..n
          PROVE  at(p) = {i - n - 1 + p}
      <3>1. ASSUME NEW j \in pend
            PROVE  At(v, j).ord + p = n + 1 <=> j = i - n - 1 + p
        <4> DEFINE r == j - (i - n - 1)
        <4>1. r \in 1..n /\ i - n - 1 + r = j
          BY <1>1, <1>4, <3>1
        <4>2. At(v, j).ord = n + 1 - r
          <5>1. At(v, j) = Lfn(a[r], n + 1 - r, Checksum[s])
            BY <1>3, <4>1
          <5> QED
            BY <5>1, LfnParts
        <4> QED
          BY <1>1, <1>4, <4>1, <4>2
      <3>2. i - n - 1 + p \in pend
        BY <1>1, <1>4
      <3> QED
        BY <3>1, <3>2
    <2> HIDE DEF at
    <2>4. \A j \in Nat : Greatest({j}) = j
      BY DEF Greatest
    <2>5. Greatest(full) = n
      <3>1. n \in full /\ full \in SUBSET (0..n) /\ full # {}
        <4>1. \A p \in 1..n : at(p) # {}
          BY <2>3
        <4>2. n \in full
          BY <1>1, <4>1
        <4> QED
          BY <4>2
      <3>2. Greatest(full) \in full /\ Greatest(full) >= n
        BY <1>1, <3>1, GreatestInSet
      <3> QED
        BY <1>1, <3>1, <3>2
    <2>6. \A p \in 1..n : At(v, Greatest(at(p))).piece = a[p]
      <3> SUFFICES ASSUME NEW p \in 1..n PROVE At(v, Greatest(at(p))).piece = a[p]
        OBVIOUS
      <3>1. i - n - 1 + p \in Nat
        BY <1>1
      <3>2. Greatest(at(p)) = i - n - 1 + p
        BY <2>3, <2>4, <3>1
      <3> QED
        BY <1>3, <3>2, LfnParts
    <2>7. Assemble(v, pend) = [p \in 1..n |-> At(v, Greatest(at(p))).piece]
      BY <2>2, <2>5 DEF Assemble, at
    <2>8. Assemble(v, pend) = a
      BY <1>1, <2>1, <2>6, <2>7
    <2>9. Greatest(pend) = i - 1
      <3>1. pend # {} /\ pend \in SUBSET (0..(i - 1)) /\ i - 1 \in pend /\ i - 1 \in Nat
        BY <1>1, <1>4, <2>1
      <3>2. Greatest(pend) \in pend /\ Greatest(pend) >= i - 1
        BY <3>1, GreatestInSet
      <3> QED
        BY <1>1, <3>1, <3>2
    <2>10. At(v, i - 1).sum = Checksum[s]
      <3>1. n \in 1..n /\ i - n - 1 + n = i - 1
        BY <1>1, <2>1
      <3> QED
        BY <1>3, <3>1, LfnParts
    <2>11. pend # {}
      <3>1. i - 1 \in (i - n)..(i - 1)
        BY <1>1, <2>1
      <3> QED
        BY <1>4, <3>1
    <2> QED
      BY <2>8, <2>9, <2>10, <2>11 DEF EntryName, s, pend
  <1> QED
    BY <1>5, <1>6

(* The slots in which a name is spelled.                                     *)
LEMMA SpellsParts ==
    ASSUME NEW v \in Seq(Sector), NEW i \in SlotsIn(v), NEW a \in Name, Spells(v, i, a),
           NEW n, n = LfnCount(At(v, i).short, a)
    PROVE  /\ n \in Nat /\ n < i /\ i \in Nat /\ Capacity(v) \in Nat /\ i <= Capacity(v)
           /\ \A j \in (i - n)..(i - 1) : j \in SlotsIn(v) /\ At(v, j).tag = "lfn"
           /\ i > n + 1 => i - n - 1 \in SlotsIn(v) /\ At(v, i - n - 1).tag # "lfn"
  <1>1. n \in Nat /\ Capacity(v) \in Nat /\ i \in Nat /\ i >= 1 /\ i <= Capacity(v)
    BY CapacityType, NameType DEF SlotsIn
  <1>2. n < i /\ (i > n + 1 => At(v, i - n - 1).tag # "lfn")
    BY DEF Spells
  <1>3. ASSUME NEW j \in (i - n)..(i - 1)
        PROVE  j \in SlotsIn(v) /\ At(v, j).tag = "lfn"
    <2> DEFINE r == j - (i - n - 1)
    <2>1. r \in 1..n /\ i - n - 1 + r = j /\ j \in SlotsIn(v)
      BY <1>1, <1>2 DEF SlotsIn
    <2>2. At(v, i - n - 1 + r) = Lfn(a[r], n + 1 - r, Checksum[At(v, i).short])
      BY <2>1 DEF Spells
    <2> QED
      BY <2>1, <2>2, LfnParts
  <1>4. i > n + 1 => i - n - 1 \in SlotsIn(v)
    BY <1>1 DEF SlotsIn
  <1> QED
    BY <1>1, <1>2, <1>3, <1>4

(* A name stays when its slots stay and no LFN slot comes up in front.       *)
LEMMA StillSpells ==
    ASSUME NEW v \in Seq(Sector), NEW w \in Seq(Sector), NoOrphans(w),
           NEW i \in SlotsIn(v), i \in SlotsIn(w), NEW a \in Name, Spells(v, i, a),
           NEW n, n = LfnCount(At(v, i).short, a),
           \A j \in (i - n)..i : At(w, j) = At(v, j),
           i > n + 1 => At(w, i - n - 1).tag # "lfn"
    PROVE  Spells(w, i, a) /\ EntryName(w, i) = a
  <1>1. n \in Nat /\ n < i /\ i \in Nat
    BY SpellsParts
  <1>2. At(w, i) = At(v, i)
    BY <1>1
  <1>3. ASSUME NEW r \in 1..n
        PROVE  At(w, i - n - 1 + r) = Lfn(a[r], n + 1 - r, Checksum[At(v, i).short])
    <2>1. i - n - 1 + r \in (i - n)..i
      BY <1>1
    <2>2. At(v, i - n - 1 + r) = Lfn(a[r], n + 1 - r, Checksum[At(v, i).short])
      BY DEF Spells
    <2> QED
      BY <2>1, <2>2
  <1>4. Spells(w, i, a)
    BY <1>1, <1>2, <1>3 DEF Spells
  <1> QED
    BY <1>4, SpelledName

(* The entry in slot i has in w the name that it has in v.                   *)
SameEntry(v, w, i) ==
    /\ i \in EntriesIn(v) /\ At(w, i) = At(v, i)
    /\ EntryName(w, i) = EntryName(v, i) /\ Spells(w, i, EntryName(v, i))

(* w lists the entries that v lists, those in S aside.                       *)
SameList(v, w, S) ==
    /\ EntriesIn(w) \ S = EntriesIn(v) \ S
    /\ \A i \in EntriesIn(v) \ S : At(w, i) = At(v, i) /\ EntryName(w, i) = EntryName(v, i)

(* In w the slot has an entry of that name, in v it has none.                *)
NewIn(v, w, slot, entry, a) ==
    /\ slot \in EntriesIn(w) /\ slot \notin EntriesIn(v)
    /\ At(w, slot) = entry /\ EntryName(w, slot) = a

LEMMA SameEntries ==
    ASSUME NEW v, NEW w, NEW S, \A i \in EntriesIn(w) \ S : SameEntry(v, w, i),
           \A i \in EntriesIn(v) \ S : i \in EntriesIn(w)
    PROVE  SameList(v, w, S)
  BY DEF SameEntry, SameList

(* A directory reads back whose entries are among those of another that does *)
(* and whose names have stayed in their slots.                               *)
LEMMA ReadableKept ==
    ASSUME NEW v, NEW w, NEW X, NEW Y, Readable(v, X), EndLast(w), NoOrphans(w),
           \A i \in EntriesIn(w) \ Y : i \notin X /\ SameEntry(v, w, i)
    PROVE  Readable(w, Y)
  BY DEF Readable, ShowsNames, Apart, ShowsShorts, SameEntry

(* What dir_find looks at when no slot that was used comes after the first   *)
(* that was not.                                                             *)
LEMMA VisibleEntries ==
    ASSUME NEW v \in Seq(Sector), EndLast(v)
    PROVE  Visible(v) = EntriesIn(v)
  <1>1. Capacity(v) \in Nat /\ Count(v) \in 0..Capacity(v)
    BY CapacityType, CountRange
  <1> DEFINE C == Capacity(v)
             S == {n \in 0..C : n = C \/ At(v, n + 1) = End}
  <1>2. Count(v) = Least(S)
    BY DEF Count
  <1>3. Count(v) \in S
    <2>1. S \in SUBSET Nat /\ S # {}
      BY <1>1
    <2> HIDE DEF S
    <2> QED
      BY <1>2, <2>1, LeastInSet
  <1>4. ASSUME NEW i \in EntriesIn(v), i \notin 1..Count(v)
        PROVE  FALSE
    <2>1. i \in 1..C /\ i > Count(v) /\ Count(v) # C
      BY <1>1, <1>4 DEF EntriesIn, SlotsIn
    <2>2. At(v, Count(v) + 1) = End
      BY <1>3, <2>1
    <2>3. At(v, i) = End
      <3>1. Count(v) + 1 \in SlotsIn(v) /\ i \in SlotsIn(v) /\ (Count(v) + 1 = i \/ Count(v) + 1 < i)
        BY <1>1, <2>1 DEF SlotsIn
      <3> QED
        BY <2>2, <3>1 DEF EndLast
    <2>4. IsVisible(At(v, i))
      BY <1>4 DEF EntriesIn
    <2> QED
      BY <2>3, <2>4 DEF IsVisible, End
  <1>5. ASSUME NEW i \in 1..Count(v)
        PROVE  i \in SlotsIn(v)
    BY <1>1 DEF SlotsIn
  <1> QED
    BY <1>4, <1>5 DEF Visible, EntriesIn

(* What dir_find does not find is not there.                                 *)
LEMMA NotFound ==
    ASSUME NEW v \in Seq(Sector), EndLast(v), NEW a, Find(v, a) = 0
    PROVE  Lacks(v, a)
  <1> DEFINE hits == {i \in Visible(v) : SameName(EntryName(v, i), a)}
  <1>1. hits = {}
    <2> SUFFICES ASSUME hits # {} PROVE FALSE
      OBVIOUS
    <2>1. hits \in SUBSET (Nat \ {0})
      BY VisibleType
    <2>2. Least(hits) \in hits
      <3> HIDE DEF hits
      <3> QED
        BY <2>1, LeastInSet
    <2>3. Find(v, a) = Least(hits)
      BY DEF Find
    <2> QED
      BY <2>1, <2>2, <2>3
  <1> QED
    BY <1>1, VisibleEntries DEF Lacks

(* The run that is found ends a run of no more than `need` slots: the slot   *)
(* before it is taken.                                                       *)
LEMMA TakenBefore ==
    ASSUME NEW v \in Seq(Sector), NEW need \in Nat \ {0}, NEW run, run = FreeRun(v, need), run # 0
    PROVE  /\ run \in Nat /\ Capacity(v) \in Nat /\ run + need - 1 <= Capacity(v)
           /\ \A j \in run..(run + need - 1) : j \in SlotsIn(v) /\ IsFree(At(v, j))
           /\ run > 1 => run - 1 \in SlotsIn(v) /\ ~IsFree(At(v, run - 1))
  <1>1. Capacity(v) \in Nat
    BY CapacityType
  <1>2. /\ run \in Nat /\ run + need - 1 <= Capacity(v)
        /\ \A j \in run..(run + need - 1) : IsFree(At(v, j))
    BY FreeRunFree
  <1>3. ASSUME run > 1, IsFree(At(v, run - 1))
        PROVE  FALSE
    <2> DEFINE starts == {i \in 1..Capacity(v) :
                             /\ i + need - 1 <= Capacity(v)
                             /\ \A j \in i..(i + need - 1) : IsFree(At(v, j))}
    <2>1. ASSUME NEW j \in (run - 1)..(run - 1 + need - 1)
          PROVE  IsFree(At(v, j))
      <3>1. j = run - 1 \/ j \in run..(run + need - 1)
        BY <1>2
      <3> QED
        BY <1>2, <1>3, <3>1
    <2>2. run - 1 \in starts
      BY <1>1, <1>2, <1>3, <2>1
    <2>3. run = Least(starts)
      BY <2>2 DEF FreeRun
    <2>4. starts \in SUBSET Nat /\ starts # {}
      BY <2>2
    <2> HIDE DEF starts
    <2>5. \A y \in starts : Least(starts) <= y
      BY <2>4, LeastInSet
    <2>6. run <= run - 1
      BY <2>2, <2>3, <2>5
    <2> QED
      BY <1>2, <2>6
  <1>4. /\ \A j \in run..(run + need - 1) : j \in SlotsIn(v)
        /\ run > 1 => run - 1 \in SlotsIn(v)
    BY <1>1, <1>2 DEF SlotsIn
  <1> QED
    BY <1>1, <1>2, <1>3, <1>4

(* The run for an entry with n LFN slots, and the slot of the entry.         *)
RunFor(v, n, run, slot) == run = FreeRun(v, n + 1) /\ run # 0 /\ slot = run + n

(* An insertion puts the new name in, and nothing else changes.              *)
LEMMA InsertReads ==
    ASSUME NEW v \in Seq(Sector), Readable(v, {}), NEW a \in Name, Lacks(v, a),
           NEW entry, IsVisible(entry), NewShort(v, entry.short, a), NEW n, n = LfnCount(entry.short, a),
           NEW run, NEW slot, RunFor(v, n, run, slot),
           NEW w \in Seq(Sector), Len(w) = Len(v), w = Insert(v, run, a, entry)
    PROVE  Readable(w, {}) /\ SameList(v, w, {slot}) /\ NewIn(v, w, slot, entry, a)
  <1> DEFINE new(i) == i \in run..(run + n)
             lfn(i) == i \in run..(run + n - 1)
  <1>1. /\ n \in Nat /\ run \in Nat /\ run > 0 /\ Capacity(v) \in Nat /\ run + n <= Capacity(v)
        /\ \A j \in run..(run + n) : j \in SlotsIn(v) /\ IsFree(At(v, j))
        /\ run > 1 => run - 1 \in SlotsIn(v) /\ ~IsFree(At(v, run - 1))
    <2>1. n \in Nat
      BY NameType
    <2>2. run = FreeRun(v, n + 1) /\ run # 0
      BY DEF RunFor
    <2>3. n + 1 \in Nat \ {0} /\ run \in Nat
      BY <2>1, <2>2, TakenBefore
    <2>4. run + (n + 1) - 1 = run + n
      BY <2>1, <2>3
    <2> QED
      BY <2>1, <2>2, <2>3, <2>4, TakenBefore
  <1>2. SlotsIn(w) = SlotsIn(v) /\ Capacity(w) = Capacity(v)
    BY SameShape
  <1>3. ASSUME NEW i \in SlotsIn(v)
        PROVE  /\ lfn(i) => At(w, i) = Lfn(a[i - run + 1], n - (i - run), Checksum[entry.short])
               /\ i = run + n => At(w, i) = entry
               /\ ~new(i) => At(w, i) = At(v, i)
    <2>1. At(w, i) = IF i \in run..(run + n - 1)
                     THEN Lfn(a[i - run + 1], n - (i - run), Checksum[entry.short])
                     ELSE IF i = run + n THEN entry ELSE At(v, i)
      <3>1. a \in Seq(Piece)
        BY NameType
      <3> QED
        BY <1>1, <3>1, InsertAt
    <2>2. i \in Nat /\ (i = run + n => ~lfn(i)) /\ (~new(i) => ~lfn(i) /\ i # run + n)
      BY <1>1 DEF SlotsIn
    <2> QED
      BY <2>1, <2>2
  <1>4. ASSUME NEW i \in SlotsIn(v)
        PROVE  /\ i \in Nat /\ i > 0 /\ i <= Capacity(v)
               /\ lfn(i) => new(i) /\ At(w, i).tag = "lfn"
               /\ new(i) => lfn(i) \/ i = run + n
               /\ new(i) => IsFree(At(v, i)) /\ ~IsFree(At(w, i))
    <2>1. i \in Nat /\ i > 0 /\ i <= Capacity(v) /\ (new(i) => lfn(i) \/ i = run + n) /\ (lfn(i) => new(i))
      BY <1>1 DEF SlotsIn
    <2>2. lfn(i) => At(w, i).tag = "lfn"
      BY <1>3, LfnParts
    <2>3. i = run + n => ~IsFree(At(w, i))
      BY <1>3 DEF IsVisible, IsFree
    <2>4. lfn(i) => ~IsFree(At(w, i))
      BY <2>2 DEF IsFree
    <2> QED
      BY <1>1, <2>1, <2>2, <2>3, <2>4
  <1>5. EndLast(w)
    <2> SUFFICES ASSUME NEW i \in SlotsIn(v), NEW j \in SlotsIn(v), i < j, At(w, i) = End
                 PROVE  At(w, j) = End
      BY <1>2 DEF EndLast
    <2>1. ~new(i) /\ At(v, i) = End
      BY <1>3, <1>4 DEF IsFree, End
    <2>2. At(v, j) = End
      BY <2>1 DEF Readable, EndLast
    <2>3. ASSUME new(j)
          PROVE  FALSE
      <3>1. i \in Nat /\ i > 0 /\ j \in Nat /\ j <= run + n
        BY <1>1, <1>4, <2>3
      <3>2. i < run /\ run > 1 /\ (i = run - 1 \/ i < run - 1)
        BY <1>1, <2>1, <3>1
      <3>3. run - 1 \in SlotsIn(v)
        BY <1>1, <3>2
      <3>4. At(v, run - 1) = End
        BY <2>1, <3>2, <3>3 DEF Readable, EndLast
      <3> QED
        BY <1>1, <3>2, <3>4 DEF IsFree, End
    <2> QED
      BY <1>3, <2>2, <2>3
  <1>6. NoOrphans(w)
    <2> SUFFICES ASSUME NEW i \in SlotsIn(v), At(w, i).tag = "lfn"
                 PROVE  i + 1 \in SlotsIn(v) /\ At(w, i + 1).tag \in {"lfn", "file", "dir"}
      BY <1>2 DEF NoOrphans
    <2>1. CASE lfn(i)
      <3>1. new(i + 1)
        BY <1>1, <2>1
      <3>0. i + 1 \in SlotsIn(v)
        BY <1>1, <3>1
      <3>2. lfn(i + 1) => At(w, i + 1).tag = "lfn"
        BY <1>4, <3>0
      <3>3. i + 1 = run + n => At(w, i + 1).tag \in {"file", "dir"}
        BY <1>3, <3>0 DEF IsVisible
      <3> QED
        BY <1>4, <3>0, <3>1, <3>2, <3>3
    <2>2. CASE ~new(i)
      <3>1. At(v, i).tag = "lfn"
        BY <1>3, <2>2
      <3>2. i + 1 \in SlotsIn(v) /\ At(v, i + 1).tag \in {"lfn", "file", "dir"}
        BY <3>1 DEF Readable, NoOrphans
      <3>3. ~new(i + 1)
        BY <1>4, <3>2 DEF IsFree
      <3> QED
        BY <1>3, <3>2, <3>3
    <2>3. i # run + n
      BY <1>3 DEF IsVisible
    <2> QED
      BY <1>4, <2>1, <2>2, <2>3
  <1>7. ASSUME NEW i \in EntriesIn(w), i # run + n
        PROVE  SameEntry(v, w, i)
    <2> DEFINE b == EntryName(v, i)
               m == LfnCount(At(v, i).short, b)
    <2>1. i \in SlotsIn(v) /\ i \in SlotsIn(w) /\ ~new(i)
      BY <1>2, <1>4, <1>7 DEF EntriesIn, IsVisible
    <2>2. i \in EntriesIn(v)
      BY <1>3, <1>7, <2>1 DEF EntriesIn
    <2>3. b \in Name /\ Spells(v, i, b)
      BY <2>2 DEF Readable, ShowsNames
    <2> HIDE DEF m, b
    <2>4. /\ m \in Nat /\ m < i /\ i \in Nat /\ i <= Capacity(v)
          /\ \A j \in (i - m)..(i - 1) : j \in SlotsIn(v) /\ At(v, j).tag = "lfn"
          /\ i > m + 1 => i - m - 1 \in SlotsIn(v) /\ At(v, i - m - 1).tag # "lfn"
      BY <2>1, <2>3, SpellsParts DEF m
    <2>5. ASSUME NEW j \in (i - m)..i
          PROVE  j \in SlotsIn(v) /\ ~new(j) /\ At(w, j) = At(v, j)
      <3>1. j = i \/ j \in (i - m)..(i - 1)
        BY <2>4
      <3>2. j \in SlotsIn(v) /\ ~IsFree(At(v, j))
        BY <2>1, <2>2, <2>4, <3>1 DEF IsFree, EntriesIn, IsVisible
      <3> QED
        BY <1>3, <1>4, <3>2
    <2>6. ASSUME i > m + 1
          PROVE  At(w, i - m - 1).tag # "lfn"
      <3>1. ~lfn(i - m - 1)
        <4>1. ~new(i - m) /\ i - m > i - m - 1
          BY <2>4, <2>5
        <4> QED
          BY <1>1, <2>4, <2>6, <4>1
      <3>2. CASE i - m - 1 = run + n
        BY <1>3, <2>4, <2>6, <3>2 DEF IsVisible
      <3>3. CASE ~new(i - m - 1)
        BY <1>3, <2>4, <2>6, <3>3
      <3> QED
        BY <1>4, <2>4, <2>6, <3>1, <3>2, <3>3
    <2>7. Spells(w, i, b) /\ EntryName(w, i) = b
      <3>1. m = LfnCount(At(v, i).short, b)
        BY DEF m
      <3> QED
        BY <1>6, <2>1, <2>3, <2>5, <2>6, <3>1, StillSpells
    <2>8. At(w, i) = At(v, i)
      BY <1>3, <2>1
    <2> QED
      BY <2>2, <2>7, <2>8 DEF SameEntry, b
  <1>8. Spells(w, run + n, a) /\ EntryName(w, run + n) = a
    <2>0. slot = run + n
      BY DEF RunFor
    <2>1. slot \in SlotsIn(v) /\ At(w, slot) = entry /\ n < slot
      BY <1>1, <1>3, <2>0
    <2>2. ASSUME NEW r \in 1..n
          PROVE  At(w, slot - n - 1 + r) = Lfn(a[r], n + 1 - r, Checksum[entry.short])
      <3>0. PICK j : j = run - 1 + r
        OBVIOUS
      <3>1. lfn(j) /\ new(j)
        BY <1>1, <3>0
      <3>2. j - run + 1 = r /\ n - (j - run) = n + 1 - r /\ slot - n - 1 + r = j
        <4>1. n \in Int /\ run \in Int /\ r \in Int
          BY <1>1
        <4>2. j \in Int /\ slot \in Int
          BY <2>0, <3>0, <4>1
        <4>3. j - run + 1 = r
          BY <3>0, <4>1, <4>2
        <4>4. n - (j - run) = n + 1 - r
          BY <3>0, <4>1, <4>2
        <4>5. slot - n - 1 + r = j
          BY <2>0, <3>0, <4>1, <4>2
        <4> QED
          BY <4>3, <4>4, <4>5
      <3>3. j \in SlotsIn(v)
        BY <1>1, <3>1
      <3>4. At(w, j) = Lfn(a[j - run + 1], n - (j - run), Checksum[entry.short])
        BY <1>3, <3>1, <3>3
      <3> QED
        BY <3>2, <3>4
    <2>4. ASSUME slot > n + 1
          PROVE  At(w, slot - n - 1).tag # "lfn"
      <3>1. run > 1 /\ slot - n - 1 = run - 1 /\ ~new(run - 1) /\ run - 1 + 1 = run /\ new(run)
        BY <1>1, <2>0, <2>4
      <3>2. At(w, run - 1) = At(v, run - 1)
        BY <1>1, <1>3, <3>1
      <3>3. run \in SlotsIn(v) /\ IsFree(At(v, run))
        BY <1>1, <3>1
      <3>4. At(v, run - 1).tag # "lfn"
        BY <1>1, <3>1, <3>3 DEF Readable, NoOrphans, IsFree
      <3> QED
        BY <3>1, <3>2, <3>4
    <2>5. Spells(w, slot, a)
      <3>1. LfnCount(At(w, slot).short, a) = n
        BY <2>1
      <3>2. n < slot
        BY <2>1
      <3>3. \A r \in 1..n : At(w, slot - n - 1 + r) = Lfn(a[r], n + 1 - r, Checksum[At(w, slot).short])
        BY <2>1, <2>2
      <3> QED
        BY <2>4, <3>1, <3>2, <3>3 DEF Spells
    <2> QED
      BY <1>2, <1>6, <2>0, <2>1, <2>5, SpelledName
  <1>9. ShowsNames(w, {})
    <2>1. ASSUME NEW i \in EntriesIn(w)
          PROVE  EntryName(w, i) \in Name /\ Spells(w, i, EntryName(w, i))
      BY <1>7, <1>8 DEF SameEntry, Readable, ShowsNames
    <2> QED
      BY <2>1 DEF ShowsNames
  <1>10. Apart(w, {})
    <2> SUFFICES ASSUME NEW i \in EntriesIn(w), NEW j \in EntriesIn(w), i # j
                 PROVE  ~SameName(EntryName(w, i), EntryName(w, j))
      BY DEF Apart
    <2>1. \A x \in EntriesIn(v) : ~SameName(EntryName(v, x), a) /\ ~SameName(a, EntryName(v, x))
      BY DEF Lacks, SameName
    <2>2. CASE i = run + n
      BY <1>7, <1>8, <2>1, <2>2 DEF SameEntry
    <2>3. CASE j = run + n
      BY <1>7, <1>8, <2>1, <2>3 DEF SameEntry
    <2>4. CASE i # run + n /\ j # run + n
      <3>1. \A x, y \in EntriesIn(v) : x # y => ~SameName(EntryName(v, x), EntryName(v, y))
        BY DEF Readable, Apart
      <3> QED
        BY <1>7, <2>4, <3>1 DEF SameEntry
    <2> QED
      BY <2>2, <2>3, <2>4
  <1>11. SameList(v, w, {slot})
    <2>0. slot = run + n
      BY DEF RunFor
    <2>1. ASSUME NEW i \in EntriesIn(v)
          PROVE  i \in EntriesIn(w)
      <3>1. i \in SlotsIn(v) /\ ~IsFree(At(v, i)) /\ IsVisible(At(v, i))
        BY DEF EntriesIn, IsVisible, IsFree
      <3>2. At(w, i) = At(v, i)
        BY <1>3, <1>4, <3>1
      <3> QED
        BY <1>2, <3>1, <3>2 DEF EntriesIn
    <2> QED
      BY <1>7, <2>0, <2>1, SameEntries
  <1>12. slot \in EntriesIn(w) /\ slot \notin EntriesIn(v) /\ At(w, slot) = entry /\ EntryName(w, slot) = a
    <2>1. slot = run + n
      BY DEF RunFor
    <2>2. slot \in SlotsIn(v) /\ At(w, slot) = entry /\ IsFree(At(v, slot))
      BY <1>1, <1>3, <2>1
    <2> QED
      BY <1>2, <1>8, <2>1, <2>2 DEF EntriesIn, IsVisible, IsFree
  <1>13. ShowsShorts(w, {})
    <2>0. slot = run + n
      BY DEF RunFor
    <2>1. \A i \in EntriesIn(w) : i # slot => SameEntry(v, w, i)
      BY <1>7, <2>0
    <2>2. ShowsShorts(v, {}) /\ NewShort(v, entry.short, a)
      BY DEF Readable
    <2> QED
      BY <1>12, <2>1, <2>2 DEF ShowsShorts, NewShort, SameEntry
  <1> QED
    BY <1>5, <1>6, <1>9, <1>10, <1>11, <1>12, <1>13 DEF Readable, NewIn

(* A deletion that has marked its slots up to some point: the entry is       *)
(* spoiled, the others read as before.                                       *)
LEMMA MarkReads ==
    ASSUME NEW v \in Seq(Sector), Readable(v, {}), NEW idx \in SlotsIn(v), At(v, idx).tag = "file",
           NEW G, G \subseteq LfnSetOf(v, idx),
           \A i \in LfnSetOf(v, idx), j \in G : i < j => i \in G,
           NEW w \in Seq(Sector), Len(w) = Len(v),
           \A i \in SlotsIn(v) :
              At(w, i) = IF i \in G THEN Deleted(HasLfnAttr(At(v, i))) ELSE At(v, i)
    PROVE  /\ Readable(w, {idx}) /\ (idx \in G => Readable(w, {}))
           /\ SameList(v, w, {idx}) /\ (idx \in G => idx \notin EntriesIn(w))
  <1>1. SlotsIn(w) = SlotsIn(v) /\ Capacity(v) \in Nat
    BY SameShape
  <1>2. ASSUME NEW i \in SlotsIn(v)
        PROVE  /\ i \in Nat /\ i > 0 /\ i <= Capacity(v) /\ idx \in Nat
               /\ i \in G => At(w, i).tag = "del" /\ i <= idx /\ (i = idx \/ HasLfnAttr(At(v, i)))
               /\ i \notin G => At(w, i) = At(v, i)
    <2>1. i \in Nat /\ i > 0 /\ i <= Capacity(v) /\ idx \in Nat
      BY <1>1 DEF SlotsIn
    <2>2. ASSUME i \in G
          PROVE  i <= idx /\ (i = idx \/ HasLfnAttr(At(v, i)))
      <3>1. i \in 1..idx /\ \A m \in i..(idx - 1) : HasLfnAttr(At(v, m))
        BY <2>2 DEF LfnSetOf
      <3>2. i = idx \/ i \in i..(idx - 1)
        BY <2>1, <3>1
      <3> QED
        BY <2>1, <3>1, <3>2
    <2>3. i \in G => At(w, i).tag = "del"
      BY DEF Deleted
    <2> QED
      BY <2>1, <2>2, <2>3
  <1>3. EndLast(w)
    <2> SUFFICES ASSUME NEW i \in SlotsIn(v), NEW j \in SlotsIn(v), i < j, At(w, i) = End
                 PROVE  At(w, j) = End
      BY <1>1 DEF EndLast
    <2>1. i \notin G /\ At(v, i) = End
      BY <1>2 DEF End
    <2>2. At(v, j) = End
      BY <2>1 DEF Readable, EndLast
    <2>3. j \notin G
      BY <1>2, <2>2 DEF End, HasLfnAttr
    <2> QED
      BY <1>2, <2>2, <2>3
  <1>4. NoOrphans(w)
    <2> SUFFICES ASSUME NEW i \in SlotsIn(v), At(w, i).tag = "lfn"
                 PROVE  i + 1 \in SlotsIn(v) /\ At(w, i + 1).tag \in {"lfn", "file", "dir"}
      BY <1>1 DEF NoOrphans
    <2>1. i \notin G /\ At(v, i).tag = "lfn"
      BY <1>2
    <2>2. i + 1 \in SlotsIn(v) /\ At(v, i + 1).tag \in {"lfn", "file", "dir"}
      BY <2>1 DEF Readable, NoOrphans
    <2>3. ASSUME i + 1 \in G
          PROVE  FALSE
      <3>1. i + 1 \in 1..idx /\ \A m \in (i + 1)..(idx - 1) : HasLfnAttr(At(v, m))
        BY <2>3 DEF LfnSetOf
      <3>2. i \in 1..idx
        BY <1>2, <3>1
      <3>3. ASSUME NEW m \in i..(idx - 1)
            PROVE  HasLfnAttr(At(v, m))
        <4>1. m = i \/ m \in (i + 1)..(idx - 1)
          BY <1>2
        <4> QED
          BY <2>1, <3>1, <4>1 DEF HasLfnAttr
      <3>4. i \in LfnSetOf(v, idx) /\ i < i + 1
        BY <1>2, <3>2, <3>3 DEF LfnSetOf
      <3> QED
        BY <2>1, <2>3, <3>4
    <2> QED
      BY <1>2, <2>2, <2>3
  <1>5. ASSUME NEW i \in EntriesIn(w), i # idx
        PROVE  SameEntry(v, w, i)
    <2>1. i \in SlotsIn(v) /\ i \in SlotsIn(w) /\ i \notin G
      BY <1>1, <1>2, <1>5 DEF EntriesIn, IsVisible
    <2>2. i \in EntriesIn(v) /\ ~HasLfnAttr(At(v, i))
      BY <1>2, <1>5, <2>1 DEF EntriesIn, IsVisible, HasLfnAttr
    <2>3. PICK b : b = EntryName(v, i)
      OBVIOUS
    <2>4. b \in Name /\ Spells(v, i, b)
      BY <2>2, <2>3 DEF Readable, ShowsNames
    <2>5. PICK m : m = LfnCount(At(v, i).short, b)
      OBVIOUS
    <2>6. /\ m \in Nat /\ m < i /\ i \in Nat /\ i <= Capacity(v)
          /\ \A j \in (i - m)..(i - 1) : j \in SlotsIn(v) /\ At(v, j).tag = "lfn"
          /\ i > m + 1 => i - m - 1 \in SlotsIn(v) /\ At(v, i - m - 1).tag # "lfn"
      BY <2>1, <2>4, <2>5, SpellsParts
    <2>7. ASSUME NEW j \in (i - m)..i
          PROVE  At(w, j) = At(v, j)
      <3>1. j = i \/ j \in (i - m)..(i - 1)
        BY <2>6
      <3>2. j \in SlotsIn(v) /\ j \in Nat /\ idx \in Nat
        BY <1>2, <2>1, <2>6, <3>1
      <3>3. ASSUME j \in G, j # i
            PROVE  FALSE
        <4>1. j \in (i - m)..(i - 1) /\ At(v, j).tag = "lfn"
          BY <2>6, <3>1, <3>3
        <4>2. j <= idx /\ \A x \in j..(idx - 1) : HasLfnAttr(At(v, x))
          BY <3>3 DEF LfnSetOf
        <4>3. ~(i \in j..(idx - 1))
          BY <2>2, <4>2
        <4>4. idx \in (i - m)..(i - 1)
          BY <1>5, <2>6, <3>2, <4>1, <4>2, <4>3
        <4> QED
          BY <2>6, <4>4
      <3> QED
        BY <1>2, <2>1, <3>2, <3>3
    <2>8. i > m + 1 => At(w, i - m - 1).tag # "lfn"
      BY <1>2, <2>6
    <2>9. Spells(w, i, b) /\ EntryName(w, i) = b
      BY <1>4, <2>1, <2>4, <2>5, <2>7, <2>8, StillSpells
    <2> QED
      BY <1>2, <2>1, <2>2, <2>3, <2>9 DEF SameEntry
  <1>6. Readable(w, {idx})
    <2>1. \A i \in EntriesIn(w) \ {idx} : i \notin {} /\ SameEntry(v, w, i)
      BY <1>5
    <2> QED
      BY <1>3, <1>4, <2>1, ReadableKept
  <1>7. ASSUME idx \in G
        PROVE  Readable(w, {})
    <2>1. idx \notin EntriesIn(w)
      BY <1>2, <1>7 DEF EntriesIn, IsVisible
    <2>2. \A i \in EntriesIn(w) \ {} : i \notin {} /\ SameEntry(v, w, i)
      BY <1>5, <2>1
    <2> QED
      BY <1>3, <1>4, <2>2, ReadableKept
  <1>8. idx \in G => idx \notin EntriesIn(w)
    BY <1>2 DEF EntriesIn, IsVisible
  <1>9. SameList(v, w, {idx})
    <2>1. ASSUME NEW i \in EntriesIn(v), i # idx
          PROVE  i \in EntriesIn(w)
      <3>1. i \in SlotsIn(v) /\ IsVisible(At(v, i)) /\ ~HasLfnAttr(At(v, i))
        BY DEF EntriesIn, IsVisible, HasLfnAttr
      <3>2. At(w, i) = At(v, i)
        BY <1>2, <2>1, <3>1
      <3> QED
        BY <1>1, <3>1, <3>2 DEF EntriesIn
    <2> QED
      BY <1>5, <2>1, SameEntries
  <1> QED
    BY <1>6, <1>7, <1>8, <1>9

(* A sector more, of slots that were never used.                             *)
LEMMA AppendAt ==
    ASSUME NEW v \in Seq(Sector), NEW w, w = Append(v, ZeroSector)
    PROVE  /\ w \in Seq(Sector) /\ SlotsIn(v) \subseteq SlotsIn(w)
           /\ Capacity(v) \in Nat /\ Capacity(w) \in Nat /\ Capacity(v) <= Capacity(w)
           /\ \A i \in SlotsIn(w) : At(w, i) = IF i \in SlotsIn(v) THEN At(v, i) ELSE End
  <1>1. ZeroSector \in Sector
    BY SectorTypes
  <1>2. w \in Seq(Sector) /\ Len(w) = Len(v) + 1
        /\ (\A k \in 1..Len(v) : w[k] = v[k]) /\ w[Len(v) + 1] = ZeroSector
    BY <1>1, AppendProperties
  <1>3. Capacity(v) \in Nat /\ Capacity(w) \in Nat /\ Len(v) \in Nat
    BY <1>2, CapacityType, EmptyLen
  <1>4. Capacity(w) = Capacity(v) + ENTRIES_PER_SECTOR /\ ENTRIES_PER_SECTOR \in Nat
        /\ Capacity(v) = Len(v) * ENTRIES_PER_SECTOR
    BY <1>2, <1>3, SlotAssumption DEF Capacity, SlotAssumption
  <1>5. SlotsIn(v) \subseteq SlotsIn(w)
    BY <1>3, <1>4 DEF SlotsIn
  <1>6. ASSUME NEW i \in SlotsIn(w)
        PROVE  At(w, i) = IF i \in SlotsIn(v) THEN At(v, i) ELSE End
    <2>1. PICK k \in 1..Len(w), e \in SlotNo : Position(k, e) = i
      BY <1>2, SlotPlace DEF SlotsIn
    <2>2. At(w, i) = w[k][e]
      BY <1>2, <2>1, PositionAt
    <2>3. CASE k \in 1..Len(v)
      <3>1. i \in SlotsIn(v) /\ At(v, i) = v[k][e]
        BY <2>1, <2>3, PositionAt DEF SlotsIn
      <3> QED
        BY <1>2, <2>2, <2>3, <3>1
    <2>4. CASE k = Len(v) + 1
      <3>1. Position(k, e) = Capacity(v) + e /\ e \in Nat /\ e >= 1
        <4>1. k - 1 = Len(v)
          BY <1>3, <2>4
        <4> QED
          BY <1>4, <4>1 DEF Position, SlotNo
      <3>2. i \notin SlotsIn(v)
        BY <1>3, <2>1, <3>1 DEF SlotsIn
      <3>3. w[k][e] = End
        BY <1>2, <2>4 DEF ZeroSector, SlotNo
      <3> QED
        BY <2>2, <3>2, <3>3
    <2> QED
      BY <1>2, <1>3, <2>1, <2>3, <2>4
  <1> QED
    BY <1>2, <1>3, <1>4, <1>5, <1>6

(* dir_extend adds a cluster of empty slots: nothing else is shown.          *)
LEMMA AppendReads ==
    ASSUME NEW v \in Seq(Sector), Readable(v, {}), NEW w, w = Append(v, ZeroSector)
    PROVE  /\ Readable(w, {}) /\ SameList(v, w, {})
           /\ \A a : Lacks(v, a) => Lacks(w, a)
  <1>1. /\ w \in Seq(Sector) /\ SlotsIn(v) \subseteq SlotsIn(w)
        /\ Capacity(v) \in Nat /\ Capacity(w) \in Nat /\ Capacity(v) <= Capacity(w)
        /\ \A i \in SlotsIn(w) : At(w, i) = IF i \in SlotsIn(v) THEN At(v, i) ELSE End
    BY AppendAt
  <1>2. EndLast(w)
    <2> SUFFICES ASSUME NEW i \in SlotsIn(w), NEW j \in SlotsIn(w), i < j, At(w, i) = End
                 PROVE  At(w, j) = End
      BY DEF EndLast
    <2>1. CASE j \in SlotsIn(v)
      <3>1. i \in SlotsIn(v)
        BY <1>1, <2>1 DEF SlotsIn
      <3> QED
        BY <1>1, <2>1, <3>1 DEF Readable, EndLast
    <2> QED
      BY <1>1, <2>1
  <1>3. NoOrphans(w)
    <2> SUFFICES ASSUME NEW i \in SlotsIn(w), At(w, i).tag = "lfn"
                 PROVE  i + 1 \in SlotsIn(w) /\ At(w, i + 1).tag \in {"lfn", "file", "dir"}
      BY DEF NoOrphans
    <2>1. i \in SlotsIn(v) /\ At(v, i).tag = "lfn"
      BY <1>1 DEF End
    <2>2. i + 1 \in SlotsIn(v) /\ At(v, i + 1).tag \in {"lfn", "file", "dir"}
      BY <2>1 DEF Readable, NoOrphans
    <2> QED
      BY <1>1, <2>2
  <1>4. ASSUME NEW i \in EntriesIn(w)
        PROVE  SameEntry(v, w, i)
    <2>1. i \in SlotsIn(w) /\ i \in SlotsIn(v) /\ i \in EntriesIn(v)
      BY <1>1 DEF EntriesIn, IsVisible, End
    <2>3. PICK b : b = EntryName(v, i)
      OBVIOUS
    <2>4. b \in Name /\ Spells(v, i, b)
      BY <2>1, <2>3 DEF Readable, ShowsNames
    <2>5. PICK m : m = LfnCount(At(v, i).short, b)
      OBVIOUS
    <2>6. /\ m \in Nat /\ m < i /\ i \in Nat /\ i <= Capacity(v)
          /\ \A j \in (i - m)..(i - 1) : j \in SlotsIn(v) /\ At(v, j).tag = "lfn"
          /\ i > m + 1 => i - m - 1 \in SlotsIn(v) /\ At(v, i - m - 1).tag # "lfn"
      BY <2>1, <2>4, <2>5, SpellsParts
    <2>7. ASSUME NEW j \in (i - m)..i
          PROVE  At(w, j) = At(v, j)
      <3>1. j = i \/ j \in (i - m)..(i - 1)
        BY <2>6
      <3>2. j \in SlotsIn(v)
        BY <2>1, <2>6, <3>1
      <3> QED
        BY <1>1, <3>2
    <2>8. i > m + 1 => At(w, i - m - 1).tag # "lfn"
      BY <1>1, <2>6
    <2>9. Spells(w, i, b) /\ EntryName(w, i) = b
      <3>1. w \in Seq(Sector)
        BY <1>1
      <3>2. i \in SlotsIn(v) /\ i \in SlotsIn(w)
        BY <2>1
      <3> QED
        BY <1>3, <2>4, <2>5, <2>7, <2>8, <3>1, <3>2, StillSpells
    <2> QED
      BY <1>1, <2>1, <2>3, <2>9 DEF SameEntry
  <1>5. Readable(w, {})
    BY <1>2, <1>3, <1>4, ReadableKept
  <1>6. SameList(v, w, {})
    <2>1. \A i \in EntriesIn(v) : i \in EntriesIn(w)
      BY <1>1 DEF EntriesIn
    <2> QED
      BY <1>4, <2>1, SameEntries
  <1> QED
    BY <1>4, <1>5, <1>6 DEF Lacks, SameEntry

(* A directory of one sector that has no entries yet.                        *)
LEMMA BareReads ==
    ASSUME NEW v \in Seq(Sector), Len(v) = 1,
           \A e \in SlotNo : v[1][e].tag # "lfn" /\ ~IsVisible(v[1][e]),
           \A e, i \in SlotNo : e < i /\ v[1][e] = End => v[1][i] = End
    PROVE  Readable(v, {}) /\ EntriesIn(v) = {}
  <1>1. SlotsIn(v) = SlotNo
    <2>1. 1 * ENTRIES_PER_SECTOR = ENTRIES_PER_SECTOR
      BY SlotAssumption DEF SlotAssumption
    <2> QED
      BY <2>1 DEF SlotsIn, Capacity, SlotNo
  <1>2. ASSUME NEW e \in SlotNo
        PROVE  At(v, e) = v[1][e]
    <2>1. Position(1, e) = e
      <3>1. (1 - 1) * ENTRIES_PER_SECTOR = 0 /\ e \in Nat
        BY SlotAssumption DEF SlotAssumption, SlotNo
      <3> QED
        BY <3>1 DEF Position
    <2>2. 1 \in 1..Len(v)
      OBVIOUS
    <2>3. At(v, Position(1, e)) = v[1][e]
      BY <2>2, PositionAt
    <2> QED
      BY <2>1, <2>3
  <1>3. EndLast(v)
    BY <1>1, <1>2 DEF EndLast
  <1>4. NoOrphans(v)
    BY <1>1, <1>2 DEF NoOrphans
  <1>5. EntriesIn(v) = {}
    BY <1>1, <1>2 DEF EntriesIn
  <1> QED
    BY <1>3, <1>4, <1>5 DEF Readable, ShowsNames, Apart, ShowsShorts

(* The root as format_fs writes it, and a directory of fat32_create_dir.     *)
LEMMA NewSectorsRead ==
    ASSUME NEW v \in Seq(Sector), Len(v) = 1,
           v[1] = RootSector \/ \E c, p : v[1] = NewDirSector(c, p)
    PROVE  Readable(v, {}) /\ EntriesIn(v) = {}
  <1>1. CASE v[1] = RootSector
    <2>1. ASSUME NEW e \in SlotNo
          PROVE  /\ v[1][e] = IF e = 1 THEN Dot(Root) ELSE IF e = 2 THEN DotDot(Root)
                              ELSE IF e = 3 THEN Volume ELSE End
                 /\ e \in Nat /\ e > 0
      BY <1>1 DEF RootSector, SlotNo
    <2>2. \A e \in SlotNo : v[1][e].tag # "lfn" /\ ~IsVisible(v[1][e])
      BY <2>1 DEF Dot, DotDot, Volume, End, IsVisible
    <2>3. \A e \in SlotNo : v[1][e] = End <=> e > 3
      <3> SUFFICES ASSUME NEW e \in SlotNo PROVE v[1][e] = End <=> e > 3
        OBVIOUS
      <3>1. End # Dot(Root) /\ End # DotDot(Root) /\ End # Volume
        BY DEF Dot, DotDot, Volume, End
      <3> QED
        BY <2>1, <3>1
    <2>4. \A e, i \in SlotNo : e < i /\ v[1][e] = End => v[1][i] = End
      BY <2>1, <2>3
    <2> QED
      BY <2>2, <2>4, BareReads
  <1>2. ASSUME NEW c, NEW p, v[1] = NewDirSector(c, p)
        PROVE  Readable(v, {}) /\ EntriesIn(v) = {}
    <2>1. ASSUME NEW e \in SlotNo
          PROVE  /\ v[1][e] = IF e = 1 THEN Dot(c) ELSE IF e = 2 THEN DotDot(p) ELSE End
                 /\ e \in Nat /\ e > 0
      BY <1>2 DEF NewDirSector, SlotNo
    <2>2. \A e \in SlotNo : v[1][e].tag # "lfn" /\ ~IsVisible(v[1][e])
      BY <2>1 DEF Dot, DotDot, End, IsVisible
    <2>3. \A e \in SlotNo : v[1][e] = End <=> e > 2
      <3> SUFFICES ASSUME NEW e \in SlotNo PROVE v[1][e] = End <=> e > 2
        OBVIOUS
      <3>1. End # Dot(c) /\ End # DotDot(p)
        BY DEF Dot, DotDot, End
      <3> QED
        BY <2>1, <3>1
    <2>4. \A e, i \in SlotNo : e < i /\ v[1][e] = End => v[1][i] = End
      BY <2>1, <2>3
    <2> QED
      BY <2>2, <2>4, BareReads
  <1> QED
    BY <1>1, <1>2

-----------------------------------------------------------------------------
(* Chains of directories.                                                    *)

(* s is what a walk from c finds.                                            *)
IsChain(f, c, max, s) ==
    /\ s \in Seq(Cluster) /\ s # <<>> /\ s[1] = c /\ Len(s) <= max
    /\ \A k \in 1..(Len(s) - 1) : s[k + 1] = f[s[k]]
    /\ Len(s) < max => f[s[Len(s)]] \notin Cluster

LEMMA IsItsChain ==
    ASSUME NEW f, NEW c \in Cluster, NEW max \in Nat \ {0}
    PROVE  IsChain(f, c, max, Chain(f, c, max))
  <1>1. Chain(f, c, max) \in Seq(Cluster) /\ Chain(f, c, max) # <<>>
    BY ChainType
  <1> QED
    BY <1>1, ChainSteps DEF IsChain

(* The walk of dir_load finds a chain that is there.                         *)
LEMMA ChainIs ==
    ASSUME NEW f, NEW c \in Cluster, NEW max \in Nat \ {0}, NEW s, IsChain(f, c, max, s)
    PROVE  Chain(f, c, max) = s
  <1>0. PICK t : t = Chain(f, c, max)
    OBVIOUS
  <1>1. IsChain(f, c, max, t)
    BY <1>0, IsItsChain
  <1>2. PICK m, n : m = Len(t) /\ n = Len(s)
    OBVIOUS
  <1>3. m \in Nat /\ n \in Nat /\ m # 0 /\ n # 0 /\ t \in Seq(Cluster) /\ s \in Seq(Cluster)
    BY <1>1, <1>2, EmptyLen DEF IsChain
  <1>4. (\A k \in 1..m : t[k] \in Cluster) /\ (\A k \in 1..n : s[k] \in Cluster)
    BY <1>2, <1>3, ElementOfSeq
  <1>5. /\ t[1] = c /\ s[1] = c /\ m <= max /\ n <= max
        /\ \A k \in 1..(m - 1) : t[k + 1] = f[t[k]]
        /\ \A k \in 1..(n - 1) : s[k + 1] = f[s[k]]
        /\ m < max => f[t[m]] \notin Cluster
        /\ n < max => f[s[n]] \notin Cluster
    BY <1>1, <1>2 DEF IsChain
  <1> DEFINE apart == {k \in Nat : k \in 1..m /\ k \in 1..n /\ t[k] # s[k]}
  <1>6. apart = {}
    <2> SUFFICES ASSUME apart # {} PROVE FALSE
      OBVIOUS
    <2> DEFINE k == Least(apart)
    <2>1. k \in apart /\ \A y \in apart : k <= y
      BY LeastInSet
    <2> HIDE DEF k
    <2>2. k # 1
      BY <1>5, <2>1
    <2>3. /\ k - 1 \in Nat /\ k - 1 \in 1..m /\ k - 1 \in 1..n
          /\ k - 1 \in 1..(m - 1) /\ k - 1 \in 1..(n - 1) /\ (k - 1) + 1 = k
      BY <1>3, <2>1, <2>2
    <2>4. t[k - 1] = s[k - 1]
      BY <2>1, <2>3
    <2>5. t[k] = f[t[k - 1]] /\ s[k] = f[s[k - 1]]
      BY <1>5, <2>3
    <2> QED
      BY <2>1, <2>4, <2>5
  <1>7. ~(m > n)
    <2> SUFFICES ASSUME m > n PROVE FALSE
      OBVIOUS
    <2>1. n \in 1..m /\ n \in 1..n /\ n \in 1..(m - 1) /\ n + 1 \in 1..m /\ n < max
      BY <1>3, <1>5
    <2>2. t[n] = s[n] /\ t[n + 1] = f[t[n]] /\ t[n + 1] \in Cluster
      BY <1>3, <1>4, <1>5, <1>6, <2>1
    <2> QED
      BY <1>5, <2>1, <2>2
  <1>8. ~(n > m)
    <2> SUFFICES ASSUME n > m PROVE FALSE
      OBVIOUS
    <2>1. m \in 1..n /\ m \in 1..m /\ m \in 1..(n - 1) /\ m + 1 \in 1..n /\ m < max
      BY <1>3, <1>5
    <2>2. t[m] = s[m] /\ s[m + 1] = f[s[m]] /\ s[m + 1] \in Cluster
      BY <1>3, <1>4, <1>5, <1>6, <2>1
    <2> QED
      BY <1>5, <2>1, <2>2
  <1>9. m = n
    BY <1>3, <1>7, <1>8
  <1>10. \A k \in 1..n : t[k] = s[k]
    BY <1>3, <1>6, <1>9
  <1>11. t = s
    BY <1>2, <1>3, <1>9, <1>10, SeqEqual
  <1> QED
    BY <1>0, <1>11

(* A chain does not change with links that are not its own, nor when another *)
(* end is written to it.                                                     *)
LEMMA ChainKept ==
    ASSUME NEW f, NEW c \in Cluster, NEW max \in Nat \ {0}, NEW s, s = Chain(f, c, max), NEW g,
           \A k \in 1..Len(s) : g[s[k]] = f[s[k]] \/ (k = Len(s) /\ g[s[k]] \notin Cluster)
    PROVE  Chain(g, c, max) = s
  <1>1. IsChain(f, c, max, s)
    BY IsItsChain
  <1>2. PICK n : n = Len(s)
    OBVIOUS
  <1>3. n \in Nat /\ n # 0 /\ s \in Seq(Cluster)
    BY <1>1, <1>2, EmptyLen DEF IsChain
  <1>4. ASSUME NEW k \in 1..(n - 1)
        PROVE  s[k + 1] = g[s[k]]
    <2>1. k \in 1..n /\ k # n
      BY <1>3
    <2> QED
      BY <1>1, <1>2, <2>1 DEF IsChain
  <1>5. n < max => g[s[n]] \notin Cluster
    <2>1. n \in 1..n
      BY <1>3
    <2> QED
      BY <1>1, <1>2, <2>1 DEF IsChain
  <1>6. IsChain(g, c, max, s)
    BY <1>1, <1>2, <1>4, <1>5 DEF IsChain
  <1> QED
    BY <1>6, ChainIs

(* A cluster linked behind the last one.                                     *)
LinksOn(s, f, g, x) ==
    /\ \A k \in 1..Len(s) : g[s[k]] = IF k = Len(s) THEN x ELSE f[s[k]]
    /\ g[x] \notin Cluster
Longer(s, x, t) ==
    /\ t \in Seq(Cluster) /\ Len(t) = Len(s) + 1
    /\ (\A k \in 1..Len(s) : t[k] = s[k]) /\ t[Len(s) + 1] = x

LEMMA ChainLonger ==
    ASSUME NEW f, NEW c \in Cluster, NEW max \in Nat \ {0}, NEW s, s = Chain(f, c, max), NEW g,
           Len(s) < max, NEW x \in Cluster, LinksOn(s, f, g, x),
           NEW t, Longer(s, x, t)
    PROVE  Chain(g, c, max) = t
  <1>1. IsChain(f, c, max, s)
    BY IsItsChain
  <1>2. PICK n : n = Len(s)
    OBVIOUS
  <1>3. n \in Nat /\ n # 0 /\ s \in Seq(Cluster) /\ s[1] = c
    BY <1>1, <1>2, EmptyLen DEF IsChain
  <1>5. /\ t \in Seq(Cluster) /\ t # <<>> /\ Len(t) = n + 1
        /\ (\A k \in 1..n : t[k] = s[k]) /\ t[n + 1] = x
    <2>1. t \in Seq(Cluster) /\ Len(t) = n + 1 /\ (\A k \in 1..n : t[k] = s[k]) /\ t[n + 1] = x
      BY <1>2 DEF Longer
    <2>2. n + 1 # 0
      BY <1>3
    <2> QED
      BY <2>1, <2>2, EmptyLen
  <1>6. t[1] = c
    BY <1>3, <1>5
  <1>7. ASSUME NEW k \in 1..n
        PROVE  t[k + 1] = g[t[k]]
    <2>1. CASE k = n
      BY <1>2, <1>5, <2>1 DEF LinksOn
    <2>2. CASE k # n
      <3>1. k \in 1..(n - 1) /\ k + 1 \in 1..n
        BY <1>3, <2>2
      <3>2. s[k + 1] = f[s[k]]
        BY <1>1, <1>2, <3>1 DEF IsChain
      <3> QED
        BY <1>2, <1>5, <2>2, <3>1, <3>2 DEF LinksOn
    <2> QED
      BY <2>1, <2>2
  <1>8. IsChain(g, c, max, t)
    <2>1. n + 1 <= max /\ (n + 1) - 1 = n
      BY <1>2, <1>3
    <2> QED
      BY <1>5, <1>6, <1>7, <2>1 DEF IsChain, LinksOn
  <1> QED
    BY <1>8, ChainIs

(* The clusters of two directories are different ones.                       *)
LEMMA DirectoriesApart ==
    ASSUME NEW L, NEW f, NEW d \in Region, NEW X, DiskAt(L, f, d, X),
           NEW a \in Parents(d), NEW b \in Parents(d), a # b, NEW max \in Nat \ {0}
    PROVE  LET s == Chain(f, a, max)
               t == Chain(f, b, max)
           IN  \A j \in 1..Len(s), k \in 1..Len(t) : s[j] # t[k]
  <1>1. PICK s, t : s = Chain(f, a, max) /\ t = Chain(f, b, max)
    OBVIOUS
  <1>2. a \in Cluster /\ b \in Cluster
    BY ParentsType DEF DiskAt
  <1>3. IsChain(f, a, max, s) /\ IsChain(f, b, max, t)
    BY <1>1, <1>2, IsItsChain
  <1>4. PICK m, n : m = Len(s) /\ n = Len(t)
    OBVIOUS
  <1>5. m \in Nat /\ n \in Nat /\ s \in Seq(Cluster) /\ t \in Seq(Cluster)
    BY <1>3, <1>4, EmptyLen DEF IsChain
  <1>6. (\A k \in 1..m : s[k] \in Cluster) /\ (\A k \in 1..n : t[k] \in Cluster)
    BY <1>4, <1>5, ElementOfSeq
  <1>7. /\ s[1] = a /\ t[1] = b
        /\ \A k \in 1..(m - 1) : s[k + 1] = f[s[k]]
        /\ \A k \in 1..(n - 1) : t[k + 1] = f[t[k]]
    BY <1>3, <1>4 DEF IsChain
  <1>8. \A x \in Cluster : f[x] \in Cluster => f[x] # a /\ f[x] # b
    <2>1. \A y \in Parents(d) : y = Root \/ Begins(d, y)
      BY DEF Parents, Begins
    <2> QED
      BY <2>1 DEF DiskAt, Disjoint
  <1> DEFINE meet == {j \in Nat : j \in 1..m /\ \E k \in 1..n : s[j] = t[k]}
  <1>9. meet = {}
    <2> SUFFICES ASSUME meet # {} PROVE FALSE
      OBVIOUS
    <2> DEFINE j == Least(meet)
    <2>1. j \in meet /\ \A y \in meet : j <= y
      BY LeastInSet
    <2> HIDE DEF j
    <2>2. PICK k \in 1..n : s[j] = t[k]
      BY <2>1
    <2>3. j \in 1..m /\ s[j] \in Cluster /\ t[k] \in Cluster
      BY <1>6, <2>1
    <2>4. ASSUME j # 1
          PROVE  j - 1 \in 1..m /\ s[j] = f[s[j - 1]] /\ s[j - 1] \in Cluster /\ j - 1 < j
      <3>1. j - 1 \in 1..m /\ j - 1 \in 1..(m - 1) /\ (j - 1) + 1 = j /\ j - 1 < j
        BY <1>5, <2>3, <2>4
      <3> QED
        BY <1>6, <1>7, <3>1
    <2>5. ASSUME k # 1
          PROVE  k - 1 \in 1..n /\ t[k] = f[t[k - 1]] /\ t[k - 1] \in Cluster
      <3>1. k - 1 \in 1..n /\ k - 1 \in 1..(n - 1) /\ (k - 1) + 1 = k
        BY <1>5, <2>5
      <3> QED
        BY <1>6, <1>7, <3>1
    <2>6. j # 1 /\ k # 1
      BY <1>7, <1>8, <2>2, <2>3, <2>4, <2>5
    <2>7. s[j - 1] = t[k - 1]
      BY <2>2, <2>3, <2>4, <2>5, <2>6 DEF DiskAt, Disjoint
    <2>8. j - 1 \in meet
      BY <1>5, <2>4, <2>5, <2>6, <2>7
    <2> QED
      BY <2>1, <2>3, <2>4, <2>6, <2>8
  <1>10. \A j \in 1..m, k \in 1..n : s[j] # t[k]
    BY <1>5, <1>9
  <1> QED
    BY <1>1, <1>4, <1>10

LEMMA DirBound == DIR_MAX_CLUSTERS \in Nat \ {0}
  BY DiskAssumption DEF DiskAssumption

(* A directory is what the clusters of its chain hold.                       *)
LEMMA DirImage ==
    ASSUME NEW f, NEW d \in Region, NEW c \in Cluster, NEW v \in Seq(Sector),
           NEW s, s = Chain(f, c, DIR_MAX_CLUSTERS), Len(v) = Len(s),
           \A k \in 1..Len(s) : SlotsOf(d[s[k]]) = v[k]
    PROVE  DirAt(f, d, c) = v
  <1>1. s \in Seq(Cluster)
    BY DirBound, ChainType
  <1>2. Image(d, s) \in Seq(Sector) /\ Len(Image(d, s)) = Len(s)
    BY <1>1, ImageType DEF Region
  <1>3. \A k \in 1..Len(s) : Image(d, s)[k] = v[k]
    BY DEF Image
  <1>4. Image(d, s) = v
    BY <1>2, <1>3, SeqEqual
  <1> QED
    BY <1>4 DEF DirAt

(* A directory stays when its clusters and links stay.                       *)
LEMMA DirKept ==
    ASSUME NEW f, NEW d, NEW c \in Cluster, NEW g, NEW e,
           NEW s, s = Chain(f, c, DIR_MAX_CLUSTERS),
           \A k \in 1..Len(s) : /\ g[s[k]] = f[s[k]] \/ (k = Len(s) /\ g[s[k]] \notin Cluster)
                                /\ SlotsOf(e[s[k]]) = SlotsOf(d[s[k]])
    PROVE  Chain(g, c, DIR_MAX_CLUSTERS) = s /\ DirAt(g, e, c) = DirAt(f, d, c)
  <1>1. Chain(g, c, DIR_MAX_CLUSTERS) = s
    BY DirBound, ChainKept
  <1>2. Image(e, s) = Image(d, s)
    BY DEF Image
  <1> QED
    BY <1>1, <1>2 DEF DirAt

(* All directories stay when what is not theirs changes.                     *)
LEMMA DirsKept ==
    ASSUME NEW L, NEW f, NEW d \in Region, NEW X, DiskAt(L, f, d, X), NEW g, NEW e,
           \A x \in L : g[x] = f[x] /\ SlotsOf(e[x]) = SlotsOf(d[x]),
           NEW c \in Parents(d)
    PROVE  /\ Chain(g, c, DIR_MAX_CLUSTERS) = Chain(f, c, DIR_MAX_CLUSTERS)
           /\ DirAt(g, e, c) = DirAt(f, d, c)
  <1>1. PICK s : s = Chain(f, c, DIR_MAX_CLUSTERS)
    OBVIOUS
  <1>2. c \in Cluster
    BY ParentsType DEF DiskAt
  <1>3. \A k \in 1..Len(s) : s[k] \in L
    BY <1>1, DirBound, DirectoryChain
  <1>4. \A k \in 1..Len(s) : /\ g[s[k]] = f[s[k]] \/ (k = Len(s) /\ g[s[k]] \notin Cluster)
                             /\ SlotsOf(e[s[k]]) = SlotsOf(d[s[k]])
    BY <1>3
  <1> QED
    BY <1>1, <1>2, <1>4, DirKept

(* Only clusters of t change.                                                *)
KeptOff(f, d, g, e, t) ==
    \A x \in Cluster : (\A k \in 1..Len(t) : x # t[k]) =>
                          g[x] = f[x] /\ SlotsOf(e[x]) = SlotsOf(d[x])

(* A directory stays when only another one changes.                          *)
LEMMA OtherDirsKept ==
    ASSUME NEW L, NEW f, NEW d \in Region, NEW X, DiskAt(L, f, d, X), NEW g, NEW e,
           NEW b \in Parents(d), NEW c \in Parents(d), b # c,
           NEW t, t = Chain(f, b, DIR_MAX_CLUSTERS), KeptOff(f, d, g, e, t)
    PROVE  DirAt(g, e, c) = DirAt(f, d, c)
  <1>1. PICK s : s = Chain(f, c, DIR_MAX_CLUSTERS)
    OBVIOUS
  <1>2. c \in Cluster
    BY ParentsType DEF DiskAt
  <1>3. \A j \in 1..Len(s), k \in 1..Len(t) : s[j] # t[k]
    BY <1>1, DirBound, DirectoriesApart
  <1>4. \A k \in 1..Len(s) : s[k] \in Cluster
    BY <1>1, DirBound, ChainType, ElementOfSeq
  <1>5. \A k \in 1..Len(s) : /\ g[s[k]] = f[s[k]] \/ (k = Len(s) /\ g[s[k]] \notin Cluster)
                             /\ SlotsOf(e[s[k]]) = SlotsOf(d[s[k]])
    BY <1>3, <1>4 DEF KeptOff
  <1> QED
    BY <1>1, <1>2, <1>5, DirKept

-----------------------------------------------------------------------------
(* The choice of a short name.                                               *)

LEMMA AlternativesFinite ==
    ASSUME NEW a PROVE IsFiniteSet(Alternatives(a))
  <1>1. MAX_ALT \in Nat
    BY SlotAssumption DEF SlotAssumption
  <1> DEFINE N == 1..MAX_ALT
             tilde(n) == Tilde[<<MakeShort[a], n>>]
             T == {tilde(n) : n \in N}
             number == [n \in N |-> tilde(n)]
  <1>2. IsFiniteSet(N)
    BY <1>1, FS_Interval
  <1>3. IsFiniteSet(T)
    <2>1. number \in Surjection(N, T)
      BY DEF Surjection
    <2> HIDE DEF N, T, number
    <2> QED
      BY <1>2, <2>1, FS_Surjection
  <1>4. IsFiniteSet({MakeShort[a]})
    BY FS_Singleton
  <1>5. Alternatives(a) = {MakeShort[a]} \cup T
    BY DEF Alternatives
  <1> QED
    <2> HIDE DEF T
    <2> QED
      BY <1>3, <1>4, <1>5, FS_Union

(* One of the alternatives is not in use: every one that is belongs to a     *)
(* rival, each to another, and the name itself is not among them.            *)
LEMMA SomeAlternative ==
    ASSUME NEW v \in Seq(Sector), Readable(v, {}), NEW a \in Name, Lacks(v, a), NamesFit
    PROVE  \E s \in Alternatives(a) : ~ShortInUse(v, s)
  <1> SUFFICES ASSUME \A s \in Alternatives(a) : ShortInUse(v, s)
               PROVE  FALSE
    OBVIOUS
  <1>1. Visible(v) = EntriesIn(v)
    BY VisibleEntries DEF Readable
  <1>2. \A s \in Alternatives(a) : \E i \in EntriesIn(v) : At(v, i).short = s
    BY <1>1 DEF ShortInUse
  <1> DEFINE A == Alternatives(a)
             R == Rivals(a) \ {a}
             holder == [s \in A |-> CHOOSE i \in EntriesIn(v) : At(v, i).short = s]
             owner == [s \in A |-> EntryName(v, holder[s])]
  <1>3. \A s \in A : holder[s] \in EntriesIn(v) /\ At(v, holder[s]).short = s
    BY <1>2
  <1> HIDE DEF holder
  <1>4. ASSUME NEW s \in A
        PROVE  owner[s] \in R
    <2>1. PICK i : i = holder[s]
      OBVIOUS
    <2>2. i \in EntriesIn(v) /\ At(v, i).short = s /\ owner[s] = EntryName(v, i)
      BY <1>3, <2>1
    <2>3. EntryName(v, i) \in Name /\ s \in Alternatives(EntryName(v, i))
      BY <2>2 DEF Readable, ShowsNames, ShowsShorts
    <2>4. EntryName(v, i) # a
      BY <2>2 DEF Lacks, SameName
    <2> QED
      BY <2>2, <2>3, <2>4 DEF Rivals
  <1>5. ASSUME NEW s \in A, NEW t \in A, owner[s] = owner[t]
        PROVE  s = t
    <2>1. PICK i, j : i = holder[s] /\ j = holder[t]
      OBVIOUS
    <2>2. /\ i \in EntriesIn(v) /\ At(v, i).short = s /\ owner[s] = EntryName(v, i)
          /\ j \in EntriesIn(v) /\ At(v, j).short = t /\ owner[t] = EntryName(v, j)
      BY <1>3, <2>1
    <2>3. SameName(EntryName(v, i), EntryName(v, j))
      BY <1>5, <2>2 DEF SameName
    <2>4. i = j
      BY <2>2, <2>3 DEF Readable, Apart
    <2> QED
      BY <2>2, <2>4
  <1>6. a \in Rivals(a)
    BY DEF Rivals, Alternatives
  <1>7. IsFiniteSet(Rivals(a)) /\ Cardinality(Rivals(a)) <= Cardinality(A)
    BY DEF NamesFit
  <1>8. IsFiniteSet(R) /\ Cardinality(R) = Cardinality(Rivals(a)) - 1
    BY <1>6, <1>7, FS_RemoveElement
  <1>9. IsFiniteSet(A)
    BY AlternativesFinite
  <1>10. Cardinality(A) <= Cardinality(R)
    <2>1. owner \in [A -> R]
      BY <1>4
    <2>2. owner \in Injection(A, R)
      BY <1>5, <2>1 DEF Injection, IsInjective
    <2> HIDE DEF A, R, owner
    <2> QED
      BY <1>8, <1>9, <2>2, FS_Injection
  <1> HIDE DEF A, R
  <1> QED
    BY <1>7, <1>8, <1>9, <1>10, FS_CardinalityType

(* build_short_name.                                                         *)
LEMMA ShortIsNew ==
    ASSUME NEW v \in Seq(Sector), Readable(v, {}), NEW a \in Name, Lacks(v, a)
    PROVE  NewShort(v, BuildShort(v, a), a)
  <1> DEFINE try(n) == IF n = 0 THEN MakeShort[a] ELSE Tilde[<<MakeShort[a], n>>]
             unused == {n \in 0..MAX_ALT : ~ShortInUse(v, try(n))}
             last == IF unused = {} THEN MAX_ALT ELSE Least(unused)
  <1>1. MAX_ALT \in Nat \ {0}
    BY SlotAssumption DEF SlotAssumption
  <1>2. BuildShort(v, a) = try(last)
    BY DEF BuildShort
  <1>3. last \in 0..MAX_ALT /\ (unused # {} => last \in unused)
    <2>1. unused \subseteq Nat /\ unused \subseteq 0..MAX_ALT
      OBVIOUS
    <2>2. unused # {} => Least(unused) \in unused
      <3> HIDE DEF unused
      <3> QED
        BY <2>1, LeastInSet
    <2>3. unused = {} => last = MAX_ALT
      OBVIOUS
    <2>4. unused # {} => last = Least(unused)
      OBVIOUS
    <2>5. MAX_ALT \in 0..MAX_ALT
      BY <1>1
    <2> HIDE DEF unused, last
    <2> QED
      BY <2>1, <2>2, <2>3, <2>4, <2>5
  <1>4. \A n \in 0..MAX_ALT : try(n) \in Alternatives(a)
    BY <1>1 DEF Alternatives
  <1>5. ASSUME NamesFit
        PROVE  unused # {}
    <2>1. PICK s \in Alternatives(a) : ~ShortInUse(v, s)
      BY <1>5, SomeAlternative
    <2>2. \E n \in 0..MAX_ALT : s = try(n)
      BY <1>1 DEF Alternatives
    <2> QED
      BY <2>1, <2>2
  <1>6. NamesFit => ~ShortInUse(v, try(last))
    BY <1>3, <1>5
  <1>7. Visible(v) = EntriesIn(v)
    BY VisibleEntries DEF Readable
  <1> HIDE DEF try, last
  <1> QED
    BY <1>2, <1>3, <1>4, <1>6, <1>7 DEF NewShort, ShortInUse

-----------------------------------------------------------------------------
(* Every computing step keeps the invariant of the directories.              *)

LEMMA LoadIs == ASSUME NEW c PROVE Load(c) = DirAt(fat, data, c)
  BY DEF Load, DirAt, DirChain

(* Nothing is written, and no operation ends a save.                         *)
LEMMA StillReadable ==
    ASSUME AllReadable, UNCHANGED <<fat, data>>, pc # "save"
    PROVE  AllReadable'
  BY DEF AllReadable, Busy

(* An operation that is over leaves nothing to say but that.                 *)
LEMMA OverReads ==
    ASSUME AllReadable', pc' \in {"idle", "abort", "off"}
    PROVE  ReadInv'
  BY DEF ReadInv, DircInv, ImageInv, Inserting, ShortChosen

(* An operation that goes on with the same image.                            *)
LEMMA StillReads ==
    ASSUME ReadInv, UNCHANGED <<fat, data, cwd, img, dirc>>, Inserting, Inserting',
           ~Extending, ~Extending', op'.name = op.name,
           ShortChosen' => NewShort(img, op'.short, op'.name),
           pc' = "place" => op'.slot = FreeRun(img, LfnCount(op'.short, op'.name) + 1)
    PROVE  ReadInv'
  <1>1. pc # "save" /\ pc' # "save" /\ pc # "free" /\ pc' # "free"
    BY DEF Inserting
  <1>2. AllReadable'
    BY <1>1, StillReadable DEF ReadInv
  <1>3. DircInv'
    BY DEF ReadInv, DircInv, DirChain
  <1>4. ImageInv'
    BY <1>1 DEF ReadInv, ImageInv
  <1> QED
    BY <1>1, <1>2, <1>3, <1>4 DEF ReadInv

(* fat32_create_file and fat32_create_dir have looked for the name.          *)
LEMMA CreateReads ==
    ASSUME TypeInv, NEW L, ChainsAt(L), ReadInv, NEW name \in Name, NEW blocks,
           CreateFile(name, blocks) \/ CreateDir(name)
    PROVE  ReadInv'
  <1>1. /\ pc = "idle" /\ pc' \in {"alloc", "name"} /\ Find(Load(cwd), name) = 0
        /\ op'.name = name
        /\ dirc' = DirChain(cwd) /\ img' = Load(cwd)
        /\ UNCHANGED <<fat, data, cwd>>
    BY DEF CreateFile, CreateDir, Start, disk
  <1>2. pc # "save" /\ pc' # "save" /\ pc' # "free" /\ pc' # "place" /\ pc' # "retry" /\ ~ShortChosen'
    BY <1>1 DEF ShortChosen
  <1>3. AllReadable'
    BY <1>1, <1>2, StillReadable DEF ReadInv
  <1>4. cwd \in Cluster /\ cwd \in Parents(data) /\ data \in Region
    BY State DEF ChainsAt, DiskInv
  <1>5. Readable(img', {})
    BY <1>1, <1>2, <1>4, LoadIs DEF ReadInv, AllReadable, Busy
  <1>6. Lacks(img', name)
    <2>1. Load(cwd) \in Seq(Sector)
      BY <1>4, LoadType DEF Region
    <2> QED
      BY <1>1, <1>5, <2>1, NotFound DEF Readable
  <1>7. DircInv'
    BY <1>1, <1>2 DEF DircInv, Extending, DirChain
  <1>8. ImageInv'
    BY <1>1, <1>2, <1>5, <1>6 DEF ImageInv
  <1> QED
    BY <1>2, <1>3, <1>7, <1>8 DEF ReadInv

LEMMA AllocReads ==
    ASSUME ReadInv, AllocCluster \/ WriteContents
    PROVE  ReadInv'
  <1>1. /\ pc = "alloc" /\ pc' \in {"alloc", "name"} /\ op' = op
        /\ UNCHANGED <<fat, data, cwd, img, dirc>>
    BY DEF AllocCluster, WriteContents, disk
  <1>2. Inserting /\ Inserting' /\ ~Extending /\ ~Extending' /\ pc' # "place" /\ ~ShortChosen'
    BY <1>1 DEF Inserting, Extending, ShortChosen
  <1> QED
    BY <1>1, <1>2, StillReads

LEMMA ShortReads ==
    ASSUME TypeInv, ReadInv, ChooseShort
    PROVE  ReadInv'
  <1>1. /\ pc = "name" /\ pc' = "search" /\ op'.name = op.name
        /\ UNCHANGED <<fat, data, cwd, img, dirc>>
    BY DEF ChooseShort, disk, TypeInv, TypeOK
  <1>2. Inserting /\ Inserting' /\ ~Extending /\ ~Extending' /\ pc' # "place"
    BY <1>1 DEF Inserting, Extending
  <1>3. NewShort(img, op'.short, op'.name)
    <2>1. img \in Seq(Sector) /\ Readable(img, {}) /\ op.name \in Name /\ Lacks(img, op.name)
      BY <1>2, State DEF ReadInv, ImageInv
    <2>2. op'.short = BuildShort(img, op.name)
      BY DEF ChooseShort, TypeInv, TypeOK
    <2>3. PICK a, v : a = op.name /\ v = img
      OBVIOUS
    <2>4. NewShort(v, BuildShort(v, a), a)
      BY <2>1, <2>3, ShortIsNew
    <2> QED
      BY <1>1, <2>2, <2>3, <2>4
  <1> QED
    BY <1>1, <1>2, <1>3, StillReads

LEMMA SearchReads ==
    ASSUME TypeInv, ReadInv, SearchRun
    PROVE  ReadInv'
  <1>1. /\ pc \in {"search", "retry"} /\ pc' \in {"place", "extend", "fail"} /\ io = <<>>
        /\ op'.name = op.name /\ op'.short = op.short
        /\ op'.slot = FreeRun(img, LfnCount(op.short, op.name) + 1)
        /\ UNCHANGED <<fat, data, cwd, img, dirc>>
    BY DEF SearchRun, disk, TypeInv, TypeOK
  <1>2. Len(io) = 0
    BY <1>1
  <1>3. Inserting /\ Inserting' /\ ~Extending /\ ~Extending'
    BY <1>1, <1>2 DEF Inserting, Extending
  <1>4. NewShort(img, op'.short, op'.name)
    BY <1>1 DEF ReadInv, ImageInv, ShortChosen
  <1> QED
    BY <1>1, <1>3, <1>4, StillReads

LEMMA FailReads ==
    ASSUME ReadInv, AllocFails \/ InsertFails
    PROVE  ReadInv'
  <1>1. pc # "save" /\ pc' \in {"idle", "abort"} /\ UNCHANGED <<fat, data>>
    BY DEF AllocFails, InsertFails, Finish, disk
  <1> QED
    BY <1>1, StillReadable, OverReads DEF ReadInv

LEMMA ExtendReads ==
    ASSUME TypeInv, ReadInv, ExtendDir
    PROVE  ReadInv'
  <1>1. /\ pc = "extend" /\ pc' = "retry" /\ Len(dirc) < DIR_MAX_CLUSTERS /\ FoundFree # 0
        /\ io' = ExtensionWrites(FoundFree, dirc[Len(dirc)])
        /\ img' = Append(img, ZeroSector) /\ dirc' = Append(dirc, FoundFree)
        /\ op' = op /\ UNCHANGED <<fat, data, cwd>>
    BY DEF ExtendDir, disk
  <1>2. Inserting /\ ~Extending /\ pc # "save" /\ pc' # "save" /\ pc' # "free" /\ pc' # "place"
    BY <1>1 DEF Inserting, Extending
  <1>3. AllReadable'
    BY <1>1, <1>2, StillReadable DEF ReadInv
  <1>4. FoundFree \in Cluster /\ dirc \in Seq(Cluster) /\ img \in Seq(Sector)
        /\ Len(dirc) \in Nat /\ dirc # <<>>
    BY <1>1, FoundFreeType, State DEF TypeInv, Loaded
  <1>5. DircInv'
    <2>1. Extending'
      <3>1. dirc[Len(dirc)] \in Cluster
        BY <1>4, Ends
      <3>2. Len(io') = 7
        BY <1>1, <1>4, <3>1, ExtensionSequence
      <3> QED
        BY <1>1, <3>2 DEF Extending
    <2>2. LastDir' = FoundFree /\ Len(dirc') = Len(dirc) + 1
      BY <1>1, <1>4, AppendProperties DEF LastDir
    <2>3. dirc = DirChain(cwd)
      BY <1>2 DEF ReadInv, DircInv
    <2>4. DirChain(cwd)' = DirChain(cwd)
      BY <1>1 DEF DirChain
    <2>5. Len(dirc') <= DIR_MAX_CLUSTERS
      <3>1. Len(dirc) + 1 <= DIR_MAX_CLUSTERS
        BY <1>1, <1>4, DirBound
      <3> QED
        BY <2>2, <3>1
    <2> QED
      BY <1>1, <2>1, <2>2, <2>3, <2>4, <2>5 DEF DircInv
  <1>6. ImageInv'
    <2>1. Readable(img, {}) /\ op.name \in Name /\ Lacks(img, op.name) /\ NewShort(img, op.short, op.name)
      BY <1>1, <1>2 DEF ReadInv, ImageInv, ShortChosen
    <2>2. PICK w : w = img'
      OBVIOUS
    <2>3. Readable(w, {}) /\ Lacks(w, op.name) /\ SameList(img, w, {})
      BY <1>1, <1>4, <2>1, <2>2, AppendReads
    <2>4. NewShort(w, op.short, op.name)
      BY <2>1, <2>3 DEF NewShort, SameList
    <2> QED
      BY <1>1, <1>2, <2>1, <2>2, <2>3, <2>4 DEF ImageInv
  <1> QED
    BY <1>2, <1>3, <1>5, <1>6 DEF ReadInv

(* The entry goes into the image, behind the slots of its name.              *)
LEMMA PlaceReads ==
    ASSUME TypeInv, TypeInv', NEW L, ChainsAt(L), ReadInv, PlaceEntry
    PROVE  ReadInv' /\ \E old : old = DirAt(fat, data, cwd) /\ SavedFrom(old)'
  <1>1. /\ pc = "place" /\ pc' = "save"
        /\ img' = Insert(img, op.slot, op.name, NewEntry)
        /\ op'.kind = op.kind /\ op'.name = op.name /\ op'.short = op.short
        /\ op'.blocks = op.blocks /\ op'.slot = op.slot + LfnCount(op.short, op.name)
        /\ UNCHANGED <<fat, data, cwd, dirc, chain>>
    BY DEF PlaceEntry, disk, TypeInv, TypeOK
  <1>2. io' = SaveWrites(img', dirc)
    BY DEF PlaceEntry
  <1>3. Inserting /\ pc # "save" /\ ~Inserting' /\ ~Extending /\ ~Extending'
    BY <1>1 DEF Inserting, Extending
  <1>4. AllReadable'
    <2>1. \A c \in Parents(data) : Readable(DirAt(fat, data, c), {})
      BY <1>3 DEF ReadInv, AllReadable, Busy
    <2> QED
      BY <1>1, <2>1 DEF AllReadable
  <1>5. DircInv'
    BY <1>1, <1>3 DEF ReadInv, DircInv, DirChain
  <1>6. ImageInv'
    BY <1>1, <1>3 DEF ImageInv, ShortChosen
  <1>7. PICK old : old = img
    OBVIOUS
  <1>8. /\ old \in Seq(Sector) /\ Len(old) = Len(dirc) /\ Len(dirc) \in Nat
        /\ img' \in Seq(Sector) /\ Len(img') = Len(old)
    BY <1>1, <1>7, State DEF TypeInv, TypeOK, Loaded
  <1>9. \A k \in 1..Len(dirc) : SlotsOf(data[dirc[k]]) = old[k]
    BY <1>3, <1>7 DEF ChainsAt, LoadInv
  <1>10. /\ Readable(old, {}) /\ op.name \in Name /\ Lacks(old, op.name)
         /\ NewShort(old, op.short, op.name)
         /\ op.slot = FreeRun(old, LfnCount(op.short, op.name) + 1)
    BY <1>1, <1>3, <1>7 DEF ReadInv, ImageInv, ShortChosen
  <1>11. op.slot # 0 /\ op.kind # "delete"
    BY <1>1, <1>3 DEF ChainsAt, PlaceInv, ClaimInv, Claiming
  <1>12. NewEntry' = NewEntry
    BY <1>1 DEF NewEntry, FirstCluster
  <1>13. Inserted(old)'
    BY <1>1, <1>7, <1>10, <1>11, <1>12 DEF Inserted
  <1>14. \A k \in 1..Len(img') : ToCome(k)'
    <2>1. Len(io') = Len(img')
      BY <1>2, <1>8, SaveSequence
    <2>2. Len(img') - Len(io') = 0
      BY <1>8, <2>1
    <2> QED
      BY <1>8, <2>2 DEF ToCome
  <1>15. SavedFrom(old)'
    BY <1>1, <1>8, <1>9, <1>10, <1>11, <1>13, <1>14 DEF SavedFrom
  <1>16. old = DirAt(fat, data, cwd)
    <2>1. data \in Region /\ cwd \in Cluster
      BY State
    <2>2. dirc = Chain(fat, cwd, DIR_MAX_CLUSTERS)
      BY <1>3 DEF ReadInv, DircInv, DirChain
    <2> QED
      BY <1>8, <1>9, <2>1, <2>2, DirImage
  <1> QED
    BY <1>1, <1>4, <1>5, <1>6, <1>15, <1>16 DEF ReadInv

(* fat32_delete_file has the directory in RAM as it is on the disk.          *)
LEMMA DeleteReads ==
    ASSUME TypeInv, NEW L, ChainsAt(L), ReadInv, NEW name, DeleteFile(name)
    PROVE  ReadInv'
  <1>1. /\ pc = "idle" /\ pc' = "free"
        /\ dirc' = DirChain(cwd) /\ img' = Load(cwd)
        /\ UNCHANGED <<fat, data, cwd>>
    BY DEF DeleteFile, Start, disk
  <1>2. pc # "save" /\ ~Inserting' /\ ~Extending'
    BY <1>1 DEF Inserting, Extending
  <1>3. AllReadable'
    BY <1>1, <1>2, StillReadable DEF ReadInv
  <1>4. cwd \in Parents(data)
    BY DEF ChainsAt, DiskInv
  <1>5. Readable(img', {})
    BY <1>1, <1>2, <1>4, LoadIs DEF ReadInv, AllReadable, Busy
  <1>6. DircInv'
    BY <1>1, <1>2 DEF DircInv, DirChain
  <1>7. ImageInv'
    BY <1>1, <1>2, <1>5 DEF ImageInv, ShortChosen
  <1> QED
    BY <1>1, <1>3, <1>6, <1>7 DEF ReadInv

LEMMA FreeReads ==
    ASSUME ReadInv, FreeCluster
    PROVE  ReadInv'
  <1>1. /\ pc \in {"free", "abort"} /\ pc' = pc
        /\ UNCHANGED <<fat, data, cwd, op, img, dirc>>
    BY DEF FreeCluster, disk
  <1>2. pc # "save" /\ ~Inserting /\ ~Inserting' /\ ~Extending /\ ~Extending'
    BY <1>1 DEF Inserting, Extending
  <1>3. AllReadable'
    BY <1>1, <1>2, StillReadable DEF ReadInv
  <1>4. DircInv'
    BY <1>1, <1>2 DEF ReadInv, DircInv, DirChain
  <1>5. ImageInv'
    BY <1>1, <1>2 DEF ReadInv, ImageInv, ShortChosen
  <1> QED
    BY <1>1, <1>2, <1>3, <1>4, <1>5 DEF ReadInv

(* The slots are marked, and the save begins.                                *)
LEMMA MarkSaves ==
    ASSUME TypeInv, NEW L, ChainsAt(L), ReadInv, MarkEntry
    PROVE  ReadInv'
  <1>1. /\ pc = "free" /\ pc' = "save"
        /\ img' = MarkDeleted(img, op.slot)
        /\ UNCHANGED <<fat, data, cwd, op, dirc>>
    BY DEF MarkEntry, disk
  <1>2. io' = SaveWrites(img', dirc)
    BY DEF MarkEntry
  <1>3. ~Inserting' /\ ~Extending /\ ~Extending'
    BY <1>1 DEF Inserting, Extending
  <1>4. AllReadable'
    <2>1. \A c \in Parents(data) : Readable(DirAt(fat, data, c), {})
      BY <1>1 DEF ReadInv, AllReadable, Busy
    <2> QED
      BY <1>1, <2>1 DEF AllReadable
  <1>5. DircInv'
    BY <1>1, <1>3 DEF ReadInv, DircInv, DirChain
  <1>6. ImageInv'
    BY <1>1, <1>3 DEF ImageInv, ShortChosen
  <1>7. PICK old : old = img
    OBVIOUS
  <1>8. /\ old \in Seq(Sector) /\ Len(old) = Len(dirc) /\ Len(dirc) \in Nat
        /\ img' \in Seq(Sector) /\ Len(img') = Len(old)
    BY <1>1, <1>7, State, MarkDeletedType
  <1>9. \A k \in 1..Len(dirc) : SlotsOf(data[dirc[k]]) = old[k]
    BY <1>1, <1>3, <1>7 DEF ChainsAt, LoadInv
  <1>10. Readable(old, {})
    BY <1>1, <1>7 DEF ReadInv, ImageInv
  <1>11. op.kind = "delete" /\ At(old, op.slot).tag = "file"
    BY <1>1, <1>7 DEF ChainsAt, FreeInv
  <1>12. Removed(old)'
    BY <1>1, <1>7, <1>11 DEF Removed
  <1>13. \A k \in 1..Len(img') : ToCome(k)'
    <2>1. Len(io') = Len(img')
      BY <1>2, <1>8, SaveSequence
    <2>2. Len(img') - Len(io') = 0
      BY <1>8, <2>1
    <2> QED
      BY <1>8, <2>2 DEF ToCome
  <1>14. SavedFrom(old)'
    BY <1>1, <1>8, <1>9, <1>10, <1>11, <1>12, <1>13 DEF SavedFrom
  <1> QED
    BY <1>1, <1>4, <1>5, <1>6, <1>14 DEF ReadInv

(* What is saved reads back: what was there, and the entry that was          *)
(* inserted, or without the one that was deleted.                            *)
LEMMA SavedReads ==
    ASSUME TypeInv, NEW L, ChainsAt(L), pc = "save", NEW old, SavedFrom(old)
    PROVE  /\ Readable(img, {}) /\ SameList(old, img, {op.slot})
           /\ op.kind # "delete" =>
                 NewIn(old, img, op.slot, NewEntry, op.name)
  <1>1. /\ old \in Seq(Sector) /\ Len(old) = Len(img) /\ Readable(old, {})
        /\ img \in Seq(Sector) /\ op.slot \in SlotsIn(img)
    BY State DEF SavedFrom, ChainsAt, SaveInv, SlotsIn
  <1>2. op.slot \in SlotsIn(old)
    BY <1>1, SameShape
  <1>3. CASE op.kind = "delete"
    <2>1. At(old, op.slot).tag = "file" /\ img = MarkDeleted(old, op.slot)
      BY <1>3 DEF SavedFrom, Removed
    <2>2. PICK G : G = LfnSetOf(old, op.slot)
      OBVIOUS
    <2>3. \A i \in SlotsIn(old) :
             At(img, i) = IF i \in G THEN Deleted(HasLfnAttr(At(old, i))) ELSE At(old, i)
      BY <1>1, <2>1, <2>2, MarkedAt
    <2>4. op.slot \in G
      <3>1. op.slot \in 1..op.slot /\ \A m \in op.slot..(op.slot - 1) : FALSE
        BY <1>2 DEF SlotsIn
      <3> QED
        BY <2>2, <3>1 DEF LfnSetOf
    <2>5. PICK slot : slot = op.slot
      OBVIOUS
    <2>6. slot \in SlotsIn(old) /\ At(old, slot).tag = "file" /\ slot \in G /\ G = LfnSetOf(old, slot)
      BY <1>2, <2>1, <2>2, <2>4, <2>5
    <2>7. Readable(img, {}) /\ SameList(old, img, {slot})
      BY <1>1, <2>3, <2>6, MarkReads
    <2> QED
      BY <1>3, <2>5, <2>7
  <1>4. CASE op.kind # "delete"
    <2>1. Inserted(old)
      BY <1>4 DEF SavedFrom
    <2>2. PICK n, run : n = LfnCount(op.short, op.name) /\ run = FreeRun(old, n + 1)
      OBVIOUS
    <2>3. /\ op.name \in Name /\ Lacks(old, op.name) /\ run # 0 /\ op.slot = run + n
          /\ img = Insert(old, run, op.name, NewEntry) /\ NewShort(old, op.short, op.name)
      BY <2>1, <2>2 DEF Inserted
    <2>4. IsVisible(NewEntry) /\ NewEntry.short = op.short
      BY DEF NewEntry, Entry, IsVisible
    <2>5. PICK slot : slot = op.slot
      OBVIOUS
    <2>6. PICK a, entry, w : a = op.name /\ entry = NewEntry /\ w = img
      OBVIOUS
    <2>7. /\ a \in Name /\ Lacks(old, a) /\ IsVisible(entry) /\ n = LfnCount(entry.short, a)
          /\ NewShort(old, entry.short, a)
          /\ Len(w) = Len(old) /\ w = Insert(old, run, a, entry)
      BY <1>1, <2>2, <2>3, <2>4, <2>5, <2>6
    <2>8. w \in Seq(Sector)
      BY <1>1, <2>6
    <2>9. old \in Seq(Sector) /\ Readable(old, {})
      BY <1>1
    <2>10. RunFor(old, n, run, slot)
      BY <2>2, <2>3, <2>5 DEF RunFor
    <2>11. Readable(w, {}) /\ SameList(old, w, {slot}) /\ NewIn(old, w, slot, entry, a)
      BY <2>7, <2>8, <2>9, <2>10, InsertReads
    <2> QED
      BY <2>5, <2>6, <2>11
  <1> QED
    BY <1>3, <1>4

(* When the last sector is written, the new image is the directory.          *)
LEMMA ReturnReads ==
    ASSUME TypeInv, NEW L, ChainsAt(L), ReadInv, Return
    PROVE  ReadInv'
  <1>1. /\ io = <<>> /\ pc \in {"save", "abort"} /\ pc' = "idle"
        /\ UNCHANGED <<fat, data>>
    BY DEF Return, Finish, disk
  <1>2. CASE pc = "abort"
    BY <1>1, <1>2, StillReadable, OverReads DEF ReadInv
  <1>3. CASE pc = "save"
    <2>1. PICK old : SavedFrom(old)
      BY <1>3 DEF ReadInv
    <2>2. Readable(img, {})
      BY <1>3, <2>1, SavedReads
    <2>3. dirc = DirChain(cwd)
      BY <1>3 DEF ReadInv, DircInv, Extending
    <2>4. /\ img \in Seq(Sector) /\ Len(img) = Len(dirc) /\ Len(img) \in Nat
          /\ data \in Region /\ cwd \in Cluster /\ Len(io) = 0
      BY <1>1, State
    <2>5. \A k \in 1..Len(img) : SlotsOf(data[dirc[k]]) = img[k]
      <3>1. \A k \in 1..Len(img) : ~ToCome(k)
        BY <2>4 DEF ToCome
      <3> QED
        BY <2>1, <3>1 DEF SavedFrom
    <2>6. DirAt(fat, data, cwd) = img
      BY <2>3, <2>4, <2>5, DirImage DEF DirChain
    <2>7. AllReadable'
      BY <1>1, <1>3, <2>2, <2>6 DEF ReadInv, AllReadable, Busy
    <2> QED
      BY <1>1, <2>7, OverReads
  <1> QED
    BY <1>1, <1>2, <1>3

LEMMA ChangeReads ==
    ASSUME ReadInv, (\E d : ChangeDir(d)) \/ (Boot /\ boot = "fat32")
    PROVE  ReadInv'
  <1>1. pc \in {"idle", "off"} /\ pc' = "idle" /\ UNCHANGED <<fat, data>>
    BY DEF ChangeDir, Boot, disk, ram
  <1> QED
    BY <1>1, StillReadable, OverReads DEF ReadInv

(* The disk as formatted.                                                    *)
LEMMA FormatReads ==
    ASSUME TypeInv, FormatInv, pc = "format", io = <<>>, FormatDone \/ PowerCut
    PROVE  ReadInv'
  <1>1. /\ boot = "fat32" /\ DiskAt({Root}, fat, data, {}) /\ Shown(data) = {}
        /\ fat \in Table32 /\ data \in Region
    BY FormattedDisk, State
  <1>2. pc' \in {"idle", "off"} /\ UNCHANGED <<fat, data>>
    BY DEF FormatDone, PowerCut, disk
  <1>3. Parents(data) = {Root}
    BY <1>1 DEF Parents
  <1>4. /\ \A c \in Cluster : fat[c] = IF c = Root THEN EOC ELSE 0
        /\ data = [Blank EXCEPT ![Root] = DirSector(RootSector)]
    <2>1. PICK k \in 2..7 :
             /\ io = Rest(k)
             /\ k > 2 => \A c \in Cluster : fat[c] = IF c = Root /\ k > 4 THEN EOC ELSE 0
             /\ data = IF k = 7 THEN [Blank EXCEPT ![Root] = DirSector(RootSector)] ELSE Blank
      BY <1>1 DEF FormatInv
    <2>2. k = 7
      <3>1. k \in 1..7
        OBVIOUS
      <3>2. ~(k < 7)
        BY <2>1, <3>1, RestSteps
      <3> QED
        BY <3>2
    <2> QED
      BY <2>1, <2>2
  <1>5. IsChain(fat, Root, DIR_MAX_CLUSTERS, <<Root>>)
    BY <1>4, Values, DirBound DEF IsChain
  <1>6. Chain(fat, Root, DIR_MAX_CLUSTERS) = <<Root>>
    BY <1>5, ChainIs, Values, DirBound
  <1>7. PICK v : v = <<RootSector>>
    OBVIOUS
  <1>8. v \in Seq(Sector) /\ Len(v) = 1 /\ v[1] = RootSector
    BY <1>7, SectorTypes
  <1>9. SlotsOf(data[Root]) = v[1]
    BY <1>4, <1>8, Values DEF SlotsOf, DirSector, Blank
  <1>10. DirAt(fat, data, Root) = v
    <2>1. \A k \in 1..1 : SlotsOf(data[<<Root>>[k]]) = v[k]
      BY <1>9
    <2> QED
      BY <1>1, <1>6, <1>8, <2>1, DirImage, Values
  <1>11. Readable(v, {})
    BY <1>8, NewSectorsRead
  <1>12. AllReadable'
    BY <1>2, <1>3, <1>10, <1>11 DEF AllReadable, Busy
  <1> QED
    BY <1>2, <1>12, OverReads

-----------------------------------------------------------------------------
(* A directory of which some sectors are saved.                              *)

LEMMA AtTell ==
    ASSUME NEW v \in Seq(Sector), NEW w \in Seq(Sector), Len(v) = Len(w),
           \A i \in SlotsIn(v) : At(v, i) = At(w, i)
    PROVE  v = w
  <1>1. ASSUME NEW k \in 1..Len(v), NEW e \in SlotNo
        PROVE  v[k][e] = w[k][e]
    <2>1. Position(k, e) \in SlotsIn(v) /\ At(v, Position(k, e)) = v[k][e]
      BY PositionAt DEF SlotsIn
    <2>2. k \in 1..Len(w)
      OBVIOUS
    <2>3. At(w, Position(k, e)) = w[k][e]
      BY <2>2, PositionAt
    <2> QED
      BY <2>1, <2>3
  <1> QED
    BY <1>1, SlotsTell

LEMMA PositionOrder ==
    ASSUME NEW E \in Nat \ {0}, NEW k \in Nat \ {0}, NEW e \in 1..E, NEW K \in Nat,
           NEW i, i = (k - 1) * E + e
    PROVE  i <= K * E <=> k <= K
  <1>1. PICK a, b : a = (k - 1) * E /\ b = K * E
    OBVIOUS
  <1>2. a \in Nat /\ b \in Nat /\ e \in Nat /\ e >= 1 /\ e <= E
    BY <1>1
  <1>3. ASSUME k <= K
        PROVE  i <= b
    <2>1. PICK m : m = K - k
      OBVIOUS
    <2>2. m \in Nat /\ K = (k - 1) + 1 + m
      BY <1>3, <2>1
    <2>3. b = a + E + m * E /\ m * E \in Nat
      BY <1>1, <2>2
    <2> QED
      BY <1>1, <1>2, <2>3
  <1>4. ASSUME ~(k <= K)
        PROVE  ~(i <= b)
    <2>1. PICK m : m = (k - 1) - K
      OBVIOUS
    <2>2. m \in Nat /\ k - 1 = K + m
      BY <1>4, <2>1
    <2>3. a = b + m * E /\ m * E \in Nat
      BY <1>1, <2>2
    <2> QED
      BY <1>1, <1>2, <2>3
  <1> QED
    BY <1>1, <1>3, <1>4

(* The first K sectors of w, the others of v.                                *)
Mixed(v, w, K, u) ==
    /\ Len(v) = Len(w) /\ Len(u) = Len(w)
    /\ \A k \in 1..Len(w) : u[k] = IF k > K THEN v[k] ELSE w[k]

LEMMA MixAt ==
    ASSUME NEW v \in Seq(Sector), NEW w \in Seq(Sector), NEW u \in Seq(Sector),
           NEW K \in Nat, Mixed(v, w, K, u), NEW i \in SlotsIn(w)
    PROVE  At(u, i) = IF i <= K * ENTRIES_PER_SECTOR THEN At(w, i) ELSE At(v, i)
  <1>1. PICK k \in 1..Len(w), e \in SlotNo : Position(k, e) = i
    BY SlotPlace DEF SlotsIn
  <1>2. At(w, i) = w[k][e] /\ At(v, i) = v[k][e] /\ At(u, i) = u[k][e]
    BY <1>1, PositionAt DEF Mixed
  <1>3. k \in Nat \ {0}
    OBVIOUS
  <1>4. PICK E : E = ENTRIES_PER_SECTOR
    OBVIOUS
  <1>5. i <= K * E <=> k <= K
    <2>1. E \in Nat \ {0} /\ e \in 1..E /\ i = (k - 1) * E + e
      BY <1>1, <1>4, SlotAssumption DEF SlotAssumption, Position, SlotNo
    <2> QED
      BY <1>3, <2>1, PositionOrder
  <1>6. k > K <=> ~(k <= K)
    OBVIOUS
  <1> QED
    BY <1>2, <1>4, <1>5, <1>6 DEF Mixed

(* The directory being saved shows the entry under deletion as long as its   *)
(* own slot is not written, and is whole as soon as it is; an insertion is   *)
(* whole unless its slots are split by the sector written next.              *)
LEMMA SavedMix ==
    ASSUME TypeInv, NEW L, ChainsAt(L), pc = "save", NEW old, SavedFrom(old),
           NEW u, u = Image(data, dirc)
    PROVE  /\ op.kind = "delete" =>
                /\ Readable(u, {op.slot}) /\ SameList(old, u, {op.slot})
                /\ EntryWritten(op.slot) => Readable(u, {}) /\ op.slot \notin EntriesIn(u)
           /\ op.kind # "delete" =>
                /\ EntryWritten(op.slot) => u = img
                /\ ~EntryWritten(op.slot) /\ ~InsertHalfDone => u = old
                /\ ~InsertHalfDone => Readable(u, {})
                /\ \A i \in EntriesIn(old) : i \in EntriesIn(u) /\ At(u, i) = At(old, i)
  <1>1. /\ old \in Seq(Sector) /\ Len(old) = Len(img) /\ Readable(old, {})
        /\ img \in Seq(Sector) /\ Len(img) = Len(dirc) /\ Len(img) \in Nat /\ Len(io) \in Nat
        /\ op.slot \in SlotsIn(img) /\ op.slot \in Nat /\ Len(io) <= Len(img)
        /\ op.kind \in {"create", "mkdir", "delete"}
    BY State DEF SavedFrom, ChainsAt, SaveInv, SlotsIn
  <1>2. u \in Seq(Sector) /\ Len(u) = Len(img)
    <2>1. data \in [Cluster -> SectorData] /\ dirc \in Seq(Cluster)
      BY State DEF Region
    <2> QED
      BY <1>1, <2>1, ImageType
  <1>3. SlotsIn(old) = SlotsIn(img) /\ SlotsIn(u) = SlotsIn(img) /\ Capacity(img) \in Nat
    BY <1>1, <1>2, SameShape
  <1>4. PICK K : K = Len(img) - Len(io)
    OBVIOUS
  <1>5. K \in Nat
    BY <1>1, <1>4
  <1>6. \A k \in 1..Len(img) : u[k] = IF k > K THEN old[k] ELSE img[k]
    <2>1. \A k \in 1..Len(img) : u[k] = SlotsOf(data[dirc[k]])
      BY <1>1 DEF Image
    <2> QED
      BY <1>4, <2>1 DEF SavedFrom, ToCome
  <1>7. PICK B : B = K * ENTRIES_PER_SECTOR
    OBVIOUS
  <1>8. B \in Nat
    BY <1>5, <1>7, SlotAssumption DEF SlotAssumption
  <1>9. \A i \in SlotsIn(img) : At(u, i) = IF i <= B THEN At(img, i) ELSE At(old, i)
    <2> SUFFICES ASSUME NEW i \in SlotsIn(img)
                 PROVE  At(u, i) = IF i <= B THEN At(img, i) ELSE At(old, i)
      OBVIOUS
    <2>1. At(u, i) = IF i <= K * ENTRIES_PER_SECTOR THEN At(img, i) ELSE At(old, i)
      <3>1. Mixed(old, img, K, u)
        BY <1>1, <1>2, <1>6 DEF Mixed
      <3> QED
        BY <1>1, <1>2, <1>5, <3>1, MixAt
    <2> QED
      BY <1>7, <2>1
  <1>10. \A i : EntryWritten(i) <=> At(u, i) = At(img, i)
    BY DEF EntryWritten
  <1>11. ASSUME op.kind = "delete"
         PROVE  /\ Readable(u, {op.slot}) /\ SameList(old, u, {op.slot})
                /\ EntryWritten(op.slot) => Readable(u, {}) /\ op.slot \notin EntriesIn(u)
    <2>1. At(old, op.slot).tag = "file" /\ img = MarkDeleted(old, op.slot)
      BY <1>11 DEF SavedFrom, Removed
    <2>2. PICK all : all = LfnSetOf(old, op.slot)
      OBVIOUS
    <2>3. PICK G : G = {i \in all : i <= B}
      OBVIOUS
    <2>4. \A i \in SlotsIn(old) :
             At(img, i) = IF i \in all THEN Deleted(HasLfnAttr(At(old, i))) ELSE At(old, i)
      BY <1>1, <2>1, <2>2, MarkedAt
    <2>5. \A i \in SlotsIn(old) :
             At(u, i) = IF i \in G THEN Deleted(HasLfnAttr(At(old, i))) ELSE At(old, i)
      BY <1>3, <1>9, <2>3, <2>4
    <2>6. \A i \in all : i \in Nat
      BY <2>2 DEF LfnSetOf
    <2>7. \A i \in all, j \in G : i < j => i \in G
      BY <1>8, <2>3, <2>6
    <2>8. /\ Readable(u, {op.slot}) /\ SameList(old, u, {op.slot})
          /\ op.slot \in G => Readable(u, {}) /\ op.slot \notin EntriesIn(u)
      <3>1. PICK slot : slot = op.slot
        OBVIOUS
      <3>2. /\ slot \in SlotsIn(old) /\ At(old, slot).tag = "file" /\ all = LfnSetOf(old, slot)
            /\ G \subseteq all
        BY <1>1, <1>2, <1>3, <2>1, <2>2, <2>3, <3>1
      <3>3. /\ Readable(u, {slot}) /\ SameList(old, u, {slot})
            /\ slot \in G => Readable(u, {}) /\ slot \notin EntriesIn(u)
        BY <1>1, <1>2, <1>3, <2>5, <2>7, <3>2, MarkReads
      <3> QED
        BY <3>1, <3>3
    <2>9. ASSUME EntryWritten(op.slot)
          PROVE  op.slot \in G
      <3>1. op.slot \in all
        <4>1. op.slot \in 1..op.slot /\ \A m \in op.slot..(op.slot - 1) : FALSE
          BY <1>1 DEF SlotsIn
        <4> QED
          BY <2>2, <4>1 DEF LfnSetOf
      <3>2. At(img, op.slot).tag = "del"
        BY <1>1, <1>3, <2>4, <3>1 DEF Deleted
      <3>3. At(u, op.slot).tag = "del"
        BY <1>10, <2>9, <3>2
      <3> QED
        BY <1>1, <1>3, <2>1, <2>5, <3>3
    <2> QED
      BY <2>8, <2>9
  <1>12. ASSUME op.kind # "delete"
         PROVE  /\ EntryWritten(op.slot) => u = img
                /\ ~EntryWritten(op.slot) /\ ~InsertHalfDone => u = old
    <2>1. Inserted(old)
      BY <1>12 DEF SavedFrom
    <2>2. PICK n, run : n = LfnCount(op.short, op.name) /\ run = FreeRun(old, n + 1)
      OBVIOUS
    <2>3. /\ op.name \in Name /\ run # 0 /\ op.slot = run + n
          /\ img = Insert(old, run, op.name, NewEntry)
      BY <2>1, <2>2 DEF Inserted
    <2>4. IsVisible(NewEntry) /\ NewEntry.short = op.short
      BY DEF NewEntry, Entry, IsVisible
    <2>5. op.name \in Seq(Piece) /\ n \in Nat
      BY <2>2, <2>3, NameType
    <2>6. n + 1 \in Nat \ {0}
      BY <2>5
    <2>7. /\ run \in Nat
          /\ \A j \in run..(run + (n + 1) - 1) : IsFree(At(old, j))
      BY <1>1, <2>2, <2>3, <2>6, TakenBefore
    <2>8. \A i \in SlotsIn(img) :
             At(img, i) = IF i \in run..(run + n - 1)
                          THEN Lfn(op.name[i - run + 1], n - (i - run), Checksum[op.short])
                          ELSE IF i = run + n THEN NewEntry ELSE At(old, i)
      BY <1>1, <1>3, <2>2, <2>3, <2>4, <2>5, <2>7, InsertAt
    <2>9. CASE op.slot <= B
      <3>1. ASSUME NEW i \in SlotsIn(u)
            PROVE  At(u, i) = At(img, i)
        <4>1. CASE i <= B
          BY <1>3, <1>9, <4>1
        <4>2. CASE ~(i <= B)
          <5>1. i \in Nat
            BY DEF SlotsIn
          <5>2. i \notin run..(run + n - 1) /\ i # run + n
            BY <1>1, <1>8, <2>3, <2>5, <2>7, <2>9, <4>2, <5>1
          <5> QED
            BY <1>3, <1>9, <2>8, <4>2, <5>2
        <4> QED
          BY <4>1, <4>2
      <3>2. u = img
        BY <1>1, <1>2, <3>1, AtTell
      <3> QED
        BY <1>10, <3>2
    <2>10. CASE ~(op.slot <= B)
      <3>1. ~EntryWritten(op.slot)
        <4>1. At(u, op.slot) = At(old, op.slot)
          BY <1>1, <1>9, <2>10
        <4>2. op.slot \in run..(run + (n + 1) - 1)
          BY <2>3, <2>5, <2>7
        <4>3. IsFree(At(old, op.slot))
          BY <2>7, <4>2
        <4>4. At(img, op.slot) = NewEntry
          <5>1. op.slot \notin run..(run + n - 1)
            BY <2>3, <2>5, <2>7
          <5> QED
            BY <1>1, <2>3, <2>8, <5>1
        <4> QED
          BY <1>10, <2>4, <4>1, <4>3, <4>4 DEF IsFree, IsVisible
      <3>2. ASSUME ~InsertHalfDone, NEW i \in SlotsIn(u)
            PROVE  At(u, i) = At(old, i)
        <4>1. i \in Nat /\ i \in SlotsIn(img) /\ i >= 1
          <5>1. i \in SlotsIn(img)
            BY <1>3
          <5>2. i \in 1..Capacity(img)
            BY <5>1 DEF SlotsIn
          <5> QED
            BY <1>3, <5>1, <5>2
        <4>2. CASE ~(i <= B)
          BY <1>9, <4>1, <4>2
        <4>3. CASE i <= B
          <5>1. At(u, i) = At(img, i) /\ i # run + n /\ i < op.slot
            BY <1>1, <1>8, <1>9, <2>3, <2>10, <4>1, <4>3
          <5>2. i \notin run..(run + n - 1)
            <6> SUFFICES ASSUME i \in run..(run + n - 1) PROVE FALSE
              OBVIOUS
            <6>1. \A m \in i..(op.slot - 1) : At(img, m).tag = "lfn"
              <7> SUFFICES ASSUME NEW m \in i..(op.slot - 1) PROVE At(img, m).tag = "lfn"
                OBVIOUS
              <7>1. m \in run..(run + n - 1)
                BY <1>1, <2>3, <2>5, <2>7, <4>1
              <7>2. m \in SlotsIn(img)
                BY <1>1, <1>3, <4>1 DEF SlotsIn
              <7> QED
                BY <2>8, <7>1, <7>2, LfnParts
            <6>2. At(img, i).tag = "lfn"
              <7>1. i \in i..(op.slot - 1)
                BY <1>1, <4>1, <5>1
              <7> QED
                BY <6>1, <7>1
            <6>3. i \in LfnSetOf(img, op.slot)
              <7>1. i \in 1..op.slot
                BY <1>1, <4>1, <5>1
              <7> QED
                BY <6>1, <7>1 DEF LfnSetOf, HasLfnAttr
            <6> QED
              BY <1>1, <1>10, <1>12, <3>1, <3>2, <5>1, <6>2, <6>3 DEF InsertHalfDone
          <5> QED
            BY <2>8, <4>1, <5>1, <5>2
        <4> QED
          BY <4>2, <4>3
      <3>3. ~InsertHalfDone => u = old
        BY <1>1, <1>2, <3>2, AtTell
      <3> QED
        BY <3>1, <3>3
    <2> QED
      BY <2>9, <2>10
  <1>13. ASSUME op.kind # "delete", ~InsertHalfDone
         PROVE  Readable(u, {})
    BY <1>1, <1>12, <1>13, SavedReads
  <1>14. ASSUME op.kind # "delete", NEW i \in EntriesIn(old)
         PROVE  i \in EntriesIn(u) /\ At(u, i) = At(old, i)
    <2>1. i # op.slot /\ At(img, i) = At(old, i)
      <3>1. NewIn(old, img, op.slot, NewEntry, op.name) /\ SameList(old, img, {op.slot})
        BY <1>14, SavedReads
      <3>2. i # op.slot
        BY <3>1 DEF NewIn
      <3> QED
        BY <3>1, <3>2 DEF SameList
    <2>2. i \in SlotsIn(img) /\ IsVisible(At(old, i))
      BY <1>3 DEF EntriesIn
    <2> QED
      BY <1>3, <1>9, <2>1, <2>2 DEF EntriesIn
  <1> QED
    BY <1>11, <1>12, <1>13, <1>14

(* The power fails, and nothing is left half done.                           *)
LEMMA CutReads ==
    ASSUME TypeInv, NEW L, ChainsAt(L), ReadInv, ~DeleteHalfDone, ~InsertHalfDone, PowerCut
    PROVE  ReadInv'
  <1>1. pc' = "off" /\ UNCHANGED <<fat, data>>
    BY DEF PowerCut, disk
  <1>2. CASE pc # "save"
    BY <1>1, <1>2, StillReadable, OverReads DEF ReadInv
  <1>3. CASE pc = "save"
    <2>1. PICK old : SavedFrom(old)
      BY <1>3 DEF ReadInv
    <2>2. dirc = DirChain(cwd)
      BY <1>3 DEF ReadInv, DircInv, Extending
    <2>3. DirAt(fat, data, cwd) = Image(data, dirc)
      BY <2>2 DEF DirAt, DirChain
    <2>4. op.kind = "delete" => EntryWritten(op.slot)
      BY <1>3 DEF DeleteHalfDone
    <2>5. Readable(DirAt(fat, data, cwd), {})
      BY <1>3, <2>1, <2>3, <2>4, SavedMix
    <2>6. AllReadable'
      BY <1>1, <1>3, <2>5 DEF ReadInv, AllReadable, Busy
    <2> QED
      BY <1>1, <2>6, OverReads
  <1> QED
    BY <1>2, <1>3

-----------------------------------------------------------------------------
(* Every sector write keeps the invariant of the directories.                *)

(* The disk after a write, by names of its own.                              *)
LEMMA DiskAfter ==
    ASSUME TypeInv, DiskWrite
    PROVE  /\ UNCHANGED <<pc, op, img, dirc, chain, cwd>>
           /\ fat' \in Table32 /\ data' \in Region
  <1>1. PICK w : w = io[1]
    OBVIOUS
  <1> QED
    BY <1>1, WriteStep, SectorStep

(* The directories list what they listed.                                    *)
OthersStay ==
    \A b \in Parents(data) \ {cwd} : DirAt(fat', data', b) = DirAt(fat, data, b)
DirsStay ==
    /\ Parents(data') = Parents(data)
    /\ OthersStay
    /\ SameList(DirAt(fat, data, cwd), DirAt(fat', data', cwd), {})

LEMMA SameLists == ASSUME NEW v, NEW w, w = v PROVE SameList(v, w, {})
  BY DEF SameList

(* A write outside the directories.                                          *)
LEMMA OutsideReads ==
    ASSUME TypeInv, NEW L, ChainsAt(L), ReadInv, DiskWrite, pc # "save",
           \A x \in L : fat'[x] = fat[x] /\ SlotsOf(data'[x]) = SlotsOf(data[x]),
           Parents(data') = Parents(data), Extending' <=> Extending
    PROVE  ReadInv' /\ DirsStay
  <1>1. UNCHANGED <<pc, op, img, dirc, cwd>>
    BY DiskAfter
  <1>2. PICK X : DiskAt(L, fat, data, X)
    BY DEF ChainsAt, DiskInv
  <1>3. data \in Region /\ cwd \in Parents(data)
    BY State DEF ChainsAt, DiskInv
  <1>4. \A c \in Parents(data) : /\ Chain(fat', c, DIR_MAX_CLUSTERS) = Chain(fat, c, DIR_MAX_CLUSTERS)
                                 /\ DirAt(fat', data', c) = DirAt(fat, data, c)
    BY <1>2, <1>3, DirsKept
  <1>5. AllReadable'
    <2>1. \A c \in Parents(data) : Readable(DirAt(fat, data, c), {})
      BY DEF ReadInv, AllReadable, Busy
    <2> QED
      BY <1>4, <2>1 DEF AllReadable
  <1>6. DirChain(cwd)' = DirChain(cwd)
    BY <1>1, <1>3, <1>4 DEF DirChain
  <1>7. DircInv'
    BY <1>1, <1>6 DEF ReadInv, DircInv, Inserting, LastDir
  <1>8. ImageInv'
    BY <1>1 DEF ReadInv, ImageInv, Inserting, ShortChosen
  <1>9. SameList(DirAt(fat, data, cwd), DirAt(fat', data', cwd), {})
    BY <1>3, <1>4, SameLists
  <1> QED
    BY <1>1, <1>4, <1>5, <1>7, <1>8, <1>9 DEF ReadInv, DirsStay, OthersStay

LEMMA AllocWriteReads ==
    ASSUME TypeInv, NEW L, ChainsAt(L), ReadInv, DiskWrite, pc = "alloc"
    PROVE  ReadInv' /\ DirsStay
  <1>1. /\ io # <<>> /\ pc' = pc
        /\ chain # <<>> /\ Len(chain) \in 1..Len(chain) /\ chain[Len(chain)] \in Cluster
    <2>1. io # <<>> /\ pc' = pc
      BY WriteStep
    <2>2. chain # <<>>
      BY <2>1 DEF ChainsAt, ClaimInv, Marking
    <2>3. Len(chain) \in Nat /\ Len(chain) # 0
      BY <2>2, State
    <2>4. Len(chain) \in 1..Len(chain)
      BY <2>3
    <2> QED
      BY <2>1, <2>2, <2>4, State
  <1>2. PICK c \in Cluster : c = chain[Len(chain)]
    BY <1>1
  <1>3. c \notin L
    BY <1>1, <1>2 DEF ChainsAt, ClaimInv, Claiming, Inserting, Owned
  <1>4. data' = data /\ (fat' = fat \/ fat' = [fat EXCEPT ![c] = EOC])
    <2>1. io = WriteEntry(c, EOC) \/ io = Tail(WriteEntry(c, EOC))
      BY <1>1, <1>2 DEF ChainsAt, ClaimInv, Marking
    <2>2. \/ io[1] = [to |-> "fat", copy |-> 0, cluster |-> c, value |-> EOC]
          \/ io[1] = [to |-> "fat", copy |-> 1, cluster |-> c, value |-> EOC]
      BY <2>1, EntryWrites, WriteStep
    <2> QED
      BY <2>2, SectorStep
  <1>5. \A x \in L : fat'[x] = fat[x]
    <2>1. fat \in Table32 /\ L \subseteq Cluster
      BY State DEF ChainsAt, DiskInv, DiskAt, TwoWorlds
    <2> QED
      BY <1>3, <1>4, <2>1 DEF Table32
  <1>6. ~Extending /\ ~Extending'
    BY <1>1 DEF Extending
  <1> QED
    BY <1>4, <1>5, <1>6, OutsideReads

LEMMA ChainWriteReads ==
    ASSUME TypeInv, NEW L, ChainsAt(L), ReadInv, DiskWrite, pc \in {"free", "abort"}
    PROVE  ReadInv' /\ DirsStay
  <1>1. io # <<>> /\ pc' = pc
    BY WriteStep
  <1>2. PICK c \in Cluster : \/ io = Tail(WriteEntry(c, 0))
                             \/ io = WriteEntry(c, 0) /\ c \notin L
    BY <1>1 DEF ChainsAt, FreeInv, Freeable
  <1>3. data' = data /\ (fat' = fat \/ (fat' = [fat EXCEPT ![c] = 0] /\ c \notin L))
    <2>1. \/ io[1] = [to |-> "fat", copy |-> 0, cluster |-> c, value |-> 0] /\ c \notin L
          \/ io[1] = [to |-> "fat", copy |-> 1, cluster |-> c, value |-> 0]
      BY <1>2, EntryWrites, WriteStep
    <2> QED
      BY <2>1, SectorStep
  <1>4. \A x \in L : fat'[x] = fat[x]
    <2>1. fat \in Table32 /\ L \subseteq Cluster
      BY State DEF ChainsAt, DiskInv, DiskAt, TwoWorlds
    <2> QED
      BY <1>3, <2>1 DEF Table32
  <1>5. ~Extending /\ ~Extending'
    BY <1>1 DEF Extending
  <1> QED
    BY <1>3, <1>4, <1>5, OutsideReads

(* A sector of the data region that is in no directory, with no entries.     *)
LEMMA StoreOutside ==
    ASSUME NEW L, NEW f, NEW d \in Region, NEW X, DiskAt(L, f, d, X),
           NEW c \in Cluster \ L, NEW v \in SectorData,
           \A e \in SlotNo : ~IsVisible(SlotsOf(v)[e]), NEW g, Stored(d, c, v, g)
    PROVE  /\ \A x \in L : g[x] = d[x]
           /\ Parents(g) = Parents(d)
  <1>1. L \subseteq Cluster
    BY DEF DiskAt, TwoWorlds
  <1>2. \A x \in L : g[x] = d[x]
    BY <1>1 DEF Region, Stored
  <1>3. Alike(d, g)
    BY WriteOutside
  <1> QED
    BY <1>2, <1>3 DEF Alike

LEMMA NameWriteReads ==
    ASSUME TypeInv, NEW L, ChainsAt(L), ReadInv, DiskWrite, pc = "name"
    PROVE  ReadInv' /\ DirsStay
  <1>1. io # <<>> /\ pc' = pc /\ Len(io) \in Nat \ {0} /\ io[1] \in Write
    BY WriteStep
  <1>2. PICK w \in Write : w = io[1]
    BY <1>1
  <1>3. LinkWrite(w) \/ ContentWrite(w)
    <2>1. 1 \in 1..Len(io)
      BY <1>1
    <2> QED
      BY <1>2, <2>1 DEF ChainsAt, ClaimInv
  <1>4. \A k \in 1..Len(chain) : chain[k] \in Cluster /\ chain[k] \notin L
    BY State DEF ChainsAt, ClaimInv, Claiming, Inserting, Owned
  <1>5. Len(chain) \in Nat /\ fat \in Table32 /\ data \in Region
    BY State
  <1>6. PICK X : DiskAt(L, fat, data, X)
    BY DEF ChainsAt, DiskInv
  <1>7. L \subseteq Cluster
    BY <1>6 DEF DiskAt, TwoWorlds
  <1>8. ~Extending /\ ~Extending'
    BY <1>1 DEF Extending
  <1>9. CASE LinkWrite(w)
    <2>1. PICK k \in 1..(Len(chain) - 1) :
             w.to = "fat" /\ w.cluster = chain[k] /\ w.value = chain[k + 1]
      BY <1>9 DEF LinkWrite
    <2>2. k \in 1..Len(chain)
      BY <1>5
    <2>3. PICK c, v : c \in Cluster /\ c = chain[k] /\ v = chain[k + 1]
      BY <1>4, <2>2
    <2>4. data' = data /\ (fat' = fat \/ fat' = [fat EXCEPT ![c] = v])
      BY <1>2, <2>1, <2>3, SectorStep
    <2>5. \A x \in L : fat'[x] = fat[x]
      BY <1>4, <1>5, <1>7, <2>2, <2>3, <2>4 DEF Table32
    <2> QED
      BY <1>8, <2>4, <2>5, OutsideReads
  <1>10. CASE ContentWrite(w)
    <2>1. PICK k \in 1..Len(chain) : w.to = "data" /\ w.cluster = chain[k]
      BY <1>10 DEF ContentWrite
    <2>2. PICK c, v : c \in Cluster /\ c = chain[k] /\ v = w.value
      BY <1>4, <2>1
    <2>3. /\ fat' = fat /\ v \in SectorData
          /\ data' = [data EXCEPT ![c] = v]
      BY <1>2, <2>1, <2>2, SectorStep
    <2>4. v = FirstSector \/ v.tag = "data"
      BY <1>10, <2>2 DEF ContentWrite
    <2>5. \A e \in SlotNo : ~IsVisible(SlotsOf(v)[e])
      BY <2>4, ContentsShowNothing
    <2>6. (\A x \in L : data'[x] = data[x]) /\ Parents(data') = Parents(data)
      <3>1. c \in Cluster \ L
        BY <1>4, <2>1, <2>2
      <3>2. PICK d, g : d = data /\ g = data'
        OBVIOUS
      <3>3. d \in Region /\ DiskAt(L, fat, d, X) /\ Stored(d, c, v, g)
        BY <1>5, <1>6, <2>3, <3>2 DEF Stored
      <3>4. (\A x \in L : g[x] = d[x]) /\ Parents(g) = Parents(d)
        BY <2>3, <2>5, <3>1, <3>3, StoreOutside
      <3> QED
        BY <3>2, <3>4
    <2> QED
      BY <1>8, <2>3, <2>6, OutsideReads
  <1> QED
    BY <1>3, <1>9, <1>10

(* A write in the middle of an insertion, to its directory.                  *)
LEMMA InsertWrites ==
    ASSUME TypeInv, NEW L, ChainsAt(L), ReadInv, DiskWrite, Inserting,
           NEW s, s = DirChain(cwd), Parents(data') = Parents(data),
           \A x \in Cluster : (\A k \in 1..Len(s) : x # s[k]) =>
                                 fat'[x] = fat[x] /\ SlotsOf(data'[x]) = SlotsOf(data[x]),
           Readable(DirAt(fat', data', cwd), {}), ~Extending',
           SameList(DirAt(fat, data, cwd), DirAt(fat', data', cwd), {}),
           Chain(fat', cwd, DIR_MAX_CLUSTERS) = dirc
    PROVE  ReadInv' /\ DirsStay
  <1>1. UNCHANGED <<pc, op, img, dirc, cwd>> /\ pc # "save" /\ pc # "free"
    BY DiskAfter DEF Inserting
  <1>2. PICK X : DiskAt(L, fat, data, X)
    BY DEF ChainsAt, DiskInv
  <1>3. data \in Region /\ cwd \in Parents(data)
    BY State DEF ChainsAt, DiskInv
  <1>4. \A c \in Parents(data) : c # cwd => DirAt(fat', data', c) = DirAt(fat, data, c)
    <2>1. s = Chain(fat, cwd, DIR_MAX_CLUSTERS)
      BY DEF DirChain
    <2> QED
      <3>1. KeptOff(fat, data, fat', data', s)
        BY DEF KeptOff
      <3> QED
        BY <1>2, <1>3, <2>1, <3>1, OtherDirsKept
  <1>5. AllReadable'
    <2>1. \A c \in Parents(data) : Readable(DirAt(fat, data, c), {})
      BY <1>1 DEF ReadInv, AllReadable, Busy
    <2>2. \A c \in Parents(data') : Readable(DirAt(fat', data', c), {})
      BY <1>4, <2>1
    <2> QED
      BY <2>2 DEF AllReadable
  <1>6. DircInv'
    BY <1>1 DEF DircInv, DirChain
  <1>7. ImageInv'
    BY <1>1 DEF ReadInv, ImageInv, Inserting, ShortChosen
  <1> QED
    BY <1>1, <1>4, <1>5, <1>6, <1>7 DEF ReadInv, DirsStay, OthersStay

(* The writes of dir_extend: with its link the new cluster joins the chain,  *)
(* and it reads as empty slots.                                              *)
LEMMA RetryWriteReads ==
    ASSUME TypeInv, NEW L, ChainsAt(L), ReadInv, DiskWrite, pc = "retry"
    PROVE  ReadInv' /\ DirsStay
  <1>1. PICK m \in 1..7, n \in Nat, c \in Cluster, last \in Cluster : RetryAt(m, n, c, last)
    BY RetryStep
  <1>2. /\ n > 1 /\ n = Len(dirc) /\ c = dirc[n] /\ last = dirc[n - 1]
        /\ Len(io) = 8 - m /\ Len(io') = 7 - m
        /\ m \in {1, 6} => data' = data /\ fat' = [fat EXCEPT ![c] = EOC]
        /\ m \in {2, 5, 7} => data' = data /\ fat' = fat
        /\ m = 3 => fat' = fat /\ data' = [data EXCEPT ![c] = DirSector(ZeroSector)]
        /\ m = 4 => data' = data /\ fat' = [fat EXCEPT ![last] = c]
    BY <1>1 DEF RetryAt
  <1>3. /\ UNCHANGED <<pc, op, img, dirc, chain, cwd>>
        /\ Inserting /\ Inserting' /\ pc # "save" /\ pc # "free"
    BY DiskAfter DEF Inserting
  <1>4. (Extending <=> m <= 4) /\ (Extending' <=> m <= 3)
    <2>1. (Len(io) > 3 <=> m <= 4) /\ (Len(io') > 3 <=> m <= 3)
      BY <1>2
    <2> QED
      BY <1>3, <2>1 DEF Extending
  <1>5. /\ fat \in Table32 /\ data \in Region /\ cwd \in Cluster
        /\ img \in Seq(Sector) /\ Len(img) = n /\ dirc \in Seq(Cluster)
        /\ \A k \in 1..n : dirc[k] \in Cluster
    BY <1>2, State
  <1>6. DiskAt(L, fat, data, {}) /\ cwd \in Parents(data)
    BY DEF ChainsAt, DiskInv, Victim, Deleting
  <1>7. L \subseteq Cluster
    BY <1>6 DEF DiskAt, TwoWorlds
  <1>8. /\ \A k \in 1..n : (m <= 4 /\ k = n) \/ (dirc[k] \in L /\ img[k] = SlotsOf(data[dirc[k]]))
        /\ \A j, k \in 1..n : dirc[j] = dirc[k] => j = k
    BY <1>2, <1>3, <1>4 DEF ChainsAt, LoadInv
  <1>9. /\ img[n] = ZeroSector
        /\ m <= 4 => /\ c \notin L
                     /\ m > 1 => fat[c] = EOC
                     /\ m = 4 => data[c] = DirSector(ZeroSector)
    <2>1. /\ Len(io) > 3 <=> m <= 4
          /\ Len(io) < 7 <=> m > 1
          /\ Len(io) = 4 <=> m = 4
          /\ Len(io) # 0
      BY <1>2
    <2>2. io # <<>>
      BY <2>1
    <2> QED
      BY <1>2, <2>1, <2>2 DEF ChainsAt, ExtendInv
  <1>10. PICK s : s = DirChain(cwd)
    OBVIOUS
  <1>11. s \in Seq(Cluster) /\ Len(s) \in Nat /\ s = Chain(fat, cwd, DIR_MAX_CLUSTERS)
    BY <1>10, DirBound, ChainType, EmptyLen DEF DirChain
  <1>12. IF m <= 4 THEN dirc = Append(s, c) /\ Len(dirc) <= DIR_MAX_CLUSTERS ELSE dirc = s
    <2>1. LastDir = c
      BY <1>2 DEF LastDir
    <2> QED
      BY <1>3, <1>4, <1>10, <2>1 DEF ReadInv, DircInv
  <1>13. SlotsOf(DirSector(ZeroSector)) = ZeroSector /\ DirSector(ZeroSector) \in SectorData
    BY SectorTypes, DirSectorType DEF SlotsOf, DirSector
  <1>14. CASE m = 3
    <2>1. PICK v \in SectorData : v = DirSector(ZeroSector)
      BY <1>13
    <2>2. \A e \in SlotNo : ~IsVisible(SlotsOf(v)[e])
      BY <1>13, <2>1 DEF ZeroSector, End, IsVisible, SlotNo
    <2>3. c \in Cluster \ L
      BY <1>9, <1>14
    <2>4. Stored(data, c, v, data')
      BY <1>2, <1>14, <2>1 DEF Stored
    <2>5. PICK d, g : d \in Region /\ d = data /\ g = data'
      BY <1>5
    <2>6. (\A x \in L : g[x] = d[x]) /\ Parents(g) = Parents(d)
      BY <1>6, <2>2, <2>3, <2>4, <2>5, StoreOutside
    <2>7. fat' = fat /\ Extending /\ Extending'
      BY <1>2, <1>4, <1>14
    <2> QED
      BY <1>3, <2>5, <2>6, <2>7, OutsideReads
  <1>15. CASE m \in {1, 2}
    <2>1. data' = data /\ (fat' = fat \/ fat' = [fat EXCEPT ![c] = EOC])
      BY <1>2, <1>15
    <2>2. c \notin L /\ Extending /\ Extending'
      BY <1>4, <1>9, <1>15
    <2>3. \A x \in L : fat'[x] = fat[x]
      BY <1>5, <1>7, <2>1, <2>2 DEF Table32
    <2> QED
      BY <1>3, <2>1, <2>2, <2>3, OutsideReads
  <1>16. CASE m = 4
    <2>1. dirc = Append(s, c) /\ n <= DIR_MAX_CLUSTERS
      BY <1>2, <1>12, <1>16
    <2>2. Len(s) = n - 1 /\ \A k \in 1..Len(s) : dirc[k] = s[k]
      <3>1. Len(dirc) = Len(s) + 1 /\ \A k \in 1..Len(s) : dirc[k] = s[k]
        BY <1>11, <2>1, AppendProperties
      <3> QED
        BY <1>2, <1>11, <3>1
    <2>3. PICK z : z = Len(s)
      OBVIOUS
    <2>4. z \in Nat /\ z = n - 1 /\ z \in 1..n /\ z \in 1..z /\ z < DIR_MAX_CLUSTERS
          /\ \A k \in 1..z : k \in 1..n
      <3>1. z = n - 1 /\ z \in Nat /\ z # 0
        BY <1>2, <2>2, <2>3
      <3>2. PICK M : M = DIR_MAX_CLUSTERS
        OBVIOUS
      <3>3. M \in Nat /\ n <= M
        BY <2>1, <3>2, DirBound
      <3>4. z < M
        BY <3>1, <3>3
      <3> QED
        BY <3>1, <3>2, <3>4
    <2>5. last = s[z] /\ data' = data /\ fat' = [fat EXCEPT ![last] = c] /\ fat[c] = EOC
      BY <1>2, <1>9, <1>16, <2>2, <2>3, <2>4
    <2>6. last # c
      <3>1. z # n /\ n \in 1..n /\ last = dirc[z]
        BY <1>2, <2>4
      <3> QED
        BY <1>2, <1>8, <2>4, <3>1
    <2>7. fat'[last] = c /\ fat'[c] = EOC /\ \A x \in Cluster : x # last => fat'[x] = fat[x]
      BY <1>5, <2>5, <2>6 DEF Table32
    <2>8. \A k \in 1..z : fat'[s[k]] = IF k = z THEN c ELSE fat[s[k]]
      <3> SUFFICES ASSUME NEW k \in 1..z PROVE fat'[s[k]] = IF k = z THEN c ELSE fat[s[k]]
        OBVIOUS
      <3>1. k \in 1..n /\ s[k] = dirc[k] /\ s[k] \in Cluster
        BY <1>5, <2>2, <2>3, <2>4
      <3>2. k # z => s[k] # last
        BY <1>8, <2>2, <2>3, <2>4, <2>5, <3>1
      <3> QED
        BY <2>5, <2>7, <3>1, <3>2
    <2>9. Chain(fat', cwd, DIR_MAX_CLUSTERS) = dirc
      <3>1. PICK f, g, b : f = fat /\ g = fat' /\ b = cwd
        OBVIOUS
      <3>2. /\ \A k \in 1..Len(s) : g[s[k]] = IF k = Len(s) THEN c ELSE f[s[k]]
            /\ b \in Cluster /\ s = Chain(f, b, DIR_MAX_CLUSTERS)
        BY <1>5, <1>11, <2>3, <2>8, <3>1
      <3>3. LinksOn(s, f, g, c) /\ Len(s) < DIR_MAX_CLUSTERS
        BY <2>3, <2>4, <2>7, <3>1, <3>2, Values DEF LinksOn
      <3>4. PICK t : t = dirc
        OBVIOUS
      <3>5. Longer(s, c, t)
        BY <1>2, <1>5, <2>2, <2>3, <2>4, <3>4 DEF Longer
      <3>6. Chain(g, b, DIR_MAX_CLUSTERS) = t
        BY <3>2, <3>3, <3>5, ChainLonger, DirBound
      <3> QED
        BY <3>1, <3>4, <3>6
    <2>10. DirAt(fat', data', cwd) = img
      <3>1. \A k \in 1..n : SlotsOf(data[dirc[k]]) = img[k]
        <4> SUFFICES ASSUME NEW k \in 1..n PROVE SlotsOf(data[dirc[k]]) = img[k]
          OBVIOUS
        <4>1. CASE k = n
          BY <1>2, <1>9, <1>13, <1>16, <4>1
        <4>2. CASE k # n
          BY <1>8, <4>2
        <4> QED
          BY <4>1, <4>2
      <3>2. PICK g, v : g = fat' /\ v = img
        OBVIOUS
      <3>3. /\ v \in Seq(Sector) /\ dirc = Chain(g, cwd, DIR_MAX_CLUSTERS) /\ Len(v) = Len(dirc)
            /\ \A k \in 1..Len(dirc) : SlotsOf(data[dirc[k]]) = v[k]
        BY <1>2, <1>5, <2>9, <3>1, <3>2
      <3>4. DirAt(g, data, cwd) = v
        BY <1>5, <3>3, DirImage
      <3> QED
        BY <2>5, <3>2, <3>4
    <2>11. Readable(DirAt(fat', data', cwd), {})
      BY <1>3, <2>10 DEF ReadInv, ImageInv
    <2>12. \A x \in Cluster : (\A k \in 1..Len(s) : x # s[k]) =>
                                 fat'[x] = fat[x] /\ SlotsOf(data'[x]) = SlotsOf(data[x])
      BY <2>3, <2>4, <2>5, <2>7
    <2>13. ~Extending'
      BY <1>4, <1>16
    <2>14. SameList(DirAt(fat, data, cwd), DirAt(fat', data', cwd), {})
      <3>1. PICK v : v = DirAt(fat, data, cwd)
        OBVIOUS
      <3>2. /\ v \in Seq(Sector) /\ Len(v) = z
            /\ \A k \in 1..z : v[k] = SlotsOf(data[s[k]])
        BY <1>5, <1>11, <2>3, <3>1, ImageType DEF DirAt, Image, Region
      <3>3. PICK w : w = Append(v, ZeroSector)
        OBVIOUS
      <3>4. /\ w \in Seq(Sector) /\ Len(w) = z + 1 /\ w[z + 1] = ZeroSector
            /\ \A k \in 1..z : w[k] = v[k]
        BY <3>2, <3>3, SectorTypes, AppendProperties
      <3>5. z + 1 = n
        BY <1>2, <2>4
      <3>6. \A k \in 1..n : w[k] = img[k]
        <4> SUFFICES ASSUME NEW k \in 1..n PROVE w[k] = img[k]
          OBVIOUS
        <4>1. CASE k = n
          BY <1>9, <3>4, <3>5, <4>1
        <4>2. CASE k # n
          <5>1. k \in 1..z
            BY <2>4, <4>2
          <5> QED
            BY <1>8, <2>2, <2>3, <3>2, <3>4, <4>2, <5>1
        <4> QED
          BY <4>1, <4>2
      <3>7. w = img
        BY <1>5, <3>4, <3>5, <3>6, SeqEqual
      <3>8. Readable(v, {})
        BY <1>3, <1>6, <3>1 DEF ReadInv, AllReadable, Busy
      <3>9. SameList(v, w, {})
        BY <3>2, <3>3, <3>8, AppendReads
      <3> QED
        BY <2>10, <3>1, <3>7, <3>9
    <2> QED
      BY <1>3, <1>10, <2>5, <2>9, <2>11, <2>12, <2>13, <2>14, InsertWrites
  <1>17. CASE m = 6
    <2>1. dirc = s /\ ~Extending'
      BY <1>4, <1>12, <1>17
    <2>2. data' = data /\ fat' = [fat EXCEPT ![c] = EOC]
      BY <1>2, <1>17
    <2>3. fat'[c] = EOC /\ \A x \in Cluster : x # c => fat'[x] = fat[x]
      BY <1>5, <2>2 DEF Table32
    <2>4. n \in 1..n
      BY <1>2
    <2>5. \A k \in 1..Len(s) : /\ fat'[s[k]] = fat[s[k]] \/ (k = Len(s) /\ fat'[s[k]] \notin Cluster)
                               /\ SlotsOf(data'[s[k]]) = SlotsOf(data[s[k]])
      <3> SUFFICES ASSUME NEW k \in 1..n
                   PROVE  fat'[s[k]] = fat[s[k]] \/ (k = n /\ fat'[s[k]] \notin Cluster)
        BY <1>2, <2>1, <2>2
      <3>1. CASE k = n
        BY <1>2, <2>1, <2>3, <3>1, Values
      <3>2. CASE k # n
        BY <1>2, <1>5, <1>8, <2>1, <2>3, <2>4, <3>2
      <3> QED
        BY <3>1, <3>2
    <2>6. PICK f, d, g, e, b : f = fat /\ d = data /\ g = fat' /\ e = data' /\ b = cwd
      OBVIOUS
    <2>7. Chain(g, b, DIR_MAX_CLUSTERS) = s /\ DirAt(g, e, b) = DirAt(f, d, b)
      <3>1. /\ b \in Cluster /\ s = Chain(f, b, DIR_MAX_CLUSTERS)
            /\ \A k \in 1..Len(s) : /\ g[s[k]] = f[s[k]] \/ (k = Len(s) /\ g[s[k]] \notin Cluster)
                                    /\ SlotsOf(e[s[k]]) = SlotsOf(d[s[k]])
        BY <1>5, <1>11, <2>5, <2>6
      <3> QED
        BY <3>1, DirKept
    <2>8. Readable(DirAt(fat, data, cwd), {})
      BY <1>3, <1>6 DEF ReadInv, AllReadable, Busy
    <2>9. \A x \in Cluster : (\A k \in 1..Len(s) : x # s[k]) =>
                                fat'[x] = fat[x] /\ SlotsOf(data'[x]) = SlotsOf(data[x])
      BY <1>2, <2>1, <2>2, <2>3, <2>4
    <2> QED
      BY <1>3, <1>10, <2>1, <2>2, <2>6, <2>7, <2>8, <2>9, InsertWrites, SameLists
  <1>18. CASE m \in {5, 7}
    <2>1. dirc = s /\ ~Extending' /\ data' = data /\ fat' = fat
      BY <1>2, <1>4, <1>12, <1>18
    <2>2. Readable(DirAt(fat, data, cwd), {})
      BY <1>3, <1>6 DEF ReadInv, AllReadable, Busy
    <2>3. PICK g, e : g = fat' /\ e = data'
      OBVIOUS
    <2>4. Chain(g, cwd, DIR_MAX_CLUSTERS) = s /\ DirAt(g, e, cwd) = DirAt(fat, data, cwd)
      BY <1>11, <2>1, <2>3
    <2> QED
      BY <1>3, <1>10, <2>1, <2>2, <2>3, <2>4, InsertWrites, SameLists
  <1> QED
    BY <1>14, <1>15, <1>16, <1>17, <1>18

(* dir_save.  The directory that appears with its entry has its first sector *)
(* already.                                                                  *)
LEMMA NewDirectoryReads ==
    ASSUME TypeInv, NEW L, ChainsAt(L), DiskWrite, pc = "save", NEW k \in Nat, SaveAt(k),
           NEW c \in Parents(data'), c \notin Parents(data)
    PROVE  Readable(DirAt(fat', data', c), {}) /\ EntriesIn(DirAt(fat', data', c)) = {}
  <1>1. PICK p \in Shown(data') : EntryOf(data', p).tag = "dir" /\ EntryOf(data', p).cluster = c
    BY DEF Parents
  <1>2. /\ Here(k) /\ op.kind # "delete" /\ EntryOf(data', p) = NewEntry
    <2>1. SaveShows(data, data', Victim, IF Here(k) /\ op.kind # "delete" THEN {NewEntry} ELSE {})
      BY SaveShown
    <2>2. ~(p \in Shown(data) /\ EntryOf(data', p) = EntryOf(data, p))
      BY <1>1 DEF Parents
    <2> QED
      BY <2>1, <2>2 DEF SaveShows
  <1>3. k \in 1..Len(img) /\ fat' = fat /\ Stored(data, dirc[k], DirSector(img[k]), data') /\ ToCome(k)
    BY DEF SaveAt
  <1>4. /\ op.kind = "mkdir" /\ c = FirstCluster
    <2>1. NewEntry.tag = "dir" /\ NewEntry.cluster = c
      BY <1>1, <1>2
    <2> QED
      BY <2>1 DEF NewEntry, Entry
  <1>5. Claiming /\ ~MarkToCome
    <2>1. EntryToCome
      BY <1>2, <1>3 DEF Here, EntryToCome
    <2> QED
      BY <1>2, <2>1 DEF Claiming, MarkToCome
  <1>6. /\ NewDirectory /\ Owned(L, fat, data, chain, TRUE)
        /\ \A x \in 1..Len(img) : dirc[x] \in L
    BY <1>4, <1>5 DEF ChainsAt, ClaimInv, SaveInv
  <1>7. chain # <<>> /\ fat[chain[1]] = EOC /\ data[chain[1]] = FirstSector
    BY <1>5, <1>6 DEF NewDirectory
  <1>8. c = chain[1] /\ c \in Cluster /\ c \notin L
    <2>1. 1 \in 1..Len(chain)
      BY <1>7, State
    <2> QED
      BY <1>4, <1>6, <1>7, <2>1, State DEF FirstCluster, Owned
  <1>9. data' \in Region
    BY DiskAfter
  <1>10. data'[c] = FirstSector
    <2>1. data \in Region /\ dirc[k] # c
      BY <1>3, <1>6, <1>8, State
    <2> QED
      BY <1>3, <1>7, <1>8, <2>1 DEF Stored, Region
  <1>11. IsChain(fat, c, DIR_MAX_CLUSTERS, <<c>>)
    BY <1>7, <1>8, Values, DirBound DEF IsChain
  <1>12. Chain(fat, c, DIR_MAX_CLUSTERS) = <<c>>
    BY <1>8, <1>11, ChainIs, DirBound
  <1>13. PICK v : v = << NewDirSector(c, cwd) >>
    OBVIOUS
  <1>14. v \in Seq(Sector) /\ Len(v) = 1 /\ v[1] = NewDirSector(c, cwd)
    BY <1>8, <1>13, SectorTypes, State
  <1>15. SlotsOf(data'[c]) = v[1]
    BY <1>8, <1>10, <1>14 DEF FirstSector, SlotsOf, DirSector
  <1>16. DirAt(fat', data', c) = v
    <2>1. PICK d \in Region : d = data'
      BY <1>9
    <2>2. PICK s : s = <<c>>
      OBVIOUS
    <2>3. /\ s = Chain(fat, c, DIR_MAX_CLUSTERS) /\ Len(v) = Len(s)
          /\ \A x \in 1..Len(s) : SlotsOf(d[s[x]]) = v[x]
      BY <1>12, <1>14, <1>15, <2>1, <2>2
    <2>4. DirAt(fat, d, c) = v
      BY <1>8, <1>14, <2>3, DirImage
    <2> QED
      BY <1>3, <2>1, <2>4
  <1> QED
    BY <1>14, <1>16, NewSectorsRead

(* The directory that is being saved is the same mix of old and new, with one *)
(* more sector of the new.  Another directory does not change.               *)
LEMMA SaveWriteKeeps ==
    ASSUME TypeInv, NEW L, ChainsAt(L), ReadInv, DiskWrite, pc = "save", NEW old, SavedFrom(old)
    PROVE  SavedFrom(old)' /\ DircInv' /\ ImageInv' /\ OthersStay
  <1>1. PICK k \in Nat : SaveAt(k)
    BY SaveStep
  <1>2. UNCHANGED <<pc, op, img, dirc, chain, cwd>> /\ fat' = fat /\ data' \in Region
    BY <1>1, DiskAfter DEF SaveAt
  <1>4. ~Inserting /\ ~Inserting' /\ ~Extending /\ ~Extending'
    BY <1>2 DEF Inserting, Extending
  <1>5. dirc = DirChain(cwd)
    BY <1>4 DEF ReadInv, DircInv
  <1>6. /\ data \in Region /\ img \in Seq(Sector) /\ Len(img) = Len(dirc) /\ Len(img) \in Nat
        /\ \A x \in 1..Len(img) : dirc[x] \in Cluster
    BY State
  <1>7. k \in 1..Len(img) /\ Stored(data, dirc[k], DirSector(img[k]), data')
        /\ \A x \in 1..Len(img) : (ToCome(x) <=> x >= k) /\ (ToCome(x)' <=> x > k)
    BY <1>1 DEF SaveAt
  <1>8. /\ \A x \in Cluster : x # dirc[k] => data'[x] = data[x]
        /\ SlotsOf(data'[dirc[k]]) = img[k]
    <2>1. data'[dirc[k]] = DirSector(img[k]) /\ \A x \in Cluster : x # dirc[k] => data'[x] = data[x]
      BY <1>6, <1>7 DEF Stored, Region
    <2> QED
      BY <2>1 DEF SlotsOf, DirSector
  <1>9. ASSUME NEW c \in Parents(data), c # cwd
        PROVE  DirAt(fat', data', c) = DirAt(fat, data, c)
    <2>1. PICK X : DiskAt(L, fat, data, X) /\ cwd \in Parents(data)
      BY DEF ChainsAt, DiskInv
    <2>2. PICK t : t = Chain(fat, cwd, DIR_MAX_CLUSTERS)
      OBVIOUS
    <2>3. t = dirc
      BY <1>5, <2>2 DEF DirChain
    <2>4. \A x \in Cluster : (\A j \in 1..Len(t) : x # t[j]) =>
                                fat'[x] = fat[x] /\ SlotsOf(data'[x]) = SlotsOf(data[x])
      BY <1>2, <1>6, <1>7, <1>8, <2>3
    <2>5. KeptOff(fat, data, fat', data', t)
      BY <2>4 DEF KeptOff
    <2> QED
      BY <1>6, <1>9, <2>1, <2>2, <2>5, OtherDirsKept
  <1>11. DircInv' /\ ImageInv'
    BY <1>2, <1>4, <1>5 DEF DircInv, ImageInv, DirChain, ShortChosen
  <1>12. \A j \in 1..Len(img) : SlotsOf(data'[dirc[j]]) = IF ToCome(j)' THEN old[j] ELSE img[j]
    <2> SUFFICES ASSUME NEW j \in 1..Len(img)
                 PROVE  SlotsOf(data'[dirc[j]]) = IF ToCome(j)' THEN old[j] ELSE img[j]
      OBVIOUS
    <2>1. CASE j = k
      BY <1>7, <1>8, <2>1
    <2>2. CASE j # k
      <3>1. dirc[j] # dirc[k]
        <4>1. \A x, y \in 1..Len(dirc) : dirc[x] = dirc[y] => x = y
          BY DEF ChainsAt, LoadInv
        <4> QED
          BY <1>6, <1>7, <2>2, <4>1
      <3>2. data'[dirc[j]] = data[dirc[j]]
        BY <1>6, <1>8, <3>1
      <3>3. ToCome(j)' <=> ToCome(j)
        BY <1>6, <1>7, <2>2
      <3> QED
        BY <3>2, <3>3 DEF SavedFrom
    <2> QED
      BY <2>1, <2>2
  <1>13. SavedFrom(old)'
    <2>1. Removed(old)' <=> Removed(old)
      BY <1>2 DEF Removed
    <2>2. Inserted(old)' <=> Inserted(old)
      BY <1>2 DEF Inserted, NewEntry, FirstCluster
    <2> QED
      BY <1>2, <1>12, <2>1, <2>2 DEF SavedFrom
  <1> QED
    BY <1>9, <1>11, <1>13 DEF OthersStay

(* A sector write of dir_save, in the order of the directory's clusters.     *)
LEMMA SaveWriteReads ==
    ASSUME TypeInv, NEW L, ChainsAt(L), ReadInv, DiskWrite, pc = "save"
    PROVE  ReadInv'
  <1>1. PICK k \in Nat : SaveAt(k)
    BY SaveStep
  <1>2. UNCHANGED <<pc, cwd>>
    BY DiskAfter
  <1>3. PICK old : SavedFrom(old)
    BY DEF ReadInv
  <1>4. SavedFrom(old)' /\ DircInv' /\ ImageInv' /\ OthersStay
    BY <1>3, SaveWriteKeeps
  <1>5. AllReadable'
    <2>1. \A c \in Parents(data') : c # cwd => Readable(DirAt(fat', data', c), {})
      BY <1>1, <1>4, NewDirectoryReads DEF OthersStay, ReadInv, AllReadable, Busy
    <2> QED
      BY <1>2, <2>1 DEF AllReadable, Busy
  <1> QED
    BY <1>4, <1>5 DEF ReadInv

(* A sector write of a running operation.                                    *)
LEMMA WritesReads ==
    ASSUME TypeInv, Quiet, NEW L, ChainsAt(L), ReadInv, pc # "format", DiskWrite
    PROVE  ReadInv' /\ (pc # "save" => DirsStay)
  <1>1. io # <<>>
    BY WriteStep
  <1>2. pc \in {"alloc", "name", "search", "retry", "save", "free", "abort"}
    BY <1>1 DEF Quiet, TypeInv, TypeOK
  <1>3. pc # "search"
    BY <1>1 DEF ChainsAt, ClaimInv
  <1> QED
    BY <1>2, <1>3, AllocWriteReads, ChainWriteReads, NameWriteReads, RetryWriteReads, SaveWriteReads

-----------------------------------------------------------------------------
(* The invariant of the directories, through every step.                     *)

(* Every step of a mounted disk.                                             *)
LEMMA MountedReads ==
    ASSUME TypeInv, TypeInv', Quiet, RestInv, Mounted, torn' = {}, NEW L, ChainsAt(L), ReadInv,
           [Next]_vars
    PROVE  ReadInv'
  <1>1. boot = "fat32" /\ pc # "format"
    BY DEF Mounted
  <1>2. CASE Work
    <2>1. ~FormatDone
      BY <1>1 DEF FormatDone
    <2>2. CASE DiskWrite
      BY <1>1, <2>2, WritesReads
    <2>3. CASE AllocCluster \/ WriteContents \/ AllocFails \/ InsertFails
      BY <2>3, AllocReads, FailReads
    <2>4. CASE ChooseShort \/ SearchRun \/ PlaceEntry \/ ExtendDir
      BY <2>4, ShortReads, SearchReads, PlaceReads, ExtendReads
    <2>5. CASE FreeCluster \/ MarkEntry \/ Return
      BY <2>5, FreeReads, MarkSaves, ReturnReads
    <2> QED
      BY <1>2, <2>1, <2>2, <2>3, <2>4, <2>5 DEF Work
  <1>3. CASE Call
    <2>1. ASSUME NEW name \in Name, NEW blocks \in Contents, CreateFile(name, blocks)
          PROVE  ReadInv'
      BY <2>1, CreateReads
    <2>2. ASSUME NEW name \in Name, CreateDir(name)
          PROVE  ReadInv'
      BY <2>2, CreateReads
    <2>3. ASSUME NEW name \in Name, DeleteFile(name)
          PROVE  ReadInv'
      BY <2>3, DeleteReads
    <2>4. ASSUME NEW d \in Cluster, ChangeDir(d)
          PROVE  ReadInv'
      BY <2>4, ChangeReads
    <2> QED
      BY <1>3, <2>1, <2>2, <2>3, <2>4 DEF Call
  <1>4. CASE Boot
    BY <1>1, <1>4, ChangeReads
  <1>5. CASE PowerCut
    <2>1. torn' = torn \cup HalfDone
      BY <1>5 DEF PowerCut
    <2>2. ~DeleteHalfDone /\ ~InsertHalfDone
      BY <2>1 DEF HalfDone
    <2> QED
      BY <1>5, <2>2, CutReads
  <1>6. CASE UNCHANGED vars
    <2>1. UNCHANGED <<fat, data, pc, op, img, dirc, chain, cwd, io>>
      BY <1>6 DEF vars, disk, ram
    <2>2. AllReadable'
      BY <2>1 DEF ReadInv, AllReadable, Busy
    <2>3. DircInv' /\ ImageInv'
      BY <2>1 DEF ReadInv, DircInv, ImageInv, Inserting, Extending, DirChain, LastDir, ShortChosen
    <2>4. ASSUME pc' = "save"
          PROVE  \E old : SavedFrom(old)'
      <3>1. PICK old : SavedFrom(old)
        BY <2>1, <2>4 DEF ReadInv
      <3>2. (Removed(old)' <=> Removed(old)) /\ (Inserted(old)' <=> Inserted(old))
        BY <2>1 DEF Removed, Inserted, NewEntry, FirstCluster
      <3>3. \A k : ToCome(k)' <=> ToCome(k)
        BY <2>1 DEF ToCome
      <3>4. SavedFrom(old)'
        BY <2>1, <3>1, <3>2, <3>3 DEF SavedFrom
      <3> QED
        BY <3>4
    <2> QED
      BY <2>2, <2>3, <2>4 DEF ReadInv
  <1> QED
    BY <1>2, <1>3, <1>4, <1>5, <1>6 DEF Next

(* The step that ends a format, or a power cut after its last write.         *)
LEMMA UnmountedReads ==
    ASSUME TypeInv, Quiet, RestInv, FormatInv, ~Mounted, Mounted', torn' = {}, [Next]_vars
    PROVE  ReadInv'
  <1>1. boot \in {"blank", "fat32"}
    BY DEF TypeInv, TypeOK
  <1>2. CASE pc = "format" /\ DiskWrite
    <2>1. pc' = "format"
      BY <1>2 DEF DiskWrite
    <2> QED
      BY <2>1 DEF Mounted
  <1>3. CASE pc = "format" /\ FormatDone
    <2>1. io = <<>>
      BY <1>3 DEF FormatDone
    <2> QED
      BY <1>3, <2>1, FormatReads
  <1>4. CASE PowerCut /\ pc = "format"
    <2>1. boot' = boot /\ torn' = torn \cup HalfDone
      BY <1>4 DEF PowerCut, disk
    <2>2. boot = "fat32" /\ ~FormatHalfDone
      BY <2>1 DEF Mounted, HalfDone
    <2>3. io = <<>>
      BY <1>4, <2>2 DEF FormatHalfDone
    <2> QED
      BY <1>4, <2>3, FormatReads
  <1>5. CASE Boot /\ boot = "blank" /\ pc = "off"
    <2>1. boot' = "blank"
      BY <1>5 DEF Boot, disk
    <2> QED
      BY <2>1 DEF Mounted
  <1>6. CASE UNCHANGED vars
    <2>1. boot' = boot /\ pc' = pc
      BY <1>6 DEF vars, disk, ram
    <2> QED
      BY <2>1 DEF Mounted
  <1> QED
    BY <1>2, <1>3, <1>4, <1>5, <1>6, BeforeFormatted

NamesInv == torn = {} /\ Mounted => ReadInv

LEMMA NamesInit == Init => NamesInv
  BY DEF Init, NamesInv, Mounted

LEMMA NamesNext == TypeInv /\ MirrorInv /\ ChainInv /\ NamesInv /\ [Next]_vars => NamesInv'
  <1> SUFFICES ASSUME TypeInv, MirrorInv, ChainInv, NamesInv, [Next]_vars, torn' = {}, Mounted'
               PROVE  ReadInv'
    BY DEF NamesInv
  <1>1. Quiet /\ RestInv /\ torn = {} /\ FormatInv
    BY TornStays DEF MirrorInv, ChainInv
  <1>2. CASE Mounted
    <2>1. PICK L \in SUBSET Cluster : ChainsAt(L)
      BY <1>1, <1>2 DEF ChainInv
    <2>2. ReadInv /\ TypeInv'
      BY <1>1, <1>2, TypeNext DEF NamesInv
    <2> QED
      BY <1>1, <1>2, <2>1, <2>2, MountedReads
  <1>3. CASE ~Mounted
    BY <1>1, <1>3, UnmountedReads
  <1> QED
    BY <1>2, <1>3

(* In every state all directories read back, as long as no power cut fell    *)
(* into the middle of an operation on an entry: through every call, every    *)
(* sector write of fat32.c and every power cut between two of them.          *)
LEMMA NamesInvariant == Spec => [](TypeInv /\ MirrorInv /\ ChainInv /\ NamesInv)
  <1>1. Init => TypeInv /\ MirrorInv /\ ChainInv /\ NamesInv
    BY TypeInit, MirrorInit, ChainInit, NamesInit
  <1>2. (TypeInv /\ MirrorInv /\ ChainInv /\ NamesInv) /\ [Next]_vars
            => (TypeInv /\ MirrorInv /\ ChainInv /\ NamesInv)'
    BY TypeNext, MirrorNext, ChainNext, NamesNext
  <1> QED
    BY <1>1, <1>2, PTL DEF Spec

-----------------------------------------------------------------------------
(* What a directory shows while operations run.                              *)

(* At any moment a directory shows every entry but the one under deletion.   *)
LEMMA DirReads ==
    ASSUME TypeInv, NEW L, ChainsAt(L), ReadInv, ~InsertHalfDone, NEW d \in Parents(data)
    PROVE  Readable(Load(d), IF Deleting /\ d = cwd THEN {op.slot} ELSE {})
  <1>1. Load(d) = DirAt(fat, data, d)
    BY LoadIs
  <1>2. CASE pc = "save" /\ d = cwd
    <2>1. PICK old : SavedFrom(old)
      BY <1>2 DEF ReadInv
    <2>2. dirc = DirChain(cwd)
      BY <1>2 DEF ReadInv, DircInv, Extending
    <2>3. Load(d) = Image(data, dirc)
      BY <1>2, <2>2 DEF Load
    <2>4. /\ op.kind = "delete" => Readable(Load(d), {op.slot})
          /\ op.kind # "delete" => Readable(Load(d), {})
      BY <1>2, <2>1, <2>3, SavedMix
    <2> QED
      BY <1>2, <2>4 DEF Deleting
  <1>3. CASE ~(pc = "save" /\ d = cwd)
    <2>1. Readable(Load(d), {})
      BY <1>1, <1>3 DEF ReadInv, AllReadable, Busy
    <2> QED
      BY <2>1 DEF Readable, ShowsNames, Apart, ShowsShorts
  <1> QED
    BY <1>2, <1>3

LEMMA NamesMeaning == TypeInv /\ ChainInv /\ NamesInv => NamesUnique
  <1> SUFFICES ASSUME TypeInv, ChainInv, NamesInv, Mounted, torn = {}, ~InsertHalfDone,
                      NEW d \in Dirs
               PROVE  LET image == Load(d)
                          shown == {i \in Visible(image) : <<d, i>> \notin Leaving}
                      IN  /\ \A i, j \in shown :
                                i # j => ~SameName(EntryName(image, i), EntryName(image, j))
                          /\ \A i \in shown : EntryName(image, i) \in Name
    BY DEF NamesUnique
  <1>1. PICK L \in SUBSET Cluster : ChainsAt(L)
    BY DEF ChainInv
  <1>2. ReadInv
    BY DEF NamesInv
  <1>3. d \in Parents(data)
    <2>1. \A p \in Entries : p \in Shown(data)
      BY EntriesShown
    <2> QED
      BY <2>1 DEF Dirs, DirsOf, Entries, Parents
  <1>4. d \in Cluster
    <2>1. TwoWorlds(L, fat, data) /\ data \in Region
      BY <1>1, State DEF ChainsAt, DiskInv, DiskAt
    <2> QED
      BY <1>3, <2>1, ParentsType
  <1>5. PICK X : X = IF Deleting /\ d = cwd THEN {op.slot} ELSE {}
    OBVIOUS
  <1>6. PICK v : v = Load(d)
    OBVIOUS
  <1>7. Readable(v, X)
    BY <1>1, <1>2, <1>3, <1>5, <1>6, DirReads
  <1>8. v \in Seq(Sector)
    BY <1>4, <1>6, State, LoadType DEF Region
  <1>9. Visible(v) = EntriesIn(v)
    BY <1>7, <1>8, VisibleEntries DEF Readable
  <1>10. \A i \in Visible(v) : <<d, i>> \notin Leaving => i \in EntriesIn(v) \ X
    BY <1>5, <1>9 DEF Leaving
  <1>11. /\ \A i, j \in EntriesIn(v) \ X :
               i # j => ~SameName(EntryName(v, i), EntryName(v, j))
         /\ \A i \in EntriesIn(v) \ X : EntryName(v, i) \in Name
    BY <1>7 DEF Readable, Apart, ShowsNames
  <1> QED
    BY <1>6, <1>10, <1>11

(* No directory shows two names that match, and every entry shows a name     *)
(* that was given to it, whatever was inserted and deleted around it: the    *)
(* search for a free run (fat32_add_dir_entry) never cuts into the LFN slots *)
(* of another entry, fat32_delete_file marks exactly those of its own, and   *)
(* the scan (scan_next, lfn_assemble) reads back what was written.           *)
THEOREM NamesAreUnique == Spec => []NamesUnique
  <1>1. TypeInv /\ MirrorInv /\ ChainInv /\ NamesInv => NamesUnique
    BY NamesMeaning
  <1> QED
    BY <1>1, NamesInvariant, PTL

(* The sectors of a save that is under way show entries of the old image, or *)
(* of the new one, and of both what they have in common.                     *)
LEMMA SavedShorts ==
    ASSUME TypeInv, NEW L, ChainsAt(L), pc = "save", NEW old, SavedFrom(old), NamesFit,
           NEW u, u = Image(data, dirc), NEW i \in EntriesIn(u), NEW j \in EntriesIn(u), i # j
    PROVE  At(u, i).short # At(u, j).short
  <1>1. /\ old \in Seq(Sector) /\ Len(old) = Len(img) /\ Readable(old, {})
        /\ img \in Seq(Sector) /\ Len(img) = Len(dirc) /\ Len(img) \in Nat /\ Len(io) \in Nat
        /\ op.slot \in SlotsIn(img) /\ op.slot \in Nat /\ Len(io) <= Len(img)
    BY State DEF SavedFrom, ChainsAt, SaveInv, SlotsIn
  <1>2. u \in Seq(Sector) /\ Len(u) = Len(img)
    <2>1. data \in [Cluster -> SectorData] /\ dirc \in Seq(Cluster)
      BY State DEF Region
    <2> QED
      BY <1>1, <2>1, ImageType
  <1>3. SlotsIn(old) = SlotsIn(img) /\ SlotsIn(u) = SlotsIn(img)
    BY <1>1, <1>2, SameShape
  <1>4. \A s \in SlotsIn(u) : At(u, s) = At(img, s) \/ At(u, s) = At(old, s)
    <2>1. PICK K : K = Len(img) - Len(io)
      OBVIOUS
    <2>2. K \in Nat
      BY <1>1, <2>1
    <2>3. \A k \in 1..Len(img) : u[k] = IF k > K THEN old[k] ELSE img[k]
      <3>1. \A k \in 1..Len(img) : u[k] = SlotsOf(data[dirc[k]])
        BY <1>1 DEF Image
      <3> QED
        BY <2>1, <3>1 DEF SavedFrom, ToCome
    <2>4. Mixed(old, img, K, u)
      BY <1>1, <1>2, <2>3 DEF Mixed
    <2> QED
      BY <1>1, <1>2, <1>3, <2>2, <2>4, MixAt
  <1>5. /\ Readable(img, {}) /\ SameList(old, img, {op.slot})
        /\ op.kind # "delete" => NewIn(old, img, op.slot, NewEntry, op.name)
    BY SavedReads
  <1>6. CASE op.kind = "delete"
    <2>1. op.slot \notin EntriesIn(img)
      <3>1. img = MarkDeleted(old, op.slot)
        BY <1>6 DEF SavedFrom, Removed
      <3>2. op.slot \in LfnSetOf(old, op.slot)
        <4>1. op.slot \in 1..op.slot /\ \A m \in op.slot..(op.slot - 1) : FALSE
          BY <1>1 DEF SlotsIn
        <4> QED
          BY <4>1 DEF LfnSetOf
      <3>3. PICK slot : slot = op.slot
        OBVIOUS
      <3>4. At(img, slot).tag = "del"
        BY <1>1, <1>3, <3>1, <3>2, <3>3, MarkedAt DEF Deleted
      <3> QED
        BY <3>3, <3>4 DEF EntriesIn, IsVisible
    <2>2. ASSUME NEW s \in EntriesIn(u)
          PROVE  s \in EntriesIn(old) /\ At(u, s) = At(old, s)
      <3>1. s \in SlotsIn(u) /\ IsVisible(At(u, s))
        BY DEF EntriesIn
      <3>2. At(u, s) = At(img, s) => s \in EntriesIn(img) /\ s # op.slot
        BY <1>3, <2>1, <3>1 DEF EntriesIn
      <3> QED
        BY <1>3, <1>4, <1>5, <3>1, <3>2 DEF EntriesIn, SameList
    <2> QED
      BY <1>1, <2>2 DEF Readable, ShowsShorts
  <1>7. CASE op.kind # "delete"
    <2>1. ASSUME NEW s \in EntriesIn(u)
          PROVE  s \in EntriesIn(img) /\ At(u, s) = At(img, s)
      <3>1. s \in SlotsIn(u) /\ IsVisible(At(u, s))
        BY DEF EntriesIn
      <3>2. At(u, s) = At(old, s) => s \in EntriesIn(old) /\ s # op.slot
        BY <1>3, <1>5, <1>7, <3>1 DEF EntriesIn, NewIn
      <3> QED
        BY <1>3, <1>4, <1>5, <3>1, <3>2 DEF EntriesIn, SameList
    <2> QED
      BY <1>5, <2>1 DEF Readable, ShowsShorts
  <1> QED
    BY <1>6, <1>7

LEMMA ShortsMeaning == TypeInv /\ ChainInv /\ NamesInv => ShortsUnique
  <1> SUFFICES ASSUME TypeInv, ChainInv, NamesInv, Mounted, torn = {}, NamesFit, NEW d \in Dirs,
                      NEW v, v = Load(d), NEW i \in Visible(v), NEW j \in Visible(v), i # j
               PROVE  At(v, i).short # At(v, j).short
    BY DEF ShortsUnique
  <1>1. PICK L \in SUBSET Cluster : ChainsAt(L)
    BY DEF ChainInv
  <1>2. ReadInv
    BY DEF NamesInv
  <1>3. d \in Parents(data)
    <2>1. \A p \in Entries : p \in Shown(data)
      BY EntriesShown
    <2> QED
      BY <2>1 DEF Dirs, DirsOf, Entries, Parents
  <1>4. d \in Cluster
    <2>1. TwoWorlds(L, fat, data) /\ data \in Region
      BY <1>1, State DEF ChainsAt, DiskInv, DiskAt
    <2> QED
      BY <1>3, <2>1, ParentsType
  <1>5. v \in Seq(Sector)
    BY <1>4, State, LoadType DEF Region
  <1>6. i \in EntriesIn(v) /\ j \in EntriesIn(v)
    <2>1. Count(v) \in 0..Capacity(v) /\ Capacity(v) \in Nat
      BY <1>5, CapacityType, CountRange
    <2> QED
      BY <2>1 DEF Visible, EntriesIn, SlotsIn
  <1>7. CASE pc = "save" /\ d = cwd
    <2>1. PICK old : SavedFrom(old)
      BY <1>2, <1>7 DEF ReadInv
    <2>2. dirc = DirChain(cwd)
      BY <1>2, <1>7 DEF ReadInv, DircInv, Extending
    <2>3. v = Image(data, dirc)
      BY <1>7, <2>2 DEF Load
    <2> QED
      BY <1>1, <1>6, <1>7, <2>1, <2>3, SavedShorts
  <1>8. CASE ~(pc = "save" /\ d = cwd)
    <2>1. Readable(v, {})
      BY <1>2, <1>3, <1>8, LoadIs DEF ReadInv, AllReadable, Busy
    <2> QED
      BY <1>6, <2>1 DEF Readable, ShowsShorts
  <1> QED
    BY <1>7, <1>8

(* No two entries of a directory have the same 8.3 name, at any moment of a  *)
(* save: build_short_name looks at all of them, and one of its alternatives  *)
(* is not in use, as every one in use belongs to a rival of the new name.    *)
THEOREM ShortsAreUnique == Spec => []ShortsUnique
  BY NamesInvariant, ShortsMeaning, PTL

-----------------------------------------------------------------------------
(* The tree, directory by directory.                                         *)

(* The nodes of the directory b with the image v, but the slots in S; those  *)
(* of all directories but c; those of all, when the image of c is v.         *)
NodesIn(f, d, b, v, S) == {NodeOf(f, d, b, v, i) : i \in EntriesIn(v) \ S}
OtherNodes(f, d, c) ==
    UNION {NodesIn(f, d, b, DirAt(f, d, b), {}) : b \in Parents(d) \ {c}}
TreeWith(f, d, c, v, S) == NodesIn(f, d, c, v, S) \cup OtherNodes(f, d, c)

(* v without S lists what w without T does.                                  *)
SameNodes(v, S, w, T) ==
    /\ EntriesIn(w) \ T = EntriesIn(v) \ S
    /\ \A i \in EntriesIn(v) \ S : At(w, i) = At(v, i) /\ EntryName(w, i) = EntryName(v, i)

(* The files listed in v read the same on both disks.                        *)
SameBodies(f, d, g, e, v, S) ==
    \A i \in EntriesIn(v) \ S :
        At(v, i).tag = "file" => ReadFile(g, e, At(v, i)) = ReadFile(f, d, At(v, i))

LEMMA ListsSame == ASSUME NEW v, NEW w, NEW S, SameList(v, w, S) PROVE SameNodes(v, S, w, S)
  BY DEF SameList, SameNodes

LEMMA NodesStay ==
    ASSUME NEW f, NEW d, NEW g, NEW e, NEW b, NEW v, NEW S, NEW w, NEW T,
           SameNodes(v, S, w, T), SameBodies(f, d, g, e, v, S)
    PROVE  NodesIn(g, e, b, w, T) = NodesIn(f, d, b, v, S)
  <1>1. \A i \in EntriesIn(v) \ S : NodeOf(g, e, b, w, i) = NodeOf(f, d, b, v, i)
    <2> SUFFICES ASSUME NEW i \in EntriesIn(v) \ S
                 PROVE  NodeOf(g, e, b, w, i) = NodeOf(f, d, b, v, i)
      OBVIOUS
    <2>1. At(w, i) = At(v, i) /\ EntryName(w, i) = EntryName(v, i)
      BY DEF SameNodes
    <2>2. At(v, i).tag \in {"file", "dir"}
      BY DEF EntriesIn, IsVisible
    <2>3. At(v, i).tag = "file" => ReadFile(g, e, At(v, i)) = ReadFile(f, d, At(v, i))
      BY DEF SameBodies
    <2> QED
      BY <2>1, <2>2, <2>3 DEF NodeOf
  <1>2. EntriesIn(w) \ T = EntriesIn(v) \ S
    BY DEF SameNodes
  <1> QED
    BY <1>1, <1>2 DEF NodesIn

LEMMA SameAsSelf == ASSUME NEW v, NEW S PROVE SameNodes(v, S, v, S)
  BY DEF SameNodes

(* Nothing changes in the other directories, nor in the files they list.     *)
OthersSame(f, d, g, e, c) ==
    \A b \in Parents(d) \ {c} :
        DirAt(g, e, b) = DirAt(f, d, b) /\ SameBodies(f, d, g, e, DirAt(f, d, b), {})

LEMMA OthersStill ==
    ASSUME NEW f, NEW d, NEW g, NEW e, NEW c, OthersSame(f, d, g, e, c), NEW b \in Parents(d) \ {c}
    PROVE  NodesIn(g, e, b, DirAt(g, e, b), {}) = NodesIn(f, d, b, DirAt(f, d, b), {})
  <1>1. PICK v : v = DirAt(f, d, b)
    OBVIOUS
  <1>2. DirAt(g, e, b) = v /\ SameBodies(f, d, g, e, v, {})
    BY <1>1 DEF OthersSame
  <1> QED
    BY <1>1, <1>2, NodesStay, SameAsSelf

LEMMA TreeStays ==
    ASSUME NEW f, NEW d, NEW g, NEW e, NEW c, OthersSame(f, d, g, e, c),
           Parents(e) = Parents(d), NEW v, NEW S, NEW w, NEW T,
           SameNodes(v, S, w, T), SameBodies(f, d, g, e, v, S)
    PROVE  TreeWith(g, e, c, w, T) = TreeWith(f, d, c, v, S)
  <1>1. NodesIn(g, e, c, w, T) = NodesIn(f, d, c, v, S)
    BY NodesStay
  <1>2. OtherNodes(g, e, c) = OtherNodes(f, d, c)
    BY OthersStill DEF OtherNodes
  <1> QED
    BY <1>1, <1>2 DEF TreeWith

(* A directory more, with no entries.                                        *)
LEMMA TreeWider ==
    ASSUME NEW f, NEW d, NEW g, NEW e, NEW c, OthersSame(f, d, g, e, c),
           NEW x, Parents(e) = Parents(d) \cup {x}, x = c \/ EntriesIn(DirAt(g, e, x)) = {} \/ x \in Parents(d)
    PROVE  OtherNodes(g, e, c) = OtherNodes(f, d, c)
  <1>1. \A b \in Parents(d) \ {c} :
           NodesIn(g, e, b, DirAt(g, e, b), {}) = NodesIn(f, d, b, DirAt(f, d, b), {})
    BY OthersStill
  <1>2. EntriesIn(DirAt(g, e, x)) = {} => NodesIn(g, e, x, DirAt(g, e, x), {}) = {}
    BY DEF NodesIn
  <1> QED
    BY <1>1, <1>2 DEF OtherNodes

(* A file that nothing touches reads the same.                               *)
LEMMA FileStays ==
    ASSUME NEW f, NEW d, NEW X, NEW Z, NEW g, NEW e, Untouched(f, d, X, Z, g, e), FilesAt(f, d, X),
           NEW p \in Shown(d) \ X, NEW x, x = EntryOf(d, p), x.tag = "file"
    PROVE  ReadFile(g, e, x) = ReadFile(f, d, x)
  <1>1. PICK c, n : c = x.cluster /\ n = x.size
    OBVIOUS
  <1>2. PICK s : Held(f, d, c, n, s)
    BY <1>1 DEF FilesAt, HasFile
  <1>3. c \notin Z /\ \A y \in Cluster : f[y] \in Z => y \in Z
    BY <1>1 DEF Untouched
  <1>4. \A k \in 1..Len(s) : s[k] \in Cluster \ Z
    BY <1>2, <1>3, HeldAvoids
  <1>5. \A y \in Cluster \ Z : g[y] = f[y] /\ e[y] = d[y]
    BY DEF Untouched
  <1>6. Held(g, e, c, n, s)
    BY <1>2, <1>3, <1>5, HeldKept
  <1>7. n \in Nat /\ n <= n /\ Len(s) = n
    BY <1>2, LenProperties DEF Held
  <1>8. /\ Len(Chain(f, c, n)) = n /\ \A k \in 1..n : Chain(f, c, n)[k] = s[k]
        /\ Len(Chain(g, c, n)) = n /\ \A k \in 1..n : Chain(g, c, n)[k] = s[k]
    BY <1>2, <1>6, <1>7, HeldIsWalked
  <1>9. \A k \in 1..n : e[Chain(g, c, n)[k]] = d[Chain(f, c, n)[k]]
    BY <1>4, <1>5, <1>7, <1>8
  <1> QED
    BY <1>1, <1>8, <1>9 DEF ReadFile

(* What a directory lists is shown by a sector of its chain.                 *)
LEMMA ListedIsShown ==
    ASSUME NEW f, NEW d \in Region, NEW b \in Cluster, NEW s, s = Chain(f, b, DIR_MAX_CLUSTERS),
           NEW v, v = DirAt(f, d, b), NEW i \in EntriesIn(v)
    PROVE  \E p \in Shown(d) :
              /\ EntryOf(d, p) = At(v, i)
              /\ \E k \in 1..Len(s) : p[1] = s[k] /\ Position(k, p[2]) = i
  <1>1. s \in Seq(Cluster) /\ v = Image(d, s)
    BY DirBound, ChainType DEF DirAt
  <1>2. v \in Seq(Sector) /\ Len(v) = Len(s) /\ \A k \in 1..Len(s) : v[k] = SlotsOf(d[s[k]])
    BY <1>1, ImageType DEF Region, Image
  <1>3. i \in 1..Capacity(v) /\ IsVisible(At(v, i))
    BY DEF EntriesIn, SlotsIn
  <1>4. PICK k \in 1..Len(s), e \in SlotNo :
           /\ Position(k, e) = i /\ <<s[k], e>> \in Spot
           /\ EntryOf(d, <<s[k], e>>) = At(v, i)
    BY <1>1, <1>2, <1>3, ImagePlace
  <1>5. PICK p : p = <<s[k], e>>
    OBVIOUS
  <1>6. p \in Shown(d) /\ EntryOf(d, p) = At(v, i) /\ p[1] = s[k] /\ Position(k, p[2]) = i
    BY <1>3, <1>4, <1>5 DEF Shown
  <1> QED
    BY <1>6

(* It is not the entry under deletion, but in that slot.                     *)
LEMMA ListedIsNoVictim ==
    ASSUME TypeInv, NEW L, ChainsAt(L), ReadInv, NEW b \in Parents(data),
           NEW v, v = DirAt(fat, data, b), NEW i \in EntriesIn(v),
           ~(Deleting /\ b = cwd /\ i = op.slot)
    PROVE  \E p \in Shown(data) \ Victim : EntryOf(data, p) = At(v, i)
  <1>1. DiskAt(L, fat, data, Victim) /\ cwd \in Parents(data) /\ data \in Region
    BY State DEF ChainsAt, DiskInv
  <1>2. b \in Cluster
    <2>1. TwoWorlds(L, fat, data)
      BY <1>1 DEF DiskAt
    <2> QED
      BY <1>1, <2>1, ParentsType
  <1>3. PICK s : s = Chain(fat, b, DIR_MAX_CLUSTERS)
    OBVIOUS
  <1>4. PICK p \in Shown(data) :
           /\ EntryOf(data, p) = At(v, i)
           /\ \E k \in 1..Len(s) : p[1] = s[k] /\ Position(k, p[2]) = i
    BY <1>1, <1>2, <1>3, ListedIsShown
  <1>5. PICK k \in 1..Len(s) : p[1] = s[k] /\ Position(k, p[2]) = i
    BY <1>4
  <1>6. ASSUME p \in Victim
        PROVE  FALSE
    <2>1. Deleting /\ \E x \in 1..Len(dirc) : p[1] = dirc[x] /\ Position(x, p[2]) = op.slot
      BY <1>6 DEF Victim
    <2>2. PICK x \in 1..Len(dirc) : p[1] = dirc[x] /\ Position(x, p[2]) = op.slot
      BY <2>1
    <2>3. dirc = Chain(fat, cwd, DIR_MAX_CLUSTERS)
      BY <2>1 DEF Deleting, ReadInv, DircInv, Extending, DirChain
    <2>4. CASE b = cwd
      <3>1. s = dirc
        BY <1>3, <2>3, <2>4
      <3>2. x = k
        BY <1>5, <2>1, <2>2, <3>1 DEF ChainsAt, LoadInv, Deleting
      <3> QED
        BY <1>5, <2>1, <2>2, <2>4, <3>2
    <2>5. CASE b # cwd
      <3>1. PICK t : t = dirc
        OBVIOUS
      <3>2. \A y \in 1..Len(s), z \in 1..Len(t) : s[y] # t[z]
        BY <1>1, <1>3, <2>3, <2>5, <3>1, DirectoriesApart, DirBound
      <3> QED
        BY <1>5, <2>2, <3>1, <3>2
    <2> QED
      BY <2>4, <2>5
  <1> QED
    BY <1>4, <1>6

(* No sector write changes a file that some directory lists, unless it is    *)
(* the one under deletion.                                                   *)
Vanishing(b) == IF Deleting /\ b = cwd THEN {op.slot} ELSE {}
LEMMA BodiesStay ==
    ASSUME TypeInv, NEW L, ChainsAt(L), FilesInv, ReadInv, FilesApart, NEW b \in Parents(data)
    PROVE  SameBodies(fat, data, fat', data', DirAt(fat, data, b), Vanishing(b))
  <1>1. PICK v, S : v = DirAt(fat, data, b) /\ S = Vanishing(b)
    OBVIOUS
  <1>2. PICK f, d, g, e, X : f = fat /\ d = data /\ g = fat' /\ e = data' /\ X = Victim
    OBVIOUS
  <1>3. PICK Z : Untouched(f, d, X, Z, g, e)
    BY <1>2 DEF FilesApart
  <1>4. FilesAt(f, d, X)
    BY <1>2 DEF FilesInv
  <1>5. ASSUME NEW i \in EntriesIn(v) \ S, At(v, i).tag = "file"
        PROVE  ReadFile(g, e, At(v, i)) = ReadFile(f, d, At(v, i))
    <2>1. ~(Deleting /\ b = cwd /\ i = op.slot)
      BY <1>1, <1>5 DEF Vanishing
    <2>2. PICK p \in Shown(d) \ X : EntryOf(d, p) = At(v, i)
      BY <1>1, <1>2, <2>1, ListedIsNoVictim
    <2> QED
      BY <1>3, <1>4, <1>5, <2>2, FileStays
  <1> QED
    BY <1>1, <1>2, <1>5 DEF SameBodies

-----------------------------------------------------------------------------
(* What a caller reads back from the disk, in terms of the directories.      *)

(* The slot of an entry that is gone but still there.                        *)
Hidden == IF DeleteHalfDone THEN {op.slot} ELSE {}

(* A new entry that is not on the disk yet.                                  *)
Unsaved == pc = "save" /\ op.kind # "delete" /\ ~EntryWritten(op.slot)

(* The directory being saved lists what `old` did: without the entry under   *)
(* deletion; and with the new one as soon as its slot is written.            *)
Lists(old, u) ==
    IF op.kind = "delete" THEN SameNodes(old, {op.slot}, u, Hidden)
    ELSE /\ SameList(old, img, {op.slot}) /\ NewIn(old, img, op.slot, NewEntry, op.name)
         /\ EntryWritten(op.slot) => u = img
         /\ ~EntryWritten(op.slot) /\ ~InsertHalfDone => u = old
         /\ \A i \in EntriesIn(old) : i \in EntriesIn(u) /\ At(u, i) = At(old, i)

(* What is on the disk while it is sound.                                    *)
TreeOnDisk ==
    Mounted /\ torn = {} =>
        /\ DirsOf(fat, data) = Parents(data)
        /\ ~InsertHalfDone =>
              TreeOf(fat, data, Gone) = TreeWith(fat, data, cwd, DirAt(fat, data, cwd), Hidden)
        /\ pc = "save" =>
              /\ EntryWritten(op.slot) <=> ~EntryToCome
              /\ \A old : SavedFrom(old) => Lists(old, DirAt(fat, data, cwd))

LEMMA DirsAre ==
    ASSUME TypeInv, NEW L, ChainsAt(L)
    PROVE  DirsOf(fat, data) = Parents(data)
  <1>1. TwoWorlds(L, fat, data)
    BY DEF ChainsAt, DiskInv, DiskAt
  <1>2. EntriesOf(fat, data) = Shown(data)
    <2>1. \A p \in Shown(data) : fat[p[1]] # 0
      BY <1>1 DEF TwoWorlds
    <2> QED
      BY <2>1 DEF EntriesOf, Shown, Spot, SlotNo, EntryOf
  <1> QED
    BY <1>2 DEF DirsOf, Parents

(* What a directory shows a caller.                                          *)
LEMMA ShownNodes ==
    ASSUME TypeInv, NEW L, ChainsAt(L), ReadInv, ~InsertHalfDone, NEW b \in Parents(data),
           NEW v, v = DirAt(fat, data, b)
    PROVE  {NodeOf(fat, data, b, v, i) : i \in {j \in Visible(v) : <<b, j>> \notin Gone}}
             = NodesIn(fat, data, b, v, IF b = cwd THEN Hidden ELSE {})
  <1>1. v = Load(b)
    BY LoadIs
  <1>2. PICK X : X = IF Deleting /\ b = cwd THEN {op.slot} ELSE {}
    OBVIOUS
  <1>3. Readable(v, X)
    BY <1>1, <1>2, DirReads
  <1>4. b \in Cluster
    <2>1. TwoWorlds(L, fat, data) /\ data \in Region
      BY State DEF ChainsAt, DiskInv, DiskAt
    <2> QED
      BY <2>1, ParentsType
  <1>5. v \in Seq(Sector)
    BY <1>1, <1>4, State, LoadType DEF Region
  <1>6. Visible(v) = EntriesIn(v)
    BY <1>3, <1>5, VisibleEntries DEF Readable
  <1>7. {j \in EntriesIn(v) : <<b, j>> \notin Gone} = EntriesIn(v) \ (IF b = cwd THEN Hidden ELSE {})
    BY DEF Gone, Hidden
  <1> QED
    BY <1>6, <1>7 DEF NodesIn

LEMMA TreeIs ==
    ASSUME TypeInv, NEW L, ChainsAt(L), ReadInv, ~InsertHalfDone
    PROVE  TreeOf(fat, data, Gone) = TreeWith(fat, data, cwd, DirAt(fat, data, cwd), Hidden)
  <1> DEFINE All(b) == {NodeOf(fat, data, b, DirAt(fat, data, b), i) :
                          i \in {j \in Visible(DirAt(fat, data, b)) : <<b, j>> \notin Gone}}
  <1>1. TreeOf(fat, data, Gone) = UNION {All(b) : b \in Parents(data)}
    BY DirsAre DEF TreeOf, DirAt
  <1>2. \A b \in Parents(data) :
           All(b) = NodesIn(fat, data, b, DirAt(fat, data, b), IF b = cwd THEN Hidden ELSE {})
    BY ShownNodes
  <1>3. cwd \in Parents(data)
    BY DEF ChainsAt, DiskInv
  <1> HIDE DEF All
  <1>4. UNION {All(b) : b \in Parents(data)}
          = All(cwd) \cup UNION {All(b) : b \in Parents(data) \ {cwd}}
    BY <1>3
  <1>5. All(cwd) = NodesIn(fat, data, cwd, DirAt(fat, data, cwd), Hidden)
    BY <1>2, <1>3
  <1>6. {All(b) : b \in Parents(data) \ {cwd}}
          = {NodesIn(fat, data, b, DirAt(fat, data, b), {}) : b \in Parents(data) \ {cwd}}
    BY <1>2
  <1> QED
    BY <1>1, <1>4, <1>5, <1>6 DEF TreeWith, OtherNodes

LEMMA SavedLists ==
    ASSUME TypeInv, NEW L, ChainsAt(L), ReadInv, pc = "save", NEW old, SavedFrom(old)
    PROVE  Lists(old, DirAt(fat, data, cwd))
  <1>1. PICK u : u = DirAt(fat, data, cwd)
    OBVIOUS
  <1>2. dirc = DirChain(cwd)
    BY DEF ReadInv, DircInv, Extending
  <1>3. u = Image(data, dirc)
    BY <1>1, <1>2 DEF DirAt, DirChain
  <1>4. CASE op.kind = "delete"
    <2>1. SameList(old, u, {op.slot}) /\ (EntryWritten(op.slot) => op.slot \notin EntriesIn(u))
      BY <1>3, <1>4, SavedMix
    <2>2. Hidden = IF EntryWritten(op.slot) THEN {} ELSE {op.slot}
      BY <1>4 DEF Hidden, DeleteHalfDone
    <2>3. SameNodes(old, {op.slot}, u, Hidden)
      BY <2>1, <2>2 DEF SameList, SameNodes
    <2> QED
      BY <1>1, <1>4, <2>3 DEF Lists
  <1>5. CASE op.kind # "delete"
    <2>1. /\ EntryWritten(op.slot) => u = img
          /\ ~EntryWritten(op.slot) /\ ~InsertHalfDone => u = old
          /\ \A i \in EntriesIn(old) : i \in EntriesIn(u) /\ At(u, i) = At(old, i)
      BY <1>3, <1>5, SavedMix
    <2>2. SameList(old, img, {op.slot}) /\ NewIn(old, img, op.slot, NewEntry, op.name)
      BY <1>5, SavedReads
    <2> QED
      BY <1>1, <1>5, <2>1, <2>2 DEF Lists
  <1> QED
    BY <1>4, <1>5

(* The entry is written exactly when its sector is.                          *)
LEMMA WrittenOrToCome ==
    ASSUME TypeInv, NEW L, ChainsAt(L), pc = "save"
    PROVE  EntryWritten(op.slot) <=> ~EntryToCome
  <1>1. PICK u : u = Image(data, dirc)
    OBVIOUS
  <1>2. /\ img \in Seq(Sector) /\ Len(img) = Len(dirc) /\ Len(img) \in Nat
        /\ data \in [Cluster -> SectorData] /\ dirc \in Seq(Cluster)
    BY State DEF Region
  <1>3. u \in Seq(Sector) /\ Len(u) = Len(img) /\ \A k \in 1..Len(img) : u[k] = SlotsOf(data[dirc[k]])
    BY <1>1, <1>2, ImageType DEF Image
  <1>4. op.slot \in 1..Capacity(img)
    BY DEF ChainsAt, SaveInv
  <1>5. PICK k \in 1..Len(img), e \in SlotNo : Position(k, e) = op.slot
    BY <1>2, <1>4, SlotPlace
  <1>6. At(img, op.slot) = img[k][e] /\ At(u, op.slot) = u[k][e]
    <2>1. PICK slot : slot = Position(k, e)
      OBVIOUS
    <2>2. At(img, slot) = img[k][e] /\ At(u, slot) = u[k][e]
      BY <1>2, <1>3, <2>1, PositionAt
    <2> QED
      BY <1>5, <2>1, <2>2
  <1>7. EntryToCome <=> ToCome(k)
    <2>1. ASSUME NEW m \in 1..Len(img), NEW i \in SlotNo, Position(m, i) = op.slot
          PROVE  m = k
      <3>1. k \in Nat \ {0} /\ m \in Nat \ {0} /\ Position(k, e) = Position(m, i)
        BY <1>2, <1>5, <2>1
      <3> QED
        BY <3>1, PositionsApart
    <2> QED
      BY <1>5, <2>1 DEF EntryToCome
  <1>8. SlotInv(k, e) /\ (ToCome(k) \/ SlotsOf(data[dirc[k]]) = img[k])
    BY DEF ChainsAt, SaveInv
  <1>9. CASE ToCome(k)
    <2>1. u[k][e] # img[k][e]
      <3>1. op.kind = "delete" => ~Solid(img[k][e]) /\ u[k][e].tag = "file"
        BY <1>3, <1>5, <1>8, <1>9 DEF SlotInv
      <3>2. op.kind # "delete" => img[k][e] = NewEntry /\ ~Solid(u[k][e])
        BY <1>3, <1>5, <1>8, <1>9 DEF SlotInv
      <3>3. NewEntry.tag \in {"file", "dir"}
        BY DEF NewEntry, Entry
      <3> QED
        BY <3>1, <3>2, <3>3 DEF Solid
    <2> QED
      BY <1>1, <1>6, <1>7, <1>9, <2>1 DEF EntryWritten
  <1>10. CASE ~ToCome(k)
    <2>1. u[k] = img[k]
      BY <1>3, <1>8, <1>10
    <2> QED
      BY <1>1, <1>6, <1>7, <1>10, <2>1 DEF EntryWritten
  <1> QED
    BY <1>9, <1>10

LEMMA TreeMeaning == TypeInv /\ ChainInv /\ NamesInv => TreeOnDisk
  <1> SUFFICES ASSUME TypeInv, ChainInv, NamesInv, Mounted, torn = {}
               PROVE  /\ DirsOf(fat, data) = Parents(data)
                      /\ ~InsertHalfDone =>
                            TreeOf(fat, data, Gone)
                              = TreeWith(fat, data, cwd, DirAt(fat, data, cwd), Hidden)
                      /\ pc = "save" =>
                            /\ EntryWritten(op.slot) <=> ~EntryToCome
                            /\ \A old : SavedFrom(old) => Lists(old, DirAt(fat, data, cwd))
    BY DEF TreeOnDisk
  <1>1. PICK L \in SUBSET Cluster : ChainsAt(L)
    BY DEF ChainInv
  <1>2. ReadInv
    BY DEF NamesInv
  <1> QED
    BY <1>1, <1>2, DirsAre, TreeIs, SavedLists, WrittenOrToCome

LEMMA AllWritten ==
    ASSUME TypeInv, NEW L, ChainsAt(L), pc = "save", io = <<>>
    PROVE  EntryWritten(op.slot)
  <1>1. Len(io) = 0 /\ Len(img) \in Nat
    BY State
  <1>2. \A k \in 1..Len(img) : ~ToCome(k)
    BY <1>1 DEF ToCome
  <1> QED
    BY <1>2, WrittenOrToCome DEF EntryToCome

-----------------------------------------------------------------------------
(* The steps in RAM.  An entry that is being deleted goes with the first     *)
(* write that is issued to free its chain, or to mark it if it has none.     *)

LEMMA NotDoomed == ASSUME pc \notin {"free", "save"} \/ op.kind # "delete" PROVE Gone = {}
  BY DEF Gone, DeleteHalfDone

LEMMA NotDoomedNext ==
    ASSUME pc' \notin {"free", "save"} \/ op'.kind # "delete" PROVE Gone' = {}
  BY DEF Gone, DeleteHalfDone

(* At this step the entry goes.                                              *)
Goes ==
    /\ pc = "free" /\ UNCHANGED <<cwd, op>>
    /\ Gone \in {{}, {<<cwd, op.slot>>}} /\ Gone' = {<<cwd, op.slot>>}

LEMMA FreeGoes ==
    ASSUME TypeInv, NEW L, ChainsAt(L), FilesInv', FreeCluster
    PROVE  UNCHANGED <<fat, data>> /\ (Gone' = Gone \/ Goes)
  <1>1. pc \in {"free", "abort"} /\ pc' = pc /\ UNCHANGED <<fat, data, cwd, op, img>>
    BY DEF FreeCluster, disk
  <1>2. CASE pc = "abort"
    BY <1>1, <1>2, NotDoomed, NotDoomedNext
  <1>3. CASE pc = "free"
    <2>1. io' # <<>>
      BY DEF FreeCluster, WriteEntry
    <2>2. cur' # At(img', op'.slot).cluster
      BY <1>1, <1>3, <2>1 DEF FilesInv, WholeVictim
    <2>3. op.kind = "delete"
      BY <1>3 DEF ChainsAt, FreeInv
    <2>4. DeleteHalfDone'
      BY <1>1, <1>3, <2>2, <2>3 DEF DeleteHalfDone
    <2>5. Gone' = {<<cwd, op.slot>>}
      BY <1>1, <2>4 DEF Gone
    <2> QED
      BY <1>1, <1>3, <2>5 DEF Goes, Gone
  <1> QED
    BY <1>1, <1>2, <1>3

LEMMA MarkGoes ==
    ASSUME TypeInv, TypeInv', NEW L, ChainsAt(L), ChainsAt(L)', MarkEntry
    PROVE  UNCHANGED <<fat, data>> /\ (Gone' = Gone \/ Goes)
  <1>1. /\ pc = "free" /\ pc' = "save" /\ UNCHANGED <<fat, data, cwd, op, dirc>>
        /\ img' = MarkDeleted(img, op.slot)
    BY DEF MarkEntry, disk
  <1>2. op.kind = "delete" /\ op.slot \in 1..Capacity(img) /\ At(img, op.slot).tag = "file"
    BY <1>1 DEF ChainsAt, FreeInv
  <1>3. /\ img \in Seq(Sector) /\ Len(img) = Len(dirc) /\ Len(img) \in Nat
        /\ data \in [Cluster -> SectorData] /\ dirc \in Seq(Cluster)
    BY State DEF Region
  <1>4. PICK u : u = Image(data, dirc)
    OBVIOUS
  <1>5. u = img
    <2>1. \A k \in 1..Len(dirc) : SlotsOf(data[dirc[k]]) = img[k]
      BY <1>1 DEF ChainsAt, LoadInv, Extending
    <2>2. u \in Seq(Sector) /\ Len(u) = Len(img) /\ \A k \in 1..Len(img) : u[k] = img[k]
      BY <1>3, <1>4, <2>1, ImageType DEF Image
    <2> QED
      BY <1>3, <2>2
  <1>6. At(img', op.slot).tag = "del"
    <2>1. PICK slot : slot = op.slot
      OBVIOUS
    <2>2. slot \in SlotsIn(img) /\ slot \in LfnSetOf(img, slot)
      <3>1. slot \in 1..slot /\ \A m \in slot..(slot - 1) : FALSE
        BY <1>2, <2>1, State DEF Capacity
      <3> QED
        BY <1>2, <2>1, <3>1 DEF LfnSetOf, SlotsIn
    <2>3. At(MarkDeleted(img, slot), slot) = Deleted(HasLfnAttr(At(img, slot)))
      BY <1>3, <2>2, MarkedAt
    <2> QED
      BY <1>1, <2>1, <2>3 DEF Deleted
  <1>7. DeleteHalfDone'
    <2>1. ~EntryWritten(op.slot)'
      BY <1>1, <1>2, <1>4, <1>5, <1>6 DEF EntryWritten
    <2> QED
      BY <1>1, <1>2, <2>1 DEF DeleteHalfDone
  <1>8. Gone' = {<<cwd, op.slot>>}
    BY <1>1, <1>7 DEF Gone
  <1> QED
    BY <1>1, <1>8 DEF Goes, Gone

LEMMA ReturnGoes ==
    ASSUME TypeInv, NEW L, ChainsAt(L), Return
    PROVE  UNCHANGED <<fat, data>> /\ Gone' = Gone
  <1>1. io = <<>> /\ pc \in {"save", "abort"} /\ pc' = "idle" /\ UNCHANGED <<fat, data>>
    BY DEF Return, Finish, disk
  <1>2. Gone' = {}
    BY <1>1, NotDoomedNext
  <1>3. Gone = {}
    <2>1. pc = "save" => EntryWritten(op.slot)
      BY <1>1, AllWritten
    <2> QED
      BY <1>1, <2>1 DEF Gone, DeleteHalfDone
  <1> QED
    BY <1>1, <1>2, <1>3

LEMMA InsertGoes ==
    ASSUME TypeInv, NEW L, ChainsAt(L),
           \/ AllocCluster \/ AllocFails \/ WriteContents \/ ChooseShort \/ SearchRun
           \/ PlaceEntry \/ ExtendDir \/ InsertFails
    PROVE  UNCHANGED <<fat, data>> /\ Gone' = Gone
  <1>1. Inserting /\ UNCHANGED <<fat, data>>
    BY DEF AllocCluster, AllocFails, WriteContents, ChooseShort, SearchRun, PlaceEntry,
           ExtendDir, InsertFails, Inserting, disk
  <1>2. Gone = {}
    BY <1>1, NotDoomed DEF Inserting
  <1>3. op.kind \in {"create", "mkdir"}
    BY <1>1 DEF ChainsAt, ClaimInv, Claiming
  <1>4. pc' \notin {"free", "save"} \/ op'.kind # "delete"
    <2>1. CASE PlaceEntry
      <3>1. op'.kind = op.kind
        BY <2>1, State DEF PlaceEntry, TypeInv, TypeOK
      <3> QED
        BY <1>3, <3>1
    <2>2. CASE ~PlaceEntry
      BY <1>1, <2>2 DEF AllocCluster, AllocFails, WriteContents, ChooseShort, SearchRun,
             ExtendDir, InsertFails, Inserting, Finish
    <2> QED
      BY <2>1, <2>2
  <1> QED
    BY <1>1, <1>2, <1>4, NotDoomedNext

LEMMA CallGoes ==
    ASSUME Call \/ (Boot /\ boot = "fat32")
    PROVE  UNCHANGED <<fat, data>> /\ Gone' = Gone
  <1>1. pc \in {"idle", "off"} /\ UNCHANGED <<fat, data>>
    BY DEF Call, CreateFile, CreateDir, DeleteFile, ChangeDir, Boot, disk
  <1>2. Gone = {}
    BY <1>1, NotDoomed
  <1>3. ASSUME NEW name, DeleteFile(name)
        PROVE  ~DeleteHalfDone'
    <2>1. pc' = "free" /\ cur' = At(img', op'.slot).cluster
      BY <1>3 DEF DeleteFile, Start
    <2> QED
      BY <2>1 DEF DeleteHalfDone
  <1>4. ASSUME \A name : ~DeleteFile(name)
        PROVE  pc' \notin {"free", "save"}
    BY <1>4 DEF Call, CreateFile, CreateDir, DeleteFile, ChangeDir, Boot, ram
  <1>5. Gone' = {}
    BY <1>3, <1>4, NotDoomedNext DEF Gone
  <1> QED
    BY <1>1, <1>2, <1>5

LEMMA CutGoes ==
    ASSUME PowerCut, torn' = {}
    PROVE  UNCHANGED <<fat, data>> /\ Gone' = Gone /\ ~InsertHalfDone
  <1>1. torn' = torn \cup HalfDone /\ pc' = "off" /\ UNCHANGED <<fat, data>>
    BY DEF PowerCut, disk
  <1>2. ~DeleteHalfDone /\ ~InsertHalfDone
    BY <1>1 DEF HalfDone
  <1> QED
    BY <1>1, <1>2, NotDoomedNext DEF Gone

(* No step in RAM comes between the writes of an entry.                      *)
LEMMA RamSteps ==
    ASSUME TypeInv, TypeInv', Mounted, NEW L, ChainsAt(L), FilesInv', Next, ~DiskWrite,
           torn' = {}, MarkEntry => ChainsAt(L)'
    PROVE  /\ UNCHANGED <<fat, data>> /\ (Gone' = Gone \/ Goes)
           /\ ~InsertHalfDone
  <1>1. boot = "fat32" /\ ~FormatDone
    BY DEF Mounted, FormatDone
  <1>2. \/ FreeCluster \/ MarkEntry \/ Return
        \/ AllocCluster \/ AllocFails \/ WriteContents \/ ChooseShort \/ SearchRun
        \/ PlaceEntry \/ ExtendDir \/ InsertFails
        \/ Call \/ Boot \/ PowerCut
    BY <1>1 DEF Next, Work
  <1>3. UNCHANGED <<fat, data>> /\ (Gone' = Gone \/ Goes)
    BY <1>1, <1>2, FreeGoes, MarkGoes, ReturnGoes, InsertGoes, CallGoes, CutGoes
  <1>4. ASSUME InsertHalfDone
        PROVE  FALSE
    <2>1. pc = "save" /\ ~EntryWritten(op.slot)
      BY <1>4 DEF InsertHalfDone
    <2>2. ~PowerCut
      BY <1>4, CutGoes
    <2>3. Return
      BY <1>2, <2>1, <2>2
      DEF FreeCluster, MarkEntry, AllocCluster, AllocFails, WriteContents, ChooseShort, SearchRun,
          PlaceEntry, ExtendDir, InsertFails, Call, CreateFile, CreateDir, DeleteFile, ChangeDir, Boot
    <2> QED
      BY <2>1, <2>3, AllWritten DEF Return
  <1> QED
    BY <1>3, <1>4

-----------------------------------------------------------------------------
(* The tree of the callers, through the steps in RAM.                        *)

TreeHeld ==
    /\ Abstract!DirsOf(tree) = Parents(data)
    /\ ~InsertHalfDone => tree = TreeOf(fat, data, Gone)
    /\ Unsaved => \E old : SavedFrom(old) /\ tree = TreeWith(fat, data, cwd, old, {})
TreeInv == torn = {} => IF Mounted THEN TreeHeld ELSE tree = {}

LEMMA TreeChange ==
    ASSUME TreeNext
    PROVE  /\ ~Mounted' => tree' = {}
           /\ Mounted' /\ InsertHalfDone' => tree' = tree
           /\ Mounted' /\ ~InsertHalfDone' => tree' = TreeOf(fat', data', Gone')
  BY DEF TreeNext

(* The nodes of a directory are told apart by their names.                   *)
LEMMA NodeGoes ==
    ASSUME NEW f, NEW d, NEW c, NEW v, NEW i \in EntriesIn(v),
           \A j \in EntriesIn(v) : j # i => EntryName(v, j) # EntryName(v, i),
           NEW n, n = NodeOf(f, d, c, v, i)
    PROVE  n \in TreeWith(f, d, c, v, {}) /\ TreeWith(f, d, c, v, {i}) = TreeWith(f, d, c, v, {}) \ {n}
  <1>1. \A j \in EntriesIn(v) : j # i => NodeOf(f, d, c, v, j) # n
    <2> SUFFICES ASSUME NEW j \in EntriesIn(v), j # i, NodeOf(f, d, c, v, j) = n
                 PROVE  FALSE
      OBVIOUS
    <2>1. NodeOf(f, d, c, v, j).name = EntryName(v, j) /\ n.name = EntryName(v, i)
      BY DEF NodeOf
    <2> QED
      BY <2>1
  <1>2. NodesIn(f, d, c, v, {i}) = NodesIn(f, d, c, v, {}) \ {n} /\ n \in NodesIn(f, d, c, v, {})
    BY <1>1 DEF NodesIn
  <1>3. n \notin OtherNodes(f, d, c)
    <2>1. n.dir = c
      BY DEF NodeOf
    <2>2. ASSUME NEW b, NEW w, NEW m \in NodesIn(f, d, b, w, {})
          PROVE  m.dir = b
      BY DEF NodesIn, NodeOf
    <2>3. \A m \in OtherNodes(f, d, c) : m.dir # c
      BY <2>2 DEF OtherNodes
    <2> QED
      BY <2>1, <2>3
  <1> QED
    BY <1>2, <1>3 DEF TreeWith

LEMMA NamesTell ==
    ASSUME NEW v, Readable(v, {}), NEW i \in EntriesIn(v), NEW j \in EntriesIn(v), j # i
    PROVE  EntryName(v, j) # EntryName(v, i)
  <1>1. ~SameName(EntryName(v, j), EntryName(v, i))
    BY DEF Readable, Apart
  <1> QED
    BY <1>1 DEF SameName

(* The directory of an operation that has not begun to save is its image.    *)
LEMMA LoadedIsThere ==
    ASSUME TypeInv, NEW L, ChainsAt(L), ReadInv, pc = "free"
    PROVE  DirAt(fat, data, cwd) = img
  <1>1. dirc = Chain(fat, cwd, DIR_MAX_CLUSTERS)
    BY DEF ReadInv, DircInv, Extending, DirChain
  <1>2. /\ img \in Seq(Sector) /\ Len(img) = Len(dirc) /\ data \in Region /\ cwd \in Cluster
    BY State
  <1>3. \A k \in 1..Len(dirc) : SlotsOf(data[dirc[k]]) = img[k]
    BY DEF ChainsAt, LoadInv, Extending
  <1> QED
    BY <1>1, <1>2, <1>3, DirImage

(* The node of the entry goes, and nothing else.                             *)
LEMMA TreeGoes ==
    ASSUME TypeInv, NEW L, ChainsAt(L), ReadInv, TreeOnDisk, TreeOnDisk', torn = {}, torn' = {},
           Mounted, Mounted', TreeHeld, TreeNext, UNCHANGED <<fat, data>>, Goes
    PROVE  tree' = tree \/ \E n \in tree : Abstract!Delete(n)
  <1>1. PICK slot, u : slot = op.slot /\ u = DirAt(fat, data, cwd)
    OBVIOUS
  <1>2. /\ op.kind = "delete" /\ At(u, slot).tag = "file" /\ slot \in EntriesIn(u)
    <2>1. /\ op.kind = "delete" /\ op.slot \in 1..Capacity(img) /\ At(img, op.slot).tag = "file"
          /\ u = img
      BY <1>1, LoadedIsThere DEF Goes, ChainsAt, FreeInv
    <2> QED
      BY <1>1, <2>1 DEF EntriesIn, SlotsIn, IsVisible
  <1>3. ~InsertHalfDone /\ ~InsertHalfDone'
    BY <1>2 DEF Goes, InsertHalfDone
  <1>4. tree = TreeOf(fat, data, Gone) /\ tree' = TreeOf(fat', data', Gone')
    BY <1>3, TreeChange DEF TreeHeld
  <1>5. CASE Gone = {}
    <2>1. tree = TreeWith(fat, data, cwd, u, {})
      <3>1. Hidden = {}
        BY <1>5 DEF Gone, Hidden
      <3> QED
        BY <1>1, <1>3, <1>4, <3>1 DEF TreeOnDisk
    <2>2. tree' = TreeWith(fat, data, cwd, u, {slot})
      <3>1. DeleteHalfDone'
        BY DEF Goes, Gone
      <3>2. Hidden' = {slot} /\ cwd' = cwd /\ fat' = fat /\ data' = data
        BY <1>1, <3>1 DEF Hidden, Goes
      <3>3. tree' = TreeWith(fat', data', cwd', DirAt(fat', data', cwd'), Hidden')
        BY <1>3, <1>4 DEF TreeOnDisk
      <3> QED
        BY <1>1, <3>2, <3>3
    <2>3. PICK n : n = NodeOf(fat, data, cwd, u, slot)
      OBVIOUS
    <2>4. Readable(u, {})
      BY <1>1 DEF Goes, ReadInv, AllReadable, Busy, ChainsAt, DiskInv
    <2>5. \A j \in EntriesIn(u) : j # slot => EntryName(u, j) # EntryName(u, slot)
      BY <1>2, <2>4, NamesTell
    <2>6. n \in tree /\ tree' = tree \ {n}
      BY <1>2, <2>1, <2>2, <2>3, <2>5, NodeGoes
    <2>7. n.kind = "file"
      BY <1>2, <2>3 DEF NodeOf
    <2> QED
      BY <2>6, <2>7 DEF Abstract!Delete
  <1>6. CASE Gone # {}
    BY <1>4, <1>6 DEF Goes
  <1> QED
    BY <1>5, <1>6

LEMMA FileGoes ==
    ASSUME NEW n \in tree, Abstract!Delete(n)
    PROVE  Abstract!DirsOf(tree') = Abstract!DirsOf(tree)
  BY DEF Abstract!Delete, Abstract!DirsOf

(* An entry is placed in the image before it is saved.                       *)
LEMMA TreePlaced ==
    ASSUME TypeInv, TypeInv', NEW L, ChainsAt(L), ReadInv, TreeOnDisk, torn = {}, Mounted,
           tree' = tree, tree = TreeOf(fat, data, Gone), ~InsertHalfDone, PlaceEntry
    PROVE  \E old : SavedFrom(old)' /\ tree' = TreeWith(fat', data', cwd', old, {})
  <1>1. pc = "place" /\ UNCHANGED <<fat, data, cwd>>
    BY DEF PlaceEntry, disk
  <1>2. PICK old : old = DirAt(fat, data, cwd) /\ SavedFrom(old)'
    BY PlaceReads
  <1>3. Hidden = {}
    BY <1>1 DEF Hidden, DeleteHalfDone
  <1>4. tree = TreeWith(fat, data, cwd, old, {})
    BY <1>2, <1>3 DEF TreeOnDisk
  <1> QED
    BY <1>1, <1>2, <1>4

LEMMA TreeRam ==
    ASSUME TypeInv, TypeInv', NEW L, ChainsAt(L), FilesInv', ReadInv, Mounted, Mounted',
           TreeOnDisk, TreeOnDisk', torn = {}, torn' = {}, TreeHeld, TreeNext, ~DiskWrite,
           MarkEntry => ChainsAt(L)'
    PROVE  TreeHeld' /\ (tree' = tree \/ \E n \in tree : Abstract!Delete(n))
  <1>1. /\ UNCHANGED <<fat, data>> /\ (Gone' = Gone \/ Goes) /\ ~InsertHalfDone
    BY RamSteps DEF TreeNext
  <1>2. tree = TreeOf(fat, data, Gone)
    BY <1>1 DEF TreeHeld
  <1>3. Gone' = Gone => tree' = tree
    BY <1>1, <1>2, TreeChange
  <1>4. tree' = tree \/ \E n \in tree : Abstract!Delete(n)
    BY <1>1, <1>3, TreeGoes
  <1>5. Abstract!DirsOf(tree') = Parents(data')
    BY <1>1, <1>4, FileGoes DEF TreeHeld
  <1>6. ~InsertHalfDone' => tree' = TreeOf(fat', data', Gone')
    BY TreeChange
  <1>7. ASSUME Unsaved'
        PROVE  \E old : SavedFrom(old)' /\ tree' = TreeWith(fat', data', cwd', old, {})
    <2>1. pc' = "save" /\ op'.kind # "delete"
      BY <1>7 DEF Unsaved
    <2>2. PlaceEntry
      <3>1. ~MarkEntry
        BY <2>1 DEF MarkEntry, ChainsAt, FreeInv
      <3>2. ASSUME PowerCut \/ Return
            PROVE  FALSE
        BY <2>1, <3>2 DEF PowerCut, Return, Finish
      <3>3. ASSUME Boot \/ Call
            PROVE  FALSE
        BY <2>1, <3>3 DEF Boot, Call, CreateFile, CreateDir, DeleteFile, ChangeDir, ram
      <3>4. ASSUME \/ FormatDone \/ AllocCluster \/ AllocFails \/ WriteContents \/ ChooseShort
                   \/ ExtendDir \/ InsertFails \/ FreeCluster
            PROVE  FALSE
        BY <2>1, <3>4 DEF FormatDone, AllocCluster, AllocFails, WriteContents, ChooseShort,
                          ExtendDir, InsertFails, FreeCluster, Finish
      <3>5. ASSUME SearchRun
            PROVE  FALSE
        BY <2>1, <3>5 DEF SearchRun
      <3> QED
        BY <3>1, <3>2, <3>3, <3>4, <3>5 DEF TreeNext, Next, Work
    <2>3. ~Goes
      BY <2>2 DEF PlaceEntry, Goes
    <2> QED
      BY <1>1, <1>2, <1>3, <2>2, <2>3, TreePlaced
  <1> QED
    BY <1>4, <1>5, <1>6, <1>7 DEF TreeHeld

-----------------------------------------------------------------------------
(* The tree, through the sector writes.                                      *)

(* An entry written is one sector further on.                                *)
LEMMA SaveTurns ==
    ASSUME TypeInv, pc = "save", NEW k \in Nat, SaveAt(k), UNCHANGED <<op, img>>
    PROVE  /\ Here(k) <=> EntryToCome /\ ~EntryToCome'
           /\ EntryToCome' => EntryToCome
  <1>1. k \in 1..Len(img) /\ \A x \in 1..Len(img) : (ToCome(x) <=> x >= k) /\ (ToCome(x)' <=> x > k)
    BY DEF SaveAt
  <1>2. Len(img) \in Nat
    BY State
  <1>3. EntryToCome' <=> \E x \in 1..Len(img), e \in SlotNo : Position(x, e) = op.slot /\ ToCome(x)'
    BY DEF EntryToCome
  <1>4. EntryToCome' => EntryToCome
    <2>1. \A x \in 1..Len(img) : x > k => x >= k
      BY <1>1, <1>2
    <2> QED
      BY <1>1, <1>3, <2>1 DEF EntryToCome
  <1>5. ASSUME Here(k)
        PROVE  EntryToCome /\ ~EntryToCome'
    <2>1. PICK e \in SlotNo : Position(k, e) = op.slot
      BY <1>5 DEF Here
    <2>2. ToCome(k) /\ ~ToCome(k)'
      BY <1>1, <1>2
    <2>3. ASSUME NEW x \in 1..Len(img), NEW i \in SlotNo, Position(x, i) = op.slot
          PROVE  x = k
      <3>1. k \in Nat \ {0} /\ x \in Nat \ {0} /\ Position(k, e) = Position(x, i)
        BY <1>1, <1>2, <2>1, <2>3
      <3> QED
        BY <3>1, PositionsApart
    <2> QED
      BY <1>1, <1>3, <2>1, <2>2, <2>3 DEF EntryToCome
  <1>6. ASSUME EntryToCome, ~EntryToCome'
        PROVE  Here(k)
    <2>1. PICK x \in 1..Len(img), e \in SlotNo : Position(x, e) = op.slot /\ ToCome(x)
      BY <1>6 DEF EntryToCome
    <2>2. ~ToCome(x)'
      BY <1>3, <1>6, <2>1
    <2>3. x = k
      BY <1>1, <1>2, <2>1, <2>2
    <2> QED
      BY <2>1, <2>3 DEF Here
  <1> QED
    BY <1>4, <1>5, <1>6

(* The entry under deletion is a file's.                                     *)
LEMMA VictimIsFile ==
    ASSUME TypeInv, NEW L, ChainsAt(L), pc = "save", NEW p \in Shown(data), p \in Victim
    PROVE  EntryOf(data, p).tag = "file"
  <1>1. op.kind = "delete" /\ p[2] \in SlotNo
    BY DEF Victim, Deleting, Shown, Spot
  <1>2. PICK k \in 1..Len(dirc) : p[1] = dirc[k] /\ Position(k, p[2]) = op.slot
    BY DEF Victim
  <1>3. Len(img) = Len(dirc)
    BY State
  <1>4. SlotInv(k, p[2]) /\ (ToCome(k) \/ SlotsOf(data[dirc[k]]) = img[k])
    BY <1>1, <1>2, <1>3 DEF ChainsAt, SaveInv
  <1>5. EntryOf(data, p) = SlotsOf(data[dirc[k]])[p[2]] /\ Solid(EntryOf(data, p))
    BY <1>2 DEF EntryOf, Shown, IsVisible, Solid
  <1> QED
    BY <1>1, <1>2, <1>4, <1>5 DEF SlotInv

(* What the directories are after a sector write of dir_save.                *)
LEMMA SaveParents ==
    ASSUME TypeInv, NEW L, ChainsAt(L), DiskWrite, pc = "save", NEW k \in Nat, SaveAt(k)
    PROVE  Parents(data') =
             IF Here(k) /\ op.kind = "mkdir" THEN Parents(data) \cup {FirstCluster} ELSE Parents(data)
  <1>1. PICK new : new = IF Here(k) /\ op.kind # "delete" THEN {NewEntry} ELSE {}
    OBVIOUS
  <1>2. SaveShows(data, data', Victim, new)
    BY <1>1, SaveShown
  <1>3. \A p \in Shown(data) : EntryOf(data, p).tag = "dir" =>
           p \in Shown(data') /\ EntryOf(data', p) = EntryOf(data, p)
    BY <1>2, VictimIsFile DEF SaveShows
  <1>4. \A p \in Shown(data') : EntryOf(data', p) \in new \/
           (p \in Shown(data) /\ EntryOf(data', p) = EntryOf(data, p))
    BY <1>2 DEF SaveShows
  <1>5. NewEntry.tag = (IF op.kind = "mkdir" THEN "dir" ELSE "file") /\ NewEntry.cluster = FirstCluster
    BY DEF NewEntry, Entry
  <1>6. CASE Here(k) /\ op.kind = "mkdir"
    <2>1. \E p \in Shown(data') : EntryOf(data', p).tag = "dir" /\ EntryOf(data', p).cluster = FirstCluster
      BY <1>1, <1>2, <1>5, <1>6 DEF SaveShows
    <2>2. \A p \in Shown(data') : EntryOf(data', p).cluster = FirstCluster \/
             (p \in Shown(data) /\ EntryOf(data', p) = EntryOf(data, p))
      BY <1>1, <1>4, <1>5
    <2> QED
      BY <1>3, <1>6, <2>1, <2>2 DEF Parents
  <1>7. CASE ~(Here(k) /\ op.kind = "mkdir")
    <2>1. \A p \in Shown(data') : EntryOf(data', p).tag = "dir" =>
             p \in Shown(data) /\ EntryOf(data', p) = EntryOf(data, p)
      BY <1>1, <1>4, <1>5, <1>7
    <2> QED
      BY <1>3, <1>7, <2>1 DEF Parents
  <1> QED
    BY <1>6, <1>7

(* A directory with a node more.                                             *)
LEMMA NodesMore ==
    ASSUME NEW f, NEW d, NEW g, NEW e, NEW b, NEW v, NEW w, NEW slot, NEW x, NEW a,
           SameList(v, w, {slot}), NewIn(v, w, slot, x, a), SameBodies(f, d, g, e, v, {})
    PROVE  NodesIn(g, e, b, w, {}) = NodesIn(f, d, b, v, {}) \cup {NodeOf(g, e, b, w, slot)}
  <1>1. SameNodes(v, {}, w, {slot})
    BY DEF SameList, NewIn, SameNodes
  <1>2. NodesIn(g, e, b, w, {slot}) = NodesIn(f, d, b, v, {})
    BY <1>1, NodesStay
  <1>3. slot \in EntriesIn(w)
    BY DEF NewIn
  <1>4. NodesIn(g, e, b, w, {}) = NodesIn(g, e, b, w, {slot}) \cup {NodeOf(g, e, b, w, slot)}
    BY <1>3 DEF NodesIn
  <1> QED
    BY <1>2, <1>4

(* The directories but the current one, and the files in them.               *)
LEMMA OthersSaved ==
    ASSUME TypeInv, NEW L, ChainsAt(L), FilesInv, ReadInv, FilesApart, OthersStay
    PROVE  OthersSame(fat, data, fat', data', cwd)
  <1> SUFFICES ASSUME NEW b \in Parents(data) \ {cwd}
               PROVE  /\ DirAt(fat', data', b) = DirAt(fat, data, b)
                      /\ SameBodies(fat, data, fat', data', DirAt(fat, data, b), {})
    BY DEF OthersSame
  <1>1. SameBodies(fat, data, fat', data', DirAt(fat, data, b), Vanishing(b))
    BY BodiesStay
  <1>2. Vanishing(b) = {}
    BY DEF Vanishing
  <1> QED
    BY <1>1, <1>2 DEF OthersStay

LEMMA SameLess ==
    ASSUME NEW v, NEW w, SameList(v, w, {}), NEW S
    PROVE  SameNodes(v, S, w, S)
  BY DEF SameList, SameNodes

(* A sector write outside dir_save.                                          *)
LEMMA TreeWritten ==
    ASSUME TypeInv, Quiet, NEW L, ChainsAt(L), FilesInv, ReadInv, Mounted, Mounted', TreeOnDisk,
           TreeOnDisk', torn = {}, torn' = {}, TreeHeld, TreeNext, DiskWrite, pc # "save"
    PROVE  TreeHeld' /\ tree' = tree
  <1>1. UNCHANGED <<pc, op, img, dirc, chain, cwd>> /\ pc # "format"
    BY DiskAfter DEF Mounted
  <1>2. io # <<>> /\ cur' = cur
    BY WriteStep
  <1>3. FilesApart /\ DirsStay
    BY <1>1, WritesFiles, WritesReads
  <1>4. PICK u, w, S : u = DirAt(fat, data, cwd) /\ w = DirAt(fat', data', cwd) /\ S = Hidden
    OBVIOUS
  <1>5. Hidden' = S /\ Gone' = Gone
    <2>1. DeleteHalfDone' <=> DeleteHalfDone
      BY <1>1, <1>2 DEF DeleteHalfDone
    <2> QED
      BY <1>1, <1>4, <2>1 DEF Hidden, Gone
  <1>6. S = Vanishing(cwd)
    <2>1. CASE pc = "free"
      <3>1. op.kind = "delete" /\ cur # At(img, op.slot).cluster
        BY <1>2, <2>1 DEF ChainsAt, FreeInv, FilesInv, WholeVictim
      <3> QED
        BY <1>4, <2>1, <3>1 DEF Hidden, DeleteHalfDone, Vanishing, Deleting
    <2>2. CASE pc # "free"
      BY <1>4, <2>2 DEF Hidden, DeleteHalfDone, Vanishing, Deleting
    <2> QED
      BY <2>1, <2>2
  <1>7. ~InsertHalfDone /\ ~InsertHalfDone' /\ ~Unsaved'
    BY <1>1 DEF InsertHalfDone, Unsaved
  <1>8. tree = TreeWith(fat, data, cwd, u, S)
    BY <1>4, <1>7 DEF TreeHeld, TreeOnDisk
  <1>9. tree' = TreeWith(fat', data', cwd, w, S)
    <2>1. tree' = TreeOf(fat', data', Gone')
      BY <1>7, TreeChange
    <2>2. tree' = TreeWith(fat', data', cwd', DirAt(fat', data', cwd'), Hidden')
      BY <1>7, <2>1 DEF TreeOnDisk
    <2> QED
      BY <1>1, <1>4, <1>5, <2>2
  <1>10. OthersSame(fat, data, fat', data', cwd) /\ Parents(data') = Parents(data)
    BY <1>3, OthersSaved DEF DirsStay
  <1>11. SameNodes(u, S, w, S)
    BY <1>3, <1>4, SameLess DEF DirsStay
  <1>12. SameBodies(fat, data, fat', data', u, S)
    <2>1. cwd \in Parents(data)
      BY DEF ChainsAt, DiskInv
    <2> QED
      BY <1>3, <1>4, <1>6, <2>1, BodiesStay
  <1>13. tree' = tree
    BY <1>8, <1>9, <1>10, <1>11, <1>12, TreeStays
  <1> QED
    BY <1>7, <1>10, <1>13, TreeChange DEF TreeHeld

-----------------------------------------------------------------------------
(* dir_save.                                                                 *)

(* What is common to its sector writes.                                      *)
Saving(k, old) ==
    /\ pc = "save" /\ SaveAt(k) /\ UNCHANGED <<pc, op, img, dirc, chain, cwd>>
    /\ SavedFrom(old) /\ SavedFrom(old)'
    /\ OthersSame(fat, data, fat', data', cwd)
    /\ SameBodies(fat, data, fat', data', DirAt(fat, data, cwd), Vanishing(cwd))
    /\ Lists(old, DirAt(fat, data, cwd))
    /\ Lists(old, DirAt(fat, data, cwd))'
    /\ EntryWritten(op.slot) <=> ~EntryToCome
    /\ EntryWritten(op.slot)' <=> ~EntryToCome'

LEMMA SavingIs ==
    ASSUME TypeInv, Quiet, NEW L, ChainsAt(L), FilesInv, ReadInv, Mounted, Mounted', TreeOnDisk,
           TreeOnDisk', torn = {}, torn' = {}, DiskWrite, pc = "save", NEW old, SavedFrom(old)
    PROVE  \E k \in Nat : Saving(k, old)
  <1>1. PICK k \in Nat : SaveAt(k)
    BY SaveStep
  <1>2. UNCHANGED <<pc, op, img, dirc, chain, cwd>>
    BY DiskAfter
  <1>3. SavedFrom(old)' /\ OthersStay
    BY SaveWriteKeeps
  <1>4. FilesApart
    BY WritesFiles
  <1>5. OthersSame(fat, data, fat', data', cwd)
    BY <1>3, <1>4, OthersSaved
  <1>6. SameBodies(fat, data, fat', data', DirAt(fat, data, cwd), Vanishing(cwd))
    BY <1>4, BodiesStay DEF ChainsAt, DiskInv
  <1>7. Lists(old, DirAt(fat, data, cwd)) /\ (EntryWritten(op.slot) <=> ~EntryToCome)
    BY DEF TreeOnDisk
  <1>8. Lists(old, DirAt(fat, data, cwd))' /\ (EntryWritten(op.slot)' <=> ~EntryToCome')
    BY <1>2, <1>3 DEF TreeOnDisk
  <1>9. Saving(k, old)
    BY <1>1, <1>2, <1>3, <1>5, <1>6, <1>7, <1>8 DEF Saving
  <1> QED
    BY <1>9

(* The files that were listed before the operation.                          *)
LEMMA OldBodies ==
    ASSUME NEW k, NEW old, Saving(k, old), op.kind # "delete"
    PROVE  SameBodies(fat, data, fat', data', old, {})
  <1>1. PICK u : u = DirAt(fat, data, cwd)
    OBVIOUS
  <1>2. \A i \in EntriesIn(old) : i \in EntriesIn(u) /\ At(u, i) = At(old, i)
    BY <1>1 DEF Saving, Lists
  <1>3. SameBodies(fat, data, fat', data', u, {})
    BY <1>1 DEF Saving, Vanishing, Deleting
  <1> QED
    BY <1>2, <1>3 DEF SameBodies

(* The deletion of an entry, sector by sector.                               *)
LEMMA TreeUnlisted ==
    ASSUME TypeInv, NEW L, ChainsAt(L), Mounted, Mounted', TreeOnDisk, TreeOnDisk', torn = {},
           torn' = {}, TreeHeld, TreeNext, DiskWrite, NEW k \in Nat, NEW old, Saving(k, old),
           op.kind = "delete"
    PROVE  TreeHeld' /\ tree' = tree
  <1>1. pc = "save" /\ SaveAt(k) /\ UNCHANGED <<pc, op, cwd>>
    BY DEF Saving
  <1>2. ~InsertHalfDone /\ ~InsertHalfDone' /\ ~Unsaved'
    BY <1>1 DEF InsertHalfDone, Unsaved
  <1>3. PICK u, w, S, T :
           /\ u = DirAt(fat, data, cwd) /\ w = DirAt(fat', data', cwd)
           /\ S = Hidden /\ T = Hidden'
    OBVIOUS
  <1>4. tree = TreeWith(fat, data, cwd, u, S)
    BY <1>2, <1>3 DEF TreeHeld, TreeOnDisk
  <1>5. tree' = TreeWith(fat', data', cwd, w, T)
    <2>1. tree' = TreeOf(fat', data', Gone')
      BY <1>2, TreeChange
    <2>2. tree' = TreeWith(fat', data', cwd', DirAt(fat', data', cwd'), Hidden')
      BY <1>2, <2>1 DEF TreeOnDisk
    <2> QED
      BY <1>1, <1>3, <2>2
  <1>6. SameNodes(old, {op.slot}, u, S) /\ SameNodes(old, {op.slot}, w, T)
    BY <1>1, <1>3 DEF Saving, Lists
  <1>7. SameNodes(u, S, w, T)
    BY <1>6 DEF SameNodes
  <1>8. SameBodies(fat, data, fat', data', u, S)
    <2>1. SameBodies(fat, data, fat', data', u, {op.slot})
      BY <1>1, <1>3 DEF Saving, Vanishing, Deleting
    <2>2. \A i \in EntriesIn(u) \ S : i \in EntriesIn(u) \ {op.slot}
      BY <1>6 DEF SameNodes
    <2> QED
      BY <2>1, <2>2 DEF SameBodies
  <1>9. Parents(data') = Parents(data) /\ OthersSame(fat, data, fat', data', cwd)
    BY <1>1, SaveParents DEF Saving
  <1>10. tree' = tree
    BY <1>4, <1>5, <1>7, <1>8, <1>9, TreeStays
  <1> QED
    BY <1>2, <1>9, <1>10, TreeChange DEF TreeHeld

(* The new entry is on the disk already.                                     *)
LEMMA TreeListed ==
    ASSUME TypeInv, NEW L, ChainsAt(L), Mounted, Mounted', TreeOnDisk, TreeOnDisk', torn = {},
           torn' = {}, TreeHeld, TreeNext, DiskWrite, NEW k \in Nat, NEW old, Saving(k, old),
           op.kind # "delete", ~Unsaved
    PROVE  TreeHeld' /\ tree' = tree
  <1>1. pc = "save" /\ SaveAt(k) /\ UNCHANGED <<pc, op, img, cwd>>
    BY DEF Saving
  <1>2. EntryWritten(op.slot) /\ EntryWritten(op.slot)' /\ ~Here(k)
    BY <1>1, SaveTurns DEF Saving, Unsaved
  <1>3. ~InsertHalfDone /\ ~InsertHalfDone' /\ ~Unsaved'
    BY <1>1, <1>2 DEF InsertHalfDone, Unsaved
  <1>4. Hidden = {} /\ Hidden' = {}
    BY <1>1 DEF Hidden, DeleteHalfDone
  <1>5. DirAt(fat, data, cwd) = img /\ DirAt(fat', data', cwd) = img
    BY <1>1, <1>2 DEF Saving, Lists
  <1>6. tree = TreeWith(fat, data, cwd, img, {})
    BY <1>3, <1>4, <1>5 DEF TreeHeld, TreeOnDisk
  <1>7. tree' = TreeWith(fat', data', cwd, img, {})
    <2>1. tree' = TreeOf(fat', data', Gone')
      BY <1>3, TreeChange
    <2>2. tree' = TreeWith(fat', data', cwd', DirAt(fat', data', cwd'), Hidden')
      BY <1>3, <2>1 DEF TreeOnDisk
    <2> QED
      BY <1>1, <1>4, <1>5, <2>2
  <1>8. SameBodies(fat, data, fat', data', img, {})
    BY <1>1, <1>5 DEF Saving, Vanishing, Deleting
  <1>9. Parents(data') = Parents(data) /\ OthersSame(fat, data, fat', data', cwd)
    BY <1>1, <1>2, SaveParents DEF Saving
  <1>10. PICK v : v = img
    OBVIOUS
  <1>11. tree' = tree
    BY <1>6, <1>7, <1>8, <1>9, <1>10, TreeStays, SameAsSelf
  <1> QED
    BY <1>3, <1>9, <1>11, TreeChange DEF TreeHeld

(* The new entry is not there yet.                                           *)
LEMMA TreeUnsaved ==
    ASSUME TypeInv, NEW L, ChainsAt(L), Mounted, Mounted', TreeOnDisk, TreeOnDisk', torn = {},
           torn' = {}, TreeHeld, TreeNext, DiskWrite, NEW k \in Nat, NEW old, Saving(k, old),
           Unsaved, Unsaved', tree = TreeWith(fat, data, cwd, old, {})
    PROVE  TreeHeld' /\ tree' = tree
  <1>1. pc = "save" /\ SaveAt(k) /\ UNCHANGED <<pc, op, img, cwd>> /\ op.kind # "delete"
    BY DEF Saving, Unsaved
  <1>2. ~EntryWritten(op.slot)' /\ ~Here(k)
    BY <1>1, SaveTurns DEF Saving, Unsaved
  <1>3. Hidden' = {}
    BY <1>1 DEF Hidden, DeleteHalfDone
  <1>4. Parents(data') = Parents(data) /\ OthersSame(fat, data, fat', data', cwd)
    BY <1>1, <1>2, SaveParents DEF Saving
  <1>5. TreeWith(fat', data', cwd, old, {}) = TreeWith(fat, data, cwd, old, {})
    BY <1>1, <1>4, OldBodies, TreeStays, SameAsSelf
  <1>6. tree' = TreeWith(fat', data', cwd, old, {})
    <2>1. CASE InsertHalfDone'
      BY <1>5, <2>1, TreeChange
    <2>2. CASE ~InsertHalfDone'
      <3>1. tree' = TreeOf(fat', data', Gone')
        BY <2>2, TreeChange
      <3>2. tree' = TreeWith(fat', data', cwd', DirAt(fat', data', cwd'), Hidden')
        BY <2>2, <3>1 DEF TreeOnDisk
      <3>3. DirAt(fat', data', cwd') = old
        BY <1>1, <1>2, <2>2 DEF Saving, Lists
      <3> QED
        BY <1>1, <1>3, <3>2, <3>3
    <2> QED
      BY <2>1, <2>2
  <1>7. tree' = tree
    BY <1>5, <1>6
  <1>8. SavedFrom(old)' /\ tree' = TreeWith(fat', data', cwd', old, {})
    BY <1>1, <1>6 DEF Saving
  <1> QED
    BY <1>4, <1>7, <1>8, TreeChange DEF TreeHeld

(* A creation takes effect with the sector that has its entry.               *)

(* What fat32_read_file reads of a new file: the blocks it was given.        *)
LEMMA NewBody ==
    ASSUME TypeInv, NEW L, ChainsAt(L), FilesInv, pc = "save", DiskWrite, NEW k \in Nat, SaveAt(k),
           EntryToCome, op.kind = "create"
    PROVE  ReadFile(fat', data', NewEntry)
             = [j \in 1..Len(op.blocks) |-> [tag |-> "data", block |-> op.blocks[j]]]
  <1>1. PICK s, b, n, c : s = chain /\ b = op.blocks /\ n = Len(op.blocks) /\ c = FirstCluster
    OBVIOUS
  <1>2. Held(fat, data, c, n, s) /\ Filled(data, s, b)
    BY <1>1 DEF FilesInv, ReadyInv
  <1>3. n \in Nat /\ Len(s) = n /\ n <= n /\ s \in Seq(Cluster)
    BY <1>1, <1>2, State DEF Held
  <1>4. Len(Chain(fat, c, n)) = n /\ \A j \in 1..n : Chain(fat, c, n)[j] = s[j]
    BY <1>2, <1>3, HeldIsWalked
  <1>5. /\ fat' = fat /\ k \in 1..Len(img) /\ Stored(data, dirc[k], DirSector(img[k]), data')
    BY DEF SaveAt
  <1>6. data \in Region /\ data[dirc[k]].tag = "dir"
    <2>1. dirc[k] \in L /\ TwoWorlds(L, fat, data)
      BY <1>5 DEF ChainsAt, SaveInv, DiskInv, DiskAt
    <2> QED
      BY <2>1, State DEF TwoWorlds
  <1>7. \A j \in 1..n : data'[s[j]] = [tag |-> "data", block |-> b[j]]
    <2> SUFFICES ASSUME NEW j \in 1..n
                 PROVE  data'[s[j]] = [tag |-> "data", block |-> b[j]]
      OBVIOUS
    <2>1. data[s[j]] = [tag |-> "data", block |-> b[j]] /\ s[j] \in Cluster
      BY <1>2, <1>3 DEF Filled, DataSector
    <2>2. s[j] # dirc[k]
      BY <1>6, <2>1
    <2> QED
      BY <1>5, <1>6, <2>1, <2>2 DEF Stored, Region
  <1>8. PICK x : x = NewEntry
    OBVIOUS
  <1>9. x.cluster = c /\ x.size = n
    BY <1>1, <1>8 DEF NewEntry, Entry
  <1>10. ReadFile(fat, data', x) = [j \in 1..n |-> [tag |-> "data", block |-> b[j]]]
    BY <1>4, <1>7, <1>9 DEF ReadFile
  <1> QED
    BY <1>1, <1>5, <1>8, <1>10

(* No node of the tree has the name of the new entry.                        *)
LEMMA NameIsNew ==
    ASSUME NEW a, NEW old, Lacks(old, a), tree = TreeWith(fat, data, cwd, old, {})
    PROVE  Abstract!Absent(cwd, a)
  <1> SUFFICES ASSUME NEW n \in tree, n.dir = cwd
               PROVE  ~Abstract!Same(n.name, a)
    BY DEF Abstract!Absent
  <1>1. n \notin OtherNodes(fat, data, cwd)
    BY DEF OtherNodes, NodesIn, NodeOf
  <1>2. PICK i \in EntriesIn(old) : n.name = EntryName(old, i)
    BY <1>1 DEF TreeWith, NodesIn, NodeOf
  <1>3. ~SameName(EntryName(old, i), a)
    BY DEF Lacks
  <1> QED
    BY <1>2, <1>3 DEF SameName, Abstract!Same

LEMMA NodeComes ==
    ASSUME NEW n, tree' = tree \cup {n}
    PROVE  Abstract!DirsOf(tree') =
             IF n.kind = "dir" THEN Abstract!DirsOf(tree) \cup {n.body} ELSE Abstract!DirsOf(tree)
  BY DEF Abstract!DirsOf

(* One node more.                                                            *)
LEMMA TreeGrows ==
    ASSUME TypeInv, NEW L, ChainsAt(L), Mounted, Mounted', TreeOnDisk, TreeOnDisk', torn = {},
           torn' = {}, TreeHeld, TreeNext, DiskWrite, NEW k \in Nat, NEW old, Saving(k, old),
           Unsaved, ~Unsaved', tree = TreeWith(fat, data, cwd, old, {}),
           op.kind = "mkdir" => FirstCluster \notin Parents(data),
           NEW n, n = NodeOf(fat', data', cwd, img, op.slot)
    PROVE  tree' = tree \cup {n}
  <1>1. pc = "save" /\ SaveAt(k) /\ UNCHANGED <<pc, op, img, cwd>> /\ op.kind # "delete"
    BY DEF Saving, Unsaved
  <1>2. EntryWritten(op.slot)' /\ Here(k)
    BY <1>1, SaveTurns DEF Saving, Unsaved
  <1>3. ~InsertHalfDone' /\ Hidden' = {}
    BY <1>1, <1>2 DEF InsertHalfDone, Hidden, DeleteHalfDone
  <1>4. PICK v, slot, x, a : v = img /\ slot = op.slot /\ x = NewEntry /\ a = op.name
    OBVIOUS
  <1>5. tree' = TreeWith(fat', data', cwd, v, {})
    <2>1. tree' = TreeOf(fat', data', Gone')
      BY <1>3, TreeChange
    <2>2. tree' = TreeWith(fat', data', cwd', DirAt(fat', data', cwd'), Hidden')
      BY <1>3, <2>1 DEF TreeOnDisk
    <2>3. DirAt(fat', data', cwd') = v
      BY <1>1, <1>2, <1>4 DEF Saving, Lists
    <2> QED
      BY <1>1, <1>3, <2>2, <2>3
  <1>6. NodesIn(fat', data', cwd, v, {}) = NodesIn(fat, data, cwd, old, {}) \cup {n}
    <2>1. SameList(old, v, {slot}) /\ NewIn(old, v, slot, x, a)
      BY <1>1, <1>4 DEF Saving, Lists
    <2>2. SameBodies(fat, data, fat', data', old, {})
      BY <1>1, OldBodies
    <2> QED
      BY <1>4, <2>1, <2>2, NodesMore
  <1>7. OtherNodes(fat', data', cwd) = OtherNodes(fat, data, cwd)
    <2>1. OthersSame(fat, data, fat', data', cwd)
      BY DEF Saving
    <2>2. CASE op.kind = "mkdir"
      <3>1. PICK c : c = FirstCluster
        OBVIOUS
      <3>2. Parents(data') = Parents(data) \cup {c}
        BY <1>1, <1>2, <2>2, <3>1, SaveParents
      <3>3. EntriesIn(DirAt(fat', data', c)) = {}
        BY <1>1, <2>2, <3>1, <3>2, NewDirectoryReads
      <3> QED
        BY <2>1, <3>2, <3>3, TreeWider
    <2>3. CASE op.kind # "mkdir"
      <3>1. Parents(data') = Parents(data) \cup {Root}
        BY <1>1, <2>3, SaveParents DEF Parents
      <3>2. Root \in Parents(data)
        BY DEF Parents
      <3> QED
        BY <2>1, <3>1, <3>2, TreeWider
    <2> QED
      BY <2>2, <2>3
  <1> QED
    BY <1>5, <1>6, <1>7 DEF TreeWith

CreateInv == op.kind = "create" => op.blocks \in Contents

(* fat32_create_file or fat32_create_dir, seen from outside.                 *)
Creates ==
    \/ \E name \in Name, blocks \in Contents : Abstract!Create(cwd, name, blocks)
    \/ \E name \in Name, id \in Cluster : Abstract!Mkdir(cwd, name, id)

(* The sector with the new entry adds the node the caller asked for.         *)
LEMMA TreeCreated ==
    ASSUME TypeInv, NEW L, ChainsAt(L), FilesInv, CreateInv, Mounted, Mounted', TreeOnDisk, TreeOnDisk',
           torn = {}, torn' = {}, TreeHeld, TreeNext, DiskWrite, NEW k \in Nat, NEW old, Saving(k, old),
           Unsaved, ~Unsaved', tree = TreeWith(fat, data, cwd, old, {})
    PROVE  TreeHeld' /\ Creates
  <1>1. pc = "save" /\ SaveAt(k) /\ UNCHANGED <<pc, op, img, cwd>> /\ op.kind # "delete"
    BY DEF Saving, Unsaved
  <1>2. EntryToCome /\ Here(k)
    BY <1>1, SaveTurns DEF Saving, Unsaved
  <1>3. Claiming /\ ~MarkToCome /\ op.kind \in {"create", "mkdir"}
    BY <1>1, <1>2 DEF Claiming, MarkToCome, ChainsAt, ClaimInv
  <1>4. op.name \in Name /\ Lacks(old, op.name)
    BY <1>1 DEF Saving, SavedFrom, Inserted
  <1>5. Abstract!Absent(cwd, op.name)
    BY <1>4, NameIsNew
  <1>6. cwd \in Abstract!DirsOf(tree) /\ Abstract!DirsOf(tree) = Parents(data)
    BY DEF TreeHeld, ChainsAt, DiskInv
  <1>7. op.kind = "mkdir" => FirstCluster \in Cluster /\ FirstCluster \notin Parents(data)
    <2> SUFFICES ASSUME op.kind = "mkdir"
                 PROVE  FirstCluster \in Cluster /\ FirstCluster \notin Parents(data)
      OBVIOUS
    <2>1. NewDirectory /\ Owned(L, fat, data, chain, TRUE) /\ TwoWorlds(L, fat, data)
      BY <1>3 DEF ChainsAt, ClaimInv, DiskInv, DiskAt
    <2>2. chain # <<>> /\ 1 \in 1..Len(chain)
      BY <1>1, <2>1, State DEF NewDirectory
    <2>3. FirstCluster = chain[1] /\ chain[1] \in Cluster /\ chain[1] \notin L
      BY <2>1, <2>2, State DEF FirstCluster, Owned
    <2>4. Parents(data) \subseteq L
      BY <2>1, ParentsType, State
    <2> QED
      BY <2>3, <2>4
  <1>8. PICK n : n = NodeOf(fat', data', cwd, img, op.slot)
    OBVIOUS
  <1>9. tree' = tree \cup {n}
    BY <1>7, <1>8, TreeGrows
  <1>10. /\ At(img, op.slot) = NewEntry /\ EntryName(img, op.slot) = op.name
    BY <1>1 DEF Saving, Lists, NewIn
  <1>11. n = [dir |-> cwd, name |-> op.name, kind |-> NewEntry.tag,
              body |-> IF NewEntry.tag = "dir" THEN NewEntry.cluster
                       ELSE ReadFile(fat', data', NewEntry)]
    BY <1>8, <1>10 DEF NodeOf
  <1>12. /\ NewEntry.tag = (IF op.kind = "mkdir" THEN "dir" ELSE "file")
         /\ NewEntry.cluster = FirstCluster
    BY DEF NewEntry, Entry
  <1>13. /\ ~Unsaved'
         /\ ~InsertHalfDone' => tree' = TreeOf(fat', data', Gone')
    BY TreeChange
  <1>14. CASE op.kind = "mkdir"
    <2>1. n = Abstract!Dir(cwd, op.name, FirstCluster)
      BY <1>11, <1>12, <1>14 DEF Abstract!Dir
    <2>2. Abstract!Mkdir(cwd, op.name, FirstCluster)
      BY <1>5, <1>6, <1>7, <1>9, <1>14, <2>1 DEF Abstract!Mkdir
    <2>3. Creates
      BY <1>4, <1>7, <1>14, <2>2 DEF Creates
    <2>4. n.kind = "dir" /\ n.body = FirstCluster
      BY <2>1 DEF Abstract!Dir
    <2>5. Parents(data') = Parents(data) \cup {FirstCluster}
      BY <1>1, <1>2, <1>14, SaveParents
    <2>6. Abstract!DirsOf(tree') = Parents(data')
      BY <1>6, <1>9, <2>4, <2>5, NodeComes
    <2> QED
      BY <1>13, <2>3, <2>6 DEF TreeHeld
  <1>15. CASE op.kind = "create"
    <2>1. ReadFile(fat', data', NewEntry)
            = [j \in 1..Len(op.blocks) |-> [tag |-> "data", block |-> op.blocks[j]]]
      BY <1>1, <1>2, <1>15, NewBody
    <2>2. n = Abstract!File(cwd, op.name, op.blocks)
      BY <1>11, <1>12, <1>15, <2>1 DEF Abstract!File
    <2>3. Abstract!Create(cwd, op.name, op.blocks)
      BY <1>5, <1>6, <1>9, <2>2 DEF Abstract!Create
    <2>4. Creates
      BY <1>4, <1>15, <2>3 DEF Creates, CreateInv
    <2>5. n.kind = "file"
      BY <2>2 DEF Abstract!File
    <2>6. Parents(data') = Parents(data)
      BY <1>1, <1>15, SaveParents
    <2>7. Abstract!DirsOf(tree') = Parents(data')
      BY <1>6, <1>9, <2>5, <2>6, NodeComes
    <2> QED
      BY <1>13, <2>4, <2>7 DEF TreeHeld
  <1> QED
    BY <1>3, <1>14, <1>15

(* Every sector write of dir_save.                                           *)
LEMMA TreeSaved ==
    ASSUME TypeInv, Quiet, NEW L, ChainsAt(L), FilesInv, ReadInv, CreateInv, Mounted, Mounted',
           TreeOnDisk, TreeOnDisk', torn = {}, torn' = {}, TreeHeld, TreeNext, DiskWrite, pc = "save"
    PROVE  TreeHeld' /\ (tree' = tree \/ Creates)
  <1>1. CASE Unsaved
    <2>1. PICK old : SavedFrom(old) /\ tree = TreeWith(fat, data, cwd, old, {})
      BY <1>1 DEF TreeHeld
    <2>2. PICK k \in Nat : Saving(k, old)
      BY <2>1, SavingIs
    <2> QED
      BY <1>1, <2>1, <2>2, TreeUnsaved, TreeCreated
  <1>2. CASE ~Unsaved
    <2>1. PICK old : SavedFrom(old)
      BY DEF ReadInv
    <2>2. PICK k \in Nat : Saving(k, old)
      BY <2>1, SavingIs
    <2> QED
      BY <1>2, <2>2, TreeUnlisted, TreeListed
  <1> QED
    BY <1>1, <1>2

-----------------------------------------------------------------------------
(* The driver implements the tree.                                           *)

(* What a creation is given to write, it still has.                          *)
LEMMA CreateInit == Init => CreateInv
  BY DEF Init, NoOp, CreateInv

LEMMA CreateNext == TypeInv /\ CreateInv /\ [Next]_vars => CreateInv'
  <1> SUFFICES ASSUME TypeInv, CreateInv, [Next]_vars
               PROVE  CreateInv'
    OBVIOUS
  <1>1. op.kind \in {"none", "create", "mkdir", "delete"} /\ op.blocks \in Contents \cup {<<>>}
    BY DEF TypeInv, TypeOK
  <1>2. ASSUME op'.kind = op.kind, op'.blocks = op.blocks
        PROVE  CreateInv'
    BY <1>2 DEF CreateInv
  <1>3. ASSUME op'.kind # "create"
        PROVE  CreateInv'
    BY <1>3 DEF CreateInv
  <1>4. CASE UNCHANGED op
    BY <1>2, <1>4
  <1>5. CASE ChooseShort \/ SearchRun \/ PlaceEntry
    <2>1. op'.kind = op.kind /\ op'.blocks = op.blocks
      BY <1>5 DEF ChooseShort, SearchRun, PlaceEntry, TypeInv, TypeOK
    <2> QED
      BY <1>2, <2>1
  <1>6. CASE AllocFails \/ InsertFails \/ Return \/ PowerCut
    <2>1. op' = NoOp \/ op' = op
      BY <1>6 DEF AllocFails, InsertFails, Return, PowerCut, Finish
    <2> QED
      BY <1>2, <1>3, <2>1 DEF NoOp
  <1>7. CASE Call
    <2>1. ASSUME NEW name \in Name, NEW blocks \in Contents, CreateFile(name, blocks)
          PROVE  CreateInv'
      BY <2>1 DEF CreateFile, Start, CreateInv
    <2>2. ASSUME NEW name \in Name, CreateDir(name) \/ DeleteFile(name)
          PROVE  CreateInv'
      BY <1>3, <2>2 DEF CreateDir, DeleteFile, Start
    <2>3. ASSUME NEW d \in Cluster, ChangeDir(d)
          PROVE  CreateInv'
      BY <1>4, <2>3 DEF ChangeDir, ram
    <2> QED
      BY <1>7, <2>1, <2>2, <2>3 DEF Call
  <1>8. CASE DiskWrite \/ FormatDone \/ AllocCluster \/ WriteContents \/ ExtendDir \/ FreeCluster
             \/ MarkEntry \/ Boot \/ UNCHANGED vars
    BY <1>4, <1>8 DEF DiskWrite, FormatDone, AllocCluster, WriteContents, ExtendDir, FreeCluster,
                      MarkEntry, Boot, vars, ram
  <1> QED
    BY <1>5, <1>6, <1>7, <1>8 DEF Next, Work

LEMMA StaysMounted ==
    ASSUME Mounted, Next
    PROVE  Mounted'
  <1>1. boot = "fat32" /\ pc # "format"
    BY DEF Mounted
  <1>2. CASE DiskWrite
    <2>1. boot' \in {"fat32", boot} /\ pc' = pc
      BY <1>2 DEF DiskWrite
    <2> QED
      BY <1>1, <2>1 DEF Mounted
  <1>3. CASE ~DiskWrite
    <2>1. boot' = boot
      BY <1>3 DEF Next, Work, Call, FormatDone, AllocCluster, AllocFails, WriteContents, ChooseShort,
                  SearchRun, PlaceEntry, ExtendDir, InsertFails, FreeCluster, MarkEntry, Return,
                  CreateFile, CreateDir, DeleteFile, ChangeDir, Boot, PowerCut, disk
    <2>2. pc' # "format"
      BY <1>1, <1>3 DEF Next, Work, Call, FormatDone, AllocCluster, AllocFails, WriteContents,
                  ChooseShort, SearchRun, PlaceEntry, ExtendDir, InsertFails, FreeCluster, MarkEntry,
                  Return, Finish, CreateFile, CreateDir, DeleteFile, ChangeDir, Boot, PowerCut, ram
    <2> QED
      BY <1>1, <2>1, <2>2 DEF Mounted
  <1> QED
    BY <1>2, <1>3

(* A disk just formatted holds no nodes.                                     *)
LEMMA TreeFormatted ==
    ASSUME TypeInv, Quiet, RestInv, FormatInv, ~Mounted, Mounted', torn' = {}, TreeOnDisk', TreeNext
    PROVE  TreeHeld' /\ tree' = {}
  <1>1. pc = "format" /\ io = <<>> /\ (FormatDone \/ PowerCut)
    <2>1. [Next]_vars
      BY DEF TreeNext
    <2>2. CASE pc = "format" /\ DiskWrite
      BY <2>2 DEF DiskWrite, Mounted
    <2>3. CASE pc = "format" /\ FormatDone
      BY <2>3 DEF FormatDone
    <2>4. CASE PowerCut /\ pc = "format"
      <3>1. boot' = boot /\ torn' = torn \cup HalfDone
        BY <2>4 DEF PowerCut, disk
      <3>2. boot = "fat32" /\ ~FormatHalfDone
        BY <3>1 DEF Mounted, HalfDone
      <3> QED
        BY <2>4, <3>2 DEF FormatHalfDone
    <2>5. CASE (Boot /\ boot = "blank" /\ pc = "off") \/ UNCHANGED vars
      <3>1. boot' = boot
        BY <2>5 DEF Boot, vars, disk
      <3>2. UNCHANGED vars
        BY <2>5, <3>1 DEF Mounted
      <3>3. pc' = pc
        BY <3>2 DEF vars, ram
      <3> QED
        BY <3>1, <3>3 DEF Mounted
    <2> QED
      BY <2>1, <2>2, <2>3, <2>4, <2>5, BeforeFormatted
  <1>2. Shown(data) = {} /\ data \in Region
    BY <1>1, FormattedDisk, State
  <1>3. /\ pc' \in {"idle", "off"} /\ UNCHANGED <<fat, data>> /\ cwd' = Root
    BY <1>1 DEF FormatDone, PowerCut, disk, RestInv
  <1>4. Parents(data') = {Root}
    BY <1>2, <1>3 DEF Parents
  <1>5. ~InsertHalfDone' /\ ~Unsaved'
    BY <1>3 DEF InsertHalfDone, Unsaved
  <1>6. EntriesIn(DirAt(fat, data, Root)) = {}
    BY <1>2, ListedIsShown, Values
  <1>7. tree' = TreeWith(fat, data, Root, DirAt(fat, data, Root), Hidden')
    <2>1. tree' = TreeOf(fat', data', Gone')
      BY <1>5, TreeChange
    <2>2. tree' = TreeWith(fat', data', cwd', DirAt(fat', data', cwd'), Hidden')
      BY <1>5, <2>1 DEF TreeOnDisk
    <2> QED
      BY <1>3, <2>2
  <1>8. tree' = {}
    <2>1. PICK v, S : v = DirAt(fat, data, Root) /\ S = Hidden'
      OBVIOUS
    <2>2. NodesIn(fat, data, Root, v, S) = {}
      BY <1>6, <2>1 DEF NodesIn
    <2>3. OtherNodes(fat, data, Root) = {}
      BY <1>3, <1>4 DEF OtherNodes
    <2> QED
      BY <1>7, <2>1, <2>2, <2>3 DEF TreeWith
  <1>9. Abstract!DirsOf(tree') = Parents(data')
    BY <1>4, <1>8 DEF Abstract!DirsOf
  <1> QED
    BY <1>5, <1>8, <1>9, TreeChange DEF TreeHeld

(* Nothing happens.                                                          *)
LEMMA TreeSame ==
    ASSUME TreeInv, UNCHANGED <<vars, tree>>
    PROVE  TreeInv'
  <1>1. UNCHANGED <<boot, fat, data, pc, op, img, dirc, chain, cur, cwd, io, torn, tree>>
    BY DEF vars, disk, ram
  <1>2. /\ Mounted' <=> Mounted
        /\ InsertHalfDone' <=> InsertHalfDone
        /\ Unsaved' <=> Unsaved
        /\ Gone' = Gone
    BY <1>1 DEF Mounted, InsertHalfDone, EntryWritten, Unsaved, Gone, DeleteHalfDone
  <1>3. ASSUME NEW old, SavedFrom(old)
        PROVE  SavedFrom(old)'
    <2>1. (Removed(old)' <=> Removed(old)) /\ (Inserted(old)' <=> Inserted(old))
      BY <1>1 DEF Removed, Inserted, NewEntry, FirstCluster
    <2>2. \A k : ToCome(k)' <=> ToCome(k)
      BY <1>1 DEF ToCome
    <2> QED
      BY <1>1, <1>3, <2>1, <2>2 DEF SavedFrom
  <1>4. TreeHeld => TreeHeld'
    BY <1>1, <1>2, <1>3 DEF TreeHeld
  <1> QED
    BY <1>1, <1>2, <1>4 DEF TreeInv

(* A step of the driver on a sound, formatted disk.                          *)
LEMMA MountedTree ==
    ASSUME TypeInv, TypeInv', MirrorInv, ChainInv, FileInv, FileInv', NamesInv, CreateInv,
           TreeOnDisk, TreeOnDisk', torn = {}, torn' = {}, Mounted, Mounted', TreeHeld, TreeNext
    PROVE  TreeHeld' /\ (tree' = tree \/ Creates \/ \E n \in tree : Abstract!Delete(n))
  <1>1. Quiet /\ FilesInv /\ FilesInv' /\ ReadInv
    BY DEF MirrorInv, FileInv, NamesInv
  <1>2. PICK L \in SUBSET Cluster : ChainsAt(L)
    BY DEF ChainInv
  <1>3. CASE ~DiskWrite
    BY <1>1, <1>2, <1>3, TreeRam, MarkChains
  <1>4. CASE DiskWrite /\ pc # "save"
    BY <1>1, <1>2, <1>4, TreeWritten
  <1>5. CASE DiskWrite /\ pc = "save"
    BY <1>1, <1>2, <1>5, TreeSaved
  <1> QED
    BY <1>3, <1>4, <1>5

LEMMA TreeStep ==
    ASSUME TypeInv, TypeInv', MirrorInv, ChainInv, FileInv, FileInv', NamesInv, CreateInv,
           TreeOnDisk, TreeOnDisk', TreeInv, [TreeNext]_<<vars, tree>>
    PROVE  TreeInv' /\ [Abstract!Next]_<<tree, torn = {}>>
  <1>1. CASE UNCHANGED <<vars, tree>>
    <2>1. torn' = torn /\ tree' = tree
      BY <1>1 DEF vars
    <2> QED
      BY <1>1, <2>1, TreeSame
  <1>2. CASE TreeNext /\ torn' # {}
    BY <1>2 DEF TreeInv, Abstract!Next
  <1>3. CASE TreeNext /\ torn' = {}
    <2>1. torn = {} /\ Next
      BY <1>3, TornStays DEF TreeNext
    <2>2. CASE Mounted
      <3>1. Mounted'
        BY <2>1, <2>2, StaysMounted
      <3>2. TreeHeld' /\ (tree' = tree \/ Creates \/ \E n \in tree : Abstract!Delete(n))
        BY <1>3, <2>1, <2>2, <3>1, MountedTree DEF TreeInv
      <3>3. (torn = {})' = (torn = {}) /\ cwd \in Cluster
        BY <1>3, <2>1, State
      <3>4. Creates => \/ \E d \in Cluster, name \in Name, blocks \in Contents :
                             Abstract!Create(d, name, blocks)
                       \/ \E d, id \in Cluster, name \in Name : Abstract!Mkdir(d, name, id)
        BY <3>3 DEF Creates
      <3>5. [Abstract!Next]_<<tree, torn = {}>>
        BY <2>1, <3>2, <3>3, <3>4 DEF Abstract!Next
      <3> QED
        BY <1>3, <3>1, <3>2, <3>5 DEF TreeInv
    <2>3. CASE ~Mounted
      <3>1. tree = {}
        BY <2>1, <2>3 DEF TreeInv
      <3>2. tree' = {} /\ TreeInv'
        <4>1. CASE Mounted'
          BY <1>3, <2>1, <2>3, <4>1, TreeFormatted DEF MirrorInv, ChainInv, TreeInv
        <4>2. CASE ~Mounted'
          BY <1>3, <4>2, TreeChange DEF TreeInv
        <4> QED
          BY <4>1, <4>2
      <3> QED
        BY <1>3, <2>1, <3>1, <3>2
    <2> QED
      BY <2>2, <2>3
  <1> QED
    BY <1>1, <1>2, <1>3

(* The invariants of the disk hold together at every moment.                 *)
LEMMA DiskInvariant ==
    Spec => [](TypeInv /\ MirrorInv /\ ChainInv /\ FileInv /\ NamesInv /\ CreateInv /\ TreeOnDisk)
  <1>1. Init => CreateInv
    BY CreateInit
  <1>2. TypeInv /\ CreateInv /\ [Next]_vars => CreateInv'
    BY CreateNext
  <1>3. Spec => []CreateInv
    BY <1>1, <1>2, TypeInvariant, PTL DEF Spec
  <1>4. TypeInv /\ ChainInv /\ NamesInv => TreeOnDisk
    BY TreeMeaning
  <1> QED
    BY <1>3, <1>4, FileInvariant, NamesInvariant, PTL

(* The driver implements the tree of files that its callers see: whatever    *)
(* the order of its sector writes, an operation takes effect at one of them  *)
(* or not at all, with the name, the blocks and the place its caller gave,   *)
(* and every other node stays as it is; a power cut changes nothing, or cuts *)
(* into a format, a deletion or an insertion that is half done on the disk.  *)
THEOREM FileSystemImplemented == TreeSpec => ImplementsFileSystem
  <1>1. TreeInit => Init /\ TreeInv /\ Abstract!Init
    BY DEF TreeInit, Init, TreeInv, Mounted, Abstract!Init
  <1>2. [TreeNext]_<<vars, tree>> => [Next]_vars
    BY DEF TreeNext
  <1>3. /\ TypeInv /\ MirrorInv /\ ChainInv /\ FileInv /\ NamesInv /\ CreateInv /\ TreeOnDisk
        /\ (TypeInv /\ FileInv /\ TreeOnDisk)' /\ TreeInv /\ [TreeNext]_<<vars, tree>>
        => TreeInv' /\ [Abstract!Next]_<<tree, torn = {}>>
    BY TreeStep
  <1> QED
    BY <1>1, <1>2, <1>3, DiskInvariant, PTL DEF Spec, TreeSpec, ImplementsFileSystem, Abstract!Spec

-----------------------------------------------------------------------------
(* The geometry.                                                             *)

MaxSize == 268435455
Distance(a, b) == IF a >= b THEN a - b ELSE b - a

(* A bound on the step that round r has just made. *)
Gap(r) ==
    IF r <= 1 THEN 2097152 ELSE IF r = 2 THEN 32769 ELSE IF r = 3 THEN 513 ELSE 9

(* A FAT of f sectors is small next to the disk. *)
Fits(f) == 128 * f <= Total + 256

(* A FAT of f sectors covers the data it leaves room for. *)
Covers(f) == DataWith(f) + 2 <= 128 * f

OwnBoot(f) ==
    [spc |-> 1, reserved |-> Reserved, fats |-> Fats, fatSize |-> f,
     total32 |-> Total, total16 |-> 0]

(* The strengthening of LayoutTypeOK and FatCovers: what the iteration has   *)
(* come to, and what the boot sector and the driver have made of it.         *)
Iteration ==
    /\ fsz \in Nat \ {0} /\ prev \in Nat \ {0}
    /\ Fits(fsz) /\ Fits(prev)
    /\ Distance(fsz, prev) <= Gap(round)
    /\ round = 0 => fsz = 1 /\ prev = 1
    /\ round # 0 => fsz = NextSize(prev)
Recorded ==
    /\ phase # "layout" /\ record \notin Foreign \cup {NoRecord} =>
          record = OwnBoot(fsz) /\ Covers(fsz)
    /\ phase = "ready" => record # NoRecord /\ geo = FromBoot(record)
LayoutInv == LayoutTypeOK /\ Iteration /\ Recorded

-----------------------------------------------------------------------------
(* The size the iteration works with. *)
LEMMA TotalRange ==
    ASSUME size \in Sizes PROVE Total \in Nat /\ 4096 < Total /\ Total <= MaxSize
  BY LayoutAssumption, SMT DEF LayoutAssumption, Total, SmallDrive, DefaultTotal, MaxSize

(* Four bytes per entry, rounded up to a sector of 128 entries. *)
LEMMA Sectors ==
    ASSUME NEW x \in Nat
    PROVE  /\ (x * 4 + 511) \div 512 \in Nat
           /\ x <= 128 * ((x * 4 + 511) \div 512)
           /\ 128 * ((x * 4 + 511) \div 512) <= x + 127
  BY SMT

LEMMA DataRange ==
    ASSUME size \in Sizes, NEW f \in Nat
    PROVE  /\ DataWith(f) \in Nat
           /\ DataWith(f) <= Total
           /\ DataWith(f) = Total - 32 - 2 * f \/ (DataWith(f) = 0 /\ Total <= 32 + 2 * f)
  BY TotalRange, SMT DEF DataWith, Reserved, Fats

(* The next FAT size has room for the data that f leaves, and little more.   *)
LEMMA NextSizeRange ==
    ASSUME size \in Sizes, NEW f \in Nat
    PROVE  /\ NextSize(f) \in Nat \ {0}
           /\ DataWith(f) + 128 <= 128 * NextSize(f)
           /\ 128 * NextSize(f) <= DataWith(f) + 255
  <1>1. DataWith(f) \in Nat
    BY DataRange
  <1>2. NextSize(f) = ((DataWith(f) * 4 + 511) \div 512) + 1
    BY <1>1, SMT DEF NextSize, SectorSize
  <1> QED
    BY <1>1, <1>2, Sectors, SMT

LEMMA NextSizeFits ==
    ASSUME size \in Sizes, NEW f \in Nat
    PROVE  Fits(NextSize(f))
  BY NextSizeRange, DataRange, TotalRange, SMT DEF Fits

(* One round brings two sizes closer by a factor of 64. *)
LEMMA Contraction ==
    ASSUME size \in Sizes, NEW a \in Nat, NEW b \in Nat
    PROVE  128 * Distance(NextSize(a), NextSize(b)) <= 2 * Distance(a, b) + 127
  <1> DEFINE x == DataWith(a)
             y == DataWith(b)
  <1>1. /\ x \in Nat /\ y \in Nat
        /\ x <= y + 2 * Distance(a, b)
        /\ y <= x + 2 * Distance(a, b)
    BY DataRange, TotalRange, SMT DEF Distance
  <1>2. /\ NextSize(a) \in Nat /\ x + 128 <= 128 * NextSize(a) /\ 128 * NextSize(a) <= x + 255
        /\ NextSize(b) \in Nat /\ y + 128 <= 128 * NextSize(b) /\ 128 * NextSize(b) <= y + 255
    BY NextSizeRange
  <1>3. Distance(a, b) \in Nat
    BY DEF Distance
  <1> HIDE DEF x, y
  <1> QED
    BY <1>1, <1>2, <1>3, SMT DEF Distance

(* The FAT size the iteration stops at covers the data, settled or not.      *)
LEMMA StopsCovered ==
    ASSUME LayoutTypeOK, Iteration, round = Rounds \/ NextSize(fsz) = fsz
    PROVE  Covers(fsz)
  <1>0. size \in Sizes /\ fsz \in Nat /\ prev \in Nat
    BY DEF LayoutTypeOK, Iteration
  <1>1. CASE NextSize(fsz) = fsz
    <2>1. DataWith(fsz) \in Nat /\ DataWith(fsz) + 128 <= 128 * NextSize(fsz)
      BY <1>0, DataRange, NextSizeRange
    <2> QED
      BY <1>0, <1>1, <2>1, SMT DEF Covers
  <1>2. CASE round = Rounds
    <2>1. fsz = NextSize(prev) /\ Distance(fsz, prev) <= 9
      BY <1>2, SMT DEF Iteration, Gap, Rounds
    <2>2. DataWith(prev) + 128 <= 128 * NextSize(prev)
      BY <1>0, NextSizeRange
    <2>3. DataWith(fsz) <= DataWith(prev) + 2 * Distance(fsz, prev)
      BY <1>0, DataRange, TotalRange, SMT DEF Distance
    <2>4. /\ DataWith(fsz) \in Nat /\ DataWith(prev) \in Nat
          /\ Distance(fsz, prev) \in Nat
      BY <1>0, DataRange, SMT DEF Distance
    <2> QED
      BY <1>0, <2>1, <2>2, <2>3, <2>4, SMT DEF Covers
  <1> QED
    BY <1>1, <1>2

-----------------------------------------------------------------------------
LEMMA LayoutInitInv == LayoutInit => LayoutInv
  <1> SUFFICES ASSUME LayoutInit PROVE LayoutInv
    OBVIOUS
  <1>1. LayoutTypeOK
    <2>1. record \in BootRecord \cup {NoRecord}
      BY LayoutAssumption DEF LayoutAssumption, LayoutInit
    <2>2. geo \in [spc : Nat, fatSize : Nat, dataLba : Nat, dataClusters : Nat]
      BY SMT DEF LayoutInit, NoGeometry
    <2>3. answered \in BOOLEAN
      BY DEF LayoutInit
    <2>4. /\ size \in Sizes /\ fsz \in Nat \ {0} /\ prev \in Nat /\ round \in 0..Rounds
          /\ phase \in {"off", "layout", "ready"}
      BY SMT DEF LayoutInit, Rounds
    <2> QED
      BY <2>1, <2>2, <2>3, <2>4 DEF LayoutTypeOK
  <1>2. Iteration
    BY TotalRange, SMT DEF LayoutInit, Iteration, Fits, Distance, Gap
  <1>3. Recorded
    BY DEF LayoutInit, Recorded
  <1> QED
    BY <1>1, <1>2, <1>3 DEF LayoutInv

(* A round of compute_layout. *)
LEMMA LayoutRoundInv == LayoutInv /\ LayoutRound => LayoutInv'
  <1> SUFFICES ASSUME LayoutInv, LayoutRound PROVE LayoutInv'
    OBVIOUS
  <1> USE DEF LayoutInv, LayoutRound
  <1>1. /\ fsz \in Nat \ {0} /\ prev \in Nat \ {0} /\ size \in Sizes
        /\ fsz' = NextSize(fsz) /\ prev' = fsz /\ round' = round + 1
        /\ round \in 0..Rounds /\ round < Rounds
        /\ size' = size /\ answered' = answered /\ record' = record /\ geo' = geo /\ phase' = phase
    BY DEF LayoutTypeOK, Iteration
  <1>2. fsz' \in Nat \ {0} /\ Fits(fsz)' /\ Fits(prev)'
    <2>1. NextSize(fsz) \in Nat \ {0} /\ Fits(NextSize(fsz))
      BY <1>1, NextSizeRange, NextSizeFits
    <2>2. Fits(fsz)
      BY DEF Iteration
    <2> QED
      BY <1>1, <2>1, <2>2 DEF Fits, Total
  <1>3. LayoutTypeOK'
    BY <1>1, <1>2, SMT DEF LayoutTypeOK, Rounds
  <1>4. NextSize(prev)' = NextSize(fsz)
    BY <1>1 DEF NextSize, DataWith, Total
  <1>5. Distance(fsz', prev') <= Gap(round')
    <2>1. CASE round = 0
      <3>1. fsz = 1
        BY <2>1 DEF Iteration
      <3>2. 128 * NextSize(1) <= Total + 255 /\ NextSize(1) \in Nat \ {0}
        BY <1>1, NextSizeRange, DataRange, TotalRange, SMT
      <3> HIDE DEF LayoutInv, LayoutRound
      <3> QED
        BY <1>1, <2>1, <3>1, <3>2, TotalRange, SMT DEF Distance, Gap, MaxSize
    <2>2. CASE round # 0
      <3>1. fsz = NextSize(prev)
        BY <2>2 DEF Iteration
      <3>2. 128 * Distance(fsz', prev') <= 2 * Distance(fsz, prev) + 127
        BY <1>1, <3>1, Contraction
      <3>3. Distance(fsz, prev) <= Gap(round)
        BY DEF Iteration
      <3>4. Distance(fsz, prev) \in Nat /\ Distance(fsz', prev') \in Nat
        BY <1>1, <1>2, SMT DEF Distance
      <3> HIDE DEF LayoutInv, LayoutRound
      <3> QED
        BY <1>1, <2>2, <3>2, <3>3, <3>4, SMT DEF Gap, Rounds
    <2> QED
      BY <2>1, <2>2
  <1>6. Iteration'
    BY <1>1, <1>2, <1>4, <1>5 DEF Iteration
  <1>7. Recorded'
    BY <1>1 DEF Recorded
  <1> QED
    BY <1>3, <1>6, <1>7

(* The end of the loop, and the boot sector it writes. *)
LEMMA LayoutDoneInv == LayoutInv /\ LayoutDone => LayoutInv'
  <1> SUFFICES ASSUME LayoutInv, LayoutDone PROVE LayoutInv'
    OBVIOUS
  <1> USE DEF LayoutInv, LayoutDone
  <1>1. Covers(fsz)
    BY StopsCovered DEF LayoutInv, LayoutDone
  <1>2. /\ size \in Sizes /\ fsz \in Nat \ {0} /\ Total \in Nat
        /\ record' = OwnBoot(fsz) /\ phase' = "ready"
        /\ geo' = Geometry(1, fsz, Reserved + Fats * fsz, Total)
        /\ UNCHANGED <<size, answered, fsz, prev, round>>
    BY TotalRange DEF LayoutTypeOK, Iteration, OwnBoot
  <1>3. UNCHANGED <<Total, Covers(fsz), Iteration>>
    BY <1>2 DEF Total, Covers, DataWith, Iteration, Fits, NextSize
  <1>4. geo' = FromBoot(OwnBoot(fsz))
    BY <1>2, TotalRange, SMT DEF OwnBoot, FromBoot, RecordedTotal, Fats
  <1>5. LayoutTypeOK'
    <2>1. OwnBoot(fsz) \in BootRecord
      BY <1>2, TotalRange, SMT DEF OwnBoot, BootRecord, Reserved, Fats
    <2>2. geo' \in [spc : Nat, fatSize : Nat, dataLba : Nat, dataClusters : Nat]
      BY <1>2, SMT DEF Geometry, Reserved, Fats
    <2> QED
      BY <1>2, <2>1, <2>2 DEF LayoutTypeOK
  <1>6. Recorded'
    <2>1. record' # NoRecord
      BY <1>2, SMT DEF OwnBoot, NoRecord
    <2>2. OwnBoot(fsz)' = OwnBoot(fsz)
      BY <1>2, <1>3 DEF OwnBoot
    <2> QED
      BY <1>1, <1>2, <1>3, <1>4, <2>1, <2>2 DEF Recorded
  <1> QED
    BY <1>3, <1>5, <1>6

(* Mounting and switching off, and the start of a format. *)
LEMMA LayoutMountInv == LayoutInv /\ (InitFromDisk \/ PowerOff) => LayoutInv'
  <1> SUFFICES ASSUME LayoutInv, InitFromDisk \/ PowerOff PROVE LayoutInv'
    OBVIOUS
  <1> USE DEF LayoutInv, InitFromDisk, PowerOff
  <1>1. UNCHANGED <<size, answered, record, fsz, prev, round>>
    OBVIOUS
  <1>2. geo' \in [spc : Nat, fatSize : Nat, dataLba : Nat, dataClusters : Nat]
    <2>1. CASE InitFromDisk
      <3>1. record \in BootRecord
        BY <2>1 DEF LayoutTypeOK
      <3> DEFINE fats == IF record.fats = 0 THEN Fats ELSE record.fats
      <3>2. /\ record.spc \in Nat /\ record.fatSize \in Nat /\ record.reserved \in Nat
            /\ fats \in Nat /\ RecordedTotal(record) \in Nat
        BY <3>1 DEF BootRecord, RecordedTotal, Fats
      <3>3. geo' = Geometry(record.spc, record.fatSize, record.reserved + fats * record.fatSize,
                            RecordedTotal(record))
        BY <2>1 DEF FromBoot
      <3> HIDE DEF fats
      <3>4. fats * record.fatSize \in Nat
        BY <3>2, SMT
      <3>5. record.reserved + fats * record.fatSize \in Nat
        BY <3>2, <3>4, SMT
      <3> QED
        BY <3>2, <3>3, <3>5, SMT DEF Geometry
    <2>2. CASE PowerOff
      BY <2>2, SMT DEF NoGeometry
    <2> QED
      BY <2>1, <2>2
  <1>3. LayoutTypeOK'
    BY <1>1, <1>2 DEF LayoutTypeOK
  <1>4. UNCHANGED <<Iteration, OwnBoot(fsz), Covers(fsz)>>
    BY <1>1 DEF Iteration, OwnBoot, Covers, Fits, NextSize, DataWith, Total
  <1>5. Recorded'
    BY <1>1, <1>4 DEF Recorded, FromBoot, RecordedTotal
  <1> QED
    BY <1>3, <1>4, <1>5

LEMMA LayoutFormatInv == LayoutInv /\ Format => LayoutInv'
  <1> SUFFICES ASSUME LayoutInv, Format PROVE LayoutInv'
    OBVIOUS
  <1> USE DEF LayoutInv, Format
  <1>1. LayoutTypeOK'
    BY SMT DEF LayoutTypeOK, Rounds
  <1>2. Iteration'
    <2>1. Total' \in Nat
      BY LayoutAssumption, SMT DEF LayoutAssumption, LayoutTypeOK, Total, DefaultTotal
    <2>2. fsz' = 1 /\ prev' = 1 /\ round' = 0
      OBVIOUS
    <2> HIDE DEF LayoutInv, Format
    <2>3. \A t \in Nat : 128 * 1 <= t + 256
      BY SMT
    <2>4. Fits(fsz)' /\ Fits(prev)'
      BY <2>1, <2>2, <2>3 DEF Fits
    <2>5. Distance(fsz', prev') <= Gap(round')
      BY <2>2, SMT DEF Distance, Gap
    <2> QED
      BY <2>2, <2>4, <2>5 DEF Iteration
  <1>3. Recorded'
    BY DEF Recorded
  <1> QED
    BY <1>1, <1>2, <1>3

(* The three facts together. *)
THEOREM LayoutInductive == LayoutSpec => []LayoutInv
  <1>1. LayoutInv /\ [LayoutNext]_layoutVars => LayoutInv'
    <2> SUFFICES ASSUME LayoutInv, [LayoutNext]_layoutVars PROVE LayoutInv'
      OBVIOUS
    <2>1. CASE LayoutNext
      BY <2>1, LayoutRoundInv, LayoutDoneInv, LayoutMountInv, LayoutFormatInv DEF LayoutNext
    <2>2. CASE UNCHANGED layoutVars
      BY <2>2 DEF layoutVars, LayoutInv, LayoutTypeOK, Iteration, Recorded, OwnBoot, Covers, Fits,
                  NextSize, DataWith, Total, FromBoot, RecordedTotal
    <2> QED
      BY <2>1, <2>2
  <1> QED
    BY LayoutInitInv, <1>1, PTL DEF LayoutSpec

-----------------------------------------------------------------------------
(* Every state of the format, the mount and the reboot has the types of      *)
(* LayoutTypeOK, and compute_layout makes at most sixteen rounds.            *)
THEOREM LayoutTypeCorrect == LayoutSpec => []LayoutTypeOK
  BY LayoutInductive, PTL DEF LayoutInv

(* compute_layout and init_from_disk: on every drive, and also where the     *)
(* iteration never settles, the FAT has an entry for every data cluster.     *)
THEOREM LayoutFatCovers == LayoutSpec => []FatCovers
  <1>1. LayoutInv => FatCovers
    <2> SUFFICES ASSUME LayoutInv, Ready PROVE geo.dataClusters + 2 <= 128 * geo.fatSize
      BY DEF FatCovers
    <2>1. geo = FromBoot(OwnBoot(fsz)) /\ Covers(fsz)
      BY DEF LayoutInv, Recorded, Ready
    <2>2. size \in Sizes /\ fsz \in Nat
      BY DEF LayoutInv, LayoutTypeOK
    <2>3. geo = Geometry(1, fsz, 32 + 2 * fsz, Total)
      BY <2>1, <2>2, TotalRange, SMT DEF FromBoot, OwnBoot, RecordedTotal, Reserved, Fats
    <2>4. geo.dataClusters = DataWith(fsz)
      BY <2>2, <2>3, TotalRange, SMT DEF Geometry, DataWith, Reserved, Fats
    <2> QED
      BY <2>1, <2>3, <2>4 DEF Geometry, Covers
  <1> QED
    BY <1>1, LayoutInductive, PTL

(* disk_total_sectors and compute_layout: the data region ends with the      *)
(* drive, if it has 64 MB, or answered IDENTIFY and has over 4096 sectors.   *)
THEOREM LayoutDataOnDisk == LayoutSpec => []DataOnDisk
  <1>1. LayoutInv => DataOnDisk
    <2> SUFFICES ASSUME LayoutInv, Ready,
                        size >= DefaultTotal \/ (answered /\ size > SmallDrive)
                 PROVE  geo.dataLba + geo.dataClusters <= size
      BY DEF DataOnDisk
    <2>1. geo = FromBoot(OwnBoot(fsz)) /\ Fits(fsz)
      BY DEF LayoutInv, Iteration, Recorded, Ready
    <2>2. size \in Sizes /\ fsz \in Nat
      BY DEF LayoutInv, LayoutTypeOK
    <2>3. geo = Geometry(1, fsz, 32 + 2 * fsz, Total)
      BY <2>1, <2>2, TotalRange, SMT DEF FromBoot, OwnBoot, RecordedTotal, Reserved, Fats
    <2>4. size \in Nat /\ Total <= size
      BY <2>2, LayoutAssumption, SMT DEF LayoutAssumption, Total, DefaultTotal
    <2> QED
      BY <2>1, <2>2, <2>3, <2>4, TotalRange, SMT DEF Geometry, Fits
  <1> QED
    BY <1>1, LayoutInductive, PTL

(* Every mount of a disk the driver has formatted computes the geometry      *)
(* format_fs chose, whatever the drive.                                      *)
THEOREM LayoutGeometryKept == LayoutSpec => GeometryKept
  <1>1. LayoutInv /\ [LayoutNext]_layoutVars =>
          [ phase = "off" /\ phase' = "ready" /\ record \notin Foreign =>
              geo' = Geometry(1, fsz, Reserved + Fats * fsz, Total) ]_layoutVars
    <2> SUFFICES ASSUME LayoutInv, LayoutNext, phase = "off", phase' = "ready", record \notin Foreign
                 PROVE  geo' = Geometry(1, fsz, Reserved + Fats * fsz, Total)
      OBVIOUS
    <2>1. InitFromDisk
      BY DEF LayoutNext, InitFromDisk, Format, LayoutRound, LayoutDone, PowerOff
    <2>2. geo' = FromBoot(OwnBoot(fsz))
      BY <2>1 DEF InitFromDisk, LayoutInv, Recorded
    <2>3. Total \in Nat \ {0}
      BY TotalRange, SMT DEF LayoutInv, LayoutTypeOK
    <2> QED
      BY <2>2, <2>3, SMT DEF FromBoot, OwnBoot, RecordedTotal, Fats
  <1> QED
    BY <1>1, LayoutInductive, PTL DEF LayoutSpec, GeometryKept

=============================================================================
