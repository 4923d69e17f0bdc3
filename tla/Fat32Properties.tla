-------------------------- MODULE Fat32Properties --------------------------
(***************************************************************************)
(* What makes the disk the driver of module Fat32 writes a correct one.     *)
(***************************************************************************)
EXTENDS Fat32

(* Type correctness of the disk, of the driver's RAM and of the histories.   *)
TypeOK ==
    /\ boot \in {"blank", "fat32"}
    /\ fat \in [Cluster -> FatValue]
    /\ mirror \in [Cluster -> FatValue]
    /\ data \in [Cluster -> SectorData]
    /\ hint \in Cluster \cup {3}
    /\ cwd \in Cluster
    /\ pc \in {"off", "format", "idle", "alloc", "name", "search", "extend",
               "retry", "place", "fail", "save", "free", "abort"}
    /\ op \in [kind : {"none", "create", "mkdir", "delete"}, name : Name \cup {<<>>},
               blocks : Contents \cup {<<>>}, short : ShortName \cup {NoShort}, slot : Nat]
    /\ img \in Seq(Sector)
    /\ dirc \in Seq(Cluster)
    /\ chain \in Seq(Cluster)
    /\ cur \in Cluster \cup {0}
    /\ io \in Seq(Write)
    /\ cuts \in 0..MaxCuts
    /\ torn \subseteq {"format", "delete", "insert"}
    /\ lost \subseteq Cluster

-----------------------------------------------------------------------------
(* The entries on a disk with FAT f and data d: the visible slots of the     *)
(* directory sectors in use, as <<cluster, slot>>.                           *)
EntriesOf(f, d) ==
    {p \in Cluster \X (1..ENTRIES_PER_SECTOR) :
        f[p[1]] # 0 /\ IsVisible(SlotsOf(d[p[1]])[p[2]])}
EntryOf(d, p) == SlotsOf(d[p[1]])[p[2]]
DirsOf(f, d) ==
    {Root} \cup {EntryOf(d, p).cluster :
                   p \in {q \in EntriesOf(f, d) : EntryOf(d, q).tag = "dir"}}

Entries == EntriesOf(fat, data)
EntryAt(p) == EntryOf(data, p)
Dirs == DirsOf(fat, data)

(* First clusters that an entry names; a file of no blocks names none.       *)
Heads == {EntryAt(p).cluster : p \in Entries} \ {0}

Mounted == boot = "fat32" /\ pc # "format"
Deleting == op.kind = "delete" /\ pc \in {"free", "save"}

(* The directory and the slot of the entry under deletion. *)
Leaving == IF Deleting THEN {<<cwd, op.slot>>} ELSE {}

(* The same, as it stands on the disk. *)
Doomed ==
    IF Deleting
    THEN {p \in Entries :
            \E k \in 1..Len(dirc) : p[1] = dirc[k] /\ Position(k, p[2]) = op.slot}
    ELSE {}

(* No cluster belongs to two chains: no two entries name the same first      *)
(* cluster, no two FAT entries have the same successor, and no first cluster *)
(* is a successor.  fat32_create_file links its clusters only after it has   *)
(* allocated all of them, and fat32_delete_file frees a chain before the     *)
(* entry goes, so every step of both is in the way of this.                  *)
ChainsDisjoint ==
    Mounted /\ torn = {} =>
      /\ \A p, q \in Entries :
            p # q /\ EntryAt(p).cluster = EntryAt(q).cluster => EntryAt(p).cluster = 0
      /\ \A c, d \in Cluster : InRange(fat[c]) /\ fat[c] = fat[d] => c = d
      /\ \A c \in Cluster : fat[c] \notin Heads \cup {Root}
      /\ Root \notin Heads

(* No entry, link or current directory leads to a free cluster, at any       *)
(* moment, power cuts included; only the entry that is being deleted may.    *)
NoDangling ==
    Mounted /\ torn = {} =>
      /\ \A p \in Entries \ Doomed :
            EntryAt(p).cluster # 0 => fat[EntryAt(p).cluster] # 0
      /\ \A c \in Cluster : InRange(fat[c]) => fat[fat[c]] # 0
      /\ fat[Root] # 0 /\ fat[cwd] # 0

(* A chain is as long as its entry says, a directory's clusters hold         *)
(* directory sectors and a file's hold data: what an entry promises is       *)
(* written before the entry is.                                              *)
ChainsComplete ==
    Mounted /\ torn = {} =>
      /\ \A d \in Dirs : \A k \in 1..Len(DirChain(d)) : data[DirChain(d)[k]].tag = "dir"
      /\ \A p \in Entries \ Doomed :
            EntryAt(p).tag = "file" =>
              LET c == Chain(fat, EntryAt(p).cluster, DataClusters)
              IN  /\ Len(c) = EntryAt(p).size
                  /\ \A k \in 1..Len(c) : data[c[k]].tag = "data"

(* The clusters in use are the root, the first clusters of entries and the   *)
(* successors of clusters in use, and apart from them exactly those a failed *)
(* creation could not give back: fat32_create_file frees an unlinked chain   *)
(* when the disk is full (fat32.c:924-927).                                  *)
Used == {c \in Cluster : fat[c] # 0}
Accounted ==
    Mounted /\ cuts = 0 /\ pc = "idle" =>
      Used = {Root} \cup Heads \cup {fat[c] : c \in {u \in Used : InRange(fat[u])}} \cup lost

(* No directory has two entries that strcasecmp_os takes for the same name,  *)
(* and every entry shows the very name it was created with, also after       *)
(* others were inserted into and deleted from the slots around it.  Between  *)
(* the two sector writes of an entry across two sectors this does not hold.  *)
NamesUnique ==
    Mounted /\ torn = {} /\ ~InsertHalfDone =>
      \A d \in Dirs :
        LET image == Load(d)
            shown == {i \in Visible(image) : <<d, i>> \notin Leaving}
        IN  /\ \A i, j \in shown :
                  i # j => ~SameName(EntryName(image, i), EntryName(image, j))
            /\ \A i \in shown : EntryName(image, i) \in Name

(* No two entries of a directory have the same short name, as long as no     *)
(* more names compete for the alternatives that build_short_name tries for   *)
(* one of them than it has.  A rival need not have the same 8.3 form: a name *)
(* may be written like the "~N" form of another.                             *)
Alternatives(name) ==
    {MakeShort[name]} \cup {Tilde[<<MakeShort[name], n>>] : n \in 1..MAX_ALT}
Rivals(name) == {n \in Name : Alternatives(n) \cap Alternatives(name) # {}}
NamesFit ==
    \A name \in Name :
        /\ IsFiniteSet(Rivals(name))
        /\ Cardinality(Rivals(name)) <= Cardinality(Alternatives(name))
ShortsUnique ==
    Mounted /\ torn = {} /\ NamesFit =>
      \A d \in Dirs :
        \A i, j \in Visible(Load(d)) :
          At(Load(d), i).short = At(Load(d), j).short => i = j

(* The copies of the FAT differ only in the entry being written and in one   *)
(* entry for each power cut that came between the two copies.                *)
MirrorLags ==
    Mounted /\ "format" \notin torn =>
      Cardinality({c \in Cluster : fat[c] # mirror[c]})
        <= cuts + (IF io # <<>> /\ Head(io).to = "fat" /\ Head(io).copy = 1 THEN 1 ELSE 0)

-----------------------------------------------------------------------------
(* A creation gives up only when no cluster is free, in the whole FAT and    *)
(* wherever the hint stands, when the directory can take no more of them, or *)
(* when it took one more and an entry with its LFN slots does not even fit   *)
(* into an empty cluster.                                                    *)
GivesUpOnlyWhenFull ==
    [][ /\ pc \in {"alloc", "extend", "fail"} /\ pc' \in {"idle", "abort"}
        => \/ Used = Cluster
           \/ pc = "fail" /\ LfnCount(op.short, op.name) >= ENTRIES_PER_SECTOR
           \/ pc = "extend" /\ Len(dirc) = DIR_MAX_CLUSTERS ]_vars

(* A cluster is taken only when the FAT says it is free, and no write to the *)
(* data region goes to a cluster that is not in use.                         *)
NeverOverwrites ==
    [][ \A c \in Cluster :
          data'[c] # data[c] /\ Mounted /\ torn = {} =>
            /\ fat[c] # 0
            /\ \/ c \in {dirc[k] : k \in 1..Len(dirc)}
               \/ c \in {chain[k] : k \in 1..Len(chain)} ]_vars

(* Every call returns and every format ends, unless the power fails first:   *)
(* free_cluster_chain, the allocation loop and the one retry of dir_insert   *)
(* all come to an end, also on a full disk.                                  *)
CallsReturn == (pc \notin {"idle", "off"}) ~> (pc \in {"idle", "off"})
=============================================================================
