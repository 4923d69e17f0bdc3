---------------------------- MODULE FileSystem ----------------------------
(***************************************************************************)
(* What the file system promises its callers: a tree of named nodes in      *)
(* which a creation, or a deletion, takes effect at once or not at all.     *)
(* Directories are identified by their first cluster, as in the driver's    *)
(* API (src/src/fs/fat32.h).  The promise ends, `sound` = FALSE, with a power    *)
(* cut in the middle of an operation the driver cannot leave half done.     *)
(***************************************************************************)
EXTENDS Naturals, Sequences

CONSTANTS Root, Name, Contents, DirId, Fold

VARIABLES tree, sound

Same(a, b) ==
    Len(a) = Len(b) /\ \A p \in 1..Len(a) : Fold[a[p]] = Fold[b[p]]

(* A file reads back as the sectors that hold its blocks. *)
File(d, name, blocks) ==
    [dir |-> d, name |-> name, kind |-> "file",
     body |-> [k \in 1..Len(blocks) |-> [tag |-> "data", block |-> blocks[k]]]]
Dir(d, name, id) == [dir |-> d, name |-> name, kind |-> "dir", body |-> id]

DirsOf(t) == {Root} \cup {n.body : n \in {m \in t : m.kind = "dir"}}
Absent(d, name) == \A n \in tree : n.dir = d => ~Same(n.name, name)

Create(d, name, blocks) ==
    /\ d \in DirsOf(tree) /\ Absent(d, name)
    /\ tree' = tree \cup {File(d, name, blocks)}

(* A new directory is not one already there, and it is empty. *)
Mkdir(d, name, id) ==
    /\ d \in DirsOf(tree) /\ Absent(d, name)
    /\ id \notin DirsOf(tree)
    /\ tree' = tree \cup {Dir(d, name, id)}

Delete(n) ==
    /\ n.kind = "file"
    /\ tree' = tree \ {n}

Init == tree = {} /\ sound = TRUE

Next ==
    \/ /\ sound /\ sound' = sound
       /\ \/ \E d \in DirId, name \in Name, blocks \in Contents : Create(d, name, blocks)
          \/ \E d, id \in DirId, name \in Name : Mkdir(d, name, id)
          \/ \E n \in tree : Delete(n)
    \/ sound' = FALSE

Spec == Init /\ [][Next]_<<tree, sound>>
=============================================================================
