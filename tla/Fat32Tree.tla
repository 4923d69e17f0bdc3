----------------------------- MODULE Fat32Tree -----------------------------
(***************************************************************************)
(* The driver of module Fat32 implements the tree of module FileSystem.     *)
(* `tree` is what a caller could read back from the disk: it is a function  *)
(* of the driver's state, kept in a variable so that TLC computes it once.  *)
(* Between the two sector writes that put an entry across two sectors the   *)
(* names after it may decode wrongly (scan_next keeps LFN slots pending     *)
(* over deleted ones): no caller reads then, and `tree` keeps its value.    *)
(***************************************************************************)
EXTENDS Fat32Properties

VARIABLE tree

NodeOf(f, d, dir, image, i) ==
    LET e == At(image, i)
    IN  [dir |-> dir, name |-> EntryName(image, i), kind |-> e.tag,
         body |-> IF e.tag = "dir" THEN e.cluster ELSE ReadFile(f, d, e)]

(* An entry the driver cannot but delete, should the power stay on.          *)
Gone == IF DeleteHalfDone THEN {<<cwd, op.slot>>} ELSE {}

(* Every entry of every directory that is not gone.                          *)
TreeOf(f, d, leaving) ==
    UNION {LET image == Image(d, Chain(f, dir, DIR_MAX_CLUSTERS))
           IN  {NodeOf(f, d, dir, image, i) :
                  i \in {j \in Visible(image) : <<dir, j>> \notin leaving}} :
           dir \in DirsOf(f, d)}

TreeInit == Init /\ tree = {}
TreeNext ==
    /\ Next
    /\ tree' = CASE ~Mounted'                   -> {}
                 [] Mounted' /\ InsertHalfDone' -> tree
                 [] OTHER                       -> TreeOf(fat', data', Gone')
TreeSpec == TreeInit /\ [][TreeNext]_<<vars, tree>>

(* An operation that has begun runs on: nothing in the driver waits.         *)
FairTreeSpec == TreeSpec /\ WF_vars(Work) /\ WF_vars(Boot)

Abstract == INSTANCE FileSystem WITH sound <- torn = {}, DirId <- Cluster

(* An operation takes effect at one sector write or not at all, in whatever  *)
(* order its other writes are done, what was written reads back, and a power *)
(* cut outside the windows of HalfDone loses nothing and invents nothing.    *)
ImplementsFileSystem == Abstract!Spec
=============================================================================
