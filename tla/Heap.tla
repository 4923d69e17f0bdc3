-------------------------------- MODULE Heap --------------------------------
(***************************************************************************)
(* malloc and free (src/src/lib/memory.c) under the keyboard interrupt.     *)
(* The main loop allocates and frees; TAB makes the handler list the        *)
(* current directory, which allocates a buffer and frees it again           *)
(* (fat32_file_count and the like under handle_tab), between any two        *)
(* memory accesses of the main loop.  Nothing masks the interrupt.          *)
(*                                                                         *)
(* A block is its address: Header bytes of size and next, then the bytes    *)
(* its owner uses.  Address 0 is NULL.                                      *)
(***************************************************************************)
EXTENDS Integers, Sequences, FiniteSets

CONSTANTS
    Header,         \* sizeof(block_t)
    WordSize,       \* WORD_SIZE
    Start,          \* __free_memory_start
    Sizes,          \* what the main loop asks for
    TabSizes,       \* what a directory takes
    MaxAddr,        \* bound: memory in use
    MaxLive         \* bound: blocks the main loop owns at a time

ASSUME HeapAssumption ==
    /\ {Header, WordSize, MaxAddr} \subseteq Nat \ {0} /\ Start \in 1..MaxAddr
    /\ Sizes \cup TabSizes \subseteq Nat \ {0}
    /\ MaxLive \in Nat

VARIABLES
    size, next,             \* the headers
    free_list,              \* first free block
    free_mem_addr,          \* first byte never allocated
    pc, n, p, q, t,         \* malloc and free in the main loop
    live,                   \* history: what the main loop owns, with what it asked for
    torn                    \* history: TAB was hit in one of the windows below

heap == <<size, next, free_list, free_mem_addr>>
locals == <<pc, n, p, q, t>>
vars == <<heap, locals, live, torn>>

Addr == 0..MaxAddr
NULL == 0

Init ==
    /\ size = [a \in Addr |-> 0] /\ next = [a \in Addr |-> NULL]
    /\ free_list = NULL /\ free_mem_addr = Start
    /\ pc = "idle" /\ n = 0 /\ p = NULL /\ q = NULL /\ t = NULL
    /\ live = [a \in {} |-> 0] /\ torn = FALSE

(* Mutant of Round: no rounding up.                                          *)
RoundDown(k) == (k \div WordSize) * WordSize

Round(k) == ((k + WordSize - 1) \div WordSize) * WordSize

Goto(where) == pc' = where

-----------------------------------------------------------------------------
(* malloc in the main loop, a memory access at a time. *)

Malloc(k) ==
    /\ pc = "idle" /\ Cardinality(DOMAIN live) < MaxLive
    /\ n' = k /\ p' = free_list /\ q' = NULL
    /\ Goto("test")
    /\ UNCHANGED <<heap, t, live, torn>>

(* Mutant of Fits: any block will do. *)
FitsAny(b, k) == size[b] > 0

Fits(b, k) == size[b] >= Round(k)

Test ==
    /\ pc = "test"
    /\ IF p = NULL THEN Goto("bump") /\ UNCHANGED q
       ELSE IF Fits(p, n) THEN Goto("unlink") /\ UNCHANGED q
       ELSE q' = p /\ Goto("advance")
    /\ UNCHANGED <<heap, n, p, t, live, torn>>

Advance ==
    /\ pc = "advance"
    /\ p' = next[p] /\ Goto("test")
    /\ UNCHANGED <<heap, n, q, t, live, torn>>

Own(b) == live' = [a \in DOMAIN live \cup {b} |-> IF a = b THEN n ELSE live[a]]
Forget == Goto("idle") /\ n' = 0 /\ p' = NULL /\ q' = NULL /\ t' = NULL

Unlink ==
    /\ pc = "unlink"
    /\ t' = next[p] /\ Goto("link")
    /\ UNCHANGED <<heap, n, p, q, live, torn>>

Link ==
    /\ pc = "link"
    /\ IF q # NULL THEN next' = [next EXCEPT ![q] = t] /\ UNCHANGED free_list
                   ELSE free_list' = t /\ UNCHANGED next
    /\ Own(p) /\ Forget
    /\ UNCHANGED <<size, free_mem_addr, torn>>

(* Mutant of After: the header is not counted. *)
AfterData(b, k) == b + Round(k)

After(b, k) == b + Header + Round(k)

Bump ==
    /\ pc = "bump" /\ After(free_mem_addr, n) <= MaxAddr
    /\ p' = free_mem_addr /\ Goto("size")
    /\ UNCHANGED <<heap, n, q, t, live, torn>>

SetSize ==
    /\ pc = "size"
    /\ size' = [size EXCEPT ![p] = Round(n)] /\ Goto("grow")
    /\ UNCHANGED <<next, free_list, free_mem_addr, n, p, q, t, live, torn>>

Grow ==
    /\ pc = "grow"
    /\ free_mem_addr' = After(free_mem_addr, n)
    /\ Own(p) /\ Forget
    /\ UNCHANGED <<size, next, free_list, torn>>

(* free: the block is linked to the list, then the list to the block. *)
Free(b) ==
    /\ pc = "idle" /\ b \in DOMAIN live
    /\ next' = [next EXCEPT ![b] = free_list]
    /\ live' = [a \in DOMAIN live \ {b} |-> live[a]]
    /\ p' = b /\ Goto("freed")
    /\ UNCHANGED <<size, free_list, free_mem_addr, n, q, t, torn>>

Freed ==
    /\ pc = "freed"
    /\ free_list' = p /\ Forget
    /\ UNCHANGED <<size, next, free_mem_addr, live, torn>>

-----------------------------------------------------------------------------
(* The free list: the blocks the links run through before they reach NULL.   *)
Walk(c, succ) == LET at[k \in Nat] == IF k = 0 THEN c ELSE succ[at[k - 1]] IN at
FreeList ==
    LET at == Walk(free_list, next)
        len == CHOOSE m \in Addr : /\ \A k \in 0..(m - 1) : at[k] # NULL
                                   /\ (m = MaxAddr \/ at[m] = NULL)
    IN  [k \in 1..len |-> at[k - 1]]
OnList == {FreeList[k] : k \in 1..Len(FreeList)}

(* TAB: malloc and free in one go.  The first block that fits moves to the   *)
(* front of the list, or a new one is put there.                             *)
FirstFit(k) ==
    LET fit == {m \in 1..Len(FreeList) : Fits(FreeList[m], k)}
    IN  IF fit = {} THEN 0 ELSE CHOOSE m \in fit : \A o \in fit : m <= o

(* The windows in which TAB does harm: malloc is about to take the block     *)
(* that TAB moves, behind another one; it has read which block comes next,   *)
(* and TAB moves that; it has read free_mem_addr, and TAB reads it too.      *)
Tears(x) ==
    \/ pc \in {"test", "unlink", "link"} /\ NULL \notin {p, q} /\ Fits(p, n) /\ x = p
    \/ pc = "link" /\ t # NULL /\ x = t
    \/ pc \in {"size", "grow"} /\ x = NULL

TabMalloc(k) ==
    LET m == FirstFit(k)
        x == IF m = 0 THEN NULL ELSE FreeList[m]
    IN  /\ torn' = Tears(x)
        /\ IF m = 0
           THEN /\ After(free_mem_addr, k) <= MaxAddr
                /\ size' = [size EXCEPT ![free_mem_addr] = Round(k)]
                /\ next' = [next EXCEPT ![free_mem_addr] = free_list]
                /\ free_list' = free_mem_addr
                /\ free_mem_addr' = After(free_mem_addr, k)
           ELSE /\ next' = IF m = 1 THEN next
                           ELSE [next EXCEPT ![FreeList[m - 1]] = next[x], ![x] = free_list]
                /\ free_list' = x
                /\ UNCHANGED <<size, free_mem_addr>>

Tab(k) == ~torn /\ TabMalloc(k) /\ UNCHANGED <<locals, live>>

-----------------------------------------------------------------------------
Main ==
    \/ Test \/ Advance \/ Unlink \/ Link \/ Bump \/ SetSize \/ Grow \/ Freed
    \/ \E k \in Sizes : Malloc(k)
    \/ \E b \in DOMAIN live : Free(b)

(* Once TAB was hit in a window the list may be anything: the model stops.   *)
Next == ~torn /\ (Main \/ \E k \in TabSizes : Tab(k))

Spec == Init /\ [][Next]_vars

-----------------------------------------------------------------------------
(* The bytes of a block, header included. *)
Bytes(b) == b..(b + Header + size[b] - 1)

(* Blocks in use do not overlap each other, hold what was asked for and lie  *)
(* below the memory never allocated, wherever TAB is hit but in a window.    *)
LiveDisjoint ==
    ~torn => \A b \in DOMAIN live :
        /\ size[b] >= live[b]
        /\ Bytes(b) \subseteq Start..(free_mem_addr - 1)
        /\ \A c \in DOMAIN live \ {b} : Bytes(b) \cap Bytes(c) = {}

(* The free list ends, and no block on it is in use or overlaps one in use.  *)
ListSound ==
    ~torn =>
        /\ Cardinality(OnList) = Len(FreeList)
        /\ Len(FreeList) < MaxAddr
        /\ \A b \in OnList, c \in DOMAIN live : Bytes(b) \cap Bytes(c) = {}
        /\ \A b, c \in OnList : b # c => Bytes(b) \cap Bytes(c) = {}
=============================================================================
