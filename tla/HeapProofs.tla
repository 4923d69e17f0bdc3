----------------------------- MODULE HeapProofs -----------------------------
(***************************************************************************)
(* Proofs about module Heap, for every header, word size, request, number   *)
(* of blocks and amount of memory: outside the windows of Tears, TAB takes  *)
(* nothing from the soundness of the heap.                                  *)
(***************************************************************************)
EXTENDS Heap, FiniteSetTheorems, FunctionTheorems, WellFoundedInduction, TLAPS

-----------------------------------------------------------------------------
(* Rounding. *)

LEMMA Quotient ==
    ASSUME NEW W \in Int, W > 0, NEW x \in Int
    PROVE  x \div W \in Int /\ x < W * (x \div W) + W /\ W * (x \div W) <= x
  OBVIOUS

LEMMA Commutes == \A a, b \in Int : a * b = b * a
  OBVIOUS

LEMMA RoundType ==
    ASSUME NEW k \in Nat
    PROVE  Round(k) \in Nat /\ Round(k) >= k
  <1> DEFINE x == k + WordSize - 1
             d == x \div WordSize
  <1>1. WordSize \in Int /\ WordSize > 0 /\ x \in Int
    BY HeapAssumption
  <1>2. d \in Int /\ x < WordSize * d + WordSize
    BY <1>1, Quotient
  <1>3. Round(k) = d * WordSize
    BY DEF Round
  <1> HIDE DEF d
  <1>4. d * WordSize = WordSize * d
    BY <1>1, <1>2, Commutes
  <1>5. WordSize * d \in Int
    BY <1>1, <1>2
  <1> QED
    BY <1>1, <1>2, <1>3, <1>4, <1>5

LEMMA AfterType ==
    ASSUME NEW b \in Nat, NEW k \in Nat
    PROVE  After(b, k) = b + Header + Round(k) /\ After(b, k) \in Nat
  BY RoundType, HeapAssumption DEF After

-----------------------------------------------------------------------------
(* Numbers have a least one. *)

LEMMA LessIsWellFounded == \A x, y \in Nat : x < y => <<x, y>> \in OpToRel(<, Nat)
  BY DEF OpToRel

LEMMA LeastNumber ==
    ASSUME NEW S \in SUBSET Nat, S # {}
    PROVE  \E x \in S : \A y \in S : x <= y
  <1>1. PICK x \in S : \A y \in S : ~(<<y, x>> \in OpToRel(<, Nat))
    BY NatLessThanWellFounded, WFMin
  <1>2. ASSUME NEW y \in S PROVE x <= y
    <2>1. ~(y < x)
      BY <1>1, LessIsWellFounded
    <2> QED
      BY <2>1
  <1> QED
    BY <1>2

(* Walking: the values up to m are a finite table, any two such tables agree, *)
(* and the walk is made of the last value of each.                           *)
Table(c, succ, m, a) ==
    a = [k \in 0..m |-> IF k = 0 THEN c ELSE succ[a[k - 1]]]

LEMMA TableExists ==
    ASSUME NEW c, NEW succ, NEW m \in Nat
    PROVE  \E a : Table(c, succ, m, a)
  <1> DEFINE bad == {k \in Nat : ~\E a : Table(c, succ, k, a)}
  <1>1. SUFFICES ASSUME bad # {} PROVE FALSE
    OBVIOUS
  <1>2. PICK k \in bad : \A j \in bad : k <= j
    <2>1. bad \subseteq Nat
      OBVIOUS
    <2> HIDE DEF bad
    <2> QED
      BY <1>1, <2>1, LeastNumber
  <1>3. CASE k = 0
    <2>1. Table(c, succ, k, [j \in 0..0 |-> c])
      BY <1>3 DEF Table
    <2> QED
      BY <2>1
  <1>4. CASE k # 0
    <2>1. k - 1 \in Nat /\ k - 1 \notin bad
      BY <1>2, <1>4
    <2>2. PICK a : Table(c, succ, k - 1, a)
      BY <2>1
    <2> DEFINE b == [j \in 0..k |-> IF j = 0 THEN c ELSE succ[a[j - 1]]]
    <2>3. \A j \in 0..(k - 1) : b[j] = a[j]
      BY <2>1, <2>2 DEF Table
    <2>4. Table(c, succ, k, b)
      <3>1. \A j \in 0..k : j # 0 => j - 1 \in 0..(k - 1)
        BY <2>1
      <3>2. \A j \in 0..k : b[j] = IF j = 0 THEN c ELSE succ[b[j - 1]]
        BY <2>3, <3>1
      <3> QED
        BY <3>2 DEF Table
    <2> QED
      BY <2>4
  <1> QED
    BY <1>3, <1>4

LEMMA TablesAgree ==
    ASSUME NEW c, NEW succ, NEW k \in Nat, NEW m \in Nat, NEW a, NEW b,
           Table(c, succ, k, a), Table(c, succ, m, b),
           NEW j \in Nat, j <= k, j <= m
    PROVE  a[j] = b[j]
  <1> DEFINE bad == {i \in Nat : i <= k /\ i <= m /\ a[i] # b[i]}
  <1>1. SUFFICES ASSUME bad # {} PROVE FALSE
    OBVIOUS
  <1>2. PICK i \in bad : \A o \in bad : i <= o
    <2>1. bad \subseteq Nat
      OBVIOUS
    <2> HIDE DEF bad
    <2> QED
      BY <1>1, <2>1, LeastNumber
  <1>3. /\ a[i] = IF i = 0 THEN c ELSE succ[a[i - 1]]
        /\ b[i] = IF i = 0 THEN c ELSE succ[b[i - 1]]
    BY <1>2 DEF Table
  <1>4. i # 0 => i - 1 \in Nat /\ i - 1 \notin bad
    BY <1>2
  <1>5. i # 0 => a[i - 1] = b[i - 1]
    BY <1>2, <1>4
  <1> QED
    BY <1>2, <1>3, <1>5

LEMMA WalkExists ==
    ASSUME NEW c, NEW succ
    PROVE  Walk(c, succ) =
             [k \in Nat |-> IF k = 0 THEN c ELSE succ[Walk(c, succ)[k - 1]]]
  <1> DEFINE tab(k) == CHOOSE a : Table(c, succ, k, a)
             f == [k \in Nat |-> tab(k)[k]]
  <1>1. \A k \in Nat : Table(c, succ, k, tab(k))
    BY TableExists
  <1>2. ASSUME NEW k \in Nat
        PROVE  f[k] = IF k = 0 THEN c ELSE succ[f[k - 1]]
    <2> HIDE DEF tab
    <2>1. tab(k)[k] = IF k = 0 THEN c ELSE succ[tab(k)[k - 1]]
      BY <1>1 DEF Table
    <2>2. k # 0 => tab(k)[k - 1] = tab(k - 1)[k - 1]
      BY <1>1, TablesAgree
    <2> QED
      BY <2>1, <2>2
  <1>3. f = [k \in Nat |-> IF k = 0 THEN c ELSE succ[f[k - 1]]]
    <2>1. f = [k \in Nat |-> f[k]]
      OBVIOUS
    <2> HIDE DEF f
    <2> QED
      BY <1>2, <2>1
  <1> HIDE DEF f
  <1> QED
    BY <1>3 DEF Walk

(* The free list is what the links run through.                              *)
LEMMA ListIsPath ==
    /\ Len(FreeList) \in Addr
    /\ FreeList = [k \in 1..Len(FreeList) |-> FreeList[k]]
    /\ \A k \in 1..Len(FreeList) :
          /\ FreeList[k] # NULL
          /\ FreeList[k] = IF k = 1 THEN free_list ELSE next[FreeList[k - 1]]
  <1> DEFINE at == Walk(free_list, next)
             ends == {m \in Addr : m = MaxAddr \/ at[m] = NULL}
             len == CHOOSE m \in Addr : /\ \A k \in 0..(m - 1) : at[k] # NULL
                                        /\ (m = MaxAddr \/ at[m] = NULL)
  <1>1. MaxAddr \in Nat
    BY HeapAssumption
  <1>2. \A k \in Nat : at[k] = IF k = 0 THEN free_list ELSE next[at[k - 1]]
    BY WalkExists
  <1> HIDE DEF at
  <1>3. PICK m \in ends : \A o \in ends : m <= o
    <2>1. ends \subseteq Nat /\ MaxAddr \in ends
      BY <1>1 DEF Addr
    <2> HIDE DEF ends
    <2> QED
      BY <2>1, LeastNumber
  <1>4. /\ m \in Addr /\ (m = MaxAddr \/ at[m] = NULL)
        /\ \A k \in 0..(m - 1) : at[k] # NULL
    BY <1>1, <1>3 DEF Addr
  <1>5. len \in Addr /\ \A k \in 0..(len - 1) : at[k] # NULL
    BY <1>4
  <1>6. FreeList = [k \in 1..len |-> at[k - 1]]
    BY DEF FreeList, at
  <1> HIDE DEF len
  <1>7. len \in Nat
    BY <1>1, <1>5 DEF Addr
  <1>8. Len(FreeList) = len
    BY <1>6, <1>7
  <1>9. \A k \in 1..len : FreeList[k] = at[k - 1]
    BY <1>6
  <1>10. ASSUME NEW k \in 1..len
         PROVE  /\ FreeList[k] # NULL
                /\ FreeList[k] = IF k = 1 THEN free_list ELSE next[FreeList[k - 1]]
    <2>1. k - 1 \in Nat /\ k - 1 \in 0..(len - 1) /\ (k # 1 => k - 1 \in 1..len)
      BY <1>7
    <2>2. k # 1 => FreeList[k - 1] = at[(k - 1) - 1]
      BY <1>9, <2>1
    <2> QED
      BY <1>2, <1>5, <1>9, <2>1, <2>2
  <1> QED
    BY <1>5, <1>6, <1>8, <1>9, <1>10

-----------------------------------------------------------------------------
(* A list of blocks: the blocks of L in the order of rk, from head on along   *)
(* the links nxt to NULL.                                                    *)
InOrder(L, rk, head, nxt) ==
    /\ L \subseteq Addr \ {NULL} /\ rk \in [Addr -> Int] /\ nxt \in [Addr -> Addr]
    /\ \A b, c \in L : b # c => rk[b] # rk[c]
    /\ head \in L \cup {NULL} /\ (head = NULL => L = {})
    /\ \A c \in L : rk[head] <= rk[c]
    /\ \A b \in L : nxt[b] \in L \cup {NULL} /\ (nxt[b] # NULL => rk[b] < rk[nxt[b]])
    /\ \A b, c \in L : rk[b] < rk[c] => nxt[b] # NULL /\ rk[nxt[b]] <= rk[c]

LEMMA AddrType == /\ Addr \subseteq Nat /\ NULL \in Addr /\ NULL = 0
                  /\ \A b \in Nat : b <= MaxAddr => b \in Addr
  BY HeapAssumption DEF Addr, NULL

(* The list from one of its blocks on is a list.                             *)
ListFrom(L, rk, x) == {c \in L : x # NULL /\ rk[x] <= rk[c]}

LEMMA CutTo ==
    ASSUME NEW L, NEW rk, NEW head, NEW nxt, InOrder(L, rk, head, nxt), NEW x \in L \cup {NULL}
    PROVE  InOrder(ListFrom(L, rk, x), rk, x, nxt)
  <1>1. /\ L \subseteq Addr \ {NULL} /\ rk \in [Addr -> Int] /\ nxt \in [Addr -> Addr]
        /\ \A b, c \in L : b # c => rk[b] # rk[c]
        /\ \A b \in L : nxt[b] \in L \cup {NULL} /\ (nxt[b] # NULL => rk[b] < rk[nxt[b]])
        /\ \A b, c \in L : rk[b] < rk[c] => nxt[b] # NULL /\ rk[nxt[b]] <= rk[c]
    BY DEF InOrder
  <1>2. \A b \in L : rk[b] \in Int
    BY <1>1
  <1>3. x # NULL => x \in ListFrom(L, rk, x)
    BY <1>2 DEF ListFrom
  <1>4. \A b \in ListFrom(L, rk, x) : nxt[b] \in ListFrom(L, rk, x) \cup {NULL}
    BY <1>1, <1>2 DEF ListFrom
  <1> QED
    BY <1>1, <1>3, <1>4 DEF InOrder, ListFrom

(* What lies between a block and one behind it can be taken out.             *)
Without(L, rk, y, x) == {c \in L : rk[c] <= rk[y]} \cup ListFrom(L, rk, x)

LEMMA CutBetween ==
    ASSUME NEW L, NEW rk, NEW head, NEW nxt, InOrder(L, rk, head, nxt),
           NEW y \in L, NEW x \in L \cup {NULL}, x # NULL => rk[y] < rk[x]
    PROVE  InOrder(Without(L, rk, y, x), rk, head, [nxt EXCEPT ![y] = x])
  <1> DEFINE K == Without(L, rk, y, x)
             nx == [nxt EXCEPT ![y] = x]
  <1>1. /\ L \subseteq Addr \ {NULL} /\ rk \in [Addr -> Int] /\ nxt \in [Addr -> Addr]
        /\ \A b, c \in L : b # c => rk[b] # rk[c]
        /\ head \in L /\ \A c \in L : rk[head] <= rk[c]
        /\ \A b \in L : nxt[b] \in L \cup {NULL} /\ (nxt[b] # NULL => rk[b] < rk[nxt[b]])
        /\ \A b, c \in L : rk[b] < rk[c] => nxt[b] # NULL /\ rk[nxt[b]] <= rk[c]
    BY DEF InOrder
  <1>2. \A b \in L : rk[b] \in Int
    BY <1>1
  <1>3. x \in Addr /\ y \in Addr /\ nx \in [Addr -> Addr] /\ nx[y] = x
    BY <1>1, AddrType
  <1>4. \A b \in L : b # y => nx[b] = nxt[b]
    BY <1>1
  <1>5. K \subseteq L /\ y \in K /\ head \in K /\ (x # NULL => x \in K)
    BY <1>1, <1>2 DEF Without, ListFrom
  <1>6. \A c \in K : c # y => rk[c] < rk[y] \/ (x # NULL /\ rk[x] <= rk[c])
    BY <1>1, <1>2 DEF Without, ListFrom
  <1>7. \A c \in L : rk[c] <= rk[y] \/ (x # NULL /\ rk[x] <= rk[c]) => c \in K
    BY DEF Without, ListFrom
  <1> HIDE DEF K, nx
  <1>8. ASSUME NEW b \in K
        PROVE  nx[b] \in K \cup {NULL} /\ (nx[b] # NULL => rk[b] < rk[nx[b]])
    <2>1. CASE b = y
      BY <1>3, <1>5, <2>1
    <2>2. CASE b # y /\ rk[b] < rk[y]
      <3>1. nx[b] = nxt[b] /\ nxt[b] \in L /\ rk[nxt[b]] <= rk[y] /\ nxt[b] # NULL /\ rk[b] < rk[nxt[b]]
        BY <1>1, <1>4, <1>5, <2>2
      <3> QED
        BY <1>7, <3>1
    <2>3. CASE b # y /\ x # NULL /\ rk[x] <= rk[b]
      <3>1. nx[b] = nxt[b] /\ nxt[b] \in L \cup {NULL} /\ (nxt[b] # NULL => rk[b] < rk[nxt[b]])
        BY <1>1, <1>4, <1>5, <2>3
      <3>2. nxt[b] # NULL => rk[x] <= rk[nxt[b]]
        BY <1>2, <1>5, <2>3, <3>1
      <3> QED
        BY <1>7, <2>3, <3>1, <3>2
    <2> QED
      BY <1>6, <2>1, <2>2, <2>3
  <1>9. ASSUME NEW b \in K, NEW c \in K, rk[b] < rk[c]
        PROVE  nx[b] # NULL /\ rk[nx[b]] <= rk[c]
    <2>1. CASE b = y
      BY <1>1, <1>2, <1>3, <1>5, <1>6, <1>9, <2>1
    <2>2. CASE b # y
      BY <1>1, <1>4, <1>5, <1>9, <2>2
    <2> QED
      BY <2>1, <2>2
  <1>10. K \subseteq Addr \ {NULL} /\ \A b, c \in K : b # c => rk[b] # rk[c]
    BY <1>1, <1>5
  <1>11. head \in K \cup {NULL} /\ head # NULL /\ \A c \in K : rk[head] <= rk[c]
    BY <1>1, <1>5
  <1> QED
    BY <1>1, <1>3, <1>8, <1>9, <1>10, <1>11 DEF InOrder, K, nx

(* A block put in front of a list.                                           *)
LEMMA PutInFront ==
    ASSUME NEW L, NEW rk, NEW head, NEW nxt, InOrder(L, rk, head, nxt),
           NEW x \in Addr \ {NULL}, x \notin L, NEW nx \in [Addr -> Addr],
           nx[x] = head, \A b \in L : nx[b] = nxt[b]
    PROVE  InOrder(L \cup {x}, [rk EXCEPT ![x] = rk[head] - 1], x, nx)
  <1> DEFINE rx == [rk EXCEPT ![x] = rk[head] - 1]
             K == L \cup {x}
  <1>1. /\ L \subseteq Addr \ {NULL} /\ rk \in [Addr -> Int] /\ nxt \in [Addr -> Addr]
        /\ \A b, c \in L : b # c => rk[b] # rk[c]
        /\ head \in L \cup {NULL} /\ (head = NULL => L = {})
        /\ \A c \in L : rk[head] <= rk[c]
        /\ \A b \in L : nxt[b] \in L \cup {NULL} /\ (nxt[b] # NULL => rk[b] < rk[nxt[b]])
        /\ \A b, c \in L : rk[b] < rk[c] => nxt[b] # NULL /\ rk[nxt[b]] <= rk[c]
    BY DEF InOrder
  <1>2. head \in Addr /\ rk[head] \in Int /\ \A b \in L : rk[b] \in Int
    BY <1>1, AddrType
  <1>3. rx \in [Addr -> Int] /\ rx[x] = rk[head] - 1 /\ \A b \in L : rx[b] = rk[b]
    BY <1>1, <1>2
  <1> HIDE DEF rx
  <1>4. \A b \in L : rx[x] < rx[b]
    BY <1>1, <1>2, <1>3
  <1>5. \A b, c \in K : b # c => rx[b] # rx[c]
    BY <1>1, <1>2, <1>3, <1>4
  <1>6. \A c \in K : rx[x] <= rx[c]
    BY <1>2, <1>3, <1>4
  <1>7. \A b \in K : nx[b] \in K \cup {NULL} /\ (nx[b] # NULL => rx[b] < rx[nx[b]])
    <2>1. nx[x] \in K \cup {NULL} /\ (nx[x] # NULL => rx[x] < rx[nx[x]])
      BY <1>1, <1>4
    <2>2. \A b \in L : nx[b] \in K \cup {NULL} /\ (nx[b] # NULL => rx[b] < rx[nx[b]])
      BY <1>1, <1>3
    <2> QED
      BY <2>1, <2>2
  <1>8. ASSUME NEW b \in K, NEW c \in K, rx[b] < rx[c]
        PROVE  nx[b] # NULL /\ rx[nx[b]] <= rx[c]
    <2>1. CASE b = x
      <3>1. c \in L
        BY <1>8, <1>3, <1>2, <2>1
      <3> QED
        BY <1>1, <1>3, <2>1, <3>1
    <2>2. CASE b \in L
      <3>1. c \in L
        BY <1>8, <1>2, <1>3, <1>4, <2>2
      <3>2. nxt[b] # NULL /\ rk[nxt[b]] <= rk[c] /\ nxt[b] \in L
        BY <1>1, <1>3, <1>8, <2>2, <3>1
      <3> QED
        BY <1>3, <2>2, <3>1, <3>2
    <2> QED
      BY <2>1, <2>2
  <1> QED
    BY <1>1, <1>3, <1>5, <1>6, <1>7, <1>8 DEF InOrder, rx

(* A block moved to the front.                                               *)
LEMMA MoveToFront ==
    ASSUME NEW L, NEW rk, NEW head, NEW nxt, InOrder(L, rk, head, nxt),
           NEW y \in L, NEW x \in L, x = nxt[y]
    PROVE  InOrder(L, [rk EXCEPT ![x] = rk[head] - 1], x, [nxt EXCEPT ![y] = nxt[x], ![x] = head])
  <1> DEFINE z == nxt[x]
             K == Without(L, rk, y, z)
             na == [nxt EXCEPT ![y] = z]
             nx == [nxt EXCEPT ![y] = z, ![x] = head]
  <1>1. /\ L \subseteq Addr \ {NULL} /\ rk \in [Addr -> Int] /\ nxt \in [Addr -> Addr]
        /\ \A b, c \in L : b # c => rk[b] # rk[c]
        /\ head \in L \cup {NULL}
        /\ \A b \in L : nxt[b] \in L \cup {NULL} /\ (nxt[b] # NULL => rk[b] < rk[nxt[b]])
        /\ \A b, c \in L : rk[b] < rk[c] => nxt[b] # NULL /\ rk[nxt[b]] <= rk[c]
    BY DEF InOrder
  <1>2. \A b \in L : rk[b] \in Int
    BY <1>1
  <1>3. z \in L \cup {NULL} /\ rk[y] < rk[x] /\ (z # NULL => rk[x] < rk[z])
    BY <1>1
  <1>4. z # NULL => rk[y] < rk[z]
    BY <1>2, <1>3
  <1> HIDE DEF z
  <1>5. InOrder(K, rk, head, na)
    BY <1>3, <1>4, CutBetween
  <1>6. x \notin K
    BY <1>2, <1>3 DEF Without, ListFrom
  <1>7. \A c \in L : c # x => c \in K
    <2> SUFFICES ASSUME NEW c \in L, c # x, ~(rk[c] <= rk[y]) PROVE z # NULL /\ rk[z] <= rk[c]
      BY DEF Without, ListFrom
    <2>1. rk[y] < rk[c]
      BY <1>2
    <2>2. rk[x] <= rk[c] /\ rk[x] # rk[c]
      BY <1>1, <2>1
    <2>3. rk[x] < rk[c]
      BY <1>2, <2>2
    <2> QED
      BY <1>1, <2>3 DEF z
  <1>8. K \subseteq L
    BY DEF Without, ListFrom
  <1>9. K \cup {x} = L
    BY <1>7, <1>8
  <1>10. x \in Addr \ {NULL} /\ head \in Addr /\ z \in Addr /\ y # x
    BY <1>1, <1>2, <1>3, AddrType
  <1>11. nx \in [Addr -> Addr] /\ nx[x] = head
    BY <1>1, <1>10
  <1>12. \A b \in K : nx[b] = na[b]
    BY <1>1, <1>6, <1>8, <1>10
  <1> HIDE DEF K, na, nx
  <1>13. InOrder(K \cup {x}, [rk EXCEPT ![x] = rk[head] - 1], x, nx)
    BY <1>5, <1>6, <1>10, <1>11, <1>12, PutInFront
  <1> QED
    BY <1>9, <1>13 DEF nx, z

-----------------------------------------------------------------------------
(* The invariant. *)

TypeOK ==
    /\ size \in [Addr -> Nat] /\ next \in [Addr -> Addr]
    /\ free_list \in Addr /\ free_mem_addr \in Start..MaxAddr
    /\ pc \in {"idle", "test", "advance", "unlink", "link", "bump", "size", "grow", "freed"}
    /\ n \in Nat /\ (pc \notin {"idle", "freed"} => n \in Sizes)
    /\ {p, q, t} \subseteq Addr
    /\ DOMAIN live \subseteq Addr
    /\ torn \in BOOLEAN

(* Blocks lie above each other below top.                                    *)
Placed(U, sz, top) ==
    /\ \A b \in U : Start <= b /\ sz[b] >= 1 /\ b + Header + sz[b] <= top
    /\ \A b, c \in U : b < c => b + Header + sz[b] <= c

(* The block free has taken from its owner and not yet put on the list.      *)
InHand == IF pc = "freed" THEN {p} ELSE {}

(* What malloc and free hold between two memory accesses: p stands behind q  *)
(* when it will be taken, and t behind p, whatever TAB has moved meanwhile.  *)
SearchInv(L, rk) ==
    /\ pc \in {"test", "unlink", "link"} =>
          /\ {p, q} \subseteq L \cup {NULL}
          /\ NULL \notin {p, q} /\ Fits(p, n) => rk[q] < rk[p]
    /\ pc \in {"unlink", "link"} => p # NULL /\ Fits(p, n)
    /\ pc = "link" => t \in L \cup {NULL} /\ (t # NULL => rk[p] < rk[t])
    /\ pc = "advance" => p \in L /\ q = p
    /\ pc \in {"size", "grow"} => p = free_mem_addr /\ After(p, n) <= MaxAddr
    /\ pc = "grow" => size[p] = Round(n)
    /\ pc = "freed" => /\ p # NULL /\ p \notin L /\ p \notin DOMAIN live
                       /\ next[p] \in L \cup {NULL}

HeapAt(L, rk) ==
    /\ InOrder(L, rk, free_list, next)
    /\ L \cap DOMAIN live = {}
    /\ Placed(L \cup DOMAIN live \cup InHand, size, free_mem_addr)
    /\ \A b \in DOMAIN live : size[b] >= live[b]
    /\ SearchInv(L, rk)

HeapInv == TypeOK /\ (~torn => \E L, rk : HeapAt(L, rk))

LEMMA HeapInit == Init => HeapInv
  <1> SUFFICES ASSUME Init PROVE HeapInv
    OBVIOUS
  <1>1. NULL \in Addr /\ NULL \in Nat /\ Start \in Start..MaxAddr
    BY AddrType, HeapAssumption
  <1>2. TypeOK
    <2>1. size \in [Addr -> Nat] /\ next \in [Addr -> Addr] /\ DOMAIN live = {}
      BY <1>1 DEF Init
    <2> QED
      BY <1>1, <2>1 DEF Init, TypeOK
  <1>3. HeapAt({}, [b \in Addr |-> 0])
    <2> DEFINE rk == [b \in Addr |-> 0]
    <2>1. rk \in [Addr -> Int] /\ next \in [Addr -> Addr] /\ free_list = NULL
      BY <1>1 DEF Init
    <2> HIDE DEF rk
    <2>2. InOrder({}, rk, free_list, next)
      BY <2>1 DEF InOrder
    <2>3. DOMAIN live = {} /\ InHand = {} /\ SearchInv({}, rk)
      BY DEF Init, InHand, SearchInv
    <2>4. Placed({} \cup DOMAIN live \cup InHand, size, free_mem_addr)
      BY <2>3 DEF Placed
    <2> QED
      BY <2>2, <2>3, <2>4 DEF HeapAt, rk
  <1> QED
    BY <1>2, <1>3 DEF HeapInv

(* A set of fewer blocks is placed as well, and so is one more at the top.   *)
LEMMA FewerPlaced ==
    ASSUME NEW U, NEW V, NEW sz, NEW top, Placed(U, sz, top), V \subseteq U
    PROVE  Placed(V, sz, top)
  BY DEF Placed

LEMMA OneMorePlaced ==
    ASSUME NEW U \in SUBSET Addr, NEW sz \in [Addr -> Nat], NEW top \in Start..MaxAddr,
           Placed(U, sz, top),
           NEW k \in Sizes \cup TabSizes, NEW sx, sx[top] = Round(k), \A b \in U : sx[b] = sz[b]
    PROVE  Placed(U \cup {top}, sx, After(top, k))
  <1>1. /\ top \in Nat /\ Start <= top /\ k \in Nat /\ k >= 1 /\ Header \in Nat /\ Start \in Nat
        /\ U \subseteq Nat
    BY AddrType, HeapAssumption
  <1>2. Round(k) \in Nat /\ Round(k) >= 1 /\ After(top, k) = top + Header + Round(k)
    <2>1. Round(k) \in Nat /\ Round(k) >= 1
      BY <1>1, RoundType
    <2> QED
      BY <1>1, <2>1, AfterType
  <1>3. \A b \in U : b \in Nat /\ sz[b] \in Nat /\ Start <= b /\ sz[b] >= 1 /\ b + Header + sz[b] <= top
    BY <1>1 DEF Placed
  <1>4. \A b, c \in U : b < c => b + Header + sz[b] <= c
    BY DEF Placed
  <1>5. \A b \in U : sx[b] = sz[b] /\ b < top
    BY <1>1, <1>3
  <1>6. \A b \in U \cup {top} : Start <= b /\ sx[b] >= 1 /\ b + Header + sx[b] <= After(top, k)
    <2>1. \A b \in U : b + Header + sx[b] <= After(top, k)
      BY <1>1, <1>2, <1>3, <1>5
    <2> QED
      BY <1>1, <1>2, <1>3, <1>5, <2>1
  <1>7. \A b, c \in U \cup {top} : b < c => b + Header + sx[b] <= c
    BY <1>1, <1>3, <1>4, <1>5
  <1> QED
    BY <1>6, <1>7 DEF Placed

(* The first byte never allocated belongs to no block.                       *)
LEMMA TopIsFree ==
    ASSUME NEW U \in SUBSET Addr, NEW sz \in [Addr -> Nat], NEW top \in Nat, Placed(U, sz, top)
    PROVE  top \notin U /\ NULL \notin U
  <1>1. Header \in Nat /\ Start \in Nat /\ Start > 0 /\ U \subseteq Nat /\ NULL = 0
    BY AddrType, HeapAssumption
  <1> QED
    BY <1>1 DEF Placed

LEMMA SizesType == Sizes \subseteq Nat /\ TabSizes \subseteq Nat
  BY HeapAssumption

LEMMA Blocks ==
    ASSUME TypeOK, NEW L, NEW rk, HeapAt(L, rk)
    PROVE  /\ L \cup DOMAIN live \cup InHand \in SUBSET Addr
           /\ free_mem_addr \in Nat /\ free_mem_addr \in Addr /\ free_mem_addr <= MaxAddr
           /\ free_mem_addr \notin L \cup DOMAIN live \cup InHand
           /\ NULL \notin L \cup DOMAIN live \cup InHand
  <1>1. L \subseteq Addr
    BY DEF HeapAt, InOrder
  <1>2. L \cup DOMAIN live \cup InHand \in SUBSET Addr
    BY <1>1 DEF TypeOK, InHand
  <1>3. free_mem_addr \in Nat /\ free_mem_addr <= MaxAddr
    BY HeapAssumption DEF TypeOK
  <1>4. free_mem_addr \in Addr
    BY <1>3, AddrType
  <1> QED
    BY <1>2, <1>3, <1>4, TopIsFree DEF HeapAt, TypeOK

-----------------------------------------------------------------------------
(* The steps of the main loop that only move it. *)

LEMMA StillHeap ==
    ASSUME NEW L, NEW rk, HeapAt(L, rk), UNCHANGED <<heap, live>>, pc # "freed", pc' # "freed",
           SearchInv(L, rk)'
    PROVE  HeapAt(L, rk)'
  <1>1. InHand = {} /\ InHand' = {}
    BY DEF InHand
  <1> QED
    BY <1>1 DEF HeapAt, heap

LEMMA MallocStep ==
    ASSUME HeapInv, ~torn, NEW k \in Sizes, Malloc(k)
    PROVE  HeapInv'
  <1>1. TypeOK'
    BY AddrType, SizesType DEF HeapInv, TypeOK, Malloc, heap, Goto
  <1>2. PICK L, rk : HeapAt(L, rk)
    BY DEF HeapInv
  <1>3. SearchInv(L, rk)'
    BY <1>2 DEF Malloc, Goto, HeapAt, SearchInv, InOrder
  <1>4. HeapAt(L, rk)'
    BY <1>2, <1>3, StillHeap DEF Malloc, Goto
  <1> QED
    BY <1>1, <1>4 DEF HeapInv

LEMMA TestStep ==
    ASSUME HeapInv, ~torn, Test
    PROVE  HeapInv'
  <1>1. TypeOK'
    BY DEF HeapInv, TypeOK, Test, heap, Goto
  <1>2. PICK L, rk : HeapAt(L, rk)
    BY DEF HeapInv
  <1>3. SearchInv(L, rk)'
    <2>1. {p, q} \subseteq L \cup {NULL} /\ (NULL \notin {p, q} /\ Fits(p, n) => rk[q] < rk[p])
      BY <1>2 DEF Test, HeapAt, SearchInv
    <2>2. UNCHANGED <<size, p, n>> /\ (Fits(p, n)' <=> Fits(p, n))
      BY DEF Test, heap, Fits, Round
    <2>3. CASE p = NULL
      BY <2>3 DEF Test, Goto, SearchInv
    <2>4. CASE p # NULL /\ Fits(p, n)
      BY <2>1, <2>2, <2>4 DEF Test, Goto, SearchInv
    <2>5. CASE p # NULL /\ ~Fits(p, n)
      BY <2>1, <2>2, <2>5 DEF Test, Goto, SearchInv
    <2> QED
      BY <2>3, <2>4, <2>5
  <1>4. pc # "freed" /\ pc' # "freed" /\ UNCHANGED <<heap, live>>
    BY DEF Test, Goto
  <1>5. HeapAt(L, rk)'
    BY <1>2, <1>3, <1>4, StillHeap
  <1> QED
    BY <1>1, <1>5 DEF HeapInv

LEMMA AdvanceStep ==
    ASSUME HeapInv, ~torn, Advance
    PROVE  HeapInv'
  <1>1. TypeOK'
    BY AddrType DEF HeapInv, TypeOK, Advance, heap, Goto
  <1>2. PICK L, rk : HeapAt(L, rk)
    BY DEF HeapInv
  <1>3. SearchInv(L, rk)'
    BY <1>2 DEF Advance, Goto, HeapAt, SearchInv, InOrder
  <1>4. HeapAt(L, rk)'
    BY <1>2, <1>3, StillHeap DEF Advance, Goto
  <1> QED
    BY <1>1, <1>4 DEF HeapInv

LEMMA UnlinkStep ==
    ASSUME HeapInv, ~torn, Unlink
    PROVE  HeapInv'
  <1>1. TypeOK'
    BY AddrType DEF HeapInv, TypeOK, Unlink, heap, Goto
  <1>2. PICK L, rk : HeapAt(L, rk)
    BY DEF HeapInv
  <1>3. SearchInv(L, rk)'
    <2>1. UNCHANGED <<size, p, q, n>> /\ (Fits(p, n)' <=> Fits(p, n))
      BY DEF Unlink, heap, Fits, Round
    <2> QED
      BY <1>2, <2>1 DEF Unlink, Goto, HeapAt, SearchInv, InOrder
  <1>4. HeapAt(L, rk)'
    BY <1>2, <1>3, StillHeap DEF Unlink, Goto
  <1> QED
    BY <1>1, <1>4 DEF HeapInv

LEMMA BumpStep ==
    ASSUME HeapInv, ~torn, Bump
    PROVE  HeapInv'
  <1>1. TypeOK'
    <2>1. free_mem_addr \in Addr
      BY AddrType, HeapAssumption DEF HeapInv, TypeOK
    <2> QED
      BY <2>1 DEF HeapInv, TypeOK, Bump, heap, Goto
  <1>2. PICK L, rk : HeapAt(L, rk)
    BY DEF HeapInv
  <1>3. SearchInv(L, rk)'
    BY <1>2 DEF Bump, Goto, SearchInv, heap, After, Round
  <1>4. HeapAt(L, rk)'
    BY <1>2, <1>3, StillHeap DEF Bump, Goto
  <1> QED
    BY <1>1, <1>4 DEF HeapInv

(* The size is written where no block is yet.                                *)
LEMMA SetSizeStep ==
    ASSUME HeapInv, ~torn, SetSize
    PROVE  HeapInv'
  <1>1. PICK L, rk : HeapAt(L, rk)
    BY DEF HeapInv
  <1> DEFINE U == L \cup DOMAIN live \cup InHand
  <1>2. /\ TypeOK /\ p = free_mem_addr /\ After(p, n) <= MaxAddr /\ n \in Nat /\ p \in Addr
        /\ Round(n) \in Nat
    BY <1>1, RoundType DEF HeapInv, HeapAt, SearchInv, SetSize, TypeOK
  <1>3. U \in SUBSET Addr /\ p \notin U
    BY <1>1, <1>2, Blocks
  <1>4. /\ size' = [size EXCEPT ![p] = Round(n)] /\ size \in [Addr -> Nat]
        /\ UNCHANGED <<next, free_list, free_mem_addr, n, p, q, t, live, torn>>
        /\ pc = "size" /\ pc' = "grow"
    BY <1>2 DEF SetSize, TypeOK, Goto
  <1>5. size' \in [Addr -> Nat] /\ size'[p] = Round(n) /\ \A b \in U : size'[b] = size[b]
    BY <1>2, <1>3, <1>4
  <1>6. TypeOK'
    BY <1>2, <1>4, <1>5 DEF TypeOK
  <1>7. InHand = {} /\ InHand' = {}
    BY <1>4 DEF InHand
  <1>8. Placed(U, size, free_mem_addr)
    BY <1>1 DEF HeapAt
  <1>9. Placed(U, size', free_mem_addr)
    BY <1>5, <1>8 DEF Placed
  <1>10. SearchInv(L, rk)'
    BY <1>2, <1>4, <1>5 DEF SearchInv, After, Round
  <1>11. \A b \in DOMAIN live : size'[b] >= live[b]
    BY <1>1, <1>5 DEF HeapAt
  <1>12. HeapAt(L, rk)'
    BY <1>1, <1>4, <1>7, <1>9, <1>10, <1>11 DEF HeapAt
  <1> QED
    BY <1>6, <1>12 DEF HeapInv

-----------------------------------------------------------------------------
(* The steps of the main loop that take a block or give one back. *)

LEMMA OwnType ==
    ASSUME NEW b, Own(b)
    PROVE  /\ DOMAIN live' = DOMAIN live \cup {b} /\ live'[b] = n
           /\ \A a \in DOMAIN live : a # b => live'[a] = live[a]
  BY DEF Own

LEMMA LinkStep ==
    ASSUME HeapInv, ~torn, Link
    PROVE  HeapInv'
  <1>1. PICK L, rk : HeapAt(L, rk)
    BY DEF HeapInv
  <1>2. /\ TypeOK /\ pc = "link" /\ pc' = "idle" /\ p' = NULL /\ q' = NULL /\ t' = NULL /\ n' = 0
        /\ IF q # NULL THEN next' = [next EXCEPT ![q] = t] /\ UNCHANGED free_list
                       ELSE free_list' = t /\ UNCHANGED next
        /\ UNCHANGED <<size, free_mem_addr, torn>>
    BY DEF HeapInv, Link, Forget, Goto
  <1>3. DOMAIN live' = DOMAIN live \cup {p} /\ live'[p] = n
        /\ \A a \in DOMAIN live : a # p => live'[a] = live[a]
    BY OwnType DEF Link
  <1>4. /\ p \in L /\ q \in L \cup {NULL} /\ t \in L \cup {NULL} /\ Fits(p, n)
        /\ (t # NULL => rk[p] < rk[t]) /\ (q # NULL => rk[q] < rk[p])
    BY <1>1, <1>2 DEF HeapAt, SearchInv
  <1>5. InOrder(L, rk, free_list, next) /\ \A b \in L : rk[b] \in Int
    BY <1>1 DEF HeapAt, InOrder
  <1>6. PICK K : K = IF q # NULL THEN Without(L, rk, q, t) ELSE ListFrom(L, rk, t)
    OBVIOUS
  <1>7. InOrder(K, rk, free_list', next')
    <2>1. CASE q # NULL
      <3>1. t # NULL => rk[q] < rk[t]
        BY <1>4, <1>5, <2>1
      <3>2. InOrder(Without(L, rk, q, t), rk, free_list, [next EXCEPT ![q] = t])
        BY <1>4, <1>5, <2>1, <3>1, CutBetween
      <3> QED
        BY <1>2, <1>6, <2>1, <3>2
    <2>2. CASE q = NULL
      <3>1. InOrder(ListFrom(L, rk, t), rk, t, next)
        BY <1>4, <1>5, CutTo
      <3> QED
        BY <1>2, <1>6, <2>2, <3>1
    <2> QED
      BY <2>1, <2>2
  <1>8. K \subseteq L /\ p \notin K
    BY <1>4, <1>5, <1>6 DEF Without, ListFrom
  <1>9. InHand = {} /\ InHand' = {}
    BY <1>2 DEF InHand
  <1>10. Placed(K \cup DOMAIN live' \cup InHand', size', free_mem_addr')
    <2>1. K \cup DOMAIN live' \cup InHand' \subseteq L \cup DOMAIN live \cup InHand
      BY <1>3, <1>4, <1>8, <1>9
    <2> QED
      BY <1>1, <1>2, <2>1, FewerPlaced DEF HeapAt
  <1>11. size[p] >= n
    <2>1. size[p] \in Int /\ n \in Nat /\ size[p] >= Round(n)
      BY <1>1, <1>2, <1>4 DEF TypeOK, Fits
    <2> QED
      BY <2>1, RoundType
  <1>12. \A b \in DOMAIN live' : size'[b] >= live'[b]
    BY <1>1, <1>2, <1>3, <1>11 DEF HeapAt
  <1>13. K \cap DOMAIN live' = {}
    BY <1>1, <1>3, <1>8 DEF HeapAt
  <1>14. SearchInv(K, rk)'
    BY <1>2 DEF SearchInv
  <1>15. HeapAt(K, rk)'
    BY <1>7, <1>10, <1>12, <1>13, <1>14 DEF HeapAt
  <1>16. TypeOK'
    <2>1. next' \in [Addr -> Addr] /\ free_list' \in Addr
      BY <1>2, AddrType DEF TypeOK
    <2>2. DOMAIN live' \subseteq Addr
      BY <1>2, <1>3 DEF TypeOK
    <2> QED
      BY <1>2, <2>1, <2>2, AddrType DEF TypeOK
  <1> QED
    BY <1>15, <1>16 DEF HeapInv

LEMMA GrowStep ==
    ASSUME HeapInv, ~torn, Grow
    PROVE  HeapInv'
  <1>1. PICK L, rk : HeapAt(L, rk)
    BY DEF HeapInv
  <1> DEFINE U == L \cup DOMAIN live \cup InHand
  <1>2. /\ TypeOK /\ pc = "grow" /\ pc' = "idle" /\ p' = NULL /\ q' = NULL /\ t' = NULL /\ n' = 0
        /\ free_mem_addr' = After(free_mem_addr, n)
        /\ UNCHANGED <<size, next, free_list, torn>>
    BY DEF HeapInv, Grow, Forget, Goto
  <1>3. DOMAIN live' = DOMAIN live \cup {p} /\ live'[p] = n
        /\ \A a \in DOMAIN live : a # p => live'[a] = live[a]
    BY OwnType DEF Grow
  <1>4. /\ p = free_mem_addr /\ n \in Sizes /\ n \in Nat /\ size[p] = Round(n)
        /\ After(p, n) <= MaxAddr
    BY <1>1, <1>2 DEF HeapAt, SearchInv, TypeOK
  <1>5. U \in SUBSET Addr /\ p \notin U /\ p \in Nat /\ p \in Addr
    BY <1>1, <1>2, <1>4, Blocks
  <1>6. InHand = {} /\ InHand' = {}
    BY <1>2 DEF InHand
  <1>7. Placed(U, size, free_mem_addr) /\ size \in [Addr -> Nat] /\ free_mem_addr \in Start..MaxAddr
    BY <1>1, <1>2 DEF HeapAt, TypeOK
  <1>8. Placed(U \cup {p}, size, After(p, n))
    BY <1>4, <1>5, <1>7, OneMorePlaced
  <1>9. Placed(L \cup DOMAIN live' \cup InHand', size', free_mem_addr')
    <2>1. L \cup DOMAIN live' \cup InHand' = U \cup {p}
      BY <1>3, <1>6
    <2> QED
      BY <1>2, <1>4, <1>8, <2>1
  <1>10. size[p] >= n
    BY <1>4, RoundType
  <1>11. \A b \in DOMAIN live' : size'[b] >= live'[b]
    BY <1>1, <1>2, <1>3, <1>10 DEF HeapAt
  <1>12. L \cap DOMAIN live' = {}
    BY <1>1, <1>3, <1>5 DEF HeapAt
  <1>13. SearchInv(L, rk)'
    BY <1>2 DEF SearchInv
  <1>14. HeapAt(L, rk)'
    BY <1>1, <1>2, <1>9, <1>11, <1>12, <1>13 DEF HeapAt
  <1>15. TypeOK'
    <2>1. free_mem_addr' \in Start..MaxAddr
      <3>1. Round(n) \in Nat /\ Header \in Nat /\ Start \in Nat /\ MaxAddr \in Nat
        BY <1>4, RoundType, HeapAssumption
      <3>2. After(p, n) = p + Header + Round(n)
        BY <1>4, <1>5, AfterType
      <3> QED
        BY <1>2, <1>4, <1>5, <1>7, <3>1, <3>2
    <2>2. DOMAIN live' \subseteq Addr
      BY <1>2, <1>3, <1>5 DEF TypeOK
    <2> QED
      BY <1>2, <2>1, <2>2, AddrType DEF TypeOK
  <1> QED
    BY <1>14, <1>15 DEF HeapInv

LEMMA FreeStep ==
    ASSUME HeapInv, ~torn, NEW b \in DOMAIN live, Free(b)
    PROVE  HeapInv'
  <1>1. PICK L, rk : HeapAt(L, rk)
    BY DEF HeapInv
  <1>2. /\ TypeOK /\ pc = "idle" /\ pc' = "freed" /\ p' = b
        /\ next' = [next EXCEPT ![b] = free_list]
        /\ UNCHANGED <<size, free_list, free_mem_addr, n, q, t, torn>>
    BY DEF HeapInv, Free, Goto
  <1>3. DOMAIN live' = DOMAIN live \ {b} /\ \A a \in DOMAIN live' : live'[a] = live[a]
    BY DEF Free
  <1>4. /\ InOrder(L, rk, free_list, next) /\ L \cap DOMAIN live = {}
        /\ L \subseteq Addr /\ next \in [Addr -> Addr] /\ free_list \in L \cup {NULL}
    BY <1>1 DEF HeapAt, InOrder
  <1>5. b \in Addr /\ b # NULL /\ b \notin L
    BY <1>1, <1>2, <1>4, Blocks DEF TypeOK
  <1>6. free_list \in Addr
    BY <1>2 DEF TypeOK
  <1>7. next' \in [Addr -> Addr] /\ next'[b] = free_list /\ \A a \in L : next'[a] = next[a]
    BY <1>2, <1>4, <1>5, <1>6
  <1>8. InOrder(L, rk, free_list', next')
    BY <1>2, <1>4, <1>7 DEF InOrder
  <1>9. Placed(L \cup DOMAIN live' \cup InHand', size', free_mem_addr')
    <2>1. L \cup DOMAIN live' \cup InHand' \subseteq L \cup DOMAIN live \cup InHand
      BY <1>2, <1>3 DEF InHand
    <2> QED
      BY <1>1, <1>2, <2>1, FewerPlaced DEF HeapAt
  <1>10. \A a \in DOMAIN live' : size'[a] >= live'[a]
    BY <1>1, <1>2, <1>3 DEF HeapAt
  <1>11. SearchInv(L, rk)'
    BY <1>2, <1>3, <1>4, <1>5, <1>7 DEF SearchInv
  <1>12. HeapAt(L, rk)'
    BY <1>3, <1>4, <1>8, <1>9, <1>10, <1>11 DEF HeapAt
  <1>13. TypeOK'
    BY <1>2, <1>3, <1>5, <1>7 DEF TypeOK
  <1> QED
    BY <1>12, <1>13 DEF HeapInv

(* The block goes to the front; what TAB has put there meanwhile is lost.    *)
LEMMA FreedStep ==
    ASSUME HeapInv, ~torn, Freed
    PROVE  HeapInv'
  <1>1. PICK L, rk : HeapAt(L, rk)
    BY DEF HeapInv
  <1>2. /\ TypeOK /\ pc = "freed" /\ pc' = "idle" /\ p' = NULL /\ q' = NULL /\ t' = NULL /\ n' = 0
        /\ free_list' = p
        /\ UNCHANGED <<size, next, free_mem_addr, live, torn>>
    BY DEF HeapInv, Freed, Forget, Goto
  <1>3. /\ p # NULL /\ p \notin L /\ p \notin DOMAIN live /\ next[p] \in L \cup {NULL}
        /\ p \in Addr
    BY <1>1, <1>2 DEF HeapAt, SearchInv, TypeOK
  <1> DEFINE K == ListFrom(L, rk, next[p])
             rx == [rk EXCEPT ![p] = rk[next[p]] - 1]
  <1>4. InOrder(K, rk, next[p], next) /\ next \in [Addr -> Addr]
    BY <1>1, <1>3, CutTo DEF HeapAt, InOrder
  <1>5. K \subseteq L
    BY DEF ListFrom
  <1> HIDE DEF K
  <1>6. InOrder(K \cup {p}, rx, p, next)
    BY <1>3, <1>4, <1>5, PutInFront
  <1> HIDE DEF rx
  <1>7. PICK M, rm : M = K \cup {p} /\ rm = rx
    OBVIOUS
  <1>8. InHand = {p} /\ InHand' = {}
    BY <1>2 DEF InHand
  <1>9. Placed(M \cup DOMAIN live' \cup InHand', size', free_mem_addr')
    <2>1. M \cup DOMAIN live' \cup InHand' \subseteq L \cup DOMAIN live \cup InHand
      BY <1>2, <1>5, <1>8, <1>7
    <2> QED
      BY <1>1, <1>2, <2>1, FewerPlaced DEF HeapAt
  <1>10. SearchInv(M, rm)'
    BY <1>2 DEF SearchInv
  <1>11. M \cap DOMAIN live = {}
    BY <1>1, <1>3, <1>5, <1>7 DEF HeapAt
  <1>12. HeapAt(M, rm)'
    BY <1>1, <1>2, <1>6, <1>9, <1>10, <1>11, <1>7 DEF HeapAt
  <1>13. TypeOK'
    BY <1>2, <1>3, AddrType DEF TypeOK
  <1> QED
    BY <1>12, <1>13 DEF HeapInv

-----------------------------------------------------------------------------
(* TAB. *)

(* The free list holds blocks of L, each once, in the order of rk.           *)
LEMMA ListIsInOrder ==
    ASSUME NEW L, NEW rk, InOrder(L, rk, free_list, next)
    PROVE  /\ \A k \in 1..Len(FreeList) : FreeList[k] \in L
           /\ \A i, j \in 1..Len(FreeList) : i < j => rk[FreeList[i]] < rk[FreeList[j]]
  <1> DEFINE s == FreeList
             len == Len(FreeList)
             bad == {k \in 1..len : s[k] \notin L}
  <1>1. /\ \A b \in L : rk[b] \in Int /\ next[b] \in L \cup {NULL}
        /\ \A b \in L : next[b] # NULL => rk[b] < rk[next[b]]
        /\ free_list \in L \cup {NULL}
    BY DEF InOrder
  <1>2. len \in Nat /\ \A k \in 1..len : s[k] # NULL /\ s[k] = IF k = 1 THEN free_list ELSE next[s[k - 1]]
    BY ListIsPath, AddrType
  <1> HIDE DEF s, len
  <1>3. \A k \in 1..len : s[k] \in L
    <2>1. SUFFICES ASSUME bad # {} PROVE FALSE
      OBVIOUS
    <2>2. PICK k \in bad : \A j \in bad : k <= j
      <3>1. bad \subseteq Nat
        BY <1>2
      <3> HIDE DEF bad
      <3> QED
        BY <2>1, <3>1, LeastNumber
    <2>3. k # 1 => k - 1 \in 1..len /\ k - 1 \notin bad
      BY <1>2, <2>2
    <2> QED
      BY <1>1, <1>2, <2>2, <2>3
  <1>4. \A k \in 1..len : k # 1 => rk[s[k - 1]] < rk[s[k]]
    <2> SUFFICES ASSUME NEW k \in 1..len, k # 1 PROVE rk[s[k - 1]] < rk[s[k]]
      OBVIOUS
    <2>1. k - 1 \in 1..len
      BY <1>2
    <2> QED
      BY <1>1, <1>2, <1>3, <2>1
  <1>5. ASSUME NEW i \in 1..len
        PROVE  \A j \in 1..len : i < j => rk[s[i]] < rk[s[j]]
    <2> DEFINE late == {j \in 1..len : i < j /\ ~(rk[s[i]] < rk[s[j]])}
    <2>1. SUFFICES ASSUME late # {} PROVE FALSE
      OBVIOUS
    <2>2. PICK j \in late : \A o \in late : j <= o
      <3>1. late \subseteq Nat
        BY <1>2
      <3> HIDE DEF late
      <3> QED
        BY <2>1, <3>1, LeastNumber
    <2>3. j - 1 \in 1..len /\ j - 1 \notin late /\ j # 1
      BY <1>2, <2>2
    <2>4. j - 1 = i \/ rk[s[i]] < rk[s[j - 1]]
      BY <2>2, <2>3
    <2>5. rk[s[j - 1]] < rk[s[j]]
      BY <1>4, <2>2, <2>3
    <2>6. rk[s[i]] \in Int /\ rk[s[j]] \in Int /\ rk[s[j - 1]] \in Int
      BY <1>1, <1>3, <2>2, <2>3
    <2> QED
      BY <2>2, <2>4, <2>5, <2>6
  <1> QED
    BY <1>3, <1>5 DEF s, len

LEMMA FirstFitType ==
    ASSUME NEW k
    PROVE  FirstFit(k) = 0 \/ FirstFit(k) \in 1..Len(FreeList)
  <1> DEFINE fit == {m \in 1..Len(FreeList) : Fits(FreeList[m], k)}
  <1>1. fit \subseteq Nat
    BY ListIsPath, AddrType
  <1>2. fit # {} => \E m \in fit : \A o \in fit : m <= o
    <2> HIDE DEF fit
    <2> QED
      BY <1>1, LeastNumber
  <1>3. FirstFit(k) = IF fit = {} THEN 0 ELSE CHOOSE m \in fit : \A o \in fit : m <= o
    BY DEF FirstFit
  <1>4. fit # {} => FirstFit(k) \in fit
    <2> HIDE DEF fit
    <2> QED
      BY <1>2, <1>3
  <1> QED
    BY <1>3, <1>4

(* The two ways TAB may go, with what it has in hand.                        *)
TabNew(k) ==
    /\ torn' = Tears(NULL)
    /\ After(free_mem_addr, k) <= MaxAddr
    /\ size' = [size EXCEPT ![free_mem_addr] = Round(k)]
    /\ next' = [next EXCEPT ![free_mem_addr] = free_list]
    /\ free_list' = free_mem_addr
    /\ free_mem_addr' = After(free_mem_addr, k)

TabMoves(y, x) ==
    /\ torn' = Tears(x) /\ x = next[y]
    /\ next' = [next EXCEPT ![y] = next[x], ![x] = free_list]
    /\ free_list' = x
    /\ UNCHANGED <<size, free_mem_addr>>

TabStays == torn' = Tears(free_list) /\ UNCHANGED heap

LEMMA TabCases ==
    ASSUME NEW L, NEW rk, InOrder(L, rk, free_list, next), NEW k, TabMalloc(k)
    PROVE  TabNew(k) \/ TabStays \/ \E y, x \in L : TabMoves(y, x)
  <1> DEFINE m == FirstFit(k)
             s == FreeList
             x == IF m = 0 THEN NULL ELSE s[m]
  <1>1. m = 0 \/ m \in 1..Len(s)
    BY FirstFitType
  <1>2. /\ Len(s) \in Nat
        /\ \A i \in 1..Len(s) : s[i] = IF i = 1 THEN free_list ELSE next[s[i - 1]]
        /\ \A i \in 1..Len(s) : s[i] \in L
    BY ListIsPath, ListIsInOrder, AddrType
  <1>3. /\ torn' = Tears(x)
        /\ IF m = 0
           THEN /\ After(free_mem_addr, k) <= MaxAddr
                /\ size' = [size EXCEPT ![free_mem_addr] = Round(k)]
                /\ next' = [next EXCEPT ![free_mem_addr] = free_list]
                /\ free_list' = free_mem_addr
                /\ free_mem_addr' = After(free_mem_addr, k)
           ELSE /\ next' = IF m = 1 THEN next
                           ELSE [next EXCEPT ![s[m - 1]] = next[x], ![x] = free_list]
                /\ free_list' = x
                /\ UNCHANGED <<size, free_mem_addr>>
    BY DEF TabMalloc
  <1> HIDE DEF m, s
  <1>4. CASE m = 0
    BY <1>3, <1>4 DEF TabNew
  <1>5. CASE m = 1
    <2>1. x = free_list
      BY <1>1, <1>2, <1>5
    <2> QED
      BY <1>3, <1>5, <2>1 DEF TabStays, heap
  <1>6. CASE m # 0 /\ m # 1
    <2>1. m \in 1..Len(s) /\ m - 1 \in 1..Len(s)
      BY <1>1, <1>2, <1>6
    <2>2. x = s[m] /\ x = next[s[m - 1]] /\ x \in L /\ s[m - 1] \in L
      BY <1>2, <1>6, <2>1
    <2>3. TabMoves(s[m - 1], x)
      BY <1>3, <1>6, <2>2 DEF TabMoves
    <2> QED
      BY <2>2, <2>3
  <1> QED
    BY <1>4, <1>5, <1>6

LEMMA TabNewStep ==
    ASSUME TypeOK, NEW L, NEW rk, HeapAt(L, rk), NEW k \in TabSizes, TabNew(k), ~torn',
           UNCHANGED <<locals, live>>
    PROVE  \E M, rm : HeapAt(M, rm)'
  <1> DEFINE x == free_mem_addr
             U == L \cup DOMAIN live \cup InHand
  <1>1. /\ U \in SUBSET Addr /\ x \notin U /\ NULL \notin U
        /\ x \in Nat /\ x \in Addr /\ x \in Start..MaxAddr
    BY Blocks DEF TypeOK
  <1>2. x \in Addr \ {NULL}
    BY <1>1, AddrType, HeapAssumption
  <1>3. PICK M, rm : M = L \cup {x} /\ rm = [rk EXCEPT ![x] = rk[free_list] - 1]
    OBVIOUS
  <1>4. /\ InOrder(L, rk, free_list, next) /\ L \subseteq Addr /\ rk \in [Addr -> Int]
        /\ next \in [Addr -> Addr] /\ free_list \in Addr /\ size \in [Addr -> Nat]
    BY DEF TypeOK, HeapAt, InOrder
  <1>5. /\ size'[x] = Round(k) /\ \A b \in U : size'[b] = size[b]
        /\ next' \in [Addr -> Addr] /\ next'[x] = free_list /\ \A b \in U : next'[b] = next[b]
        /\ free_list' = x /\ free_mem_addr' = After(x, k)
    BY <1>1, <1>4 DEF TabNew
  <1>6. UNCHANGED <<pc, n, p, q, t, live>> /\ InHand' = InHand /\ pc \notin {"size", "grow"}
    BY DEF TabNew, Tears, locals, InHand
  <1>7. InOrder(M, rm, free_list', next')
    <2>1. \A b \in L : next'[b] = next[b]
      BY <1>5
    <2>2. x \notin L
      BY <1>1
    <2>3. InOrder(L \cup {x}, [rk EXCEPT ![x] = rk[free_list] - 1], x, next')
      BY <1>2, <1>4, <1>5, <2>1, <2>2, PutInFront
    <2> QED
      BY <1>3, <1>5, <2>3
  <1>8. Placed(M \cup DOMAIN live' \cup InHand', size', free_mem_addr')
    <2>1. Placed(U, size, x)
      BY DEF HeapAt
    <2>2. Placed(U \cup {x}, size', After(x, k))
      BY <1>1, <1>4, <1>5, <2>1, OneMorePlaced
    <2>3. M \cup DOMAIN live' \cup InHand' = U \cup {x}
      BY <1>3, <1>6
    <2> QED
      BY <1>5, <2>2, <2>3
  <1>9. M \cap DOMAIN live' = {}
    BY <1>1, <1>3, <1>6 DEF HeapAt
  <1>10. \A b \in DOMAIN live' : size'[b] >= live'[b]
    BY <1>5, <1>6 DEF HeapAt
  <1>11. \A b \in L : rm[b] = rk[b]
    BY <1>1, <1>3, <1>4
  <1>12. SearchInv(M, rm)'
    <2>1. \A b \in L : Fits(b, n)' <=> Fits(b, n)
      BY <1>5, <1>6 DEF Fits, Round
    <2>2. pc = "freed" => p \in U /\ p # x
      BY <1>1 DEF InHand
    <2> QED
      BY <1>3, <1>5, <1>6, <1>11, <2>1, <2>2 DEF SearchInv, HeapAt
  <1>13. HeapAt(M, rm)'
    BY <1>7, <1>8, <1>9, <1>10, <1>12 DEF HeapAt
  <1> QED
    BY <1>13

LEMMA TabMovesStep ==
    ASSUME TypeOK, NEW L, NEW rk, HeapAt(L, rk), NEW y \in L, NEW x \in L, TabMoves(y, x), ~torn',
           UNCHANGED <<locals, live>>
    PROVE  \E rm : HeapAt(L, rm)'
  <1>1. PICK rm : rm = [rk EXCEPT ![x] = rk[free_list] - 1]
    OBVIOUS
  <1>2. /\ InOrder(L, rk, free_list, next) /\ L \subseteq Addr \ {NULL} /\ rk \in [Addr -> Int]
        /\ \A c \in L : rk[free_list] <= rk[c]
        /\ next \in [Addr -> Addr] /\ free_list \in Addr
    BY DEF TypeOK, HeapAt, InOrder
  <1>3. /\ x = next[y] /\ next' = [next EXCEPT ![y] = next[x], ![x] = free_list]
        /\ free_list' = x /\ UNCHANGED <<size, free_mem_addr>> /\ ~Tears(x)
    BY DEF TabMoves
  <1>4. UNCHANGED <<pc, n, p, q, t, live>> /\ InHand' = InHand
    BY DEF locals, InHand
  <1>5. InOrder(L, rm, free_list', next')
    BY <1>1, <1>2, <1>3, MoveToFront
  <1>6. \A b \in Addr : b \notin L => next'[b] = next[b]
    BY <1>2, <1>3
  <1>7. /\ \A c \in L : rk[c] \in Int /\ rm[c] \in Int
        /\ \A c \in L : c # x => rm[c] = rk[c] /\ rm[x] < rm[c]
    <2>1. rk[free_list] \in Int /\ rm[x] = rk[free_list] - 1 /\ \A c \in L : c # x => rm[c] = rk[c]
      BY <1>1, <1>2
    <2>2. \A c \in L : rk[c] \in Int
      BY <1>2
    <2> QED
      BY <1>2, <2>1, <2>2
  <1>8. SearchInv(L, rm)'
    <2>1. SearchInv(L, rk) /\ (\A b : Fits(b, n)' <=> Fits(b, n)) /\ (\A a, k : After(a, k)' = After(a, k))
      BY <1>3, <1>4 DEF HeapAt, Fits, Round, After
    <2>2. pc \in {"test", "unlink", "link"} /\ NULL \notin {p, q} /\ Fits(p, n) => rm[q] < rm[p]
      BY <1>3, <1>7, <2>1 DEF SearchInv, Tears
    <2>3. pc = "link" /\ t # NULL => rm[p] < rm[t]
      BY <1>3, <1>7, <2>1 DEF SearchInv, Tears
    <2>4. pc = "freed" => next'[p] = next[p]
      BY <1>6, <2>1 DEF SearchInv, TypeOK
    <2> QED
      BY <1>3, <1>4, <2>1, <2>2, <2>3, <2>4 DEF SearchInv
  <1>9. Placed(L \cup DOMAIN live \cup InHand, size, free_mem_addr)'
    BY <1>3, <1>4 DEF HeapAt
  <1>10. HeapAt(L, rm)'
    BY <1>3, <1>4, <1>5, <1>8, <1>9 DEF HeapAt
  <1> QED
    BY <1>10

LEMMA TabStaysStep ==
    ASSUME NEW L, NEW rk, HeapAt(L, rk), TabStays, UNCHANGED <<locals, live>>
    PROVE  HeapAt(L, rk)'
  <1>1. UNCHANGED <<size, next, free_list, free_mem_addr, pc, n, p, q, t, live>>
    BY DEF TabStays, heap, locals
  <1> QED
    BY <1>1 DEF HeapAt, InHand, SearchInv, Fits, Round, After

LEMMA TabStep ==
    ASSUME HeapInv, ~torn, NEW k \in TabSizes, Tab(k)
    PROVE  HeapInv'
  <1>1. PICK L, rk : HeapAt(L, rk)
    BY DEF HeapInv
  <1>2. TypeOK /\ TabMalloc(k) /\ UNCHANGED <<locals, live>> /\ k \in Nat
    BY SizesType DEF HeapInv, Tab
  <1>3. InOrder(L, rk, free_list, next) /\ L \subseteq Addr
    BY <1>1 DEF HeapAt, InOrder
  <1>4. TabNew(k) \/ TabStays \/ \E y, x \in L : TabMoves(y, x)
    BY <1>2, <1>3, TabCases
  <1>5. \A x : Tears(x) \in BOOLEAN
    BY DEF Tears
  <1>6. TypeOK'
    <2>1. UNCHANGED <<pc, n, p, q, t, live>>
      BY <1>2 DEF locals
    <2>2. CASE TabNew(k)
      <3>1. Round(k) \in Nat /\ Header \in Nat /\ Start \in Nat /\ MaxAddr \in Nat
        BY <1>2, RoundType, HeapAssumption
      <3>2. free_mem_addr \in Nat /\ free_mem_addr \in Addr /\ free_mem_addr \in Start..MaxAddr
        BY <1>1, <1>2, Blocks DEF TypeOK
      <3>3. After(free_mem_addr, k) \in Start..MaxAddr
        <4>1. After(free_mem_addr, k) = free_mem_addr + Header + Round(k)
          BY <1>2, <3>2, AfterType
        <4> QED
          BY <2>2, <3>1, <3>2, <4>1 DEF TabNew
      <3>4. size' \in [Addr -> Nat] /\ next' \in [Addr -> Addr] /\ free_list' \in Addr
        BY <1>2, <2>2, <3>1, <3>2 DEF TabNew, TypeOK
      <3> QED
        BY <1>2, <1>5, <2>1, <2>2, <3>3, <3>4 DEF TypeOK, TabNew
    <2>3. CASE TabStays
      BY <1>2, <1>5, <2>1, <2>3 DEF TypeOK, TabStays, heap
    <2>4. ASSUME NEW y \in L, NEW x \in L, TabMoves(y, x)
          PROVE  TypeOK'
      <3>1. next' \in [Addr -> Addr] /\ free_list' \in Addr
        BY <1>2, <1>3, <2>4 DEF TabMoves, TypeOK
      <3> QED
        BY <1>2, <1>5, <2>1, <2>4, <3>1 DEF TypeOK, TabMoves
    <2> QED
      BY <1>4, <2>2, <2>3, <2>4
  <1>7. ASSUME ~torn' PROVE \E M, rm : HeapAt(M, rm)'
    <2>1. CASE TabNew(k)
      BY <1>1, <1>2, <1>7, <2>1, TabNewStep
    <2>2. CASE TabStays
      BY <1>1, <1>2, <2>2, TabStaysStep
    <2>3. ASSUME NEW y \in L, NEW x \in L, TabMoves(y, x)
          PROVE  \E M, rm : HeapAt(M, rm)'
      BY <1>1, <1>2, <1>7, <2>3, TabMovesStep
    <2> QED
      BY <1>4, <2>1, <2>2, <2>3
  <1> QED
    BY <1>6, <1>7 DEF HeapInv

-----------------------------------------------------------------------------
LEMMA HeapNext == HeapInv /\ [Next]_vars => HeapInv'
  <1> SUFFICES ASSUME HeapInv, [Next]_vars PROVE HeapInv'
    OBVIOUS
  <1>1. CASE UNCHANGED vars
    <2>1. UNCHANGED <<size, next, free_list, free_mem_addr, pc, n, p, q, t, live, torn>>
      BY <1>1 DEF vars, heap, locals
    <2>2. TypeOK'
      BY <2>1 DEF HeapInv, TypeOK
    <2>3. ASSUME NEW L, NEW rk, HeapAt(L, rk)
          PROVE  HeapAt(L, rk)'
      BY <2>1, <2>3 DEF HeapAt, InHand, SearchInv, Fits, Round, After
    <2> QED
      BY <2>1, <2>2, <2>3 DEF HeapInv
  <1>2. CASE Next
    <2>1. ~torn
      BY <1>2 DEF Next
    <2>2. \/ Test \/ Advance \/ Unlink \/ Link \/ Bump \/ SetSize \/ Grow \/ Freed
          \/ \E k \in Sizes : Malloc(k)
          \/ \E b \in DOMAIN live : Free(b)
          \/ \E k \in TabSizes : Tab(k)
      BY <1>2 DEF Next, Main
    <2> QED
      BY <2>1, <2>2, TestStep, AdvanceStep, UnlinkStep, LinkStep, BumpStep, SetSizeStep, GrowStep,
         FreedStep, MallocStep, FreeStep, TabStep
  <1> QED
    BY <1>1, <1>2

(* What the heap is at any time: types, and a list of blocks in some order,  *)
(* apart from the blocks in use, with malloc and free in step with it.       *)
THEOREM HeapInductive == Spec => []HeapInv
  <1> QED
    BY HeapInit, HeapNext, PTL DEF Spec

(* Every variable of malloc and free stays a block or NULL, below the end.   *)
THEOREM HeapTypeCorrect == Spec => []TypeOK
  <1>1. HeapInv => TypeOK
    BY DEF HeapInv
  <1> QED
    BY <1>1, HeapInductive, PTL

(* Blocks in use do not overlap and hold what was asked for, with TAB hit    *)
(* between any two memory accesses of malloc and free but in its windows.    *)
THEOREM HeapLiveDisjoint == Spec => []LiveDisjoint
  <1>1. HeapInv => LiveDisjoint
    <2> SUFFICES ASSUME HeapInv, ~torn PROVE
                 \A b \in DOMAIN live :
                    /\ size[b] >= live[b]
                    /\ Bytes(b) \subseteq Start..(free_mem_addr - 1)
                    /\ \A c \in DOMAIN live \ {b} : Bytes(b) \cap Bytes(c) = {}
      BY DEF LiveDisjoint
    <2>1. PICK L, rk : HeapAt(L, rk)
      BY DEF HeapInv
    <2>2. Header \in Nat /\ Start \in Nat /\ free_mem_addr \in Nat
      BY HeapAssumption DEF HeapInv, TypeOK
    <2>3. \A b \in DOMAIN live : b \in Nat /\ size[b] \in Nat
      BY AddrType DEF HeapInv, TypeOK
    <2>4. /\ \A b \in DOMAIN live : Start <= b /\ b + Header + size[b] <= free_mem_addr
          /\ \A b, c \in DOMAIN live : b < c => b + Header + size[b] <= c
          /\ \A b \in DOMAIN live : size[b] >= live[b]
      BY <2>1 DEF HeapAt, Placed
    <2>5. \A b \in DOMAIN live : Bytes(b) \subseteq Start..(free_mem_addr - 1)
      BY <2>2, <2>3, <2>4 DEF Bytes
    <2>6. \A b, c \in DOMAIN live : b # c => Bytes(b) \cap Bytes(c) = {}
      BY <2>2, <2>3, <2>4 DEF Bytes
    <2> QED
      BY <2>4, <2>5, <2>6
  <1> QED
    BY <1>1, HeapInductive, PTL

(* The free list ends, visits no block twice, and keeps clear of the blocks  *)
(* in use, with TAB hit anywhere but in its windows.                         *)
THEOREM HeapListSound == Spec => []ListSound
  <1> DEFINE len == Len(FreeList)
  <1>1. HeapInv => ListSound
    <2> SUFFICES ASSUME HeapInv, ~torn PROVE
                 /\ Cardinality(OnList) = len
                 /\ len < MaxAddr
                 /\ \A b \in OnList, c \in DOMAIN live : Bytes(b) \cap Bytes(c) = {}
                 /\ \A b, c \in OnList : b # c => Bytes(b) \cap Bytes(c) = {}
      BY DEF ListSound
    <2>1. PICK L, rk : HeapAt(L, rk)
      BY DEF HeapInv
    <2>2. InOrder(L, rk, free_list, next) /\ L \subseteq Addr /\ \A b \in L : rk[b] \in Int
      BY <2>1 DEF HeapAt, InOrder
    <2>3. /\ \A k \in 1..len : FreeList[k] \in L
          /\ \A i, j \in 1..len : i < j => rk[FreeList[i]] < rk[FreeList[j]]
      BY <2>2, ListIsInOrder
    <2>4. len \in Nat /\ FreeList = [k \in 1..len |-> FreeList[k]]
      BY ListIsPath, AddrType
    <2>5. OnList \subseteq L /\ \A k \in 1..len : FreeList[k] \in OnList
      BY <2>3 DEF OnList
    <2>6. \A i, j \in 1..len : FreeList[i] = FreeList[j] => i = j
      <3> SUFFICES ASSUME NEW i \in 1..len, NEW j \in 1..len, i # j
                   PROVE  FreeList[i] # FreeList[j]
        OBVIOUS
      <3>1. i < j \/ j < i
        BY <2>4
      <3>2. rk[FreeList[i]] \in Int /\ rk[FreeList[j]] \in Int
        BY <2>2, <2>3
      <3> QED
        BY <2>3, <3>1, <3>2
    <2>7. Cardinality(OnList) = len
      <3>1. FreeList \in [1..len -> OnList]
        BY <2>4, <2>5
      <3>2. \A b \in OnList : \E k \in 1..len : FreeList[k] = b
        BY DEF OnList
      <3>3. FreeList \in Bijection(1..len, OnList)
        BY <2>6, <3>1, <3>2 DEF Bijection, Injection, Surjection, IsInjective
      <3>4. ExistsBijection(1..len, OnList)
        BY <3>3 DEF ExistsBijection
      <3> QED
        BY <2>4, <3>4, FS_CountingElements
    <2>8. /\ Header \in Nat /\ Header > 0 /\ Start \in Nat /\ Start >= 1 /\ free_mem_addr \in Nat
          /\ MaxAddr \in Nat /\ MaxAddr > 0 /\ free_mem_addr <= MaxAddr
      BY HeapAssumption DEF HeapInv, TypeOK
    <2>9. \A b \in L \cup DOMAIN live : b \in Nat /\ size[b] \in Nat
      BY <2>2, AddrType DEF HeapInv, TypeOK
    <2>10. /\ \A b \in L : Start <= b /\ b + Header + size[b] <= free_mem_addr
           /\ \A b, c \in L \cup DOMAIN live : b < c => b + Header + size[b] <= c
           /\ L \cap DOMAIN live = {}
      BY <2>1 DEF HeapAt, Placed
    <2>11. \A b, c \in L \cup DOMAIN live : b # c => Bytes(b) \cap Bytes(c) = {}
      BY <2>8, <2>9, <2>10 DEF Bytes
    <2>12. len < MaxAddr
      <3>1. OnList \subseteq 1..(MaxAddr - 1)
        BY <2>5, <2>8, <2>9, <2>10
      <3>2. 1 \in Int /\ MaxAddr - 1 \in Int
        BY <2>8
      <3>3. /\ IsFiniteSet(1..(MaxAddr - 1))
            /\ Cardinality(1..(MaxAddr - 1)) = IF 1 > MaxAddr - 1 THEN 0 ELSE (MaxAddr - 1) - 1 + 1
        BY <3>2, FS_Interval, Zenon
      <3>4. Cardinality(OnList) <= Cardinality(1..(MaxAddr - 1))
        BY <3>1, <3>3, FS_Subset
      <3> QED
        BY <2>4, <2>7, <2>8, <3>3, <3>4
    <2> QED
      BY <2>5, <2>7, <2>10, <2>11, <2>12
  <1> QED
    BY <1>1, HeapInductive, PTL

=============================================================================
