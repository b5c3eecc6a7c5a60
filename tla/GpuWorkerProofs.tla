--------------------------- MODULE GpuWorkerProofs --------------------------
(***************************************************************************)
(* Theorems about the CUDA worker's search, for any request and any        *)
(* numbers of threads and places.                                          *)
(*                                                                         *)
(* BufferAccounted is about the places that are filled.  KernelInv adds    *)
(* who may still fill one: each thread keeps to its own stride, has a      *)
(* place to itself from its atomicAdd on, and is done with every candidate *)
(* that it has passed, so that at the end of the kernel the filled places  *)
(* hold all of the batch's hits, each once.  Told adds that the records    *)
(* lead up to where the host is, and with it each step of the worker is    *)
(* one of the protocol.                                                    *)
(***************************************************************************)
EXTENDS GpuSearch, FiniteSetTheorems, TLAPS

-----------------------------------------------------------------------------
(* Arithmetic.                                                             *)

LEMMA Products ==
    ASSUME NEW g \in Nat \ {0}, NEW a \in Int, NEW b \in Int, a > b
    PROVE g * a >= g * b + g
<1>1. PICK d : d = a - b
  OBVIOUS
<1>2. d \in Nat /\ d >= 1 /\ a = b + d
  BY <1>1
<1>3. g * d >= g
  BY <1>2
<1>4. g * a = g * b + g * d
  BY <1>2
<1>5. g * a \in Int /\ g * b \in Int /\ g * d \in Int
  BY <1>2
<1> QED
  BY <1>3, <1>4, <1>5

LEMMA Remainder ==
    ASSUME NEW g \in Nat \ {0}, NEW q \in Int, NEW r \in 0 .. g - 1, NEW n \in Int,
           NEW m \in Int, m = g * q, n = m + r
    PROVE n \div g = q /\ n % g = r
<1>1. PICK u, v : u = n \div g /\ v = n % g
  OBVIOUS
<1>2. u \in Int /\ v \in 0 .. g - 1 /\ n = g * u + v
  BY <1>1
<1>3. g * u \in Int /\ g * q \in Int
  BY <1>2
<1>4. ~ u > q
  <2> SUFFICES ASSUME u > q PROVE FALSE
    OBVIOUS
  <2>1. g * u >= g * q + g
    BY <1>2, Products
  <2> QED
    BY <2>1, <1>2, <1>3
<1>5. ~ q > u
  <2> SUFFICES ASSUME q > u PROVE FALSE
    OBVIOUS
  <2>1. g * q >= g * u + g
    BY <1>2, Products
  <2> QED
    BY <2>1, <1>2, <1>3
<1>6. u = q
  BY <1>4, <1>5, <1>2
<1> QED
  BY <1>6, <1>1, <1>2, <1>3

(* The next index of a thread is of the same stride. *)
LEMMA ModStep ==
    ASSUME NEW g \in Nat \ {0}, NEW i \in Nat
    PROVE  (i + g) % g = i % g
<1>1. PICK q, r, p, m, n : q = i \div g /\ r = i % g /\ p = q + 1 /\ m = g * p /\ n = i + g
  OBVIOUS
<1>2. q \in Int /\ r \in 0 .. g - 1 /\ i = g * q + r /\ g * q \in Int
  BY <1>1
<1>3. p \in Int /\ m = g * q + g
  BY <1>1, <1>2
<1>4. m \in Int /\ n \in Int /\ n = m + r
  BY <1>1, <1>2, <1>3
<1>5. m = g * p
  BY <1>1
<1>6. n % g = r
  BY <1>2, <1>3, <1>4, <1>5, Remainder
<1> QED
  BY <1>1, <1>6

LEMMA ModSmall ==
    ASSUME NEW g \in Nat \ {0}, NEW i \in 0 .. g - 1
    PROVE  i % g = i
OBVIOUS

LEMMA ModRange ==
    ASSUME NEW g \in Nat \ {0}, NEW i \in Nat
    PROVE  i % g \in 0 .. g - 1
OBVIOUS

LEMMA ModBelow ==
    ASSUME NEW g \in Nat \ {0}, NEW i \in Nat
    PROVE  ~ i % g > i
<1>1. CASE i < g
  BY <1>1
<1>2. CASE i >= g
  BY <1>2, ModRange
<1> QED
  BY <1>1, <1>2

(* Indices of one stride are a whole stride apart. *)
LEMMA ModNear ==
    ASSUME NEW g \in Nat \ {0}, NEW a \in Nat, NEW b \in Nat,
           a % g = b % g, a <= b, b < a + g
    PROVE  a = b
<1>1. PICK p, q, r : p = a \div g /\ q = b \div g /\ r = a % g
  OBVIOUS
<1>2. p \in Int /\ q \in Int /\ r \in 0 .. g - 1 /\ a = g * p + r /\ b = g * q + r
  BY <1>1
<1>3. g * p \in Int /\ g * q \in Int
  BY <1>2
<1>4. ~ q > p
  <2> SUFFICES ASSUME q > p PROVE FALSE
    OBVIOUS
  <2>1. g * q >= g * p + g
    BY <1>2, Products
  <2> QED
    BY <2>1, <1>2, <1>3
<1>5. ~ p > q
  <2> SUFFICES ASSUME p > q PROVE FALSE
    OBVIOUS
  <2>1. g * p >= g * q + g
    BY <1>2, Products
  <2> QED
    BY <2>1, <1>2, <1>3
<1> QED
  BY <1>2, <1>4, <1>5

-----------------------------------------------------------------------------
(* Sorting.                                                                *)

(* A set of numbers that is not empty and bounded has a greatest one. *)
LEMMA Greatest ==
    ASSUME NEW T \in SUBSET Int, T # {}, NEW b \in Int, \A x \in T : x <= b
    PROVE  \E x \in T : \A y \in T : y <= x
<1> DEFINE D == {n \in Nat : b - n \in T}
<1>1. PICK x \in T : TRUE
  OBVIOUS
<1>2. b - x \in D
  <2>1. b - x \in Nat /\ b - (b - x) = x
    BY <1>1
  <2> QED
    BY <1>1, <2>1
<1>3. PICK n \in D : \A m \in D : ~ (<<m, n>> \in OpToRel(<, Nat))
  <2>1. D \in SUBSET Nat /\ D # {}
    BY <1>2
  <2> HIDE DEF D
  <2> QED
    BY <2>1, NatLessThanWellFounded, WFMin
<1>4. ASSUME NEW y \in T
      PROVE  y <= b - n
  <2>1. b - y \in Nat /\ b - (b - y) = y
    OBVIOUS
  <2>2. b - y \in D
    BY <2>1
  <2>3. PICK m : m = b - y
    OBVIOUS
  <2>4. m \in D /\ m \in Nat /\ n \in Nat
    BY <2>2, <2>3
  <2>5. ~ m < n
    <3> SUFFICES ASSUME m < n PROVE FALSE
      OBVIOUS
    <3>1. <<m, n>> \in {ss \in Nat \X Nat : ss[1] < ss[2]}
      BY <2>4
    <3>2. <<m, n>> \in OpToRel(<, Nat)
      BY <3>1 DEF OpToRel
    <3> QED
      BY <1>3, <2>4, <3>2
  <2> QED
    BY <2>3, <2>4, <2>5
<1>5. b - n \in T
  OBVIOUS
<1> QED
  BY <1>4, <1>5

(* The elements of a list of n + 1 sorted, given that those of a list of n *)
(* can be: a greatest one comes last.                                      *)
LEMMA SortedLast ==
    ASSUME NEW S \in SUBSET Int, NEW b \in Int, \A x \in S : x <= b,
           NEW n \in Nat,
           \A s \in [1 .. n -> S] : \E f \in Surjection(1 .. n, 1 .. n) : Sorts(f, s),
           NEW s \in [1 .. n + 1 -> S]
    PROVE  \E f \in Surjection(1 .. n + 1, 1 .. n + 1) : Sorts(f, s)
<1> DEFINE T == {s[k] : k \in 1 .. n + 1}
<1>1. PICK x \in T : \A y \in T : y <= x
  <2>1. \A k \in 1 .. n + 1 : s[k] \in S
    OBVIOUS
  <2>2. 1 \in 1 .. n + 1
    OBVIOUS
  <2>3. T \in SUBSET Int /\ T # {} /\ \A y \in T : y <= b
    BY <2>1, <2>2
  <2> HIDE DEF T
  <2> QED
    BY <2>3, Greatest
<1>2. PICK m \in 1 .. n + 1 : \A k \in 1 .. n + 1 : s[k] <= s[m]
  BY <1>1
<1> DEFINE r == [k \in 1 .. n |-> IF k = m THEN s[n + 1] ELSE s[k]]
<1>3. r \in [1 .. n -> S]
  OBVIOUS
<1>4. PICK g \in Surjection(1 .. n, 1 .. n) : Sorts(g, r)
  BY <1>3
<1>5. /\ g \in [1 .. n -> 1 .. n]
      /\ \A k \in 1 .. n : \E j \in 1 .. n : g[j] = k
      /\ \A j, k \in 1 .. n : j < k => r[g[j]] <= r[g[k]]
  BY <1>3, <1>4 DEF Surjection, Sorts
<1> DEFINE f == [k \in 1 .. n + 1 |->
                    IF k = n + 1 THEN m ELSE IF g[k] = m THEN n + 1 ELSE g[k]]
<1>6. f \in [1 .. n + 1 -> 1 .. n + 1]
  <2>1. ASSUME NEW k \in 1 .. n + 1
        PROVE  f[k] \in 1 .. n + 1
    <3>1. CASE k = n + 1
      BY <3>1
    <3>2. CASE k # n + 1
      <4>1. k \in 1 .. n
        BY <3>2
      <4>2. g[k] \in 1 .. n
        BY <4>1, <1>5
      <4> QED
        BY <3>2, <4>2
    <3> QED
      BY <3>1, <3>2
  <2> QED
    BY <2>1
<1>7. ASSUME NEW k \in 1 .. n + 1
      PROVE  \E j \in 1 .. n + 1 : f[j] = k
  <2>1. CASE k = m
    <3>1. f[n + 1] = k /\ n + 1 \in 1 .. n + 1
      BY <2>1
    <3> QED
      BY <3>1
  <2>2. CASE k # m /\ k = n + 1
    <3>1. m \in 1 .. n
      BY <2>2
    <3>2. PICK j \in 1 .. n : g[j] = m
      BY <3>1, <1>5
    <3>3. j \in 1 .. n + 1 /\ f[j] = k
      BY <3>2, <2>2
    <3> QED
      BY <3>3
  <2>3. CASE k # m /\ k # n + 1
    <3>1. k \in 1 .. n
      BY <2>3
    <3>2. PICK j \in 1 .. n : g[j] = k
      BY <3>1, <1>5
    <3>3. j \in 1 .. n + 1 /\ f[j] = k
      BY <3>2, <2>3
    <3> QED
      BY <3>3
  <2> QED
    BY <2>1, <2>2, <2>3
<1>8. ASSUME NEW k \in 1 .. n
      PROVE  s[f[k]] = r[g[k]]
  <2>1. k \in 1 .. n + 1 /\ k # n + 1 /\ g[k] \in 1 .. n
    BY <1>5
  <2>2. f[k] = IF g[k] = m THEN n + 1 ELSE g[k]
    BY <2>1
  <2>3. r[g[k]] = IF g[k] = m THEN s[n + 1] ELSE s[g[k]]
    BY <2>1
  <2> QED
    BY <2>2, <2>3
<1>9. ASSUME NEW j \in 1 .. n + 1, NEW k \in 1 .. n + 1, j < k
      PROVE  s[f[j]] <= s[f[k]]
  <2>1. CASE k = n + 1
    <3>1. f[k] = m /\ f[j] \in 1 .. n + 1
      BY <2>1, <1>6
    <3> QED
      BY <3>1, <1>2
  <2>2. CASE k # n + 1
    <3>1. j \in 1 .. n /\ k \in 1 .. n
      BY <2>2, <1>9
    <3>2. r[g[j]] <= r[g[k]] /\ s[f[j]] = r[g[j]] /\ s[f[k]] = r[g[k]]
      BY <3>1, <1>5, <1>8, <1>9
    <3> QED
      BY <3>2
  <2> QED
    BY <2>1, <2>2
<1>10. f \in Surjection(1 .. n + 1, 1 .. n + 1)
  BY <1>6, <1>7 DEF Surjection
<1>11. Sorts(f, s)
  <2>1. DOMAIN s = 1 .. n + 1
    OBVIOUS
  <2> HIDE DEF f
  <2> QED
    BY <1>9, <2>1 DEF Sorts
<1> QED
  BY <1>10, <1>11

(* Every list of numbers below a bound can be sorted. *)
LEMMA SortExists ==
    ASSUME NEW S \in SUBSET Int, NEW b \in Int, \A x \in S : x <= b,
           NEW n \in Nat, NEW s \in [1 .. n -> S]
    PROVE  \E f \in Surjection(1 .. n, 1 .. n) : Sorts(f, s)
<1> DEFINE Sortable(k) == \A u \in [1 .. k -> S] : \E f \in Surjection(1 .. k, 1 .. k) : Sorts(f, u)
           Bad == {k \in Nat : ~ Sortable(k)}
<1>1. Sortable(0)
  <2> SUFFICES ASSUME NEW u \in [1 .. 0 -> S]
               PROVE  \E f \in Surjection(1 .. 0, 1 .. 0) : Sorts(f, u)
    OBVIOUS
  <2> DEFINE e == [k \in 1 .. 0 |-> k]
  <2>1. e \in Surjection(1 .. 0, 1 .. 0)
    BY DEF Surjection
  <2>2. Sorts(e, u)
    BY DEF Sorts
  <2> QED
    BY <2>1, <2>2
<1>2. ASSUME NEW k \in Nat, Sortable(k)
      PROVE  Sortable(k + 1)
  <2> SUFFICES ASSUME NEW u \in [1 .. k + 1 -> S]
               PROVE  \E f \in Surjection(1 .. k + 1, 1 .. k + 1) : Sorts(f, u)
    OBVIOUS
  <2> QED
    BY <1>2, SortedLast
<1>3. Bad = {}
  <2> SUFFICES ASSUME Bad # {} PROVE FALSE
    OBVIOUS
  <2>1. PICK k \in Bad : \A m \in Bad : ~ (<<m, k>> \in OpToRel(<, Nat))
    <3>1. Bad \in SUBSET Nat
      OBVIOUS
    <3> HIDE DEF Bad
    <3> QED
      BY <3>1, NatLessThanWellFounded, WFMin
  <2>2. k \in Nat /\ ~ Sortable(k)
    OBVIOUS
  <2>3. k # 0
    BY <1>1, <2>2
  <2>4. PICK m : m = k - 1
    OBVIOUS
  <2>5. m \in Nat /\ m + 1 = k /\ m < k
    BY <2>2, <2>3, <2>4
  <2> HIDE DEF Sortable
  <2>6. m \notin Bad
    <3>1. <<m, k>> \in {ss \in Nat \X Nat : ss[1] < ss[2]}
      BY <2>2, <2>5
    <3>2. <<m, k>> \in OpToRel(<, Nat)
      BY <3>1 DEF OpToRel
    <3> QED
      BY <2>1, <3>2
  <2>7. Sortable(m)
    BY <2>5, <2>6
  <2>8. Sortable(m + 1)
    BY <1>2, <2>5, <2>7
  <2> QED
    BY <2>2, <2>5, <2>8
<1>4. Sortable(n)
  <2> HIDE DEF Sortable
  <2> QED
    BY <1>3
<1> QED
  BY <1>4

LEMMA OrderIsInjective ==
    ASSUME NEW n \in Nat, NEW f \in Surjection(1 .. n, 1 .. n)
    PROVE  f \in Injection(1 .. n, 1 .. n)
<1>1. IsFiniteSet(1 .. n)
  BY FS_Interval
<1> QED
  BY <1>1, FS_SurjSameCardinalityImpliesInj

(* The sort of a list without repetitions. *)
LEMMA Sorted ==
    ASSUME NEW S \in SUBSET Int, NEW b \in Int, \A x \in S : x <= b,
           NEW n \in Nat, NEW s \in [1 .. n -> S],
           \A j, k \in 1 .. n : s[j] = s[k] => j = k
    PROVE  /\ InOrder(s) \in [1 .. n -> S]
           /\ Protocol!Ascending(InOrder(s))
           /\ Protocol!Listed(InOrder(s)) = Protocol!Listed(s)
<1>1. DOMAIN s = 1 .. n
  OBVIOUS
<1>2. \E f \in Bijection(1 .. n, 1 .. n) : Sorts(f, s)
  BY SortExists, OrderIsInjective DEF Bijection
<1>3. PICK f \in Bijection(1 .. n, 1 .. n) : Sorts(f, s) /\ InOrder(s) = [k \in 1 .. n |-> s[f[k]]]
  BY <1>1, <1>2 DEF InOrder
<1>4. /\ f \in [1 .. n -> 1 .. n]
      /\ \A j, k \in 1 .. n : f[j] = f[k] => j = k
      /\ \A k \in 1 .. n : \E j \in 1 .. n : f[j] = k
  BY <1>3 DEF Bijection, Injection, Surjection, IsInjective
<1>5. \A j, k \in 1 .. n : j < k => s[f[j]] <= s[f[k]]
  BY <1>1, <1>3 DEF Sorts
<1>6. PICK r : r = InOrder(s)
  OBVIOUS
<1>7. /\ r = [k \in 1 .. n |-> s[f[k]]]
      /\ r \in [1 .. n -> S]
  BY <1>3, <1>4, <1>6
<1>8. Protocol!Ascending(r)
  <2> SUFFICES ASSUME NEW j \in 1 .. n, NEW k \in 1 .. n, j < k PROVE r[j] < r[k]
    BY <1>7 DEF Protocol!Ascending
  <2>1. f[j] \in 1 .. n /\ f[k] \in 1 .. n /\ f[j] # f[k]
    BY <1>4
  <2>2. s[f[j]] # s[f[k]] /\ s[f[j]] \in Int /\ s[f[k]] \in Int
    BY <2>1
  <2> QED
    BY <2>2, <1>5, <1>7
<1>9. Protocol!Listed(r) = Protocol!Listed(s)
  <2>0. Protocol!Listed(s) = {s[k] : k \in 1 .. n}
    BY DEF Protocol!Listed
  <2>1. Protocol!Listed(r) = {r[k] : k \in 1 .. n}
    BY <1>7 DEF Protocol!Listed
  <2>2. \A k \in 1 .. n : f[k] \in 1 .. n /\ r[k] = s[f[k]]
    BY <1>4, <1>7
  <2>3. ASSUME NEW k \in 1 .. n
        PROVE  \E j \in 1 .. n : r[j] = s[k]
    <3>1. PICK j \in 1 .. n : f[j] = k
      BY <1>4
    <3>2. r[j] = s[k]
      BY <2>2, <3>1
    <3> QED
      BY <3>2
  <2>4. ASSUME NEW k \in 1 .. n
        PROVE  \E j \in 1 .. n : r[k] = s[j]
    BY <2>2
  <2>5. {r[k] : k \in 1 .. n} = {s[k] : k \in 1 .. n}
    <3>1. ASSUME NEW x \in {r[k] : k \in 1 .. n}
          PROVE  x \in {s[k] : k \in 1 .. n}
      <4>1. PICK k \in 1 .. n : x = r[k]
        OBVIOUS
      <4>2. PICK j \in 1 .. n : r[k] = s[j]
        BY <2>4
      <4> QED
        BY <4>1, <4>2
    <3>2. ASSUME NEW x \in {s[k] : k \in 1 .. n}
          PROVE  x \in {r[k] : k \in 1 .. n}
      <4>1. PICK k \in 1 .. n : x = s[k]
        OBVIOUS
      <4>2. PICK j \in 1 .. n : r[j] = s[k]
        BY <2>3
      <4> QED
        BY <4>1, <4>2
    <3> QED
      BY <3>1, <3>2
  <2> QED
    BY <2>0, <2>1, <2>5
<1> QED
  BY <1>6, <1>7, <1>8, <1>9

-----------------------------------------------------------------------------
(* The inductive invariant of the host and the kernel.                     *)

LaneStates == [at : {"done", "test", "store"}, i : Nat, position : Nat]

(* The host's numbers, and the batch that it launched. *)
Hosted ==
    /\ request \in Requests
    /\ matches \subseteq Start .. End - 1
    /\ pc \in {"device", "head", "kernel", "exit", "gone"}
    /\ next \in Start .. End /\ count \in Nat
    /\ hitCount \in Nat /\ overflow \in BOOLEAN
    /\ pc = "kernel" => next < End /\ count = BatchSize(next)

(* A thread is at an index of its own stride, and the position it was      *)
(* given is below the counter and no other thread's.                       *)
Strided ==
    /\ lane \in [Lanes -> LaneStates]
    /\ pc = "kernel" =>
        /\ \A t \in Lanes : lane[t].at # "done" => lane[t].i % Grid = t
        /\ \A t \in Lanes : lane[t].at = "store" =>
              lane[t].i < count /\ next + lane[t].i \in matches /\ lane[t].position < hitCount
        /\ \A t, u \in Lanes :
              lane[t].at = "store" /\ lane[u].at = "store" /\ lane[t].position = lane[u].position
                => t = u

(* The threads are done with the i-th candidate of the batch. *)
Over(threads, i) == threads[i % Grid].at = "done" \/ threads[i % Grid].i > i

(* A place that was given to a hit and that no thread has still to fill. *)
Filled(threads, n, k) ==
    /\ k < n /\ k < HitCapacity
    /\ \A t \in Lanes : threads[t].at = "store" => threads[t].position # k

(* The filled places hold, each once, hits of this batch that the threads  *)
(* are done with, and all of those unless one had no place.                *)
Stored ==
    /\ hits \in [Places -> Int]
    /\ \A k \in Places : k >= HitCapacity => hits[k] = Nothing
    /\ pc = "kernel" =>
        /\ \A k \in Places : Filled(lane, hitCount, k) =>
              /\ hits[k] \in matches /\ hits[k] \in next .. next + count - 1
              /\ Over(lane, hits[k] - next)
        /\ \A j, k \in Places :
              Filled(lane, hitCount, j) /\ Filled(lane, hitCount, k) /\ hits[j] = hits[k] => j = k
        /\ \A i \in 0 .. count - 1 : Over(lane, i) /\ next + i \in matches =>
              overflow \/ \E k \in Places : Filled(lane, hitCount, k) /\ hits[k] = next + i

KernelInv == Hosted /\ Strided /\ Stored

-----------------------------------------------------------------------------
(* What a thread's step makes of the batch.                                *)

LEMMA Sizes ==
    Grid \in Nat \ {0} /\ HitCapacity \in Nat \ {0} /\ Lanes = 0 .. Grid - 1
BY GpuConstants DEF Lanes

LEMMA Constants ==
    ASSUME Hosted
    PROVE  /\ Start \in Nat /\ Count \in Nat /\ End \in Nat
           /\ BatchCount \in Nat \ {0} /\ Grid \in Nat \ {0} /\ HitCapacity \in Nat \ {0}
           /\ Lanes = 0 .. Grid - 1 /\ Places = 0 .. HitCapacity + BatchCount
BY GpuConstants DEF Hosted, Start, Count, BatchCount, End, Lanes, Places

(* The command line stays what it was. *)
LEMMA Steady ==
    ASSUME [Next]_vars
    PROVE  /\ request' = request /\ matches' = matches
           /\ Start' = Start /\ Count' = Count /\ BatchCount' = BatchCount
           /\ End' = End /\ Places' = Places
<1>1. UNCHANGED <<request, matches>>
  BY DEF Next, vars, Host, Device, Launch, Stop, Exit, Refuse, Publish, Fail,
         Lane, Spare, Miss, Hit, Store
<1> QED
  BY <1>1 DEF Start, Count, BatchCount, End, Places

(* A thread that goes on, or ends for want of a next index, is done with   *)
(* the candidate it was at and with no other that it was not.              *)
LEMMA OverMoves ==
    ASSUME lane \in [Lanes -> LaneStates], NEW t \in Lanes, count \in Nat,
           lane[t].at # "done", lane[t].i % Grid = t,
           NEW L \in LaneStates,
           L.at = "done" => lane[t].i + Grid >= count,
           L.at # "done" => L.i = lane[t].i + Grid,
           NEW m, m = [lane EXCEPT ![t] = L],
           NEW i \in 0 .. count - 1
    PROVE  /\ Over(lane, i) => Over(m, i)
           /\ Over(m, i) => Over(lane, i) \/ i = lane[t].i
           /\ i = lane[t].i => Over(m, i) /\ ~ Over(lane, i)
<1>1. i \in Nat /\ i < count /\ i % Grid \in Lanes
  <2>1. i \in Nat /\ i < count /\ Grid \in Nat \ {0}
    BY Sizes
  <2>2. i % Grid \in 0 .. Grid - 1
    BY <2>1, ModRange
  <2> QED
    BY <2>1, <2>2, Sizes
<1>2. PICK u \in Lanes : u = i % Grid
  BY <1>1
<1>3. /\ lane[u] \in LaneStates /\ lane[t] \in LaneStates
      /\ m[u] = IF u = t THEN L ELSE lane[u]
  OBVIOUS
<1>4. lane[t].i \in Nat /\ lane[u].i \in Nat /\ L.i \in Nat /\ Grid \in Nat /\ Grid >= 1
  BY <1>3, Sizes DEF LaneStates
<1>5. (Over(lane, i) <=> lane[u].at = "done" \/ lane[u].i > i) /\ (Over(m, i) <=> m[u].at = "done" \/ m[u].i > i)
  BY <1>2 DEF Over
<1>6. CASE u # t
  <2>1. i # lane[t].i
    BY <1>2, <1>6
  <2> QED
    BY <1>3, <1>5, <1>6, <2>1
<1>7. CASE u = t
  <2>1. m[u] = L
    BY <1>3, <1>7
  <2>2. lane[t].i <= i /\ i < lane[t].i + Grid => i = lane[t].i
    BY <1>1, <1>2, <1>4, <1>7, Sizes, ModNear
  <2>3. L.at = "done" => i < lane[t].i + Grid
    BY <1>1, <1>4
  <2> QED
    BY <1>1, <1>4, <1>5, <1>7, <2>1, <2>2, <2>3
<1> QED
  BY <1>6, <1>7

(* What a thread goes on to. *)
LEMMA OnwardFacts ==
    ASSUME NEW t \in Lanes, Hosted, Strided
    PROVE  /\ Onward(t) \in LaneStates
           /\ Onward(t).at # "store"
           /\ Onward(t).at = "done" => lane[t].i + Grid >= count
           /\ Onward(t).at # "done" => Onward(t).i = lane[t].i + Grid
<1>1. lane[t] \in LaneStates
  BY DEF Strided
<1>2. lane[t].i \in Nat /\ count \in Nat /\ Grid \in Nat
  BY <1>1, Constants DEF LaneStates, Hosted
<1>3. CASE lane[t].i + Grid < count
  BY <1>2, <1>3 DEF Onward, LaneStates
<1>4. CASE ~ lane[t].i + Grid < count
  BY <1>2, <1>4 DEF Onward, Idle, LaneStates
<1> QED
  BY <1>3, <1>4

-----------------------------------------------------------------------------
(* The steps, part by part.                                                *)

LEMMA HostedStep == ASSUME Hosted, [Next]_vars PROVE Hosted'
<1>c. /\ Start' = Start /\ End' = End /\ BatchCount' = BatchCount /\ request' = request
      /\ Start \in Nat /\ End \in Nat /\ BatchCount \in Nat \ {0}
  BY Constants, Steady
<1> USE <1>c DEF Hosted
<1>1. CASE Device
  BY <1>1 DEF Device, device
<1>2. CASE Launch
  <2>1. count' \in Nat
    BY <1>2 DEF Launch, BatchSize
  <2> QED
    BY <1>2, <2>1 DEF Launch, Cleared, BatchSize
<1>3. CASE Stop
  BY <1>3 DEF Stop, device
<1>4. CASE Exit
  BY <1>4 DEF Exit, device
<1>5. CASE Refuse
  BY <1>5 DEF Refuse, device
<1>6. CASE Publish
  <2>1. count <= End - next /\ count \in Nat
    BY <1>6 DEF Publish, BatchSize
  <2> QED
    BY <1>6, <2>1 DEF Publish, device
<1>7. CASE Fail
  BY <1>7 DEF Fail, device
<1>8. ASSUME NEW t \in Lanes, Lane(t) PROVE Hosted'
  <2>1. CASE Spare(t)
    BY <2>1 DEF Spare, device, BatchSize
  <2>2. CASE Miss(t)
    BY <2>2 DEF Miss, device, BatchSize
  <2>3. CASE Hit(t)
    BY <2>3 DEF Hit, BatchSize
  <2>4. CASE Store(t)
    BY <2>4 DEF Store, BatchSize
  <2> QED
    BY <1>8, <2>1, <2>2, <2>3, <2>4 DEF Lane
<1>9. CASE UNCHANGED vars
  BY <1>9 DEF vars, device, BatchSize
<1> QED
  BY <1>1, <1>2, <1>3, <1>4, <1>5, <1>6, <1>7, <1>8, <1>9 DEF Next, Host

(* A thread that leaves its candidate. *)
LEMMA StridedOnward ==
    ASSUME Hosted, Strided, NEW t \in Lanes, pc = "kernel", lane[t].at # "done",
           NEW L \in LaneStates, L.at # "store",
           L.at # "done" => L.i = lane[t].i + Grid,
           lane' = [lane EXCEPT ![t] = L],
           UNCHANGED <<matches, pc, next, count, hitCount>>
    PROVE  Strided'
<1>1. lane' \in [Lanes -> LaneStates] /\ \A u \in Lanes : lane'[u] = IF u = t THEN L ELSE lane[u]
  BY DEF Strided
<1>2. L.at # "done" => L.i % Grid = t
  <2>1. lane[t].i \in Nat /\ lane[t].i % Grid = t
    BY DEF Strided, LaneStates
  <2> QED
    BY <2>1, Constants, ModStep
<1> QED
  BY <1>1, <1>2 DEF Strided

LEMMA StridedStep == ASSUME Hosted, Strided, [Next]_vars PROVE Strided'
<1>1. CASE Host
  <2>1. CASE Launch
    <3>1. \A t \in Lanes : t \in Nat /\ t % Grid = t
      BY Constants, ModSmall
    <3>2. lane' = [t \in Lanes |-> [at |-> "test", i |-> t, position |-> 0]]
      BY <2>1 DEF Launch
    <3>3. lane' \in [Lanes -> LaneStates]
      BY <3>1, <3>2 DEF LaneStates
    <3>4. \A t \in Lanes : lane'[t].at = "test" /\ lane'[t].i = t
      BY <3>2
    <3> QED
      BY <3>1, <3>3, <3>4 DEF Strided
  <2>2. CASE ~ Launch
    <3>1. lane' = lane /\ pc' # "kernel"
      BY <1>1, <2>2 DEF Host, Device, Stop, Exit, Refuse, Publish, Fail
    <3> QED
      BY <3>1 DEF Strided
  <2> QED
    BY <2>1, <2>2
<1>2. ASSUME NEW t \in Lanes, Lane(t) PROVE Strided'
  <2>1. CASE Spare(t)
    <3>1. Idle \in LaneStates /\ Idle.at = "done"
      BY DEF Idle, LaneStates
    <3> QED
      BY <2>1, <3>1, StridedOnward DEF Spare, device
  <2>2. CASE Miss(t)
    <3>1. /\ pc = "kernel" /\ lane[t].at # "done"
          /\ lane' = [lane EXCEPT ![t] = Onward(t)]
          /\ UNCHANGED <<matches, pc, next, count, hitCount>>
      BY <2>2 DEF Miss, device
    <3> QED
      BY <3>1, OnwardFacts, StridedOnward
  <2>3. CASE Hit(t)
    <3>1. /\ pc = "kernel" /\ lane[t].at = "test" /\ lane[t].i < count /\ next + lane[t].i \in matches
          /\ hitCount' = hitCount + 1
          /\ lane' = [lane EXCEPT ![t] = [lane[t] EXCEPT !.at = "store", !.position = hitCount]]
          /\ UNCHANGED <<matches, pc, next, count>>
      BY <2>3 DEF Hit, Strided
    <3>2. PICK L : L = [lane[t] EXCEPT !.at = "store", !.position = hitCount]
      OBVIOUS
    <3>3. L \in LaneStates /\ L.at = "store" /\ L.i = lane[t].i /\ L.position = hitCount
      <4>1. lane[t] \in LaneStates /\ hitCount \in Nat
        BY DEF Strided, Hosted
      <4>2. PICK l \in LaneStates : l = lane[t]
        BY <4>1
      <4>3. L = [l EXCEPT !.at = "store", !.position = hitCount]
        BY <3>2, <4>2, Zenon
      <4>4. L \in LaneStates /\ L.at = "store" /\ L.i = l.i /\ L.position = hitCount
        BY <4>1, <4>3 DEF LaneStates
      <4> QED
        BY <4>2, <4>4, Zenon
    <3>4. lane' \in [Lanes -> LaneStates] /\ \A u \in Lanes : lane'[u] = IF u = t THEN L ELSE lane[u]
      BY <3>1, <3>2, <3>3 DEF Strided
    <3>5. hitCount \in Nat /\ \A u \in Lanes : lane[u].at = "store" => lane[u].position \in Nat /\ lane[u].position < hitCount
      BY <3>1 DEF Strided, Hosted, LaneStates
    <3>6. \A u \in Lanes : lane'[u].at # "done" => lane'[u].i % Grid = u
      BY <3>1, <3>3, <3>4 DEF Strided
    <3>7. \A u \in Lanes : lane'[u].at = "store" =>
              lane'[u].i < count /\ next + lane'[u].i \in matches /\ lane'[u].position < hitCount'
      BY <3>1, <3>3, <3>4, <3>5 DEF Strided
    <3>8. \A u, v \in Lanes :
              lane'[u].at = "store" /\ lane'[v].at = "store" /\ lane'[u].position = lane'[v].position
                => u = v
      BY <3>1, <3>3, <3>4, <3>5 DEF Strided
    <3> QED
      BY <3>1, <3>4, <3>6, <3>7, <3>8 DEF Strided
  <2>4. CASE Store(t)
    <3>1. /\ pc = "kernel" /\ lane[t].at # "done"
          /\ lane' = [lane EXCEPT ![t] = Onward(t)]
          /\ UNCHANGED <<matches, pc, next, count, hitCount>>
      BY <2>4 DEF Store
    <3> QED
      BY <3>1, OnwardFacts, StridedOnward
  <2> QED
    BY <1>2, <2>1, <2>2, <2>3, <2>4 DEF Lane
<1>3. CASE UNCHANGED vars
  BY <1>3 DEF vars, device, Strided
<1> QED
  BY <1>1, <1>2, <1>3 DEF Next

-----------------------------------------------------------------------------
(* What the buffer holds.                                                  *)

(* A thread without a hit leaves its candidate: the buffer stays right. *)
LEMMA StoredPast ==
    ASSUME Hosted, Strided, Stored, NEW t \in Lanes,
           pc = "kernel", lane[t].at = "test",
           lane[t].i < count => next + lane[t].i \notin matches,
           NEW L \in LaneStates, L.at # "store",
           L.at = "done" => lane[t].i + Grid >= count,
           L.at # "done" => L.i = lane[t].i + Grid,
           lane' = [lane EXCEPT ![t] = L],
           UNCHANGED <<request, matches, pc, next, count, hitCount, overflow, hits>>
    PROVE  Stored'
<1>1. PICK m : m = lane'
  OBVIOUS
<1>2. lane \in [Lanes -> LaneStates] /\ lane[t].i % Grid = t /\ lane[t].i \in Nat /\ count \in Nat
  BY DEF Strided, Hosted, LaneStates
<1>3. m = [lane EXCEPT ![t] = L]
  BY <1>1
<1>4. ASSUME NEW i \in 0 .. count - 1
      PROVE  /\ Over(lane, i) => Over(m, i)
             /\ Over(m, i) => Over(lane, i) \/ i = lane[t].i
  BY <1>2, <1>3, OverMoves
<1>5. ASSUME NEW k \in Places
      PROVE  Filled(m, hitCount, k) <=> Filled(lane, hitCount, k)
  <2>1. \A u \in Lanes : m[u] = IF u = t THEN L ELSE lane[u]
    BY <1>2, <1>3
  <2> QED
    BY <2>1 DEF Filled
<1>6. next \in Nat /\ count \in Nat /\ hits \in [Places -> Int]
  BY Constants DEF Hosted, Stored
<1>7. ASSUME NEW k \in Places, Filled(m, hitCount, k)
      PROVE  /\ hits[k] \in matches /\ hits[k] \in next .. next + count - 1
             /\ Over(m, hits[k] - next)
  <2>1. /\ hits[k] \in matches /\ hits[k] \in next .. next + count - 1
        /\ Over(lane, hits[k] - next)
    BY <1>5, <1>7 DEF Stored
  <2>2. hits[k] - next \in 0 .. count - 1
    BY <2>1, <1>6
  <2> QED
    BY <2>1, <2>2, <1>4
<1>8. ASSUME NEW i \in 0 .. count - 1, Over(m, i), next + i \in matches
      PROVE  overflow \/ \E k \in Places : Filled(m, hitCount, k) /\ hits[k] = next + i
  <2>1. Over(lane, i)
    <3>1. i # lane[t].i
      BY <1>2, <1>8
    <3> QED
      BY <3>1, <1>4, <1>8
  <2>2. overflow \/ \E k \in Places : Filled(lane, hitCount, k) /\ hits[k] = next + i
    BY <2>1, <1>8 DEF Stored
  <2> QED
    BY <2>2, <1>5
<1>9. \A j, k \in Places :
         Filled(m, hitCount, j) /\ Filled(m, hitCount, k) /\ hits[j] = hits[k] => j = k
  BY <1>5 DEF Stored
<1>p. Places' = Places
  BY DEF Places, BatchCount
<1> QED
  BY <1>p, <1>1, <1>6, <1>7, <1>8, <1>9 DEF Stored

(* A hit's position is a place to fill. *)
LEMMA StoredHit ==
    ASSUME Hosted, Strided, Stored, NEW t \in Lanes, Hit(t)
    PROVE  Stored'
<1>1. PICK m, n : m = lane' /\ n = hitCount'
  OBVIOUS
<1>2. lane \in [Lanes -> LaneStates] /\ hitCount \in Nat /\ n = hitCount + 1
  BY <1>1 DEF Strided, Hosted, Hit
<1>3. /\ \A u \in Lanes \ {t} : m[u] = lane[u]
      /\ lane[t].at = "test" /\ m[t].at = "store" /\ m[t].i = lane[t].i /\ m[t].position = hitCount
  BY <1>1, <1>2 DEF Hit, LaneStates
<1>4. ASSUME NEW i \in 0 .. count - 1
      PROVE  Over(m, i) <=> Over(lane, i)
  <2>1. i % Grid \in Lanes
    <3>1. i \in Nat /\ Grid \in Nat \ {0}
      BY Constants
    <3>2. i % Grid \in 0 .. Grid - 1
      BY <3>1, ModRange
    <3> QED
      BY <3>2, Constants
  <2> QED
    BY <2>1, <1>3 DEF Over
<1>5. ASSUME NEW k \in Places
      PROVE  Filled(m, n, k) <=> Filled(lane, hitCount, k)
  <2>1. k \in Nat
    BY Constants
  <2>2. Filled(m, n, k) => Filled(lane, hitCount, k)
    <3> SUFFICES ASSUME Filled(m, n, k) PROVE Filled(lane, hitCount, k)
      OBVIOUS
    <3>1. k # hitCount
      BY <1>3 DEF Filled
    <3> QED
      BY <3>1, <2>1, <1>2, <1>3 DEF Filled
  <2>3. Filled(lane, hitCount, k) => Filled(m, n, k)
    <3> SUFFICES ASSUME Filled(lane, hitCount, k) PROVE Filled(m, n, k)
      OBVIOUS
    <3>1. k < n /\ k < HitCapacity /\ k # hitCount
      BY <2>1, <1>2 DEF Filled
    <3>2. \A u \in Lanes : m[u].at = "store" => m[u].position # k
      BY <1>3, <3>1 DEF Filled
    <3> QED
      BY <3>1, <3>2 DEF Filled
  <2> QED
    BY <2>2, <2>3
<1>6. next \in Nat /\ count \in Nat /\ hits \in [Places -> Int]
  BY Constants DEF Hosted, Stored
<1>7. pc = "kernel" /\ UNCHANGED <<matches, pc, next, count, overflow, hits>>
  BY DEF Hit
<1>8. ASSUME NEW k \in Places, Filled(m, n, k)
      PROVE  /\ hits[k] \in matches /\ hits[k] \in next .. next + count - 1
             /\ Over(m, hits[k] - next)
  <2>1. /\ hits[k] \in matches /\ hits[k] \in next .. next + count - 1
        /\ Over(lane, hits[k] - next)
    BY <1>5, <1>7, <1>8 DEF Stored
  <2>2. hits[k] - next \in 0 .. count - 1
    BY <2>1, <1>6
  <2> QED
    BY <2>1, <2>2, <1>4
<1>9. ASSUME NEW i \in 0 .. count - 1, Over(m, i), next + i \in matches
      PROVE  overflow \/ \E k \in Places : Filled(m, n, k) /\ hits[k] = next + i
  <2>1. overflow \/ \E k \in Places : Filled(lane, hitCount, k) /\ hits[k] = next + i
    BY <1>4, <1>7, <1>9 DEF Stored
  <2> QED
    BY <2>1, <1>5
<1>10. \A j, k \in Places :
         Filled(m, n, j) /\ Filled(m, n, k) /\ hits[j] = hits[k] => j = k
  BY <1>5, <1>7 DEF Stored
<1>p. Places' = Places
  BY DEF Hit, Places, BatchCount
<1> QED
  BY <1>p, <1>1, <1>6, <1>7, <1>8, <1>9, <1>10 DEF Stored

(* A hit is stored at its place, or there is none. *)
LEMMA StoredStore ==
    ASSUME Hosted, Strided, Stored, NEW t \in Lanes, Store(t)
    PROVE  Stored'
<1>1. PICK m, h, p, c : m = lane' /\ h = hits' /\ p = lane[t].position /\ c = lane[t].i
  OBVIOUS
<1>2. /\ lane \in [Lanes -> LaneStates] /\ hitCount \in Nat /\ lane[t].at = "store"
      /\ pc = "kernel" /\ m = [lane EXCEPT ![t] = Onward(t)]
      /\ UNCHANGED <<matches, pc, next, count, hitCount>>
  BY <1>1 DEF Strided, Hosted, Store
<1>3. /\ c \in Nat /\ p \in Nat /\ c % Grid = t /\ c < count /\ next + c \in matches /\ p < hitCount
      /\ \A u \in Lanes \ {t} : lane[u].at = "store" => lane[u].position # p
  BY <1>1, <1>2 DEF Strided, LaneStates
<1>4. next \in Nat /\ count \in Nat /\ hits \in [Places -> Int] /\ overflow \in BOOLEAN
  BY Constants DEF Hosted, Stored
<1>5. /\ Onward(t) \in LaneStates /\ Onward(t).at # "store"
      /\ Onward(t).at = "done" => lane[t].i + Grid >= count
      /\ Onward(t).at # "done" => Onward(t).i = lane[t].i + Grid
  BY OnwardFacts
<1>6. ASSUME NEW i \in 0 .. count - 1
      PROVE  /\ Over(lane, i) => Over(m, i)
             /\ Over(m, i) => Over(lane, i) \/ i = c
             /\ i = c => Over(m, i) /\ ~ Over(lane, i)
  <2>1. PICK L : L = Onward(t)
    OBVIOUS
  <2>2. /\ lane \in [Lanes -> LaneStates] /\ count \in Nat
        /\ lane[t].at # "done" /\ lane[t].i % Grid = t /\ L \in LaneStates
        /\ L.at = "done" => lane[t].i + Grid >= count
        /\ L.at # "done" => L.i = lane[t].i + Grid
        /\ m = [lane EXCEPT ![t] = L]
    BY <2>1, <1>1, <1>2, <1>3, <1>4, <1>5
  <2>3. /\ Over(lane, i) => Over(m, i)
        /\ Over(m, i) => Over(lane, i) \/ i = lane[t].i
        /\ i = lane[t].i => Over(m, i) /\ ~ Over(lane, i)
    BY <2>2, OverMoves, Zenon
  <2> QED
    BY <1>1, <2>3, Zenon
<1>7. \A u \in Lanes : m[u] = IF u = t THEN Onward(t) ELSE lane[u]
  BY <1>2
<1>8. ASSUME NEW k \in Places
      PROVE  Filled(m, hitCount, k) <=> Filled(lane, hitCount, k) \/ (k = p /\ p < HitCapacity)
  <2>1. CASE k = p
    <3>1. \A u \in Lanes : m[u].at = "store" => m[u].position # k
      BY <1>3, <1>5, <1>7, <2>1
    <3>2. ~ Filled(lane, hitCount, k)
      BY <1>1, <1>2, <2>1 DEF Filled
    <3> QED
      BY <3>1, <3>2, <1>3, <2>1 DEF Filled
  <2>2. CASE k # p
    <3>1. (\A u \in Lanes : m[u].at = "store" => m[u].position # k)
            <=> (\A u \in Lanes : lane[u].at = "store" => lane[u].position # k)
      BY <1>1, <1>2, <1>5, <1>7, <2>2
    <3> QED
      BY <3>1, <2>2 DEF Filled
  <2> QED
    BY <2>1, <2>2
<1>9. /\ h \in [Places -> Int]
      /\ \A k \in Places : h[k] = IF k = p /\ p < HitCapacity THEN next + c ELSE hits[k]
      /\ overflow => overflow'
      /\ p >= HitCapacity => overflow'
  <2>1. CASE p < HitCapacity
    <3>1. h = [hits EXCEPT ![p] = next + c] /\ overflow' = overflow
      BY <1>1, <2>1 DEF Store, Fits
    <3> QED
      BY <3>1, <2>1, <1>3, <1>4, Constants
  <2>2. CASE ~ p < HitCapacity
    <3>1. h = hits /\ overflow'
      BY <1>1, <2>2 DEF Store, Fits
    <3> QED
      BY <3>1, <2>2, <1>3, <1>4, Constants
  <2> QED
    BY <2>1, <2>2
<1>10. ASSUME NEW k \in Places, Filled(lane, hitCount, k)
       PROVE  /\ k # p /\ h[k] = hits[k]
              /\ hits[k] \in matches /\ hits[k] \in next .. next + count - 1
              /\ Over(lane, hits[k] - next) /\ hits[k] - next \in 0 .. count - 1
              /\ hits[k] # next + c
  <2>1. k # p
    BY <1>1, <1>2, <1>10 DEF Filled
  <2>2. /\ hits[k] \in matches /\ hits[k] \in next .. next + count - 1
        /\ Over(lane, hits[k] - next)
    BY <1>2, <1>10 DEF Stored
  <2>3. hits[k] - next \in 0 .. count - 1 /\ hits[k] \in Int
    BY <2>2, <1>4
  <2>4. hits[k] - next # c
    BY <2>2, <2>3, <1>6
  <2> QED
    BY <2>1, <2>2, <2>3, <2>4, <1>3, <1>4, <1>9
<1>11. ASSUME NEW k \in Places, Filled(m, hitCount, k)
       PROVE  /\ h[k] \in matches /\ h[k] \in next .. next + count - 1
              /\ Over(m, h[k] - next)
  <2>1. CASE Filled(lane, hitCount, k)
    BY <2>1, <1>6, <1>10
  <2>2. CASE k = p /\ p < HitCapacity
    <3>1. h[k] = next + c /\ c \in 0 .. count - 1 /\ h[k] - next = c
      BY <2>2, <1>3, <1>4, <1>9
    <3> QED
      BY <3>1, <1>3, <1>4, <1>6
  <2> QED
    BY <2>1, <2>2, <1>8, <1>11
<1>12. ASSUME NEW i \in 0 .. count - 1, Over(m, i), next + i \in matches
       PROVE  overflow' \/ \E k \in Places : Filled(m, hitCount, k) /\ h[k] = next + i
  <2>1. CASE i = c
    <3>1. CASE p < HitCapacity
      <4>1. p \in Places
        BY <3>1, <1>3, Constants
      <4> QED
        BY <4>1, <3>1, <2>1, <1>8, <1>9
    <3>2. CASE ~ p < HitCapacity
      <4>1. p >= HitCapacity
        BY <3>2, <1>3, Constants
      <4> QED
        BY <4>1, <1>9
    <3> QED
      BY <3>1, <3>2
  <2>2. CASE i # c
    <3>1. Over(lane, i)
      BY <2>2, <1>6, <1>12
    <3>2. overflow \/ \E k \in Places : Filled(lane, hitCount, k) /\ hits[k] = next + i
      BY <3>1, <1>2, <1>12 DEF Stored
    <3> QED
      BY <3>2, <1>8, <1>9, <1>10
  <2> QED
    BY <2>1, <2>2
<1>13. ASSUME NEW j \in Places, NEW k \in Places,
              Filled(m, hitCount, j), Filled(m, hitCount, k), h[j] = h[k]
       PROVE  j = k
  <2>1. CASE Filled(lane, hitCount, j) /\ Filled(lane, hitCount, k)
    BY <2>1, <1>2, <1>10, <1>13 DEF Stored
  <2>2. CASE Filled(lane, hitCount, j) /\ k = p /\ p < HitCapacity
    BY <2>2, <1>9, <1>10, <1>13
  <2>3. CASE Filled(lane, hitCount, k) /\ j = p /\ p < HitCapacity
    BY <2>3, <1>9, <1>10, <1>13
  <2> QED
    BY <2>1, <2>2, <2>3, <1>8, <1>13
<1>14. \A k \in Places : k >= HitCapacity => h[k] = Nothing
  BY <1>3, <1>9, Constants DEF Stored
<1>15. /\ hits' \in [Places -> Int]
       /\ \A k \in Places : k >= HitCapacity => hits'[k] = Nothing
  BY <1>1, <1>9, <1>14
<1>16. \A k \in Places : Filled(lane', hitCount', k) =>
          /\ hits'[k] \in matches' /\ hits'[k] \in next' .. next' + count' - 1
          /\ Over(lane', hits'[k] - next')
  BY <1>1, <1>2, <1>11
<1>17. \A j, k \in Places :
          Filled(lane', hitCount', j) /\ Filled(lane', hitCount', k) /\ hits'[j] = hits'[k] => j = k
  BY <1>1, <1>2, <1>13
<1>18. \A i \in 0 .. count' - 1 : Over(lane', i) /\ next' + i \in matches' =>
          overflow' \/ \E k \in Places : Filled(lane', hitCount', k) /\ hits'[k] = next' + i
  BY <1>1, <1>2, <1>12
<1>p. Places' = Places
  BY DEF Store, Places, BatchCount
<1> QED
  BY <1>p, <1>15, <1>16, <1>17, <1>18 DEF Stored

LEMMA StoredStep == ASSUME Hosted, Strided, Stored, [Next]_vars PROVE Stored'
<1>1. CASE Launch
  <2>1. /\ hitCount' = 0 /\ hits' = hits /\ pc' = "kernel" /\ next' = next
        /\ lane' = [t \in Lanes |-> [at |-> "test", i |-> t, position |-> 0]]
    BY <1>1 DEF Launch, Cleared
  <2>2. PICK m : m = lane'
    OBVIOUS
  <2>3. \A k \in Places : ~ Filled(m, 0, k)
    BY Constants DEF Filled
  <2>4. count' \in Nat
    BY <1>1, Constants DEF Launch, BatchSize, Hosted
  <2>5. ASSUME NEW i \in 0 .. count' - 1 PROVE ~ Over(m, i)
    <3>1. i \in Nat /\ Grid \in Nat \ {0}
      BY <2>4, Constants
    <3>2. PICK u : u = i % Grid
      OBVIOUS
    <3>3. u \in Lanes /\ u \in Nat /\ ~ u > i
      <4>1. i % Grid \in 0 .. Grid - 1 /\ ~ i % Grid > i
        BY <3>1, ModRange, ModBelow
      <4> QED
        BY <4>1, <3>1, <3>2, Constants
    <3>4. m[u].at = "test" /\ m[u].i = u
      BY <2>1, <2>2, <3>3
    <3> QED
      BY <3>2, <3>3, <3>4 DEF Over
  <2> QED
    BY Steady, <2>1, <2>2, <2>3, <2>5 DEF Stored
<1>2. CASE Host /\ ~ Launch
  <2>1. hits' = hits /\ pc' # "kernel"
    BY <1>2 DEF Host, Device, Stop, Exit, Refuse, Publish, Fail, device
  <2> QED
    BY Steady, <2>1 DEF Stored
<1>3. ASSUME NEW t \in Lanes, Lane(t) PROVE Stored'
  <2>1. CASE Spare(t)
    <3>1. Idle \in LaneStates /\ Idle.at = "done"
      BY DEF Idle, LaneStates
    <3>2. /\ pc = "kernel" /\ lane[t].at = "test" /\ lane[t].i >= count
          /\ lane' = [lane EXCEPT ![t] = Idle]
          /\ UNCHANGED <<request, matches, pc, next, count, hitCount, overflow, hits>>
      BY <2>1 DEF Spare, device
    <3>3. lane[t].i \in Nat /\ count \in Nat /\ Grid \in Nat
      BY Constants DEF Strided, Hosted, LaneStates
    <3>4. lane[t].i + Grid >= count /\ ~ lane[t].i < count
      BY <3>2, <3>3
    <3> QED
      BY <3>1, <3>2, <3>4, StoredPast
  <2>2. CASE Miss(t)
    <3>1. /\ pc = "kernel" /\ lane[t].at = "test" /\ next + lane[t].i \notin matches
          /\ lane' = [lane EXCEPT ![t] = Onward(t)]
          /\ UNCHANGED <<request, matches, pc, next, count, hitCount, overflow, hits>>
      BY <2>2 DEF Miss, device
    <3> QED
      BY <3>1, OnwardFacts, StoredPast
  <2>3. CASE Hit(t)
    BY <2>3, StoredHit
  <2>4. CASE Store(t)
    BY <2>4, StoredStore
  <2> QED
    BY <1>3, <2>1, <2>2, <2>3, <2>4 DEF Lane
<1>4. CASE UNCHANGED vars
  BY Steady, <1>4 DEF vars, device, Stored
<1> QED
  BY <1>1, <1>2, <1>3, <1>4 DEF Next

LEMMA KernelStart == ASSUME Init PROVE KernelInv
<1>1. Hosted
  <2>1. request \in Requests /\ request \in [start : Nat, count : Nat, batch : Nat \ {0}]
    BY GpuConstants DEF Init
  <2>2. Start \in Start .. End /\ 0 \in Nat
    BY <2>1 DEF Start, End, Count
  <2> QED
    BY <2>1, <2>2 DEF Init, Hosted
<1>2. Strided
  BY DEF Init, Strided, Idle, LaneStates
<1>3. Stored
  BY DEF Init, Stored, Nothing
<1> QED
  BY <1>1, <1>2, <1>3 DEF KernelInv

LEMMA KernelInvariant == Spec => []KernelInv
<1>1. KernelInv /\ [Next]_vars => KernelInv'
  BY HostedStep, StridedStep, StoredStep DEF KernelInv
<1> QED
  BY KernelStart, <1>1, PTL DEF Spec

(* Whatever the order of the threads' atomics and stores, what the host    *)
(* copies is this batch's hits, each once.                                 *)
THEOREM BufferIsAccounted == Spec => []BufferAccounted
<1>1. ASSUME KernelInv PROVE BufferAccounted
  <2>1. Hosted /\ Strided /\ Stored
    BY <1>1 DEF KernelInv
  <2>2. \A k \in Places : k >= HitCapacity => hits[k] = Nothing
    BY <2>1 DEF Stored
  <2>3. ASSUME pc = "kernel", NEW t \in InFlight, NEW u \in InFlight, Taken(t) = Taken(u)
        PROVE  t = u
    BY <2>1, <2>3 DEF Strided, InFlight, Taken
  <2> DEFINE filled == {k \in {k \in 0 .. hitCount - 1 : k < HitCapacity} :
                           \A t \in InFlight : Taken(t) # k}
  <2>4. ASSUME NEW k \in filled
        PROVE  k \in Places /\ Filled(lane, hitCount, k)
    <3>1. k \in Nat /\ k < hitCount /\ k < HitCapacity /\ hitCount \in Nat
      BY <2>1 DEF Hosted
    <3>2. k \in Places
      BY <2>1, <3>1, Constants
    <3>3. \A t \in Lanes : lane[t].at = "store" => lane[t].position # k
      BY DEF InFlight, Taken
    <3> QED
      BY <3>1, <3>2, <3>3 DEF Filled
  <2> HIDE DEF filled
  <2>5. pc = "kernel" =>
          /\ \A k \in filled : hits[k] \in next .. next + count - 1
          /\ \A j, k \in filled : hits[j] = hits[k] => j = k
    BY <2>1, <2>4 DEF Stored
  <2> QED
    BY <2>2, <2>3, <2>5 DEF BufferAccounted, filled
<1> QED
  BY <1>1, KernelInvariant, PTL

-----------------------------------------------------------------------------
(* The refinement of the protocol.                                         *)

Records ==
    {[type |-> "device"], [type |-> "error"]}
    \cup [type : {"batch"}, start : Nat, count : Nat, hits : Seq(Int), overflow : {FALSE}]
    \cup [type : {"summary"}, start : Nat, next : Nat, tested : Int, completed : BOOLEAN,
          reason : {"completed", "max_seconds"}]

LastOf(records) == records[Len(records)]

(* The last record is the device's, or the batch before n. *)
LeadsTo(records, n) ==
    /\ records # <<>>
    /\ LastOf(records).type \in {"device", "batch"}
    /\ Protocol!Position(records) = n

(* The records lead up to the host's place. *)
Told ==
    /\ output \in Seq(Records)
    /\ exit \in {"running", "ok", "error"} /\ (exit = "running" <=> pc # "gone")
    /\ pc = "device" => output = <<>> /\ next = Start
    /\ pc \in {"head", "kernel"} => LeadsTo(output, next)
    /\ pc = "exit" => output # <<>> /\ LastOf(output).type = "summary"

LEMMA Growing ==
    ASSUME NEW s \in Seq(Records), NEW r \in Records
    PROVE  /\ Append(s, r) \in Seq(Records) /\ Append(s, r) # <<>>
           /\ LastOf(Append(s, r)) = r
           /\ Len(Append(s, r)) > 0
<1>1. Append(s, r) \in Seq(Records) /\ Len(Append(s, r)) = Len(s) + 1 /\ Len(s) \in Nat
  OBVIOUS
<1>2. Append(s, r)[Len(s) + 1] = r
  OBVIOUS
<1>3. Append(s, r) # <<>>
  BY <1>1
<1> QED
  BY <1>1, <1>2, <1>3 DEF LastOf

(* At the kernel's end without an overflow the list is the batch's. *)
LEMMA Publishes ==
    ASSUME KernelInv, Publish
    PROVE  /\ InOrder(Found) \in [1 .. hitCount -> Start .. End - 1]
           /\ hitCount \in 0 .. HitCapacity
           /\ Protocol!Lists(InOrder(Found), next)
           /\ count = Protocol!BatchSize(next)
<1>1. Hosted /\ Strided /\ Stored
  BY DEF KernelInv
<1>2. /\ pc = "kernel" /\ ~ overflow /\ hitCount \in Nat /\ hitCount <= HitCapacity
      /\ next \in Nat /\ count \in Nat /\ matches \subseteq Start .. End - 1
  <2>1. pc = "kernel" /\ ~ overflow /\ ~ (hitCount > HitCapacity)
    BY Zenon DEF Publish, Overflowed
  <2>2. /\ hitCount \in Nat /\ next \in Start .. End /\ count \in Nat
        /\ matches \subseteq Start .. End - 1
    BY <1>1, Zenon DEF Hosted
  <2>3. Start \in Nat /\ End \in Nat /\ HitCapacity \in Nat
    BY <1>1, Constants
  <2>4. hitCount <= HitCapacity /\ next \in Nat
    BY <2>1, <2>2, <2>3
  <2> QED
    BY <2>1, <2>2, <2>4, Zenon
<1>3. \A t \in Lanes : lane[t].at = "done"
  BY DEF Publish, KernelOver
<1>4. ASSUME NEW k \in 0 .. hitCount - 1
      PROVE  k \in Places /\ Filled(lane, hitCount, k)
  <2>1. k \in Nat /\ k < hitCount /\ k < HitCapacity
    BY <1>1, <1>2, Constants
  <2> QED
    BY <1>1, <1>2, <1>3, <2>1, Constants DEF Filled
<1>5. \A i \in 0 .. count - 1 : Over(lane, i)
  <2> SUFFICES ASSUME NEW i \in 0 .. count - 1 PROVE Over(lane, i)
    OBVIOUS
  <2>1. i \in Nat /\ Grid \in Nat \ {0}
    BY Sizes
  <2>2. i % Grid \in 0 .. Grid - 1
    BY <2>1, ModRange
  <2>3. i % Grid \in Lanes
    BY <2>2, Sizes
  <2> QED
    BY <2>3, <1>3 DEF Over
<1>6. PICK f : f = Found
  OBVIOUS
<1>7. f = [k \in 1 .. hitCount |-> hits[k - 1]]
  BY <1>6 DEF Found
<1>8. ASSUME NEW k \in 1 .. hitCount
      PROVE  /\ f[k] = hits[k - 1] /\ k - 1 \in Places /\ Filled(lane, hitCount, k - 1)
             /\ f[k] \in matches /\ f[k] \in next .. next + count - 1
  <2>1. k - 1 \in 0 .. hitCount - 1
    BY <1>2
  <2>2. k - 1 \in Places /\ Filled(lane, hitCount, k - 1)
    BY <2>1, <1>4
  <2> QED
    BY <2>2, <1>1, <1>2, <1>7 DEF Stored
<1>9. f \in [1 .. hitCount -> Start .. End - 1]
  BY <1>2, <1>7, <1>8
<1>10. ASSUME NEW j \in 1 .. hitCount, NEW k \in 1 .. hitCount, f[j] = f[k]
       PROVE  j = k
  <2>1. j - 1 = k - 1
    BY <1>1, <1>2, <1>8, <1>10 DEF Stored
  <2> QED
    BY <2>1
<1>11. {f[k] : k \in 1 .. hitCount} = matches \cap (next .. next + count - 1)
  <2>1. ASSUME NEW x \in matches \cap (next .. next + count - 1)
        PROVE  x \in {f[k] : k \in 1 .. hitCount}
    <3>1. PICK i : i = x - next
      OBVIOUS
    <3>2. i \in 0 .. count - 1 /\ next + i = x
      BY <3>1, <1>2
    <3>3. PICK k \in Places : Filled(lane, hitCount, k) /\ hits[k] = x
      BY <1>1, <1>2, <1>5, <2>1, <3>2 DEF Stored
    <3>4. k \in Nat /\ k < hitCount
      BY <1>1, <3>3, Constants DEF Filled
    <3>5. PICK j : j = k + 1
      OBVIOUS
    <3>6. j \in 1 .. hitCount /\ j - 1 = k
      BY <1>2, <3>4, <3>5
    <3>7. f[j] = x
      BY <3>3, <3>6, <1>8
    <3> QED
      BY <3>6, <3>7
  <2>2. ASSUME NEW x \in {f[k] : k \in 1 .. hitCount}
        PROVE  x \in matches \cap (next .. next + count - 1)
    BY <1>8
  <2> QED
    BY <2>1, <2>2
<1>12. PICK r : r = InOrder(f)
  OBVIOUS
<1>13. /\ r \in [1 .. hitCount -> Start .. End - 1]
       /\ Protocol!Ascending(r)
       /\ Protocol!Listed(r) = {f[k] : k \in 1 .. hitCount}
  <2>1. Start .. End - 1 \in SUBSET Int /\ End \in Int /\ \A x \in Start .. End - 1 : x <= End
    BY <1>1, Constants
  <2>2. \A j, k \in 1 .. hitCount : f[j] = f[k] => j = k
    BY <1>10
  <2>3. PICK S, b, n : S = Start .. End - 1 /\ b = End /\ n = hitCount
    OBVIOUS
  <2>4. /\ S \in SUBSET Int /\ b \in Int /\ \A x \in S : x <= b
        /\ n \in Nat /\ f \in [1 .. n -> S] /\ \A j, k \in 1 .. n : f[j] = f[k] => j = k
    BY <1>2, <1>9, <2>1, <2>2, <2>3
  <2>5. /\ InOrder(f) \in [1 .. n -> S]
        /\ Protocol!Ascending(InOrder(f))
        /\ Protocol!Listed(InOrder(f)) = Protocol!Listed(f)
    BY <2>4, Sorted
  <2>6. Protocol!Listed(f) = {f[k] : k \in 1 .. n}
    BY <2>4 DEF Protocol!Listed
  <2> QED
    BY <2>3, <2>5, <2>6, <1>12
<1>14. count = Protocol!BatchSize(next)
  BY <1>1, <1>2 DEF Hosted, BatchSize, Protocol!BatchSize, Protocol!End, End, Start, Count, BatchCount
<1>15. Protocol!Lists(r, next)
  BY <1>11, <1>13, <1>14 DEF Protocol!Lists
<1> QED
  BY <1>2, <1>6, <1>12, <1>13, <1>14, <1>15

LEMMA ToldStep == ASSUME KernelInv, Told, [Next]_vars PROVE Told'
<1>r. request' = request /\ Start' = Start
  BY Steady
<1>1. next \in Nat /\ count \in Nat /\ Start \in Nat /\ next >= Start
  BY Constants DEF KernelInv, Hosted
<1>2. CASE Device
  <2>1. PICK r : r = [type |-> "device"]
    OBVIOUS
  <2>2. r \in Records /\ output' = <<r>> /\ r.type = "device" /\ next = Start
    BY <1>2, <2>1 DEF Device, Told, Records
  <2>3. output' \in Seq(Records) /\ output' # <<>> /\ Len(output') = 1 /\ output'[1] = r
    BY <2>2
  <2>4. LeadsTo(output', next)
    BY <2>2, <2>3 DEF LeadsTo, LastOf, Protocol!Position, Protocol!IsBatch, Start
  <2> QED
    BY <1>2, <2>3, <2>4 DEF Device, Told, LeadsTo, Protocol!Position
<1>3. CASE Launch
  BY <1>r, <1>3 DEF Launch, Told, LeadsTo, Protocol!Position
<1>4. CASE Stop
  <2>1. PICK r : r = [type |-> "summary", start |-> Start, next |-> next,
                      tested |-> next - Start, completed |-> next = End,
                      reason |-> IF next = End THEN "completed" ELSE "max_seconds"]
    OBVIOUS
  <2>2. r.type = "summary" /\ output' = Append(output, r) /\ pc' = "exit" /\ exit' = exit /\ pc = "head"
    BY <1>4, <2>1 DEF Stop
  <2>3. r \in Records
    <3>1. /\ (next = End) \in BOOLEAN /\ next - Start \in Int
          /\ (IF next = End THEN "completed" ELSE "max_seconds") \in {"completed", "max_seconds"}
      BY <1>1
    <3> QED
      BY <1>1, <2>1, <3>1 DEF Records
  <2> QED
    BY <2>2, <2>3, Growing DEF Told
<1>5. CASE Exit
  BY <1>5 DEF Exit, Told
<1>6. CASE Refuse
  <2>1. PICK r : r = [type |-> "error"]
    OBVIOUS
  <2>2. r \in Records /\ output' = Append(output, r) /\ exit' = "error" /\ pc' = "gone"
    BY <1>6, <2>1 DEF Refuse, Records
  <2> QED
    BY <2>2, Growing DEF Told
<1>7. CASE Publish
  <2>1. PICK h : h = InOrder(Found)
    OBVIOUS
  <2>2. PICK r : r = [type |-> "batch", start |-> next, count |-> count,
                      hits |-> h, overflow |-> FALSE]
    OBVIOUS
  <2>3. /\ r.type = "batch" /\ r.start = next /\ r.count = count
        /\ output' = Append(output, r) /\ pc' = "head" /\ exit' = exit /\ pc = "kernel"
        /\ next' = next + count
    BY <1>7, <2>1, <2>2 DEF Publish
  <2>4. r \in Records
    <3>1. h \in Seq(Int)
      <4>1. /\ h \in [1 .. hitCount -> Start .. End - 1] /\ hitCount \in Nat
            /\ Start \in Nat /\ End \in Nat
        BY <1>7, <2>1, Publishes, Constants DEF KernelInv
      <4>2. h \in [1 .. hitCount -> Int]
        BY <4>1
      <4> QED
        BY <4>1, <4>2
    <3> QED
      BY <1>1, <2>2, <3>1 DEF Records
  <2>5. PICK o : o = output'
    OBVIOUS
  <2>6. o \in Seq(Records) /\ o # <<>> /\ LastOf(o) = r /\ Len(o) > 0
    BY <2>3, <2>4, <2>5, Growing DEF Told
  <2>7. LeadsTo(o, next + count)
    BY <2>3, <2>6 DEF LeadsTo, LastOf, Protocol!Position, Protocol!IsBatch
  <2> QED
    BY <1>r, <2>3, <2>5, <2>6, <2>7 DEF Told, LeadsTo, Protocol!Position
<1>8. CASE Fail
  BY <1>8 DEF Fail, Told
<1>9. ASSUME NEW t \in Lanes, Lane(t) PROVE Told'
  <2>1. UNCHANGED <<pc, next, output, exit>>
    BY <1>9 DEF Lane, Spare, Miss, Hit, Store
  <2> QED
    BY <1>r, <2>1 DEF Told, LeadsTo, Protocol!Position
<1>10. CASE UNCHANGED vars
  BY <1>r, <1>10 DEF vars, Told, LeadsTo, Protocol!Position
<1> QED
  BY <1>2, <1>3, <1>4, <1>5, <1>6, <1>7, <1>8, <1>9, <1>10 DEF Next, Host

(* Every step of host and kernel is one of the protocol, or none. *)
LEMMA ProtocolStep ==
    ASSUME KernelInv, Told, [Next]_vars
    PROVE  [Protocol!Next]_Protocol!vars
<1>r. request' = request
  BY Steady
<1>1. CASE Device
  <2>1. output = <<>> /\ exit = "running" /\ output' = Append(output, [type |-> "device"])
        /\ UNCHANGED <<matches, exit>>
    BY <1>1 DEF Device, Told
  <2>2. Protocol!Device
    BY <1>r, <2>1 DEF Protocol!Device, Protocol!Write
  <2> QED
    BY <2>2 DEF Protocol!Next
<1>2. CASE Stop
  <2>1. /\ LeadsTo(output, next) /\ exit = "running" /\ UNCHANGED <<matches, exit>>
        /\ output' = Append(output,
             [type |-> "summary", start |-> Start, next |-> next,
              tested |-> next - Start, completed |-> next = End,
              reason |-> IF next = End THEN "completed" ELSE "max_seconds"])
    BY <1>2 DEF Stop, Told
  <2>2. Protocol!Summary
    BY <1>r, <2>1 DEF Protocol!Summary, Protocol!Reason, Protocol!Write, Protocol!Searching,
                Protocol!End, End,
                Start, Count,
                LeadsTo, LastOf
  <2> QED
    BY <2>2 DEF Protocol!Next
<1>3. CASE Exit
  <2>1. Protocol!Finish
    BY <1>r, <1>3 DEF Exit, Told, LastOf, Protocol!Finish
  <2> QED
    BY <2>1 DEF Protocol!Next
<1>4. CASE Refuse
  <2>1. Protocol!Fail
    BY <1>r, <1>4 DEF Refuse, Told, Protocol!Fail
  <2> QED
    BY <2>1 DEF Protocol!Next
<1>5. CASE Publish
  <2>1. PICK h : h = InOrder(Found)
    OBVIOUS
  <2>2. /\ LeadsTo(output, next) /\ exit = "running" /\ UNCHANGED <<matches, exit>>
        /\ output' = Append(output,
             [type |-> "batch", start |-> next, count |-> count, hits |-> h, overflow |-> FALSE])
    BY <1>5, <2>1 DEF Publish, Told
  <2>3. /\ h \in [1 .. hitCount -> Start .. End - 1] /\ hitCount \in 0 .. HitCapacity
        /\ Protocol!Lists(h, next) /\ count = Protocol!BatchSize(next)
    BY <1>5, <2>1, Publishes
  <2>4. next < End
    BY <1>5 DEF KernelInv, Hosted, Publish
  <2>5. h \in UNION {[1 .. n -> Candidates] : n \in 0 .. HitCapacity}
    <3>1. request \in Requests
      BY DEF KernelInv, Hosted
    <3>2. \A x \in Start .. End - 1 : x \in Candidates
      <4> SUFFICES ASSUME NEW x \in Start .. End - 1 PROVE x \in Candidates
        OBVIOUS
      <4>1. x \in request.start .. request.start + request.count - 1
        <5>1. Start \in Nat /\ Count \in Nat /\ End = Start + Count
          BY Constants DEF KernelInv, End
        <5>2. x \in Start .. Start + Count - 1
          BY <5>1
        <5> QED
          BY <5>2 DEF Start, Count
      <4>2. PICK R : R = Requests
        OBVIOUS
      <4>3. x \in UNION {q.start .. q.start + q.count - 1 : q \in R}
        BY <3>1, <4>1, <4>2
      <4> QED
        BY <4>2, <4>3 DEF Candidates
    <3>3. h \in [1 .. hitCount -> Candidates]
      BY <2>3, <3>2
    <3> QED
      BY <2>3, <3>3
  <2>6. Protocol!Searching /\ Protocol!Position(output) = next
    BY <2>2 DEF LeadsTo, LastOf, Protocol!Searching
  <2>7. Protocol!Position(output) < Protocol!End
    BY <2>4, <2>6 DEF Protocol!End, End, Start, Count
  <2>8. Protocol!Batch
    <3>1. /\ Protocol!Lists(h, Protocol!Position(output))
          /\ Protocol!Write([type |-> "batch", start |-> Protocol!Position(output),
                             count |-> Protocol!BatchSize(Protocol!Position(output)),
                             hits |-> h, overflow |-> FALSE])
      BY <1>r, <2>2, <2>3, <2>6 DEF Protocol!Write
    <3> QED
      BY <2>5, <2>6, <2>7, <3>1 DEF Protocol!Batch
  <2> QED
    BY <2>8 DEF Protocol!Next
<1>6. CASE Fail
  <2>1. exit = "running" /\ exit' = "error" /\ UNCHANGED <<matches, output>>
    BY <1>6 DEF Fail, Told
  <2>2. Protocol!Fail
    BY <1>r, <2>1 DEF Protocol!Fail
  <2> QED
    BY <2>2 DEF Protocol!Next
<1>7. ASSUME UNCHANGED <<matches, output, exit>>
      PROVE  [Protocol!Next]_Protocol!vars
  BY <1>r, <1>7 DEF Protocol!vars
<1>8. CASE Launch
  BY <1>7, <1>8 DEF Launch
<1>9. ASSUME NEW t \in Lanes, Lane(t)
      PROVE  [Protocol!Next]_Protocol!vars
  BY <1>7, <1>9 DEF Lane, Spare, Miss, Hit, Store
<1>10. CASE UNCHANGED vars
  BY <1>7, <1>10 DEF vars
<1> QED
  BY <1>1, <1>2, <1>3, <1>4, <1>5, <1>6, <1>8, <1>9, <1>10 DEF Next, Host

(* The worker keeps the protocol that its driver relies on. *)
THEOREM WorkerKeepsTheProtocol == Spec => ImplementsProtocol
<1>1. Init => Protocol!Init
  <2> SUFFICES ASSUME Init PROVE Protocol!Init
    OBVIOUS
  <2>1. matches \in SUBSET (Start .. End - 1) /\ output = <<>> /\ exit = "running"
    BY DEF Init
  <2>2. request \in [start : Nat, count : Nat, batch : Nat \ {0}]
    BY GpuConstants DEF Init
  <2> QED
    BY <2>1, <2>2 DEF Protocol!Init, Protocol!Requested, Start, Count, End
<1>2. Init => Told
  BY DEF Init, Told
<1>3. KernelInv /\ Told /\ [Next]_vars => Told'
  BY ToldStep
<1>4. KernelInv /\ Told /\ [Next]_vars => [Protocol!Next]_Protocol!vars
  BY ProtocolStep
<1> QED
  BY <1>1, <1>2, <1>3, <1>4, KernelInvariant, PTL DEF Spec, ImplementsProtocol, Protocol!Spec
=============================================================================
