-------------------------- MODULE SchedullerProofs --------------------------
(***************************************************************************)
(* What holds of the scheduler for any tasks, start times and bounds.      *)
(***************************************************************************)
EXTENDS Scheduller, SequenceTheorems, FiniteSetTheorems, TLAPS

(* A set of naturals has a least member: the induction of this module.     *)
LEMMA LeastMember ==
    ASSUME NEW T \in SUBSET Nat, T # {}
    PROVE  \E m \in T : \A k \in T : m <= k
<1> DEFINE R == OpToRel(<, Nat)
<1>1. IsWellFoundedOn(R, Nat)
  BY NatLessThanWellFounded
<1>2. \A x, y \in Nat : x < y => <<x, y>> \in R
  BY DEF OpToRel
<1> HIDE DEF R
<1>3. PICK m \in T : \A k \in T : ~ (<<k, m>> \in R)
  BY <1>1, WFMin
<1>4. \A k \in T : ~ (k < m)
  BY <1>2, <1>3
<1>5. \A k \in T : m <= k
  BY <1>4
<1> QED BY <1>3, <1>5

(* f is what a loop computes that goes from s to step[s] until its variant *)
(* is 0; and that there is such an f.                                      *)
LoopIs(f, D, step, variant, base) ==
    f = [s \in D |-> IF variant[s] = 0 THEN base[s] ELSE f[step[s]]]

LEMMA LoopsEnd ==
    ASSUME NEW D, NEW step \in [D -> D], NEW variant \in [D -> Nat], NEW base,
           \A s \in D : variant[s] # 0 => variant[step[s]] < variant[s]
    PROVE  \E f : LoopIs(f, D, step, variant, base)
<1> DEFINE Dn(n) == {s \in D : variant[s] <= n}
           Sol(f, n) == f = [s \in Dn(n) |->
                                IF variant[s] = 0 THEN base[s] ELSE f[step[s]]]
<1>1. ASSUME NEW n \in Nat, NEW k \in Nat, NEW f, NEW g, Sol(f, n), Sol(g, k),
             NEW s \in Dn(n) \cap Dn(k)
      PROVE  f[s] = g[s]
  <2> DEFINE Differ == {u \in Dn(n) \cap Dn(k) : f[u] # g[u]}
             T == {variant[u] : u \in Differ}
  <2>1. SUFFICES ASSUME T # {} PROVE FALSE
    OBVIOUS
  <2>2. T \in SUBSET Nat
    OBVIOUS
  <2> HIDE DEF T
  <2>3. PICK m \in T : \A j \in T : m <= j
    BY <2>1, <2>2, LeastMember
  <2>4. PICK u \in Differ : variant[u] = m
    BY <2>3 DEF T
  <2>5. u \in D /\ variant[u] \in Nat /\ variant[u] <= n /\ variant[u] <= k
    OBVIOUS
  <2>6. CASE variant[u] = 0
    BY <1>1, <2>4, <2>6
  <2>7. CASE variant[u] # 0
    <3>1. /\ step[u] \in D /\ variant[step[u]] \in Nat
          /\ variant[step[u]] < variant[u]
      BY <2>5, <2>7
    <3>2. step[u] \in Dn(n) \cap Dn(k)
      BY <2>5, <3>1
    <3>3. step[u] \notin Differ
      <4>1. SUFFICES ASSUME step[u] \in Differ PROVE FALSE
        OBVIOUS
      <4>2. variant[step[u]] \in T
        BY <4>1 DEF T
      <4> QED BY <2>2, <2>3, <2>4, <3>1, <4>2
    <3>4. f[step[u]] = g[step[u]]
      BY <3>2, <3>3
    <3>5. f[u] = f[step[u]] /\ g[u] = g[step[u]]
      BY <1>1, <2>4, <2>7
    <3> QED BY <2>4, <3>4, <3>5
  <2> QED BY <2>6, <2>7
<1>2. \A n \in Nat : \E f : Sol(f, n)
  <2> DEFINE T == {n \in Nat : ~ \E f : Sol(f, n)}
  <2>1. SUFFICES ASSUME T # {} PROVE FALSE
    OBVIOUS
  <2>2. T \in SUBSET Nat
    OBVIOUS
  <2> HIDE DEF T
  <2>3. PICK m \in T : \A j \in T : m <= j
    BY <2>1, <2>2, LeastMember
  <2>4. m \in Nat /\ ~ \E f : Sol(f, m)
    BY <2>3 DEF T
  <2>5. CASE m = 0
    <3> DEFINE g == [s \in Dn(0) |-> base[s]]
    <3>1. \A s \in Dn(0) : variant[s] = 0
      OBVIOUS
    <3>2. Sol(g, 0)
      BY <3>1
    <3> QED BY <2>4, <2>5, <3>2
  <2>6. CASE m # 0
    <3>1. m - 1 \in Nat /\ m - 1 \notin T
      BY <2>3, <2>4, <2>6
    <3>2. PICK f : Sol(f, m - 1)
      BY <3>1 DEF T
    <3> DEFINE g == [s \in Dn(m) |-> IF variant[s] = 0 THEN base[s] ELSE f[step[s]]]
    <3>3. \A s \in Dn(m - 1) : s \in Dn(m)
      BY <2>4
    <3>4. \A s \in Dn(m - 1) : g[s] = f[s]
      BY <3>2, <3>3
    <3>5. \A s \in Dn(m) : variant[s] # 0 => step[s] \in Dn(m - 1)
      BY <2>4
    <3>6. \A s \in Dn(m) : variant[s] # 0 => g[step[s]] = f[step[s]]
      BY <3>4, <3>5
    <3>7. Sol(g, m)
      <4>1. g = [s \in Dn(m) |-> IF variant[s] = 0 THEN base[s] ELSE f[step[s]]]
        OBVIOUS
      <4> HIDE DEF g, Dn
      <4> QED BY <3>6, <4>1
    <3> QED BY <2>4, <3>7
  <2> QED BY <2>5, <2>6
<1> DEFINE Of(n) == CHOOSE f : Sol(f, n)
           F == [s \in D |-> Of(variant[s])[s]]
<1>3. \A n \in Nat : Sol(Of(n), n)
  <2> HIDE DEF Sol
  <2> QED BY <1>2
<1>4. ASSUME NEW s \in D
      PROVE  F[s] = IF variant[s] = 0 THEN base[s] ELSE F[step[s]]
  <2>1. variant[s] \in Nat /\ s \in Dn(variant[s])
    OBVIOUS
  <2>2. Sol(Of(variant[s]), variant[s])
    BY <1>3, <2>1
  <2>3. F[s] = Of(variant[s])[s]
    OBVIOUS
  <2> HIDE DEF Of
  <2>4. Of(variant[s])[s] = IF variant[s] = 0 THEN base[s] ELSE Of(variant[s])[step[s]]
    BY <2>1, <2>2
  <2>5. CASE variant[s] = 0
    BY <2>3, <2>4, <2>5
  <2>6. CASE variant[s] # 0
    <3>1. /\ step[s] \in D /\ variant[step[s]] \in Nat
          /\ step[s] \in Dn(variant[step[s]]) /\ step[s] \in Dn(variant[s])
      BY <2>6
    <3>2. Sol(Of(variant[step[s]]), variant[step[s]])
      BY <1>3, <3>1
    <3> HIDE DEF Sol
    <3>3. Of(variant[s])[step[s]] = Of(variant[step[s]])[step[s]]
      BY <1>1, <2>1, <2>2, <3>1, <3>2
    <3>4. F[step[s]] = Of(variant[step[s]])[step[s]]
      BY <3>1
    <3> QED BY <2>3, <2>4, <2>6, <3>3, <3>4
  <2> QED BY <2>5, <2>6
<1>5. F = [s \in D |-> F[s]]
  OBVIOUS
<1> HIDE DEF F
<1>6. LoopIs(F, D, step, variant, base)
  BY <1>4, <1>5 DEF LoopIs
<1> QED BY <1>6
-----------------------------------------------------------------------------
(* A list without its i-th element. *)
LEMMA RemoveAtProperties ==
    ASSUME NEW S, NEW q \in Seq(S), NEW i \in 1 .. Len(q)
    PROVE  /\ RemoveAt(q, i) \in Seq(S)
           /\ Len(RemoveAt(q, i)) = Len(q) - 1
           /\ \A k \in 1 .. Len(q) - 1 :
                 RemoveAt(q, i)[k] = IF k < i THEN q[k] ELSE q[k + 1]
<1> DEFINE a == SubSeq(q, 1, i - 1)
           b == SubSeq(q, i + 1, Len(q))
           r == RemoveAt(q, i)
<1>1. Len(q) \in Nat /\ \A k \in 1 .. Len(q) : q[k] \in S
  BY LenProperties, ElementOfSeq
<1>2. /\ a \in Seq(S) /\ Len(a) = i - 1
      /\ \A k \in 1 .. i - 1 : a[k] = q[k]
  BY <1>1, SubSeqProperties
<1>3. /\ b \in Seq(S) /\ Len(b) = Len(q) - i
      /\ \A k \in 1 .. Len(q) - i : b[k] = q[i + k]
  <2>1. CASE i = Len(q)
    BY <1>1, <2>1, SubSeqProperties
  <2>2. CASE i < Len(q)
    BY <1>1, <2>2, SubSeqProperties
  <2> QED BY <1>1, <2>1, <2>2
<1>4. r = a \o b
  BY DEF RemoveAt
<1> HIDE DEF a, b, r
<1>5. /\ r \in Seq(S)
      /\ Len(r) = Len(a) + Len(b)
      /\ \A k \in 1 .. Len(a) + Len(b) :
            r[k] = IF k <= Len(a) THEN a[k] ELSE b[k - Len(a)]
  BY <1>2, <1>3, <1>4, ConcatProperties
<1>6. Len(a) + Len(b) = Len(q) - 1
  BY <1>1, <1>2, <1>3
<1>7. ASSUME NEW k \in 1 .. Len(q) - 1
      PROVE  r[k] = IF k < i THEN q[k] ELSE q[k + 1]
  <2>1. r[k] = IF k <= i - 1 THEN a[k] ELSE b[k - (i - 1)]
    BY <1>2, <1>5, <1>6
  <2>2. CASE k < i
    BY <1>1, <1>2, <2>1, <2>2
  <2>3. CASE k >= i
    <3>1. k - (i - 1) \in 1 .. Len(q) - i /\ i + (k - (i - 1)) = k + 1
      BY <1>1, <2>3
    <3>2. b[k - (i - 1)] = q[k + 1]
      BY <1>3, <3>1
    <3> QED BY <1>1, <2>1, <2>3, <3>2
  <2> QED BY <1>1, <2>2, <2>3
<1> QED BY <1>5, <1>6, <1>7 DEF r

(* The recursion of checkTasks' loop is a definition: each turn moves i    *)
(* closer to the end of the list.                                          *)
LEMMA LoopTurn ==
    ASSUME NEW list \in Seq(Tasks), NEW i \in Nat
    PROVE  Loop[<<list, i>>] =
              IF i >= Len(list) THEN [list |-> list, ok |-> i = Len(list)]
              ELSE IF ~Late(list[i + 1]) THEN Loop[<<list, i + 1>>]
              ELSE IF i < Len(list) - i THEN Loop[<<RemoveAt(list, i + 1), i>>]
              ELSE Loop[<<RemoveAt(list, i + 1), i + 1>>]
<1> DEFINE D == Seq(Tasks) \X Nat
           step == [s \in D |->
                      IF s[2] >= Len(s[1]) THEN s
                      ELSE IF ~Late(s[1][s[2] + 1]) THEN <<s[1], s[2] + 1>>
                      ELSE IF s[2] < Len(s[1]) - s[2]
                           THEN <<RemoveAt(s[1], s[2] + 1), s[2]>>
                      ELSE <<RemoveAt(s[1], s[2] + 1), s[2] + 1>>]
           variant == [s \in D |-> IF s[2] >= Len(s[1]) THEN 0 ELSE Len(s[1]) - s[2]]
           base == [s \in D |-> [list |-> s[1], ok |-> s[2] = Len(s[1])]]
           Body(f, s) ==
              IF s[2] >= Len(s[1]) THEN [list |-> s[1], ok |-> s[2] = Len(s[1])]
              ELSE IF ~Late(s[1][s[2] + 1]) THEN f[<<s[1], s[2] + 1>>]
              ELSE IF s[2] < Len(s[1]) - s[2]
                   THEN f[<<RemoveAt(s[1], s[2] + 1), s[2]>>]
              ELSE f[<<RemoveAt(s[1], s[2] + 1), s[2] + 1>>]
<1>1. ASSUME NEW s \in D
      PROVE  /\ step[s] \in D /\ variant[s] \in Nat
             /\ variant[s] # 0 => variant[step[s]] < variant[s]
  <2>1. PICK q \in Seq(Tasks), k \in Nat : s = <<q, k>>
    OBVIOUS
  <2>2. Len(q) \in Nat
    BY LenProperties
  <2>3. CASE k >= Len(q)
    BY <2>1, <2>2, <2>3
  <2>4. CASE k < Len(q)
    <3>1. k + 1 \in 1 .. Len(q) /\ k + 1 \in Nat
      BY <2>2, <2>4
    <3> DEFINE r == RemoveAt(q, k + 1)
    <3>2. r \in Seq(Tasks) /\ Len(r) = Len(q) - 1
      BY <3>1, RemoveAtProperties
    <3>3. variant[s] = Len(q) - k
      BY <2>1, <2>2, <2>4
    <3>4. step[s] \in {<<q, k + 1>>, <<r, k>>, <<r, k + 1>>}
      BY <2>1, <2>2, <2>4
    <3> HIDE DEF r, step
    <3>5. <<q, k + 1>> \in D /\ <<r, k>> \in D /\ <<r, k + 1>> \in D
      BY <3>1, <3>2
    <3>6. /\ variant[<<q, k + 1>>] < Len(q) - k
          /\ variant[<<r, k>>] < Len(q) - k
          /\ variant[<<r, k + 1>>] < Len(q) - k
      BY <2>2, <2>4, <3>1, <3>2, <3>5
    <3> HIDE DEF variant
    <3>7. step[s] \in D
      BY <3>4, <3>5
    <3>8. variant[step[s]] < Len(q) - k
      BY <3>4, <3>6
    <3>9. variant[s] \in Nat
      BY <2>2, <2>4, <3>3
    <3> QED BY <3>3, <3>7, <3>8, <3>9
  <2> QED BY <2>2, <2>3, <2>4
<1>2. PICK f : f = [s \in D |-> IF variant[s] = 0 THEN base[s] ELSE f[step[s]]]
  <2>1. step \in [D -> D]
    <3>1. \A s \in D : step[s] \in D
      BY <1>1
    <3>2. step = [s \in D |-> step[s]]
      OBVIOUS
    <3> HIDE DEF step, D
    <3> QED BY <3>1, <3>2
  <2>2. variant \in [D -> Nat]
    <3>1. \A s \in D : variant[s] \in Nat
      BY <1>1
    <3>2. variant = [s \in D |-> variant[s]]
      OBVIOUS
    <3> HIDE DEF variant, D
    <3> QED BY <3>1, <3>2
  <2>3. \A s \in D : variant[s] # 0 => variant[step[s]] < variant[s]
    BY <1>1
  <2>4. PICK E, st, va, ba : E = D /\ st = step /\ va = variant /\ ba = base
    OBVIOUS
  <2> HIDE DEF step, variant, base, D
  <2>5. /\ st \in [E -> E] /\ va \in [E -> Nat]
        /\ \A s \in E : va[s] # 0 => va[st[s]] < va[s]
    BY <2>1, <2>2, <2>3, <2>4
  <2>6. PICK f : LoopIs(f, E, st, va, ba)
    BY <2>5, LoopsEnd
  <2> QED BY <2>4, <2>6 DEF LoopIs
<1>3. \A s \in D : (IF variant[s] = 0 THEN base[s] ELSE f[step[s]]) = Body(f, s)
  <2> SUFFICES ASSUME NEW s \in D
               PROVE  (IF variant[s] = 0 THEN base[s] ELSE f[step[s]]) = Body(f, s)
    OBVIOUS
  <2>1. Len(s[1]) \in Nat /\ s[2] \in Nat
    BY LenProperties
  <2>2. variant[s] = 0 <=> s[2] >= Len(s[1])
    BY <2>1
  <2> QED BY <2>2
<1>4. f = [s \in D |-> Body(f, s)]
  <2> HIDE DEF Body, variant, base, step, D
  <2> QED BY <1>2, <1>3
<1>5. Loop = [s \in D |-> Body(Loop, s)]
  BY <1>4 DEF Loop
<1>6. <<list, i>> \in D
  OBVIOUS
<1>7. Loop[<<list, i>>] = Body(Loop, <<list, i>>)
  <2> HIDE DEF Body, D
  <2> QED BY <1>5, <1>6
<1> QED BY <1>7

(* The turns that matter in a list in the order of time. *)
LEMMA LoopTurns ==
    ASSUME NEW list \in Seq(Tasks), NEW i \in Nat
    PROVE  /\ i = Len(list) => Loop[<<list, i>>] = [list |-> list, ok |-> TRUE]
           /\ i < Len(list) /\ ~Late(list[i + 1]) =>
                 Loop[<<list, i>>] = Loop[<<list, i + 1>>]
           /\ i < Len(list) /\ i < Len(list) - i /\ Late(list[i + 1]) =>
                 Loop[<<list, i>>] = Loop[<<RemoveAt(list, i + 1), i>>]
<1>1. Len(list) \in Nat
  BY LenProperties
<1>2. i = Len(list) => i >= Len(list)
  BY <1>1
<1>3. i < Len(list) => ~ (i >= Len(list))
  BY <1>1
<1>4. ASSUME i = Len(list)
      PROVE  Loop[<<list, i>>] = [list |-> list, ok |-> TRUE]
  <2>1. Loop[<<list, i>>] = [list |-> list, ok |-> i = Len(list)]
    BY <1>2, <1>4, LoopTurn, Zenon
  <2>2. (i = Len(list)) = TRUE
    BY <1>4
  <2> QED BY <2>1, <2>2, Zenon
<1>5. ASSUME i < Len(list), ~Late(list[i + 1])
      PROVE  Loop[<<list, i>>] = Loop[<<list, i + 1>>]
  BY <1>3, <1>5, LoopTurn, Zenon
<1>6. ASSUME i < Len(list), i < Len(list) - i, Late(list[i + 1])
      PROVE  Loop[<<list, i>>] = Loop[<<RemoveAt(list, i + 1), i>>]
  BY <1>3, <1>6, LoopTurn, Zenon
<1> QED BY <1>4, <1>5, <1>6

(* Where no task from i on is late, the loop runs to the end. *)
LEMMA LoopPasses ==
    ASSUME NEW list \in Seq(Tasks), NEW i \in 0 .. Len(list),
           \A k \in i + 1 .. Len(list) : ~Late(list[k])
    PROVE  Loop[<<list, i>>] = [list |-> list, ok |-> TRUE]
<1> DEFINE Good(j) == Loop[<<list, j>>] = [list |-> list, ok |-> TRUE]
           T == {n \in Nat : \E j \in i .. Len(list) : n = Len(list) - j /\ ~Good(j)}
<1>1. Len(list) \in Nat /\ i \in i .. Len(list) /\ Len(list) - i \in Nat
  BY LenProperties
<1>2. SUFFICES ASSUME ~Good(i) PROVE FALSE
  OBVIOUS
<1> HIDE DEF Good
<1>3. PICK S \in SUBSET Nat : S = T
  OBVIOUS
<1>4. Len(list) - i \in S
  BY <1>1, <1>2, <1>3
<1>5. PICK m \in S : \A k \in S : m <= k
  BY <1>4, LeastMember
<1>6. PICK j \in i .. Len(list) : ~Good(j) /\ m = Len(list) - j
  BY <1>3, <1>5
<1>7. j \in Nat
  BY <1>1
<1>8. CASE j = Len(list)
  BY <1>6, <1>7, <1>8, LoopTurns DEF Good
<1>9. CASE j < Len(list)
  <2>1. ~Late(list[j + 1]) /\ j + 1 \in i .. Len(list)
    BY <1>1, <1>9
  <2>2. Good(j + 1)
    <3>1. Len(list) - (j + 1) \in Nat /\ ~ (m <= Len(list) - (j + 1))
      BY <1>1, <1>6, <2>1
    <3>2. ~Good(j + 1) => Len(list) - (j + 1) \in S
      BY <1>3, <2>1, <3>1
    <3> QED BY <1>5, <3>1, <3>2
  <2>3. Loop[<<list, j>>] = Loop[<<list, j + 1>>]
    BY <1>7, <1>9, <2>1, LoopTurns
  <2> QED BY <1>6, <2>2, <2>3 DEF Good
<1> QED BY <1>1, <1>8, <1>9

(* In the order of time. *)
Sorted(list) == \A i, j \in DOMAIN list : i < j => Start[list[i]] <= Start[list[j]]

(* checkTasks drops the first n tasks of list. *)
Drops(list, n) ==
    /\ Sweep(list) = [list |-> SubSeq(list, n + 1, Len(list)), ok |-> TRUE]
    /\ \A i \in DOMAIN list : Late(list[i]) <=> i <= n

LEMMA LateFirst ==
    ASSUME now \in Nat, NEW list \in Seq(Tasks), Sorted(list),
           NEW i \in DOMAIN list, NEW j \in DOMAIN list, i < j, Late(list[j])
    PROVE  Late(list[i])
<1>1. list[i] \in Tasks /\ list[j] \in Tasks
  BY ElementOfSeq, LenProperties
<1>2. Start[list[i]] \in Nat /\ Start[list[j]] \in Nat
  BY <1>1, ConstantsAssumption
<1>3. Start[list[i]] <= Start[list[j]]
  BY DEF Sorted
<1> QED BY <1>2, <1>3 DEF Late

(* In a list in the order of time checkTasks drops the late tasks, which   *)
(* come first, and no other: each is at the front when it is erased, so    *)
(* that the gap is closed from there and the next task is not passed over. *)
LEMMA SweepSorted ==
    ASSUME now \in Nat, NEW list \in Seq(Tasks), Sorted(list)
    PROVE  \E n \in 0 .. Len(list) : Drops(list, n)
<1> DEFINE Bad == {q \in Seq(Tasks) : Sorted(q) /\ ~ \E n \in 0 .. Len(q) : Drops(q, n)}
           T == {Len(q) : q \in Bad}
<1>1. SUFFICES ASSUME T # {} PROVE FALSE
  OBVIOUS
<1>2. T \in SUBSET Nat
  BY LenProperties
<1> HIDE DEF T
<1>3. PICK S : S = T
  OBVIOUS
<1>4. PICK m \in S : \A k \in S : m <= k
  BY <1>1, <1>2, <1>3, LeastMember
<1>5. PICK q \in Bad : m = Len(q)
  BY <1>3, <1>4 DEF T
<1>6. q \in Seq(Tasks) /\ Sorted(q) /\ Len(q) \in Nat /\ DOMAIN q = 1 .. Len(q)
  BY LenProperties
<1>7. \A n \in 0 .. Len(q) : ~Drops(q, n)
  OBVIOUS
<1> HIDE DEF Bad
<1>8. CASE \E i \in DOMAIN q : Late(q[i])
  <2>1. 1 \in DOMAIN q /\ Late(q[1]) /\ Len(q) > 0
    <3>1. PICK i \in DOMAIN q : Late(q[i])
      BY <1>8
    <3>2. 1 \in DOMAIN q /\ Len(q) > 0 /\ (i = 1 \/ 1 < i)
      BY <1>6
    <3> QED BY <1>6, <3>1, <3>2, LateFirst
  <2> DEFINE r == RemoveAt(q, 1)
  <2>2. /\ r \in Seq(Tasks) /\ Len(r) = Len(q) - 1
        /\ \A k \in 1 .. Len(q) - 1 : r[k] = q[k + 1]
    <3>1. 1 \in 1 .. Len(q)
      BY <1>6, <2>1
    <3>2. /\ r \in Seq(Tasks) /\ Len(r) = Len(q) - 1
          /\ \A k \in 1 .. Len(q) - 1 : r[k] = IF k < 1 THEN q[k] ELSE q[k + 1]
      BY <1>6, <3>1, RemoveAtProperties
    <3> HIDE DEF r
    <3>3. \A k \in 1 .. Len(q) - 1 : ~ (k < 1)
      BY <1>6
    <3> QED BY <3>2, <3>3
  <2> HIDE DEF r
  <2>3. DOMAIN r = 1 .. Len(q) - 1 /\ \A k \in DOMAIN r : k + 1 \in DOMAIN q
    BY <1>6, <2>2, LenProperties
  <2>4. Sorted(r)
    <3> SUFFICES ASSUME NEW i \in DOMAIN r, NEW j \in DOMAIN r, i < j
                 PROVE  Start[r[i]] <= Start[r[j]]
      BY DEF Sorted
    <3>1. r[i] = q[i + 1] /\ r[j] = q[j + 1] /\ i + 1 \in DOMAIN q /\ j + 1 \in DOMAIN q
      BY <2>2, <2>3
    <3>2. i + 1 < j + 1
      BY <2>3
    <3> QED BY <1>6, <3>1, <3>2 DEF Sorted
  <2>5. r \notin Bad
    <3>1. r \in Bad => Len(r) \in S
      BY <1>3 DEF T
    <3> QED BY <1>4, <1>5, <1>6, <2>2, <3>1
  <2>6. PICK n \in 0 .. Len(r) : Drops(r, n)
    BY <2>2, <2>4, <2>5 DEF Bad
  <2>7. Sweep(q) = Sweep(r)
    <3>1. 0 \in Nat /\ 0 < Len(q) /\ 0 < Len(q) - 0 /\ 0 + 1 = 1
      BY <1>6, <2>1
    <3>2. Loop[<<q, 0>>] = Loop[<<r, 0>>]
      BY <1>6, <2>1, <3>1, LoopTurns DEF r
    <3> QED BY <3>2 DEF Sweep
  <2>8. SubSeq(r, n + 1, Len(r)) = SubSeq(q, n + 2, Len(q))
    <3> DEFINE a == SubSeq(r, n + 1, Len(r))
               b == SubSeq(q, n + 2, Len(q))
    <3>1. n \in Nat /\ n <= Len(q) - 1
      BY <1>6, <2>2
    <3>2. /\ \A k \in n + 1 .. Len(r) : r[k] \in Tasks
          /\ \A k \in n + 2 .. Len(q) : q[k] \in Tasks
      BY <1>6, <2>2, <3>1, ElementOfSeq
    <3>3. /\ a \in Seq(Tasks)
          /\ Len(a) = IF n + 1 <= Len(r) THEN Len(r) - (n + 1) + 1 ELSE 0
          /\ \A k \in 1 .. Len(r) - (n + 1) + 1 : a[k] = r[(n + 1) + k - 1]
      BY <1>6, <2>2, <3>1, <3>2, SubSeqProperties
    <3>4. /\ b \in Seq(Tasks)
          /\ Len(b) = IF n + 2 <= Len(q) THEN Len(q) - (n + 2) + 1 ELSE 0
          /\ \A k \in 1 .. Len(q) - (n + 2) + 1 : b[k] = q[(n + 2) + k - 1]
      BY <1>6, <3>1, <3>2, SubSeqProperties
    <3> HIDE DEF a, b
    <3>5. Len(a) = Len(q) - 1 - n /\ Len(b) = Len(q) - 1 - n
      <4>1. ASSUME NEW l \in Nat, NEW k \in Nat, k <= l - 1
            PROVE  /\ (IF k + 1 <= l - 1 THEN l - 1 - (k + 1) + 1 ELSE 0) = l - 1 - k
                   /\ (IF k + 2 <= l THEN l - (k + 2) + 1 ELSE 0) = l - 1 - k
        BY <4>1
      <4>2. Len(q) \in Nat /\ n \in Nat /\ n <= Len(q) - 1 /\ Len(r) = Len(q) - 1
        BY <1>6, <2>2, <3>1
      <4>3. Len(b) = Len(q) - 1 - n
        BY <3>4, <4>1, <4>2
      <4>4. Len(a) = Len(q) - 1 - n
        BY <3>3, <4>1, <4>2
      <4> QED BY <4>3, <4>4
    <3>6. ASSUME NEW k \in 1 .. Len(a)
          PROVE  a[k] = b[k]
      <4>1. k \in 1 .. Len(r) - (n + 1) + 1 /\ k \in 1 .. Len(q) - (n + 2) + 1
        BY <1>6, <2>2, <3>1, <3>5
      <4>2. a[k] = r[n + k] /\ b[k] = q[n + k + 1]
        <5>1. (n + 1) + k - 1 = n + k /\ (n + 2) + k - 1 = n + k + 1
          BY <3>1, <4>1
        <5> QED BY <3>3, <3>4, <4>1, <5>1
      <4>3. n + k \in 1 .. Len(q) - 1
        BY <1>6, <3>1, <3>5
      <4> QED BY <2>2, <4>2, <4>3
    <3>7. a = b
      BY <3>3, <3>4, <3>5, <3>6, SeqEqual
    <3> QED BY <3>7 DEF a, b
  <2>9. n + 1 \in 0 .. Len(q) /\ (n + 1) + 1 = n + 2
    BY <1>6, <2>2
  <2>10. Drops(q, n + 1)
    <3>1. Sweep(q) = [list |-> SubSeq(q, (n + 1) + 1, Len(q)), ok |-> TRUE]
      BY <2>6, <2>7, <2>8, <2>9 DEF Drops
    <3>2. ASSUME NEW i \in DOMAIN q
          PROVE  Late(q[i]) <=> i <= n + 1
      <4>1. CASE i = 1
        BY <2>1, <2>9, <4>1
      <4>2. CASE i # 1
        <5>1. i - 1 \in DOMAIN r /\ r[i - 1] = q[i]
          BY <1>6, <2>2, <2>3, <4>2
        <5>2. Late(r[i - 1]) <=> i - 1 <= n
          BY <2>6, <5>1 DEF Drops
        <5>3. i - 1 <= n <=> i <= n + 1
          BY <1>6, <2>9
        <5> QED BY <5>1, <5>2, <5>3
      <4> QED BY <4>1, <4>2
    <3> QED BY <3>1, <3>2 DEF Drops
  <2> QED BY <1>7, <2>9, <2>10
<1>9. CASE \A i \in DOMAIN q : ~Late(q[i])
  <2>1. Loop[<<q, 0>>] = [list |-> q, ok |-> TRUE]
    <3>1. 0 \in 0 .. Len(q) /\ \A k \in 0 + 1 .. Len(q) : ~Late(q[k])
      BY <1>6, <1>9
    <3> QED BY <1>6, <3>1, LoopPasses
  <2>2. SubSeq(q, 0 + 1, Len(q)) = q
    BY <1>6, SubSeqFull
  <2>3. Drops(q, 0) /\ 0 \in 0 .. Len(q)
    <3>1. \A i \in DOMAIN q : ~ (i <= 0)
      BY <1>6
    <3>2. Sweep(q) = [list |-> SubSeq(q, 0 + 1, Len(q)), ok |-> TRUE]
      BY <2>1, <2>2 DEF Sweep
    <3>3. Drops(q, 0)
      BY <1>9, <3>1, <3>2 DEF Drops
    <3> QED BY <1>6, <3>3
  <2> QED BY <1>7, <2>3
<1> QED BY <1>8, <1>9
-----------------------------------------------------------------------------
(* A list of distinct tasks. *)
Queue(q) == q \in Seq(Tasks) /\ IsInjective(q)

LEMMA QueueFacts ==
    ASSUME NEW q, Queue(q)
    PROVE  /\ q \in Seq(Tasks) /\ IsInjective(q)
           /\ Len(q) \in Nat /\ DOMAIN q = 1 .. Len(q)
           /\ \A i \in 1 .. Len(q) : q[i] \in Tasks /\ q[i] \in Range(q)
           /\ \A i, j \in 1 .. Len(q) : q[i] = q[j] => i = j
           /\ \A t \in Range(q) : t \in Tasks /\ \E i \in 1 .. Len(q) : t = q[i]
<1>1. q \in Seq(Tasks) /\ IsInjective(q)
  BY DEF Queue
<1>2. Len(q) \in Nat /\ DOMAIN q = 1 .. Len(q) /\ \A i \in 1 .. Len(q) : q[i] \in Tasks
  BY <1>1, LenProperties, ElementOfSeq
<1> QED BY <1>1, <1>2 DEF Range, IsInjective

(* A part of a queue. *)
LEMMA PartOfQueue ==
    ASSUME NEW q, Queue(q), NEW m \in Nat \ {0}, NEW n \in 0 .. Len(q)
    PROVE  /\ Queue(SubSeq(q, m, n))
           /\ Sorted(q) => Sorted(SubSeq(q, m, n))
           /\ Range(SubSeq(q, m, n)) = {q[i] : i \in m .. n}
<1> DEFINE r == SubSeq(q, m, n)
<1>1. /\ q \in Seq(Tasks) /\ Len(q) \in Nat /\ DOMAIN q = 1 .. Len(q)
      /\ \A i \in 1 .. Len(q) : q[i] \in Tasks
      /\ \A i, j \in 1 .. Len(q) : q[i] = q[j] => i = j
  BY QueueFacts
<1>2. m .. n \subseteq 1 .. Len(q)
  BY <1>1
<1>3. /\ r \in Seq(Tasks)
      /\ Len(r) = IF m <= n THEN n - m + 1 ELSE 0
      /\ \A i \in 1 .. n - m + 1 : r[i] = q[m + i - 1]
  <2>1. m \in Int /\ n \in Int /\ \A i \in m .. n : q[i] \in Tasks
    BY <1>1, <1>2
  <2> QED BY <2>1, SubSeqProperties
<1>4. DOMAIN r = 1 .. n - m + 1
  <2>1. DOMAIN r = 1 .. Len(r)
    BY <1>3, LenProperties
  <2>2. CASE m <= n
    BY <1>3, <2>1, <2>2
  <2>3. CASE ~ (m <= n)
    <3>1. 1 .. n - m + 1 = {} /\ 1 .. Len(r) = {}
      BY <1>1, <1>3, <2>3
    <3> QED BY <2>1, <3>1
  <2> QED BY <2>2, <2>3
<1> HIDE DEF r
<1>5. \A i \in DOMAIN r : r[i] = q[m + i - 1] /\ m + i - 1 \in m .. n /\ i \in Int
  BY <1>1, <1>3, <1>4
<1>6. \A k \in m .. n : k - m + 1 \in DOMAIN r /\ r[k - m + 1] = q[k]
  <2> SUFFICES ASSUME NEW k \in m .. n
               PROVE  k - m + 1 \in DOMAIN r /\ r[k - m + 1] = q[k]
    OBVIOUS
  <2>1. k - m + 1 \in DOMAIN r /\ m + (k - m + 1) - 1 = k
    BY <1>1, <1>4
  <2> QED BY <1>5, <2>1
<1>7. Queue(r)
  <2> SUFFICES ASSUME NEW i \in DOMAIN r, NEW j \in DOMAIN r, r[i] = r[j]
               PROVE  i = j
    BY <1>3 DEF Queue, IsInjective
  <2>1. m + i - 1 = m + j - 1
    BY <1>1, <1>2, <1>5
  <2> QED BY <1>5, <2>1
<1>8. ASSUME Sorted(q)
      PROVE  Sorted(r)
  <2> SUFFICES ASSUME NEW i \in DOMAIN r, NEW j \in DOMAIN r, i < j
               PROVE  Start[r[i]] <= Start[r[j]]
    BY DEF Sorted
  <2>1. m + i - 1 < m + j - 1 /\ m + i - 1 \in DOMAIN q /\ m + j - 1 \in DOMAIN q
    BY <1>1, <1>2, <1>5
  <2> QED BY <1>5, <1>8, <2>1 DEF Sorted
<1>9. Range(r) = {q[i] : i \in m .. n}
  <2>1. \A i \in DOMAIN r : \E k \in m .. n : r[i] = q[k]
    BY <1>5
  <2>2. \A k \in m .. n : \E i \in DOMAIN r : q[k] = r[i]
    BY <1>6
  <2> QED BY <2>1, <2>2 DEF Range
<1> QED BY <1>7, <1>8, <1>9 DEF r

(* qSort loses and doubles no task. *)
LEMMA SortProperties ==
    ASSUME NEW list, Queue(list), NEW s \in Sort(list)
    PROVE  /\ Queue(s) /\ Sorted(s)
           /\ Len(s) = Len(list) /\ Range(s) = Range(list)
<1> DEFINE D == 1 .. Len(list)
           R == Range(list)
<1>1. /\ list \in Seq(Tasks) /\ IsInjective(list) /\ Len(list) \in Nat
      /\ DOMAIN list = D /\ R \subseteq Tasks
  BY QueueFacts
<1>2. s \in [D -> R] /\ Range(s) = R /\ Sorted(s)
  BY DEF Sort, Sorted
<1>3. s \in Seq(Tasks) /\ Len(s) = Len(list)
  <2>1. s \in [D -> Tasks]
    BY <1>1, <1>2
  <2> QED BY <1>1, <2>1
<1>4. IsFiniteSet(D)
  <2>1. 1 \in Int /\ Len(list) \in Int
    BY <1>1
  <2> QED BY <2>1, FS_Interval
<1>5. list \in Bijection(D, R)
  <2>1. list \in [D -> R]
    BY <1>1 DEF Range
  <2> QED BY <1>1, <2>1 DEF Bijection, Injection, Surjection, Range
<1>6. s \in Surjection(D, R)
  BY <1>2 DEF Surjection, Range
<1> HIDE DEF D, R
<1>7. Cardinality(D) = Cardinality(R)
  <2>1. ExistsBijection(D, R)
    BY <1>5 DEF ExistsBijection
  <2> QED BY <1>4, <2>1, FS_Bijection
<1>8. s \in Injection(D, R)
  BY <1>4, <1>6, <1>7, FS_SurjSameCardinalityImpliesInj
<1> QED BY <1>2, <1>3, <1>8 DEF Queue, Injection, R

(* SaveSchedullerQueue(list), whatever comes of it: the file stays a queue *)
(* in the order of time, and the list keeps its tasks.                     *)
LEMMA SaveProperties ==
    ASSUME NEW list, Queue(list), NEW f, Queue(f), Sorted(f), NEW r \in Save(list, f)
    PROVE  /\ Queue(r.file) /\ Sorted(r.file)
           /\ Queue(r.list) /\ Range(r.list) = Range(list) /\ Len(r.list) = Len(list)
           /\ Sorted(list) => Sorted(r.list)
           /\ r.outcome \in {"written", "failed", "died"}
           /\ r.outcome = "written" => r.file = r.list /\ Sorted(r.list)
           /\ r.outcome = "failed" => r.file = f /\ r.list = list
<1>1. ASSUME NEW s \in Sort(list), r = [outcome |-> "written", file |-> s, list |-> s]
      PROVE  /\ Queue(r.file) /\ Sorted(r.file) /\ Queue(r.list) /\ Range(r.list) = Range(list)
             /\ Len(r.list) = Len(list) /\ Sorted(r.list) /\ r.outcome = "written"
             /\ r.file = r.list
  BY <1>1, SortProperties
<1>2. ASSUME NEW o \in {"failed", "died"}, r = [outcome |-> o, file |-> f, list |-> list]
      PROVE  r.file = f /\ r.list = list /\ r.outcome \in {"failed", "died"}
  BY <1>2
<1>3. ASSUME NEW s \in Sort(list), NEW n \in 0 .. Len(list),
             r = [outcome |-> "died", file |-> SubSeq(s, 1, n), list |-> s]
      PROVE  /\ Queue(r.file) /\ Sorted(r.file) /\ Queue(r.list) /\ Range(r.list) = Range(list)
             /\ Len(r.list) = Len(list) /\ Sorted(r.list) /\ r.outcome = "died"
  <2>1. Queue(s) /\ Sorted(s) /\ Len(s) = Len(list) /\ Range(s) = Range(list)
    BY SortProperties
  <2>2. Queue(SubSeq(s, 1, n)) /\ Sorted(SubSeq(s, 1, n))
    BY <2>1, PartOfQueue
  <2> QED BY <1>3, <2>1, <2>2
<1>4. \/ \E s \in Sort(list) : r = [outcome |-> "written", file |-> s, list |-> s]
      \/ \E o \in {"failed", "died"} : r = [outcome |-> o, file |-> f, list |-> list]
      \/ \E s \in Sort(list), n \in 0 .. Len(list) :
            r = [outcome |-> "died", file |-> SubSeq(s, 1, n), list |-> s]
  BY DEF Save
<1> QED BY <1>1, <1>2, <1>3, <1>4

(* checkTasks on a queue in the order of time. *)
LEMMA SweepProperties ==
    ASSUME now \in Nat, NEW f, Queue(f), Sorted(f)
    PROVE  /\ Sweep(f).ok
           /\ Queue(Sweep(f).list) /\ Sorted(Sweep(f).list)
           /\ Range(Sweep(f).list) = {t \in Range(f) : ~Late(t)}
<1>1. /\ f \in Seq(Tasks) /\ Len(f) \in Nat /\ DOMAIN f = 1 .. Len(f)
      /\ \A t \in Range(f) : \E i \in 1 .. Len(f) : t = f[i]
      /\ \A i \in 1 .. Len(f) : f[i] \in Range(f)
  BY QueueFacts
<1>2. PICK n \in 0 .. Len(f) : Drops(f, n)
  BY <1>1, SweepSorted
<1>3. Sweep(f).ok /\ Sweep(f).list = SubSeq(f, n + 1, Len(f))
  BY <1>2 DEF Drops
<1>4. n + 1 \in Nat \ {0} /\ Len(f) \in 0 .. Len(f)
  BY <1>1
<1>5. /\ Queue(SubSeq(f, n + 1, Len(f))) /\ Sorted(SubSeq(f, n + 1, Len(f)))
      /\ Range(SubSeq(f, n + 1, Len(f))) = {f[i] : i \in n + 1 .. Len(f)}
  BY <1>4, PartOfQueue
<1>6. \A i \in 1 .. Len(f) : ~Late(f[i]) <=> i \in n + 1 .. Len(f)
  <2>1. \A i \in 1 .. Len(f) : ~ (i <= n) <=> i \in n + 1 .. Len(f)
    BY <1>1
  <2>2. \A i \in 1 .. Len(f) : Late(f[i]) <=> i <= n
    BY <1>1, <1>2 DEF Drops
  <2> QED BY <2>1, <2>2
<1>7. n + 1 .. Len(f) \subseteq 1 .. Len(f)
  BY <1>1
<1>8. {f[i] : i \in n + 1 .. Len(f)} = {t \in Range(f) : ~Late(t)}
  BY <1>1, <1>6, <1>7
<1> QED BY <1>3, <1>5, <1>8
-----------------------------------------------------------------------------
(* A task that need not be kept. *)
Excused(t) == Late(t) \/ done[t] # "no" \/ t \in deleted \/ t \in unread

(* The file and the scheduler's list are in the order of time. *)
Ordered == Sorted(file) /\ Sorted(tasks)

(* A task that was performed late has left the scheduler's list for good.  *)
LateGone ==
    \A t \in Tasks :
        /\ done[t] # "again"
        /\ done[t] = "late" => Late(t) /\ t \notin Range(tasks)

(* The scheduler's list has no task the file never had. *)
TasksOnFile == \A t \in Range(tasks) : t \in Range(file) \/ Excused(t)

(* Nor does the dialog's list lack one. *)
DialogHasAll ==
    dialog => \A t \in Range(file) \cup Range(tasks) : t \in Range(edited) \/ Excused(t)

IInv ==
    /\ TypeOK /\ Ordered /\ LateGone
    /\ TasksOnFile /\ DialogHasAll
    /\ TimerMeansTask

(* The type invariant in parts. *)
Queues == Queue(file) /\ Queue(tasks) /\ Queue(edited)

Rest ==
    /\ now \in 0 .. MaxTime
    /\ timer \in Nat \cup {Off}
    /\ up \in BOOLEAN /\ dialog \in BOOLEAN
    /\ box \in {"none", "start", "update"}
    /\ ~up => tasks = <<>> /\ timer = Off /\ box = "none" /\ ~dialog
    /\ ~dialog => edited = <<>>
    /\ done \in [Tasks -> {"no", "timely", "late", "again"}]
    /\ deleted \subseteq Tasks /\ unread \subseteq Tasks

LEMMA TypeParts == (TypeOK <=> Queues /\ Rest) /\ (TypeOK' <=> Queues' /\ Rest')
<1>1. TypeOK <=> Queues /\ Rest
  BY DEF TypeOK, Queues, Rest, Queue
<1>2. TypeOK' <=> Queues' /\ Rest'
  BY DEF TypeOK, Queues, Rest, Queue
<1> QED BY <1>1, <1>2

LEMMA EmptyQueue == Queue(<<>>) /\ Sorted(<<>>) /\ Range(<<>>) = {}
<1>1. <<>> \in Seq(Tasks) /\ DOMAIN <<>> = {}
  OBVIOUS
<1> QED BY <1>1 DEF Queue, Sorted, IsInjective, Range

LEMMA NowType ==
    ASSUME TypeOK
    PROVE  now \in Nat
<1>1. now \in 0 .. MaxTime
  BY DEF TypeOK
<1>2. MaxTime \in Nat
  BY ConstantsAssumption
<1> QED BY <1>1, <1>2

LEMMA StartTimerType ==
    ASSUME TypeOK, NEW t \in Tasks
    PROVE  StartTimer(t) \in Nat \cup {Off}
<1>1. now \in Nat /\ Start[t] \in Nat /\ Wrap \in Nat \ {0}
  <2>1. now \in Nat
    BY NowType
  <2>2. Start[t] \in Nat /\ Wrap \in Nat \ {0}
    BY ConstantsAssumption
  <2> QED BY <2>1, <2>2
<1>2. now \div 2 \in Int
  BY <1>1
<1>3. (Start[t] - now \div 2) \in Int
  BY <1>1, <1>2
<1>4. (Start[t] - now \div 2) % Wrap \in Nat
  BY <1>1, <1>3
<1> QED BY <1>1, <1>4 DEF StartTimer

(* The end of the program keeps the invariant if the file is a queue. *)
LEMMA DownKeepsIInv ==
    ASSUME IInv, Down, Queue(file'), Sorted(file'), now' = now,
           done' \in [Tasks -> {"no", "timely", "late", "again"}], deleted' \subseteq Tasks,
           unread' \subseteq Tasks,
           \A t \in Tasks : done'[t] # "again" /\ (done'[t] = "late" => Late(t))
    PROVE  IInv'
<1>1. /\ up' = FALSE /\ tasks' = <<>> /\ timer' = Off /\ box' = "none"
      /\ dialog' = FALSE /\ edited' = <<>>
  BY DEF Down
<1>2. Queues'
  BY <1>1, EmptyQueue DEF Queues
<1>3. Rest'
  BY <1>1, TypeParts DEF IInv, Rest
<1>4. Ordered' /\ Range(tasks)' = {}
  BY <1>1, EmptyQueue DEF Ordered
<1>5. LateGone'
  <2>1. \A t \in Tasks : Late(t)' <=> Late(t)
    BY DEF Late
  <2> QED BY <1>4, <2>1 DEF LateGone
<1>6. TasksOnFile' /\ DialogHasAll' /\ TimerMeansTask'
  BY <1>1, <1>4 DEF TasksOnFile, DialogHasAll, TimerMeansTask
<1> QED BY <1>2, <1>3, <1>4, <1>5, <1>6, TypeParts DEF IInv

(* What the constructor and UpdateTasks leave after they have read q of    *)
(* the file f: the tasks of q that are not late yet, and a file that still *)
(* has them; UpdateTasks, which does not survive an empty list it could    *)
(* write, leaves all of f that is not late.                                *)
ReadResult(who, q, f) ==
    /\ up' = TRUE /\ dialog' = dialog
    /\ Queue(tasks') /\ Sorted(tasks')
    /\ Range(tasks') = {t \in Range(q) : ~Late(t)}
    /\ who = "update" => \A t \in Range(f) : Late(t) \/ t \in Range(file')
    /\ Range(tasks') \subseteq Range(file') /\ Range(file') \subseteq Range(f)
    /\ box' \in {"none", "start", "update"}
    /\ timer' \in Nat \cup {Off}
    /\ timer' # Off /\ box' = "none" => tasks' # <<>>

LEMMA ProceedResult ==
    ASSUME TypeOK, NEW who \in {"start", "update"}, NEW list, Queue(list), Proceed(who, list)
    PROVE  \/ Down
           \/ /\ up' = TRUE /\ dialog' = dialog /\ tasks' = list /\ box' = "none"
              /\ timer' \in Nat \cup {Off}
              /\ timer' # Off => list # <<>>
<1>1. CASE who = "update" /\ list = <<>>
  BY <1>1 DEF Proceed
<1>2. CASE ~ (who = "update" /\ list = <<>>)
  <2>1. /\ up' = TRUE /\ dialog' = dialog /\ tasks' = list /\ box' = "none"
        /\ timer' = IF list = <<>> THEN Off ELSE ForFirst(list)
    BY <1>2 DEF Proceed
  <2>2. CASE list = <<>>
    BY <2>1, <2>2
  <2>3. CASE list # <<>>
    <3>1. list[1] \in Tasks
      <4>1. list \in Seq(Tasks) /\ Len(list) \in Nat /\ \A i \in 1 .. Len(list) : list[i] \in Tasks
        BY QueueFacts
      <4>2. 1 \in 1 .. Len(list)
        BY <2>3, <4>1, EmptySeq
      <4> QED BY <4>1, <4>2
    <3>2. ForFirst(list) \in Nat \cup {Off}
      BY <3>1, StartTimerType DEF ForFirst
    <3> QED BY <2>1, <2>3, <3>2
  <2> QED BY <2>2, <2>3
<1> QED BY <1>1, <1>2

LEMMA EmptyRange ==
    ASSUME NEW q, Queue(q), Range(q) = {}
    PROVE  q = <<>>
<1>1. q \in Seq(Tasks) /\ Len(q) \in Nat /\ \A i \in 1 .. Len(q) : q[i] \in Range(q)
  BY QueueFacts
<1>2. Len(q) = 0
  <2>1. CASE Len(q) >= 1
    <3>1. 1 \in 1 .. Len(q)
      BY <1>1, <2>1
    <3> QED BY <1>1, <3>1
  <2> QED BY <1>1, <2>1
<1> QED BY <1>1, <1>2, EmptySeq

LEMMA ReadFacts ==
    ASSUME NEW f, Queue(f), Sorted(f), NEW q \in Read(f)
    PROVE  /\ Queue(q) /\ Sorted(q) /\ Range(q) \subseteq Range(f)
           /\ q = f \/ q = <<>>
BY EmptyQueue DEF Read

LEMMA ReadTasksResult ==
    ASSUME TypeOK, NEW who \in {"start", "update"}, NEW f, Queue(f), Sorted(f),
           NEW q \in Read(f), ReadTasks(who, q, f)
    PROVE  /\ Queue(file') /\ Sorted(file')
           /\ Down \/ ReadResult(who, q, f)
<1> DEFINE list == Sweep(q).list
<1>0. /\ Queue(q) /\ Sorted(q) /\ Range(q) \subseteq Range(f)
      /\ q = f \/ q = <<>>
  BY ReadFacts
<1>1. /\ Sweep(q).ok /\ Queue(list) /\ Sorted(list)
      /\ Range(list) = {t \in Range(q) : ~Late(t)}
  BY <1>0, NowType, SweepProperties
<1> HIDE DEF list
<1>2. PICK r \in Save(list, f) :
        /\ file' = r.file
        /\ \/ /\ r.outcome = "written"
              /\ Proceed(who, r.list)
           \/ /\ r.outcome = "failed"
              /\ up' = TRUE /\ tasks' = r.list /\ box' = who
              /\ timer' = timer /\ dialog' = dialog
           \/ Down
  BY <1>1 DEF ReadTasks, list
<1>3. /\ Queue(r.file) /\ Sorted(r.file)
      /\ Queue(r.list) /\ Range(r.list) = Range(list) /\ Sorted(r.list)
      /\ r.outcome = "written" => r.file = r.list
      /\ r.outcome = "failed" => r.file = f
  BY <1>1, SaveProperties
<1>4. CASE r.outcome = "written" /\ Proceed(who, r.list)
  <2>1. r.file = r.list
    BY <1>3, <1>4
  <2>2. \/ Down
        \/ /\ up' = TRUE /\ dialog' = dialog /\ tasks' = r.list /\ box' = "none"
           /\ timer' \in Nat \cup {Off}
           /\ timer' # Off => r.list # <<>>
    BY <1>3, <1>4, ProceedResult
  <2>3. CASE Down
    BY <1>2, <1>3, <2>3
  <2>4. CASE ~Down
    <3>1. who = "update" => r.list # <<>>
      BY <1>4, <2>4 DEF Proceed
    <3>2. who = "update" => q = f
      <4> SUFFICES ASSUME who = "update", q = <<>>
                   PROVE  FALSE
        BY <1>0
      <4>1. Range(r.list) = {}
        BY <1>1, <1>3, EmptyQueue
      <4> QED BY <1>3, <3>1, <4>1, EmptyRange
    <3>3. who = "update" => \A t \in Range(f) : Late(t) \/ t \in Range(file')
      BY <1>1, <1>2, <1>3, <2>1, <3>2
    <3>4. Range(tasks') = {t \in Range(q) : ~Late(t)} /\ file' = tasks'
      BY <1>1, <1>2, <1>3, <2>1, <2>2, <2>4
    <3> QED BY <1>0, <1>2, <1>3, <2>2, <2>4, <3>3, <3>4 DEF ReadResult
  <2> QED BY <2>3, <2>4
<1>5. CASE /\ r.outcome = "failed"
           /\ up' = TRUE /\ tasks' = r.list /\ box' = who
           /\ timer' = timer /\ dialog' = dialog
  <2>1. r.file = f /\ timer \in Nat \cup {Off}
    BY <1>3, <1>5 DEF TypeOK
  <2>2. Range(tasks') = {t \in Range(q) : ~Late(t)} /\ file' = f
    BY <1>1, <1>2, <1>3, <1>5, <2>1
  <2> QED BY <1>0, <1>2, <1>3, <1>5, <2>1, <2>2 DEF ReadResult
<1>6. CASE Down
  BY <1>2, <1>3, <1>6
<1> QED BY <1>2, <1>4, <1>5, <1>6

(* The invariant after a read, if the dialog's list is right. *)
LEMMA ReadKeepsIInv ==
    ASSUME IInv, NEW who, NEW q, NEW f, ReadResult(who, q, f),
           Queue(file'), Sorted(file'), Queue(edited'),
           now' = now, done' = done, deleted' \subseteq Tasks, unread' \subseteq Tasks,
           ~dialog => edited' = <<>>,
           dialog => \A t \in Range(f) : t \in Range(edited') \/ Excused(t)'
    PROVE  IInv'
<1>1. TypeOK /\ Queues /\ Rest
  BY TypeParts DEF IInv
<1>2. Queues' /\ Ordered'
  BY DEF Queues, Ordered, ReadResult
<1>3. Rest'
  BY <1>1 DEF Rest, ReadResult
<1>4. LateGone'
  <2>1. \A t : Late(t)' <=> Late(t)
    BY DEF Late
  <2> QED BY <2>1 DEF IInv, LateGone, ReadResult
<1>5. TasksOnFile' /\ DialogHasAll'
  BY DEF TasksOnFile, DialogHasAll, ReadResult
<1>6. TimerMeansTask'
  BY DEF TimerMeansTask, ReadResult
<1> QED BY <1>2, <1>3, <1>4, <1>5, <1>6, TypeParts DEF IInv

LEMMA StartupKeepsIInv ==
    ASSUME IInv, Startup
    PROVE  IInv'
<1>1. TypeOK /\ Queues /\ Rest /\ Sorted(file)
  BY TypeParts DEF IInv, Ordered
<1>2. ~dialog /\ edited = <<>> /\ edited' = <<>>
  BY <1>1 DEF Startup, Rest
<1>3. PICK q \in Read(file) :
        ReadTasks("start", q, file) /\ unread' = Range(file) \ Range(q)
  BY DEF Startup
<1>10. /\ Queue(file') /\ Sorted(file')
       /\ Down \/ ReadResult("start", q, file)
  BY <1>1, <1>3, ReadTasksResult DEF Queues
<1>11. unread' \subseteq Tasks
  BY <1>1, <1>3, QueueFacts DEF Queues
<1>4. now' = now /\ done' = done /\ deleted' = deleted
  BY DEF Startup
<1>5. /\ done \in [Tasks -> {"no", "timely", "late", "again"}] /\ deleted \subseteq Tasks
      /\ \A t \in Tasks : done[t] # "again" /\ (done[t] = "late" => Late(t))
  BY <1>1 DEF Rest, IInv, LateGone
<1>6. CASE Down
  BY <1>4, <1>5, <1>6, <1>10, <1>11, DownKeepsIInv
<1>7. CASE ReadResult("start", q, file)
  BY <1>2, <1>4, <1>5, <1>7, <1>10, <1>11, EmptyQueue, ReadKeepsIInv
<1> QED BY <1>6, <1>7, <1>10

LEMMA BoxClosedKeepsIInv ==
    ASSUME IInv, BoxClosed
    PROVE  IInv'
<1>1. TypeOK /\ Queues /\ Rest /\ Ordered
  BY TypeParts DEF IInv
<1>2. /\ box \in {"start", "update"} /\ Proceed(box, tasks)
      /\ now' = now /\ file' = file /\ done' = done /\ deleted' = deleted
      /\ unread' = unread
      /\ edited' = IF up' THEN edited ELSE <<>>
  BY <1>1 DEF BoxClosed, Rest
<1>3. PICK who \in {"start", "update"} : who = box
  BY <1>2
<1>4. \/ Down
      \/ /\ up' = TRUE /\ dialog' = dialog /\ tasks' = tasks /\ box' = "none"
         /\ timer' \in Nat \cup {Off}
         /\ timer' # Off => tasks # <<>>
  BY <1>1, <1>2, <1>3, ProceedResult DEF Queues
<1>5. CASE Down
  <2>1. Queue(file') /\ Sorted(file')
    BY <1>1, <1>2 DEF Queues, Ordered
  <2>2. /\ done' \in [Tasks -> {"no", "timely", "late", "again"}] /\ deleted' \subseteq Tasks
        /\ unread' \subseteq Tasks
        /\ \A t \in Tasks : done'[t] # "again" /\ (done'[t] = "late" => Late(t))
    BY <1>1, <1>2 DEF Rest, IInv, LateGone
  <2> QED BY <1>2, <1>5, <2>1, <2>2, DownKeepsIInv
<1>6. CASE /\ up' = TRUE /\ dialog' = dialog /\ tasks' = tasks /\ box' = "none"
           /\ timer' \in Nat \cup {Off}
           /\ timer' # Off => tasks # <<>>
  <2>1. edited' = edited
    BY <1>2, <1>6
  <2>2. Queues' /\ Ordered'
    BY <1>1, <1>2, <1>6, <2>1 DEF Queues, Ordered
  <2>3. Rest'
    BY <1>1, <1>2, <1>6, <2>1 DEF Rest
  <2>4. \A t : (Late(t)' <=> Late(t)) /\ (Excused(t)' <=> Excused(t))
    BY <1>2 DEF Late, Excused
  <2>5. LateGone' /\ TasksOnFile' /\ DialogHasAll' /\ TimerMeansTask'
    BY <1>2, <1>6, <2>1, <2>4 DEF IInv, LateGone, TasksOnFile, DialogHasAll, TimerMeansTask
  <2> QED BY <2>2, <2>3, <2>5, TypeParts DEF IInv
<1> QED BY <1>4, <1>5, <1>6

(* The actions of the dialog that do not write, and the clock. *)
LEMMA QuietKeepsIInv ==
    ASSUME IInv, OpenDialog \/ LanguageChange \/ CloseDialog \/ Tick
    PROVE  IInv'
<1>1. TypeOK /\ Queues /\ Rest /\ Ordered /\ now \in Nat
  BY TypeParts, NowType DEF IInv
<1>2. /\ file' = file /\ up' = up /\ tasks' = tasks /\ timer' = timer /\ box' = box
      /\ done' = done /\ deleted' = deleted
  BY DEF OpenDialog, LanguageChange, CloseDialog, Tick
<1>3. now' \in 0 .. MaxTime /\ now <= now'
  <2>1. CASE Tick
    <3>1. now' = now + 1 /\ now < MaxTime /\ MaxTime \in Nat
      BY <2>1, ConstantsAssumption DEF Tick
    <3> QED BY <1>1, <3>1
  <2>2. CASE now' = now
    <3>1. now \in 0 .. MaxTime
      BY <1>1 DEF Rest
    <3>2. now <= now
      BY <1>1
    <3> QED BY <2>2, <3>1, <3>2
  <2> QED BY <2>1, <2>2 DEF OpenDialog, LanguageChange, CloseDialog
<1>4. \A t \in Tasks : Late(t) => Late(t)'
  <2> SUFFICES ASSUME NEW t \in Tasks, Late(t)
               PROVE  Late(t)'
    OBVIOUS
  <2>1. Start[t] \in Nat /\ now' \in Nat
    BY <1>3, ConstantsAssumption
  <2>2. 2 * Start[t] < now
    BY DEF Late
  <2>3. 2 * Start[t] < now'
    BY <1>1, <1>3, <2>1, <2>2
  <2> QED BY <2>3 DEF Late
<1>6. \/ edited' = edited /\ dialog' = dialog /\ unread' = unread
      \/ /\ edited' \in Read(file) /\ dialog' = TRUE /\ up
         /\ unread' = (unread \cup Range(file)) \ Range(edited')
      \/ edited' = <<>> /\ dialog' = FALSE /\ unread' = unread
  BY <1>1 DEF OpenDialog, LanguageChange, CloseDialog, Tick, Missed, Rest
<1>5. \A t \in Tasks : Excused(t) => Excused(t)' \/ t \in Range(edited') \cap Range(file)
  <2> SUFFICES ASSUME NEW t \in Tasks, Excused(t)
               PROVE  Excused(t)' \/ t \in Range(edited') \cap Range(file)
    OBVIOUS
  <2>1. CASE t \notin unread
    BY <1>2, <1>4, <2>1 DEF Excused
  <2>2. CASE t \in unread
    <3>1. CASE unread' = unread
      BY <2>2, <3>1 DEF Excused
    <3>2. CASE /\ edited' \in Read(file)
               /\ unread' = (unread \cup Range(file)) \ Range(edited')
      <4>1. t \in unread' \/ t \in Range(edited')
        BY <2>2, <3>2
      <4>2. Range(edited') \subseteq Range(file)
        BY <1>1, <3>2, ReadFacts DEF Queues, Ordered
      <4> QED BY <4>1, <4>2 DEF Excused
    <3> QED BY <1>6, <3>1, <3>2
  <2> QED BY <2>1, <2>2
<1>7. Queues' /\ Ordered'
  <2>1. edited' \in Read(file) => Queue(edited')
    BY <1>1, ReadFacts DEF Queues, Ordered
  <2> QED BY <1>1, <1>2, <1>6, <2>1, EmptyQueue DEF Queues, Ordered
<1>12. unread' \subseteq Tasks
  <2>1. unread \subseteq Tasks /\ Range(file) \subseteq Tasks
    BY <1>1, QueueFacts DEF Queues, Rest
  <2> QED BY <1>6, <2>1
<1>8. Rest'
  <2>1. /\ timer' \in Nat \cup {Off} /\ up' \in BOOLEAN
        /\ box' \in {"none", "start", "update"}
        /\ ~up' => tasks' = <<>> /\ timer' = Off /\ box' = "none"
        /\ done' \in [Tasks -> {"no", "timely", "late", "again"}] /\ deleted' \subseteq Tasks
    BY <1>1, <1>2 DEF Rest
  <2>2. /\ dialog' \in BOOLEAN /\ (~up' => ~dialog') /\ (~dialog' => edited' = <<>>)
    <3>1. dialog \in BOOLEAN /\ (~up => ~dialog) /\ (~dialog => edited = <<>>)
      BY <1>1 DEF Rest
    <3>2. CASE edited' = edited /\ dialog' = dialog
      BY <1>2, <3>1, <3>2
    <3>3. CASE dialog' = TRUE /\ up
      BY <1>2, <3>3
    <3>4. CASE edited' = <<>> /\ dialog' = FALSE
      BY <3>4
    <3> QED BY <1>6, <3>2, <3>3, <3>4
  <2> QED BY <1>3, <1>12, <2>1, <2>2 DEF Rest
<1>9. \A t \in Range(file) \cup Range(tasks) : t \in Tasks
  BY <1>1, QueueFacts DEF Queues
<1>10. LateGone' /\ TasksOnFile' /\ TimerMeansTask'
  BY <1>2, <1>4, <1>5, <1>9 DEF IInv, LateGone, TasksOnFile, TimerMeansTask
<1>11. DialogHasAll'
  <2>1. CASE edited' = edited /\ dialog' = dialog
    BY <1>2, <1>5, <1>9, <2>1 DEF IInv, DialogHasAll
  <2>2. CASE unread' = (unread \cup Range(file)) \ Range(edited')
    <3>1. \A t \in Range(file) : t \in Range(edited') \/ Excused(t)'
      BY <2>2 DEF Excused
    <3>2. \A t \in Range(tasks) : t \in Range(edited') \/ Excused(t)'
      BY <1>5, <1>9, <3>1 DEF IInv, TasksOnFile
    <3> QED BY <1>2, <3>1, <3>2 DEF DialogHasAll
  <2>3. CASE dialog' = FALSE
    BY <2>3 DEF DialogHasAll
  <2> QED BY <1>6, <2>1, <2>2, <2>3
<1> QED BY <1>7, <1>8, <1>10, <1>11, TypeParts DEF IInv

LEMMA CrashKeepsIInv ==
    ASSUME IInv, Crash \/ TimerEventOnNothing
    PROVE  IInv'
<1>1. TypeOK /\ Queues /\ Rest /\ Ordered
  BY TypeParts DEF IInv
<1>2. /\ Down /\ now' = now /\ file' = file /\ done' = done /\ deleted' = deleted
      /\ unread' = unread
  BY DEF Crash, TimerEventOnNothing
<1>3. Queue(file') /\ Sorted(file')
  BY <1>1, <1>2 DEF Queues, Ordered
<1>4. /\ done' \in [Tasks -> {"no", "timely", "late", "again"}] /\ deleted' \subseteq Tasks
      /\ unread' \subseteq Tasks
      /\ \A t \in Tasks : done'[t] # "again" /\ (done'[t] = "late" => Late(t))
  BY <1>1, <1>2 DEF Rest, IInv, LateGone
<1> QED BY <1>2, <1>3, <1>4, DownKeepsIInv

(* A queue that a task is added to or taken off. *)
LEMMA AppendToQueue ==
    ASSUME NEW q, Queue(q), NEW t \in Tasks, t \notin Range(q)
    PROVE  Queue(Append(q, t)) /\ Range(Append(q, t)) = Range(q) \cup {t}
<1> DEFINE r == Append(q, t)
<1>1. /\ q \in Seq(Tasks) /\ Len(q) \in Nat /\ DOMAIN q = 1 .. Len(q)
      /\ \A i, j \in 1 .. Len(q) : q[i] = q[j] => i = j
      /\ \A i \in 1 .. Len(q) : q[i] # t
  BY QueueFacts
<1>2. /\ r \in Seq(Tasks) /\ Len(r) = Len(q) + 1 /\ r[Len(q) + 1] = t
      /\ \A i \in 1 .. Len(q) : r[i] = q[i]
  BY <1>1, AppendProperties
<1> HIDE DEF r
<1>3. DOMAIN r = 1 .. Len(q) + 1
  BY <1>2, LenProperties
<1>4. /\ \A i \in DOMAIN r : i \in 1 .. Len(q) \/ i = Len(q) + 1
      /\ 1 .. Len(q) \subseteq DOMAIN r /\ Len(q) + 1 \in DOMAIN r
  BY <1>1, <1>3
<1>5. IsInjective(r)
  BY <1>1, <1>2, <1>4 DEF IsInjective
<1>6. Range(r) = Range(q) \cup {t}
  BY <1>1, <1>2, <1>4 DEF Range
<1> QED BY <1>2, <1>5, <1>6 DEF Queue, r

LEMMA RemoveFromQueue ==
    ASSUME NEW q, Queue(q), NEW i \in 1 .. Len(q)
    PROVE  Queue(RemoveAt(q, i)) /\ Range(RemoveAt(q, i)) = Range(q) \ {q[i]}
<1> DEFINE r == RemoveAt(q, i)
           old(k) == IF k < i THEN k ELSE k + 1
<1>1. /\ q \in Seq(Tasks) /\ Len(q) \in Nat /\ DOMAIN q = 1 .. Len(q)
      /\ \A j, k \in 1 .. Len(q) : q[j] = q[k] => j = k
  BY QueueFacts
<1>2. /\ r \in Seq(Tasks) /\ Len(r) = Len(q) - 1
      /\ \A k \in 1 .. Len(q) - 1 : r[k] = IF k < i THEN q[k] ELSE q[k + 1]
  BY <1>1, RemoveAtProperties
<1> HIDE DEF r
<1>3. DOMAIN r = 1 .. Len(q) - 1
  BY <1>2, LenProperties
<1>4. \A k \in DOMAIN r : r[k] = q[old(k)]
  BY <1>2, <1>3
<1>5. \A k \in DOMAIN r : old(k) \in 1 .. Len(q) /\ old(k) # i
  BY <1>1, <1>3
<1>6. \A j, k \in DOMAIN r : old(j) = old(k) => j = k
  BY <1>1, <1>3
<1>7. \A k \in 1 .. Len(q) : k # i => \E j \in DOMAIN r : old(j) = k
  <2> SUFFICES ASSUME NEW k \in 1 .. Len(q), k # i
               PROVE  \E j \in DOMAIN r : old(j) = k
    OBVIOUS
  <2>1. CASE k < i
    BY <1>1, <1>3, <2>1
  <2>2. CASE k > i
    <3>1. k - 1 \in DOMAIN r /\ old(k - 1) = k
      BY <1>1, <1>3, <2>2
    <3> QED BY <3>1
  <2> QED BY <2>1, <2>2
<1> HIDE DEF old
<1>8. IsInjective(r)
  BY <1>1, <1>4, <1>5, <1>6 DEF IsInjective
<1>9. Range(r) = Range(q) \ {q[i]}
  <2>1. ASSUME NEW x \in Range(r)
        PROVE  x \in Range(q) \ {q[i]}
    <3>1. PICK k \in DOMAIN r : x = r[k]
      BY DEF Range
    <3> QED BY <1>1, <1>4, <1>5, <3>1 DEF Range
  <2>2. ASSUME NEW x \in Range(q) \ {q[i]}
        PROVE  x \in Range(r)
    <3>1. PICK k \in 1 .. Len(q) : x = q[k] /\ k # i
      BY <1>1 DEF Range
    <3>2. PICK j \in DOMAIN r : old(j) = k
      BY <1>7, <3>1
    <3> QED BY <1>4, <3>1, <3>2 DEF Range
  <2> QED BY <2>1, <2>2
<1> QED BY <1>2, <1>8, <1>9 DEF Queue, r

LEMMA TailOfQueue ==
    ASSUME NEW q, Queue(q), q # <<>>
    PROVE  /\ q[1] \in Tasks /\ q[1] \in Range(q)
           /\ Queue(Tail(q)) /\ (Sorted(q) => Sorted(Tail(q)))
           /\ Range(Tail(q)) = Range(q) \ {q[1]}
           /\ Len(Tail(q)) = Len(q) - 1 /\ Len(q) \in Nat \ {0}
<1>1. /\ q \in Seq(Tasks) /\ Len(q) \in Nat
      /\ \A i \in 1 .. Len(q) : q[i] \in Tasks /\ q[i] \in Range(q)
      /\ \A i, j \in 1 .. Len(q) : q[i] = q[j] => i = j
      /\ \A t \in Range(q) : \E i \in 1 .. Len(q) : t = q[i]
  BY QueueFacts
<1>2. Len(q) \in Nat \ {0} /\ 1 \in 1 .. Len(q) /\ Len(q) \in 0 .. Len(q)
  BY <1>1, EmptySeq
<1>3. Tail(q) = SubSeq(q, 2, Len(q)) /\ Len(Tail(q)) = Len(q) - 1
  BY <1>1, TailIsSubSeq, HeadTailProperties
<1>4. /\ Queue(SubSeq(q, 2, Len(q))) /\ (Sorted(q) => Sorted(SubSeq(q, 2, Len(q))))
      /\ Range(SubSeq(q, 2, Len(q))) = {q[i] : i \in 2 .. Len(q)}
  BY <1>2, PartOfQueue
<1>5. {q[i] : i \in 2 .. Len(q)} = Range(q) \ {q[1]}
  <2>1. \A i \in 1 .. Len(q) : i \in 2 .. Len(q) <=> i # 1
    BY <1>1
  <2>2. 2 .. Len(q) \subseteq 1 .. Len(q)
    BY <1>1
  <2> QED BY <1>1, <1>2, <2>1, <2>2
<1> QED BY <1>1, <1>2, <1>3, <1>4, <1>5

LEMMA AddTaskKeepsIInv ==
    ASSUME IInv, NEW t \in Tasks, AddTask(t)
    PROVE  IInv'
<1>1. TypeOK /\ Queues /\ Rest /\ Ordered
  BY TypeParts DEF IInv
<1>2. /\ dialog /\ t \notin Range(edited) /\ deleted' = deleted \ {t} /\ now' = now /\ done' = done
      /\ unread' = unread \ {t}
  BY DEF AddTask
<1>3. PICK r \in Save(Append(edited, t), file) :
        IF r.outcome = "died" THEN Down /\ file' = r.file
        ELSE UpdateTasks(r.file) /\ edited' = IF up' THEN r.list ELSE <<>>
  BY DEF AddTask
<1>4. Queue(Append(edited, t)) /\ Range(Append(edited, t)) = Range(edited) \cup {t}
  BY <1>1, <1>2, AppendToQueue DEF Queues
<1>5. /\ Queue(r.file) /\ Sorted(r.file) /\ Queue(r.list)
      /\ Range(r.list) = Range(edited) \cup {t}
      /\ r.outcome \in {"written", "failed", "died"}
      /\ r.outcome = "written" => r.file = r.list
      /\ r.outcome = "failed" => r.file = file
  BY <1>1, <1>4, SaveProperties DEF Queues, Ordered
<1>6. /\ done' \in [Tasks -> {"no", "timely", "late", "again"}] /\ deleted' \subseteq Tasks
      /\ unread' \subseteq Tasks
      /\ \A u \in Tasks : done'[u] # "again" /\ (done'[u] = "late" => Late(u))
  BY <1>1, <1>2 DEF Rest, IInv, LateGone
<1>7. CASE r.outcome = "died"
  <2>1. Down /\ file' = r.file
    BY <1>3, <1>7
  <2> QED BY <1>2, <1>5, <1>6, <2>1, DownKeepsIInv
<1>8. CASE r.outcome # "died"
  <2>1. UpdateTasks(r.file) /\ edited' = IF up' THEN r.list ELSE <<>>
    BY <1>3, <1>8
  <2>5. PICK q \in Read(r.file) : ReadTasks("update", q, r.file)
    BY <2>1 DEF UpdateTasks
  <2>2. /\ Queue(file') /\ Sorted(file')
        /\ Down \/ ReadResult("update", q, r.file)
    BY <1>1, <1>5, <2>5, ReadTasksResult
  <2>3. CASE Down
    BY <1>2, <1>6, <2>2, <2>3, DownKeepsIInv
  <2>4. CASE ReadResult("update", q, r.file)
    <3>1. edited' = r.list
      BY <2>1, <2>4 DEF ReadResult
    <3>2. \A u : u # t => (Excused(u) => Excused(u)')
      BY <1>2 DEF Excused, Late
    <3>3. \A u \in Range(r.file) : u \in Range(edited') \/ Excused(u)'
      BY <1>2, <1>5, <1>8, <3>1, <3>2 DEF IInv, DialogHasAll
    <3> QED BY <1>2, <1>5, <1>6, <2>2, <2>4, <3>1, <3>3, ReadKeepsIInv
  <2> QED BY <2>2, <2>3, <2>4
<1> QED BY <1>7, <1>8

LEMMA DeleteTaskKeepsIInv ==
    ASSUME IInv, NEW i \in Nat, DeleteTask(i)
    PROVE  IInv'
<1>1. TypeOK /\ Queues /\ Rest /\ Ordered
  BY TypeParts DEF IInv
<1> DEFINE rest == IF i = 0 THEN edited ELSE RemoveAt(edited, i)
           gone == IF i = 0 THEN {} ELSE {edited[i]}
<1>2. /\ dialog /\ i \in 0 .. Len(edited) /\ deleted' = deleted \cup gone
      /\ now' = now /\ done' = done /\ unread' = unread
  BY DEF DeleteTask
<1>3. PICK r \in Save(rest, file) :
        /\ file' = r.file
        /\ IF r.outcome = "died" THEN Down
           ELSE edited' = r.list /\ UNCHANGED <<up, tasks, timer, box, dialog>>
  BY DEF DeleteTask
<1>4. Queue(rest) /\ Range(rest) = Range(edited) \ gone /\ gone \subseteq Tasks
  <2>1. CASE i = 0
    BY <1>1, <2>1 DEF Queues
  <2>2. CASE i # 0
    <3>1. i \in 1 .. Len(edited)
      BY <1>2, <2>2
    <3>2. edited[i] \in Tasks
      BY <1>1, <3>1, QueueFacts DEF Queues
    <3>3. Queue(RemoveAt(edited, i)) /\ Range(RemoveAt(edited, i)) = Range(edited) \ {edited[i]}
      BY <1>1, <3>1, RemoveFromQueue DEF Queues
    <3> QED BY <2>2, <3>2, <3>3
  <2> QED BY <2>1, <2>2
<1> HIDE DEF rest, gone
<1>5. /\ Queue(r.file) /\ Sorted(r.file) /\ Queue(r.list)
      /\ Range(r.list) = Range(rest)
      /\ r.outcome \in {"written", "failed", "died"}
      /\ r.outcome = "written" => r.file = r.list
      /\ r.outcome = "failed" => r.file = file
  BY <1>1, <1>4, SaveProperties DEF Queues, Ordered
<1>6. /\ done' \in [Tasks -> {"no", "timely", "late", "again"}] /\ deleted' \subseteq Tasks
      /\ unread' \subseteq Tasks
      /\ \A u \in Tasks : done'[u] # "again" /\ (done'[u] = "late" => Late(u))
  BY <1>1, <1>2, <1>4 DEF Rest, IInv, LateGone
<1>7. CASE r.outcome = "died"
  BY <1>2, <1>3, <1>5, <1>6, <1>7, DownKeepsIInv
<1>8. CASE r.outcome # "died"
  <2>1. /\ file' = r.file /\ edited' = r.list
        /\ up' = up /\ tasks' = tasks /\ timer' = timer /\ box' = box /\ dialog' = dialog
    BY <1>3, <1>8
  <2>2. Queues' /\ Ordered'
    BY <1>1, <1>5, <2>1 DEF Queues, Ordered
  <2>3. Rest'
    BY <1>1, <1>2, <1>6, <2>1 DEF Rest
  <2>4. /\ \A u : (Late(u)' <=> Late(u)) /\ (Excused(u) => Excused(u)')
        /\ \A u \in gone : Excused(u)'
    BY <1>2 DEF Excused, Late
  <2>5. \A u \in Range(edited) : u \in Range(edited') \/ Excused(u)'
    BY <1>4, <1>5, <2>1, <2>4
  <2>6. Range(file') \subseteq Range(edited') \cup Range(file)
    BY <1>5, <1>8, <2>1
  <2>7. \A u \in Range(file) \cup Range(tasks) : u \in Range(edited') \/ Excused(u)'
    BY <1>2, <2>4, <2>5 DEF IInv, DialogHasAll
  <2>8. DialogHasAll'
    BY <2>1, <2>6, <2>7 DEF DialogHasAll
  <2>9. TasksOnFile'
    <3>1. CASE r.outcome = "failed"
      BY <1>5, <2>1, <2>4, <3>1 DEF IInv, TasksOnFile
    <3>2. CASE r.outcome = "written"
      BY <1>5, <2>1, <2>7, <3>2 DEF TasksOnFile
    <3> QED BY <1>5, <1>8, <3>1, <3>2
  <2>10. LateGone' /\ TimerMeansTask'
    BY <1>2, <2>1, <2>4 DEF IInv, LateGone, TimerMeansTask
  <2> QED BY <2>2, <2>3, <2>8, <2>9, <2>10, TypeParts DEF IInv
<1> QED BY <1>7, <1>8

(* timerEvent up to the timer: the first task is performed and leaves the  *)
(* queue, and the queue is written or not.                                 *)
TimerResult(t) ==
    /\ up' = up /\ box' = box /\ dialog' = dialog /\ edited' = edited
    /\ Queue(tasks') /\ Sorted(tasks')
    /\ Range(tasks') = Range(tasks) \ {t}
    /\ file' = tasks' \/ file' = file
    /\ timer' = IF tasks' = <<>> THEN Off ELSE StartTimer(t)

LEMMA TimerEventResult ==
    ASSUME IInv, TimerEvent
    PROVE  \E t \in Tasks :
              /\ t = tasks[1] /\ t \in Range(tasks)
              /\ now' = now /\ deleted' = deleted /\ unread' = unread
              /\ done' = [done EXCEPT ![t] = IF Late(t) THEN "late" ELSE "timely"]
              /\ Queue(file') /\ Sorted(file')
              /\ Down \/ TimerResult(t)
<1>1. TypeOK /\ Queues /\ Rest /\ Ordered
  BY TypeParts DEF IInv
<1>2. tasks # <<>> /\ now' = now /\ deleted' = deleted /\ unread' = unread /\ Perform(tasks[1])
  BY DEF TimerEvent
<1>3. /\ tasks[1] \in Tasks /\ tasks[1] \in Range(tasks)
      /\ Queue(Tail(tasks)) /\ Sorted(Tail(tasks))
      /\ Range(Tail(tasks)) = Range(tasks) \ {tasks[1]}
      /\ Len(Tail(tasks)) = Len(tasks) - 1 /\ Len(tasks) \in Nat \ {0}
  BY <1>1, <1>2, TailOfQueue DEF Queues, Ordered
<1>4. PICK t \in Tasks : t = tasks[1]
  BY <1>3
<1>5. done[t] \in {"no", "timely"}
  <2>1. done[t] \in {"no", "timely", "late", "again"}
    BY <1>1 DEF Rest
  <2>2. done[t] # "again" /\ done[t] # "late"
    BY <1>3, <1>4 DEF IInv, LateGone
  <2> QED BY <2>1, <2>2
<1>6. done' = [done EXCEPT ![t] = IF Late(t) THEN "late" ELSE "timely"]
  <2>1. done[t] \notin {"late", "again"}
    BY <1>5
  <2>2. done' = [done EXCEPT ![t] =
                   CASE done[t] \in {"late", "again"} -> "again"
                     [] done[t] \in {"no", "timely"} -> IF Late(t) THEN "late" ELSE "timely"]
    BY <1>2, <1>4 DEF Perform
  <2> QED BY <1>5, <2>1, <2>2
<1>7. PICK r \in Save(Tail(tasks), file) :
        /\ file' = r.file
        /\ IF r.outcome = "died" THEN Down
           ELSE /\ tasks' = r.list
                /\ timer' = IF Len(tasks) = 1 THEN Off ELSE StartTimer(tasks[1])
                /\ UNCHANGED <<up, box, dialog, edited>>
  BY DEF TimerEvent
<1>8. /\ Queue(r.file) /\ Sorted(r.file)
      /\ Queue(r.list) /\ Sorted(r.list) /\ Range(r.list) = Range(tasks) \ {t}
      /\ Len(r.list) = Len(tasks) - 1
      /\ r.outcome \in {"written", "failed", "died"}
      /\ r.outcome = "written" => r.file = r.list
      /\ r.outcome = "failed" => r.file = file
  <2>1. PICK q : q = Tail(tasks)
    OBVIOUS
  <2>2. /\ Queue(q) /\ Sorted(q) /\ r \in Save(q, file)
        /\ Range(q) = Range(tasks) \ {t} /\ Len(q) = Len(tasks) - 1
    BY <1>3, <1>4, <2>1
  <2>3. /\ Queue(r.file) /\ Sorted(r.file)
        /\ Queue(r.list) /\ Range(r.list) = Range(q) /\ Len(r.list) = Len(q)
        /\ Sorted(q) => Sorted(r.list)
        /\ r.outcome \in {"written", "failed", "died"}
        /\ r.outcome = "written" => r.file = r.list /\ Sorted(r.list)
        /\ r.outcome = "failed" => r.file = file /\ r.list = q
    BY <1>1, <2>2, SaveProperties DEF Queues, Ordered
  <2> QED BY <2>2, <2>3
<1>9. r.list = <<>> <=> Len(tasks) = 1
  <2>1. r.list \in Seq(Tasks) /\ Len(r.list) \in Nat
    BY <1>8, QueueFacts
  <2>2. Len(r.list) = 0 <=> r.list = <<>>
    BY <2>1, EmptySeq
  <2>3. Len(r.list) = 0 <=> Len(tasks) = 1
    <3>1. Len(tasks) \in Nat
      BY <1>3
    <3>2. Len(r.list) = Len(tasks) - 1
      BY <1>8
    <3> QED BY <3>1, <3>2
  <2> QED BY <2>2, <2>3
<1>10. CASE r.outcome = "died"
  BY <1>2, <1>3, <1>4, <1>6, <1>7, <1>8, <1>10
<1>11. CASE r.outcome # "died"
  <2>1. /\ tasks' = r.list /\ up' = up /\ box' = box /\ dialog' = dialog /\ edited' = edited
        /\ timer' = IF Len(tasks) = 1 THEN Off ELSE StartTimer(tasks[1])
    BY <1>7, <1>11
  <2>2. timer' = IF tasks' = <<>> THEN Off ELSE StartTimer(t)
    BY <1>4, <1>9, <2>1
  <2>3. r.outcome = "written" \/ r.outcome = "failed"
    BY <1>8, <1>11
  <2>4. file' = tasks' \/ file' = file
    BY <1>7, <1>8, <2>1, <2>3
  <2>5. TimerResult(t)
    BY <1>8, <2>1, <2>2, <2>4 DEF TimerResult
  <2> QED BY <1>2, <1>3, <1>4, <1>6, <1>7, <1>8, <2>5
<1> QED BY <1>10, <1>11

LEMMA TimerEventKeepsIInv ==
    ASSUME IInv, TimerEvent
    PROVE  IInv'
<1>1. TypeOK /\ Queues /\ Rest /\ Ordered
  BY TypeParts DEF IInv
<1>2. PICK t \in Tasks :
        /\ t = tasks[1] /\ t \in Range(tasks)
        /\ now' = now /\ deleted' = deleted /\ unread' = unread
        /\ done' = [done EXCEPT ![t] = IF Late(t) THEN "late" ELSE "timely"]
        /\ Queue(file') /\ Sorted(file')
        /\ Down \/ TimerResult(t)
  BY TimerEventResult
<1>3. /\ done \in [Tasks -> {"no", "timely", "late", "again"}] /\ deleted \subseteq Tasks
      /\ unread \subseteq Tasks
  BY <1>1 DEF Rest
<1>4. /\ done' \in [Tasks -> {"no", "timely", "late", "again"}] /\ deleted' \subseteq Tasks
      /\ unread' \subseteq Tasks
      /\ done'[t] = IF Late(t) THEN "late" ELSE "timely"
      /\ \A u \in Tasks : u # t => done'[u] = done[u]
  BY <1>2, <1>3
<1>5. \A u : Late(u)' <=> Late(u)
  BY <1>2 DEF Late
<1>6. done'[t] \in {"late", "timely"} /\ (done'[t] = "late" => Late(t))
  BY <1>4
<1>7. \A u \in Tasks : done'[u] # "again" /\ (done'[u] = "late" => Late(u))
  BY <1>4, <1>6 DEF IInv, LateGone
<1>8. CASE Down
  BY <1>2, <1>4, <1>7, <1>8, DownKeepsIInv
<1>9. CASE TimerResult(t)
  <2>1. /\ up' = up /\ box' = box /\ dialog' = dialog /\ edited' = edited
        /\ Queue(tasks') /\ Sorted(tasks')
        /\ Range(tasks') = Range(tasks) \ {t}
        /\ file' = tasks' \/ file' = file
        /\ timer' = IF tasks' = <<>> THEN Off ELSE StartTimer(t)
    BY <1>9 DEF TimerResult
  <2>2. Queues' /\ Ordered'
    BY <1>1, <1>2, <2>1 DEF Queues, Ordered
  <2>3. Rest'
    <3>1. timer' \in Nat \cup {Off}
      BY <1>1, <2>1, StartTimerType
    <3>2. up
      BY DEF TimerEvent
    <3> QED BY <1>1, <1>2, <1>4, <2>1, <3>1, <3>2 DEF Rest
  <2>4. LateGone'
    BY <1>4, <1>5, <1>6, <2>1 DEF IInv, LateGone
  <2>5. \A u \in Tasks : Excused(u) => Excused(u)'
    BY <1>2, <1>4, <1>5, <1>6 DEF Excused
  <2>6. Excused(t)'
    BY <1>6 DEF Excused
  <2>7. \A u \in Range(file) \cup Range(tasks) : u \in Tasks
    BY <1>1, QueueFacts DEF Queues
  <2>8. TasksOnFile'
    BY <2>1, <2>5, <2>7 DEF IInv, TasksOnFile
  <2>9. DialogHasAll'
    BY <2>1, <2>5, <2>7 DEF IInv, DialogHasAll
  <2>10. TimerMeansTask'
    BY <2>1 DEF TimerMeansTask
  <2> QED BY <2>2, <2>3, <2>4, <2>8, <2>9, <2>10, TypeParts DEF IInv
<1> QED BY <1>2, <1>8, <1>9

LEMMA IInvInductive ==
    /\ Init => IInv
    /\ IInv /\ [Next]_vars => IInv'
<1>1. Init => IInv
  <2> SUFFICES ASSUME Init PROVE IInv
    OBVIOUS
  <2>1. Queues /\ Ordered /\ Range(tasks) = {}
    BY EmptyQueue DEF Init, Queues, Ordered
  <2>2. 0 \in 0 .. MaxTime
    BY ConstantsAssumption
  <2>3. Rest
    BY <2>2 DEF Init, Rest
  <2>4. LateGone /\ TasksOnFile /\ DialogHasAll /\ TimerMeansTask
    BY <2>1 DEF Init, LateGone, TasksOnFile, DialogHasAll, TimerMeansTask
  <2> QED BY <2>1, <2>3, <2>4, TypeParts DEF IInv
<1>2. ASSUME IInv, Next PROVE IInv'
  <2>1. CASE Startup
    BY <1>2, <2>1, StartupKeepsIInv
  <2>2. CASE BoxClosed
    BY <1>2, <2>2, BoxClosedKeepsIInv
  <2>3. CASE TimerEvent
    BY <1>2, <2>3, TimerEventKeepsIInv
  <2>4. CASE Crash \/ TimerEventOnNothing
    BY <1>2, <2>4, CrashKeepsIInv
  <2>5. CASE OpenDialog \/ LanguageChange \/ CloseDialog \/ Tick
    BY <1>2, <2>5, QuietKeepsIInv
  <2>6. ASSUME NEW t \in Tasks, AddTask(t) PROVE IInv'
    BY <1>2, <2>6, AddTaskKeepsIInv
  <2>7. ASSUME NEW i \in 0 .. Cardinality(Tasks), DeleteTask(i) PROVE IInv'
    <3>1. i \in Nat
      BY ConstantsAssumption, FS_CardinalityType
    <3> QED BY <1>2, <2>7, <3>1, DeleteTaskKeepsIInv
  <2> QED BY <1>2, <2>1, <2>2, <2>3, <2>4, <2>5, <2>6, <2>7 DEF Next
<1>3. ASSUME IInv, UNCHANGED vars PROVE IInv'
  BY <1>3 DEF vars, IInv, TypeOK, Ordered, Sorted, LateGone, TasksOnFile, DialogHasAll,
              TimerMeansTask, Excused, Late
<1> QED BY <1>1, <1>2, <1>3

LEMMA IInvariance == Spec => []IInv
BY IInvInductive, PTL DEF Spec

(* The lists in memory and on disk stay lists of distinct tasks, and       *)
(* nothing of a program that does not run is left.                         *)
THEOREM TypeCorrect == Spec => []TypeOK
<1>1. IInv => TypeOK
  BY DEF IInv
<1> QED BY <1>1, IInvariance, PTL

(* timerEvent never takes first() of an empty queue, except in the event   *)
(* loop of a warning inside UpdateTasks.                                   *)
THEOREM TimerHasTask == Spec => []TimerMeansTask
<1>1. IInv => TimerMeansTask
  BY DEF IInv
<1> QED BY <1>1, IInvariance, PTL

(* A task performed after its start time is never performed again: it is   *)
(* late for good, and what checkTasks reads for the scheduler loses it.    *)
THEOREM LateOnlyOnce == Spec => []LateIsFinal
<1>1. IInv => LateIsFinal
  BY DEF IInv, LateGone, LateIsFinal
<1> QED BY <1>1, IInvariance, PTL

(* The loop of checkTasks, which erases as it goes, drops the late tasks   *)
(* and no others and ends inside the list, for a file of any length.       *)
THEOREM SweepFilters == Spec => []SweepIsFilter
<1>1. ASSUME IInv PROVE SweepIsFilter
  <2>1. now \in Nat /\ file \in Seq(Tasks) /\ Sorted(file)
    BY <1>1, TypeParts, NowType DEF IInv, Ordered, Queues, Queue
  <2>2. \E n \in 0 .. Len(file) : Drops(file, n)
    BY <2>1, SweepSorted
  <2> QED BY <2>2 DEF Drops, SweepIsFilter
<1> QED BY <1>1, IInvariance, PTL
-----------------------------------------------------------------------------
(* In a run of less than half of Wrap a timer is never set for later than  *)
(* the second its task starts at: until then the remainder only takes away *)
(* from a positive interval and turns every negative one into a huge one.  *)
Short == MaxTime <= Wrap

LEMMA Remainder ==
    ASSUME NEW w \in Nat \ {0}, NEW s \in Nat, NEW n \in Nat, n <= w,
           2 * ((s - n \div 2) % w) < w
    PROVE  n + 2 * ((s - n \div 2) % w) <= 2 * s + 1
<1> DEFINE h == n \div 2
           x == s - h
<1>1. h \in Nat /\ 2 * h <= n /\ n <= 2 * h + 1
  OBVIOUS
<1>2. x \in Int
  BY <1>1
<1>3. CASE x >= 0
  <2>1. x % w <= x
    <3>1. CASE x < w
      <4>1. x % w = x
        BY <1>2, <1>3, <3>1
      <4> QED BY <1>2, <4>1
    <3>2. CASE x >= w
      <4>1. x % w < w /\ x % w \in Nat
        BY <1>2
      <4> QED BY <1>2, <3>2, <4>1
    <3> QED BY <1>2, <3>1, <3>2
  <2>2. x % w \in Nat
    BY <1>2
  <2> QED BY <1>1, <1>2, <2>1, <2>2
<1>4. CASE x < 0
  <2>1. 0 <= x + w /\ x + w < w /\ 2 * (x + w) >= w
    BY <1>1, <1>4
  <2>2. x % w = x + w
    BY <1>2, <1>4, <2>1
  <2> QED BY <1>2, <2>1, <2>2
<1> QED BY <1>2, <1>3, <1>4

LEMMA StartTimerDue ==
    ASSUME Short, TypeOK, NEW t \in Tasks, StartTimer(t) # Off
    PROVE  StartTimer(t) <= 2 * Start[t] + 1
<1>1. now \in Nat /\ now \in 0 .. MaxTime
  BY NowType DEF TypeOK
<1>2. MaxTime \in Nat /\ Wrap \in Nat \ {0} /\ Start[t] \in Nat
  BY ConstantsAssumption
<1>3. now <= Wrap
  BY <1>1, <1>2 DEF Short
<1>4. /\ 2 * ((Start[t] - now \div 2) % Wrap) < Wrap
      /\ StartTimer(t) = now + 2 * ((Start[t] - now \div 2) % Wrap)
  BY DEF StartTimer
<1>5. now + 2 * ((Start[t] - now \div 2) % Wrap) <= 2 * Start[t] + 1
  BY <1>1, <1>2, <1>3, <1>4, Remainder
<1> QED BY <1>4, <1>5

(* The timer that Proceed sets is the first task's. *)
LEMMA ProceedDue ==
    ASSUME Short, TypeOK, NEW who, NEW list, Queue(list), Proceed(who, list)
    PROVE  DueByStart'
<1>1. CASE who = "update" /\ list = <<>>
  BY <1>1 DEF Proceed, Down, DueByStart
<1>2. CASE ~ (who = "update" /\ list = <<>>)
  <2>1. tasks' = list /\ timer' = IF list = <<>> THEN Off ELSE StartTimer(list[1])
    BY <1>2 DEF Proceed, ForFirst
  <2>2. CASE list = <<>>
    BY <2>1, <2>2 DEF DueByStart
  <2>3. CASE list # <<>>
    <3>1. list[1] \in Tasks
      BY <2>3, TailOfQueue
    <3>2. StartTimer(list[1]) # Off => StartTimer(list[1]) <= 2 * Start[list[1]] + 1
      BY <3>1, StartTimerDue
    <3> QED BY <2>1, <2>3, <3>2 DEF DueByStart
  <2> QED BY <2>2, <2>3
<1> QED BY <1>1, <1>2

LEMMA ReadTasksDue ==
    ASSUME Short, TypeOK, NEW who \in {"start", "update"}, NEW f, Queue(f), Sorted(f),
           NEW q \in Read(f), ReadTasks(who, q, f)
    PROVE  DueByStart'
<1> DEFINE list == Sweep(q).list
<1>1. Sweep(q).ok /\ Queue(list)
  BY ReadFacts, NowType, SweepProperties
<1> HIDE DEF list
<1>2. PICK r \in Save(list, f) :
        \/ Proceed(who, r.list)
        \/ box' = who
        \/ Down
  BY <1>1 DEF ReadTasks, list
<1>3. Queue(r.list)
  BY <1>1, SaveProperties
<1>4. CASE Proceed(who, r.list)
  BY <1>3, <1>4, ProceedDue
<1>5. CASE box' = who
  BY <1>5 DEF DueByStart
<1>6. CASE Down
  BY <1>6 DEF Down, DueByStart
<1> QED BY <1>2, <1>4, <1>5, <1>6

(* timerEvent counts from the task just performed, which starts no later   *)
(* than the next.                                                          *)
LEMMA TimerEventDue ==
    ASSUME Short, IInv, TimerEvent
    PROVE  DueByStart'
<1>1. TypeOK /\ Queues /\ Sorted(tasks)
  BY TypeParts DEF IInv, Ordered
<1>2. PICK t \in Tasks :
        /\ t = tasks[1] /\ t \in Range(tasks)
        /\ Down \/ TimerResult(t)
  BY TimerEventResult
<1>3. CASE Down
  BY <1>3 DEF Down, DueByStart
<1>4. CASE TimerResult(t)
  <2> SUFFICES ASSUME timer' # Off
               PROVE  timer' <= 2 * Start[tasks'[1]] + 1
    BY DEF DueByStart
  <2>1. /\ Queue(tasks') /\ Range(tasks') = Range(tasks) \ {t}
        /\ tasks' # <<>> /\ timer' = StartTimer(t)
    BY <1>4 DEF TimerResult
  <2>2. PICK u : u = tasks'[1]
    OBVIOUS
  <2>3. u \in Range(tasks) /\ u # t /\ u \in Tasks
    <3>1. PICK s : s = tasks'
      OBVIOUS
    <3>2. s[1] \in Tasks /\ s[1] \in Range(s)
      BY <2>1, <3>1, TailOfQueue
    <3> QED BY <2>1, <2>2, <3>1, <3>2
  <2>4. Start[t] <= Start[u]
    <3>1. PICK i \in 1 .. Len(tasks) : u = tasks[i]
      BY <1>1, <2>3, QueueFacts DEF Queues
    <3>2. Len(tasks) \in Nat /\ DOMAIN tasks = 1 .. Len(tasks)
      BY <1>1, QueueFacts DEF Queues
    <3>3. i # 1
      BY <1>2, <2>3, <3>1
    <3>4. 1 \in DOMAIN tasks /\ i \in DOMAIN tasks /\ 1 < i
      BY <3>1, <3>2, <3>3
    <3> QED BY <1>1, <1>2, <3>1, <3>4 DEF Sorted
  <2>5. StartTimer(t) <= 2 * Start[t] + 1
    BY <1>1, <2>1, StartTimerDue
  <2>6. Start[t] \in Nat /\ Start[u] \in Nat /\ StartTimer(t) \in Nat
    <3>1. Start[t] \in Nat /\ Start[u] \in Nat
      BY <2>3, ConstantsAssumption
    <3>2. StartTimer(t) \in Nat
      BY <1>1, <2>1, StartTimerType
    <3> QED BY <3>1, <3>2
  <2>7. StartTimer(t) <= 2 * Start[u] + 1
    BY <2>4, <2>5, <2>6
  <2> QED BY <2>1, <2>2, <2>7
<1> QED BY <1>2, <1>3, <1>4

LEMMA StepKeepsDue ==
    ASSUME Short, IInv, DueByStart, [Next]_vars
    PROVE  DueByStart'
<1>1. TypeOK /\ Queues /\ Rest /\ Ordered
  BY TypeParts DEF IInv
<1>2. CASE Startup
  <2>1. Queue(file) /\ Sorted(file)
    BY <1>1, <1>2 DEF Queues, Ordered
  <2>2. PICK q \in Read(file) : ReadTasks("start", q, file)
    BY <1>2 DEF Startup
  <2> QED BY <1>1, <2>1, <2>2, ReadTasksDue
<1>3. CASE BoxClosed
  <2>1. Queue(tasks) /\ Proceed(box, tasks)
    BY <1>1, <1>3 DEF BoxClosed, Queues
  <2> QED BY <1>1, <2>1, ProceedDue
<1>4. CASE TimerEvent
  BY <1>4, TimerEventDue
<1>5. CASE Crash \/ TimerEventOnNothing
  BY <1>5 DEF Crash, TimerEventOnNothing, Down, DueByStart
<1>6. ASSUME NEW t \in Tasks, AddTask(t) PROVE DueByStart'
  <2>1. t \notin Range(edited)
    BY <1>6 DEF AddTask
  <2>2. PICK r \in Save(Append(edited, t), file) : Down \/ UpdateTasks(r.file)
    BY <1>6 DEF AddTask
  <2>3. Queue(Append(edited, t))
    BY <1>1, <2>1, AppendToQueue DEF Queues
  <2>4. Queue(r.file) /\ Sorted(r.file)
    BY <1>1, <2>3, SaveProperties DEF Queues, Ordered
  <2>5. CASE Down
    BY <2>5 DEF Down, DueByStart
  <2>6. CASE UpdateTasks(r.file)
    <3>1. PICK q \in Read(r.file) : ReadTasks("update", q, r.file)
      BY <2>6 DEF UpdateTasks
    <3> QED BY <1>1, <2>4, <3>1, ReadTasksDue
  <2> QED BY <2>2, <2>5, <2>6
<1>7. ASSUME NEW i, DeleteTask(i) PROVE DueByStart'
  <2>1. Down \/ UNCHANGED <<timer, box, tasks>>
    BY <1>7 DEF DeleteTask
  <2>2. CASE Down
    BY <2>2 DEF Down, DueByStart
  <2>3. CASE UNCHANGED <<timer, box, tasks>>
    BY <2>3 DEF DueByStart
  <2> QED BY <2>1, <2>2, <2>3
<1>8. CASE UNCHANGED <<timer, box, tasks>>
  BY <1>8 DEF DueByStart
<1>9. OpenDialog \/ LanguageChange \/ CloseDialog \/ Tick \/ UNCHANGED vars
        => UNCHANGED <<timer, box, tasks>>
  BY DEF OpenDialog, LanguageChange, CloseDialog, Tick, vars
<1> QED BY <1>2, <1>3, <1>4, <1>5, <1>6, <1>7, <1>8, <1>9 DEF Next

(* In a run shorter than half the range of an int of milliseconds, a timer *)
(* that runs is due by the second its task starts at, whether it was set   *)
(* for that task, for the one before it, or after a warning.               *)
THEOREM DueInTime ==
    ASSUME MaxTime <= Wrap
    PROVE  Spec => []DueByStart
<1>1. Short
  BY DEF Short
<1>2. Init => DueByStart
  BY DEF Init, DueByStart
<1>3. IInv /\ DueByStart /\ [Next]_vars => DueByStart'
  BY <1>1, StepKeepsDue
<1> QED BY <1>2, <1>3, IInvariance, PTL DEF Spec
-----------------------------------------------------------------------------
(* The dialog's list over the file of the scheduler. *)
LEMMA AddTaskKeepsFuture ==
    ASSUME IInv, NEW t \in Tasks, AddTask(t), up', NEW u \in Range(file), u \notin Range(file')
    PROVE  Late(u) \/ done'[u] # "no" \/ u \in deleted' \/ u \in unread'
<1>1. TypeOK /\ Queues /\ Rest /\ Ordered
  BY TypeParts DEF IInv
<1>2. /\ dialog /\ t \notin Range(edited) /\ deleted' = deleted \ {t} /\ done' = done
      /\ unread' = unread \ {t}
  BY DEF AddTask
<1>3. PICK r \in Save(Append(edited, t), file) :
        Down \/ (r.outcome # "died" /\ UpdateTasks(r.file))
  BY DEF AddTask
<1>4. Queue(Append(edited, t)) /\ Range(Append(edited, t)) = Range(edited) \cup {t}
  BY <1>1, <1>2, AppendToQueue DEF Queues
<1>5. /\ Queue(r.file) /\ Sorted(r.file)
      /\ Range(r.list) = Range(edited) \cup {t}
      /\ r.outcome \in {"written", "failed", "died"}
      /\ r.outcome = "written" => r.file = r.list
      /\ r.outcome = "failed" => r.file = file
  BY <1>1, <1>4, SaveProperties DEF Queues, Ordered
<1>6. ~Down
  BY DEF Down
<1>11. PICK q \in Read(r.file) : ReadTasks("update", q, r.file)
  BY <1>3, <1>6 DEF UpdateTasks
<1>7. ReadResult("update", q, r.file)
  BY <1>1, <1>5, <1>6, <1>11, ReadTasksResult
<1>8. u \in Range(r.file) => Late(u)
  BY <1>7 DEF ReadResult
<1>9. CASE r.outcome = "failed"
  BY <1>5, <1>8, <1>9
<1>10. CASE r.outcome = "written"
  <2>1. u \in Range(edited) \/ Excused(u)
    BY <1>2 DEF IInv, DialogHasAll
  <2> QED BY <1>2, <1>5, <1>8, <1>10, <2>1 DEF Excused
<1> QED BY <1>3, <1>5, <1>6, <1>9, <1>10

LEMMA DeleteTaskKeepsFuture ==
    ASSUME IInv, NEW i \in Nat, DeleteTask(i), up', NEW u \in Range(file), u \notin Range(file')
    PROVE  Late(u) \/ done'[u] # "no" \/ u \in deleted' \/ u \in unread'
<1>1. TypeOK /\ Queues /\ Rest /\ Ordered
  BY TypeParts DEF IInv
<1> DEFINE rest == IF i = 0 THEN edited ELSE RemoveAt(edited, i)
           gone == IF i = 0 THEN {} ELSE {edited[i]}
<1>2. /\ dialog /\ i \in 0 .. Len(edited) /\ deleted' = deleted \cup gone
      /\ done' = done /\ unread' = unread
  BY DEF DeleteTask
<1>3. PICK r \in Save(rest, file) : file' = r.file /\ r.outcome # "died"
  BY DEF DeleteTask, Down
<1>4. Queue(rest) /\ Range(rest) = Range(edited) \ gone
  <2>1. CASE i = 0
    BY <1>1, <2>1 DEF Queues
  <2>2. CASE i # 0
    <3>1. i \in 1 .. Len(edited)
      BY <1>2, <2>2
    <3>2. Queue(RemoveAt(edited, i)) /\ Range(RemoveAt(edited, i)) = Range(edited) \ {edited[i]}
      BY <1>1, <3>1, RemoveFromQueue DEF Queues
    <3> QED BY <2>2, <3>2
  <2> QED BY <2>1, <2>2
<1> HIDE DEF rest, gone
<1>5. /\ Range(r.list) = Range(rest)
      /\ r.outcome \in {"written", "failed", "died"}
      /\ r.outcome = "written" => r.file = r.list
      /\ r.outcome = "failed" => r.file = file
  BY <1>1, <1>4, SaveProperties DEF Queues, Ordered
<1>6. u \in Range(edited) \/ Excused(u)
  BY <1>2 DEF IInv, DialogHasAll
<1> QED BY <1>2, <1>3, <1>4, <1>5, <1>6 DEF Excused

LEMMA StepKeepsFuture ==
    ASSUME IInv, [Next]_vars, up', NEW u \in Range(file), u \in Range(IF up THEN tasks ELSE file),
           u \notin Range(file')
    PROVE  Late(u) \/ done'[u] # "no" \/ u \in deleted' \/ u \in unread'
<1>1. CASE Startup
  <2>1. TypeOK /\ Queue(file) /\ Sorted(file)
    BY TypeParts DEF IInv, Ordered, Queues
  <2>2. PICK q \in Read(file) :
          ReadTasks("start", q, file) /\ unread' = Range(file) \ Range(q)
    BY <1>1 DEF Startup
  <2>3. ~Down
    BY DEF Down
  <2>4. ReadResult("start", q, file)
    BY <2>1, <2>2, <2>3, ReadTasksResult
  <2>5. u \in Range(q) => Late(u)
    BY <2>4 DEF ReadResult
  <2> QED BY <2>2, <2>5
<1>2. CASE TimerEvent
  <2>1. PICK t \in Tasks :
          /\ done' = [done EXCEPT ![t] = IF Late(t) THEN "late" ELSE "timely"]
          /\ Down \/ TimerResult(t)
    BY <1>2, TimerEventResult
  <2>5. u \in Range(tasks)
    BY <1>2 DEF TimerEvent
  <2>2. u = t
    BY <2>1, <2>5 DEF Down, TimerResult
  <2>3. done \in [Tasks -> {"no", "timely", "late", "again"}]
    BY DEF IInv, TypeOK
  <2>4. done'[u] = IF Late(t) THEN "late" ELSE "timely"
    BY <2>1, <2>2, <2>3
  <2> QED BY <2>4
<1>3. ASSUME NEW t \in Tasks, AddTask(t) 
      PROVE  Late(u) \/ done'[u] # "no" \/ u \in deleted' \/ u \in unread'
  BY <1>3, AddTaskKeepsFuture
<1>4. ASSUME NEW i \in 0 .. Cardinality(Tasks), DeleteTask(i)
      PROVE  Late(u) \/ done'[u] # "no" \/ u \in deleted' \/ u \in unread'
  <2>1. i \in Nat
    BY ConstantsAssumption, FS_CardinalityType
  <2> QED BY <1>4, <2>1, DeleteTaskKeepsFuture
<1>5. BoxClosed \/ TimerEventOnNothing \/ Crash \/ OpenDialog \/ LanguageChange \/ CloseDialog
        \/ Tick \/ UNCHANGED vars => file' = file
  BY DEF BoxClosed, TimerEventOnNothing, Crash, OpenDialog, LanguageChange, CloseDialog, Tick, vars
<1> QED BY <1>1, <1>2, <1>3, <1>4, <1>5 DEF Next

(* The dialog's old list, written over the scheduler's file, and failed    *)
(* saves lose no task that is still to come and that the scheduler knows,  *)
(* nor does checkTasks at the start: only a read by the start or by the    *)
(* dialog that failed does, and the tasks lost are the ones it missed.     *)
THEOREM FutureIsKept == Spec => FutureKept
<1>1. ASSUME IInv, [Next]_vars
      PROVE  [\A t \in (Range(file) \cap Range(IF up THEN tasks ELSE file))
                         \ Range(file') :
                 \/ Late(t)
                 \/ done'[t] # "no"
                 \/ ~up'
                 \/ t \in deleted'
                 \/ t \in unread']_vars
  BY <1>1, StepKeepsFuture
<1> QED BY <1>1, IInvariance, PTL DEF Spec, FutureKept
=============================================================================
