---------------------------- MODULE ImportProofs ----------------------------
(***************************************************************************)
(* Theorems about Import: what a guest has of its machine when the program *)
(* is done, and the bridge it is attached to, for every machine and export *)
(* that the assumptions of Import allow, every host (any interfaces, any   *)
(* routing table) and every number of disks and NICs.                      *)
(*                                                                         *)
(* The argument has three parts.  First, what Only, Dict and the other     *)
(* loops of the parsers return (LeastNumber stands for induction).  Then,  *)
(* for the VMX file, its VMDK files and the OVF descriptor of a machine,   *)
(* that the parser reads back what was written (VmxExportIsRead,           *)
(* OvfIsRead, OvaIsRead, together ParsedIs).  Last, the inductive          *)
(* invariant ImportInv, which says what each stage leaves for the next,    *)
(* and what the generators make of that.                                   *)
(***************************************************************************)
EXTENDS Import, TLAPS, WellFoundedInduction

-----------------------------------------------------------------------------
(* Numbers, loops, and the lists and dicts that loops fill.                *)

Below == {p \in Nat \X Nat : p[1] < p[2]}

\* Of some numbers, one is the least: it stands for induction.
LEMMA LeastNumber ==
  ASSUME NEW T \in SUBSET Nat, T # {}
  PROVE  \E x \in T : \A y \in T : x <= y
<1>1. IsWellFoundedOn(Below, Nat)
  BY NatLessThanWellFounded DEF Below, OpToRel
<1>2. PICK x \in T : \A y \in T : <<y, x>> \notin Below
  BY <1>1, WFMin
<1>3. ASSUME NEW y \in T PROVE x <= y
  <2>1. y \in Nat /\ x \in Nat
    OBVIOUS
  <2>2. ~(y < x)
    BY <1>2, <2>1 DEF Below
  <2> QED BY <2>1, <2>2
<1> QED BY <1>3

\* And of some numbers up to a bound, one is the greatest.
LEMMA GreatestNumber ==
  ASSUME NEW n \in Nat, NEW T \in SUBSET (0..n), T # {}
  PROVE  \E x \in T : \A y \in T : y <= x
<1> DEFINE U == {u \in 0..n : n - u \in T}
<1>1. U \in SUBSET Nat /\ U # {}
  <2>1. PICK t : t \in T
    OBVIOUS
  <2>2. n - t \in 0..n /\ n - (n - t) = t
    BY <2>1
  <2> QED BY <2>1, <2>2
<1>2. PICK u \in U : \A v \in U : u <= v
  <2> HIDE DEF U
  <2> QED BY <1>1, LeastNumber
<1>3. PICK x \in T : u = n - x
  <2>1. u \in 0..n /\ n - u \in T /\ u = n - (n - u)
    BY <1>2
  <2> QED BY <2>1
<1>4. ASSUME NEW y \in T PROVE y <= x
  <2>1. n - x <= n - y
    <3>1. n - y \in 0..n /\ n - (n - y) = y
      BY <1>4
    <3> QED BY <1>2, <1>3, <1>4, <3>1
  <2>2. x \in Nat /\ y \in Nat
    OBVIOUS
  <2> QED BY <2>1, <2>2
<1> QED BY <1>4

\* A loop over n = 1 .. L that begins with base.
IsRun(run, L, D, base, step) == /\ run \in [0..L -> D] /\ run[0] = base
                                /\ \A n \in 1..L : run[n] = step[n][run[n - 1]]

\* A loop has a run, whatever its step does.
LEMMA Loops ==
  ASSUME NEW L \in Nat, NEW D, NEW base \in D, NEW step \in [1..L -> [D -> D]]
  PROVE  \E run : IsRun(run, L, D, base, step)
<1> DEFINE Bad == {n \in 0..L : ~\E run : IsRun(run, n, D, base, step)}
<1>0. L \in 0..L
  OBVIOUS
<1>1. SUFFICES ASSUME Bad # {} PROVE FALSE
  BY <1>0
<1>2. PICK n \in Bad : \A m \in Bad : n <= m
  <2>1. Bad \in SUBSET Nat
    OBVIOUS
  <2> HIDE DEF Bad
  <2> QED BY <1>1, <2>1, LeastNumber
<1>3. n # 0
  <2>1. IsRun([k \in 0..0 |-> base], 0, D, base, step)
    BY DEF IsRun
  <2> QED BY <1>2, <2>1
<1>4. n \in 1..L /\ n - 1 \in 0..L /\ n - 1 \notin Bad
  <2>1. n \in 0..L
    BY <1>2
  <2>2. ~(n <= n - 1) /\ n \in 1..L /\ n - 1 \in 0..L
    BY <1>3, <2>1
  <2> HIDE DEF Bad
  <2> QED BY <1>2, <2>2
<1>5. PICK run : IsRun(run, n - 1, D, base, step)
  BY <1>4
<1> DEFINE v == step[n][run[n - 1]]
           next == [k \in 0..n |-> IF k = n THEN v ELSE run[k]]
<1>6. IsRun(next, n, D, base, step)
  <2>1. /\ n \in Nat \ {0} /\ run \in [0..(n - 1) -> D] /\ run[0] = base
        /\ \A k \in 1..(n - 1) : run[k] = step[k][run[k - 1]]
    BY <1>4, <1>5 DEF IsRun
  <2>2. v \in D
    <3>1. run[n - 1] \in D
      BY <2>1
    <3> QED BY <1>4, <3>1
  <2>3. next \in [0..n -> D] /\ next[0] = base
    <3> HIDE DEF v
    <3> QED BY <2>1, <2>2
  <2>4. ASSUME NEW k \in 1..n PROVE next[k] = step[k][next[k - 1]]
    <3>1. CASE k = n
      <4>1. n - 1 \in 0..n /\ n - 1 # n /\ n \in 0..n
        BY <2>1
      <4>2. next[n] = v /\ next[n - 1] = run[n - 1]
        BY <4>1
      <4> QED BY <3>1, <4>2
    <3>2. CASE k # n
      <4>1. k \in 1..(n - 1) /\ k - 1 \in 0..n /\ k - 1 # n /\ k \in 0..n
        BY <2>1, <3>2
      <4>2. next[k] = run[k] /\ next[k - 1] = run[k - 1]
        BY <3>2, <4>1
      <4> QED BY <2>1, <4>1, <4>2
    <3> QED BY <3>1, <3>2
  <2> QED BY <2>3, <2>4 DEF IsRun
<1> QED BY <1>2, <1>6

\* Two ways to count the same numbers in rising order are one.
Rising(f, n) == \A i, j \in 1..n : i < j => f[i] < f[j]

SameNumbers(f, a, g, b) == /\ \A i \in 1..a : \E j \in 1..b : f[i] = g[j]
                           /\ \A j \in 1..b : \E i \in 1..a : f[i] = g[j]

Counted(f, n) == n \in Nat /\ f \in [1..n -> Nat] /\ Rising(f, n)

SameCount(f, a, g, b) == a = b /\ \A i \in 1..a : f[i] = g[i]

\* Two such counts agree.
LEMMA RisingIsUnique ==
  ASSUME NEW f, NEW a, NEW g, NEW b, Counted(f, a), Counted(g, b), SameNumbers(f, a, g, b)
  PROVE  SameCount(f, a, g, b)
<1>t. /\ a \in Nat /\ f \in [1..a -> Nat] /\ Rising(f, a)
      /\ b \in Nat /\ g \in [1..b -> Nat] /\ Rising(g, b)
  BY DEF Counted
<1> DEFINE Bad == {i \in (1..a) \cap (1..b) : f[i] # g[i]}
<1>0. /\ \A i \in 1..a : i \in Nat /\ f[i] \in Nat
      /\ \A j \in 1..b : j \in Nat /\ g[j] \in Nat
  <2>1. \A i \in 1..a : i \in Nat /\ f[i] \in Nat
    BY ONLY <1>t
  <2>2. \A j \in 1..b : j \in Nat /\ g[j] \in Nat
    BY ONLY <1>t
  <2> QED BY <2>1, <2>2
<1>1. Bad = {}
  <2>1. SUFFICES ASSUME Bad # {} PROVE FALSE
    OBVIOUS
  <2>2. PICK k \in Bad : \A m \in Bad : k <= m
    <3>1. Bad \in SUBSET Nat
      BY <1>t
    <3> HIDE DEF Bad
    <3> QED BY <2>1, <3>1, LeastNumber
  <2>3. k \in 1..a /\ k \in 1..b /\ f[k] \in Nat /\ g[k] \in Nat /\ f[k] # g[k] /\ k \in Nat
    BY <1>t, <2>2
  <2>4. ASSUME NEW j \in Nat, j \in (1..a) \cap (1..b), j < k PROVE f[j] = g[j]
    <3>1. j \notin Bad
      BY <2>2, <2>3, <2>4
    <3> QED BY <2>4, <3>1
  <2>5. CASE f[k] < g[k]
    <3>1. PICK j \in 1..b : f[k] = g[j]
      BY <2>3 DEF SameNumbers
    <3>2. g[j] \in Nat /\ j \in Nat
      BY <1>0
    <3>3. CASE j < k
      <4>1. j \in 1..a /\ f[j] \in Nat
        BY <1>t, <2>3, <3>2, <3>3
      <4>2. f[j] = g[j] /\ f[j] < f[k]
        BY <1>t, <2>3, <2>4, <3>2, <3>3, <4>1 DEF Rising
      <4> QED BY <2>3, <3>1, <4>1, <4>2
    <3>4. CASE ~(j < k)
      <4>1. j = k \/ k < j
        BY <2>3, <3>2, <3>4
      <4>2. k < j => g[k] < g[j]
        BY <1>t, <2>3 DEF Rising
      <4>3. j = k => g[j] = g[k]
        OBVIOUS
      <4> HIDE DEF Bad
      <4> QED BY ONLY <2>3, <2>5, <3>1, <3>2, <4>1, <4>2, <4>3
    <3> QED BY <3>3, <3>4
  <2>6. CASE g[k] < f[k]
    <3>1. PICK j \in 1..a : f[j] = g[k]
      BY <2>3 DEF SameNumbers
    <3>2. f[j] \in Nat /\ j \in Nat
      BY <1>0
    <3>3. CASE j < k
      <4>1. j \in 1..b /\ g[j] \in Nat
        BY <1>t, <2>3, <3>2, <3>3
      <4>2. f[j] = g[j] /\ g[j] < g[k]
        BY <1>t, <2>3, <2>4, <3>2, <3>3, <4>1 DEF Rising
      <4> QED BY <2>3, <3>1, <4>1, <4>2
    <3>4. CASE ~(j < k)
      <4>1. j = k \/ k < j
        BY <2>3, <3>2, <3>4
      <4>2. k < j => f[k] < f[j]
        BY <1>t, <2>3 DEF Rising
      <4>3. j = k => f[j] = f[k]
        OBVIOUS
      <4> HIDE DEF Bad
      <4> QED BY ONLY <2>3, <2>6, <3>1, <3>2, <4>1, <4>2, <4>3
    <3> QED BY <3>3, <3>4
  <2> QED BY <2>3, <2>5, <2>6
<1>2. ~(a < b)
  <2>1. SUFFICES ASSUME a < b PROVE FALSE
    OBVIOUS
  <2>2. b \in 1..b /\ g[b] \in Nat
    BY <1>t, <2>1
  <2>3. PICK i \in 1..a : f[i] = g[b]
    BY <2>2 DEF SameNumbers
  <2>4. i \in 1..b /\ i < b /\ f[i] = g[i] /\ g[i] \in Nat
    <3>1. i \in 1..b /\ i < b
      BY <1>t, <2>1, <2>3
    <3> QED BY <1>0, <1>1, <3>1
  <2>5. g[i] < g[b]
    BY <1>t, <2>2, <2>4 DEF Rising
  <2> QED BY <2>2, <2>3, <2>4, <2>5
<1>3. ~(b < a)
  <2>1. SUFFICES ASSUME b < a PROVE FALSE
    OBVIOUS
  <2>2. a \in 1..a /\ f[a] \in Nat
    BY <1>t, <2>1
  <2>3. PICK j \in 1..b : f[a] = g[j]
    BY <2>2 DEF SameNumbers
  <2>4. j \in 1..a /\ j < a /\ f[j] = g[j] /\ f[j] \in Nat
    <3>1. j \in 1..a /\ j < a
      BY <1>t, <2>1, <2>3
    <3> QED BY <1>0, <1>1, <3>1
  <2>5. f[j] < f[a]
    BY <1>t, <2>2, <2>4 DEF Rising
  <2> QED BY <2>2, <2>3, <2>4, <2>5
<1>4. a = b
  BY <1>t, <1>2, <1>3
<1> QED BY <1>1, <1>4 DEF SameCount

\* What Only keeps, and where it was.
Keeps(t, f, s, n, wanted) ==
  /\ f \in [1..Len(t) -> 1..n] /\ Rising(f, Len(t))
  /\ \A i \in 1..Len(t) : t[i] = s[f[i]]
  /\ \A i \in 1..Len(t) : t[i] \in wanted
  /\ \A k \in 1..n : s[k] \in wanted => \E i \in 1..Len(t) : f[i] = k

IsOnlyLoop(kept, A, s, wanted) ==
  /\ kept \in [0..Len(s) -> Seq(A)] /\ kept[0] = <<>>
  /\ \A n \in 1..Len(s) : kept[n] = IF s[n] \in wanted THEN Append(kept[n - 1], s[n]) ELSE kept[n - 1]
  /\ Only(s, wanted) = kept[Len(s)]

\* The loop of Only, run by run.
LEMMA OnlyLoop ==
  ASSUME NEW A, NEW s \in Seq(A), NEW wanted
  PROVE  \E kept : IsOnlyLoop(kept, A, s, wanted)
<1> DEFINE L == Len(s)
           D == Seq(A)
           base == <<>>
           Body(f) == [n \in 0..L |-> IF n = 0 THEN base
                                      ELSE IF s[n] \in wanted THEN Append(f[n - 1], s[n]) ELSE f[n - 1]]
           kept == CHOOSE f : f = Body(f)
           step == [n \in 1..L |-> [t \in D |-> IF s[n] \in wanted THEN Append(t, s[n]) ELSE t]]
<1>1. L \in Nat /\ base \in D /\ \A n \in 1..L : s[n] \in A
  OBVIOUS
<1>2. step \in [1..L -> [D -> D]]
  BY <1>1
<1>3. PICK run : IsRun(run, L, D, base, step)
  <2> HIDE DEF step, L, D, base
  <2> QED BY <1>1, <1>2, Loops
<1> HIDE DEF D
<1>3a. /\ run \in [0..L -> D] /\ run[0] = base
       /\ \A n \in 1..L : run[n] = step[n][run[n - 1]]
  BY <1>3 DEF IsRun
<1>4. \A n \in 1..L : run[n] = IF s[n] \in wanted THEN Append(run[n - 1], s[n]) ELSE run[n - 1]
  <2>1. \A n \in 1..L : run[n - 1] \in D
    BY <1>1, <1>3a
  <2> HIDE DEF L
  <2> QED BY <1>3a, <2>1
<1>5. run = Body(run)
  <2> HIDE DEF L, D, base
  <2>1. \A n \in 0..L : n = 0 \/ n \in 1..L
    BY <1>1
  <2>2. \A n \in 0..L : run[n] = IF n = 0 THEN base
                                ELSE IF s[n] \in wanted THEN Append(run[n - 1], s[n]) ELSE run[n - 1]
    BY <1>3a, <1>4, <2>1
  <2> QED BY <1>3a, <2>2
<1>6. kept = Body(kept)
  BY <1>5
<1>7. Only(s, wanted) = kept[L]
  BY DEF Only
<1>8. /\ kept[0] = base
      /\ \A n \in 1..L : kept[n] = IF s[n] \in wanted THEN Append(kept[n - 1], s[n]) ELSE kept[n - 1]
  <2> HIDE DEF kept, L, base
  <2>1. 0 \in 0..L /\ \A n \in 1..L : n \in 0..L /\ n # 0
    BY <1>1
  <2> QED BY <1>6, <2>1
<1>9. kept \in [0..L -> D]
  <2> HIDE DEF kept, L, D, base
  <2> DEFINE Bad == {n \in 0..L : kept[n] \notin D}
  <2>1. ASSUME Bad # {} PROVE FALSE
    <3>1. PICK n \in Bad : \A m \in Bad : n <= m
      <4>1. Bad \in SUBSET Nat
        OBVIOUS
      <4> HIDE DEF Bad
      <4> QED BY <2>1, <4>1, LeastNumber
    <3>2. n \in 1..L /\ n - 1 \in 0..L /\ ~(n <= n - 1)
      BY <1>1, <1>8, <3>1
    <3>3. kept[n - 1] \in D
      BY <3>1, <3>2
    <3>4. kept[n] \in D
      <4>1. s[n] \in A /\ (kept[n] = Append(kept[n - 1], s[n]) \/ kept[n] = kept[n - 1])
        BY <1>1, <1>8, <3>2
      <4>2. ASSUME NEW t \in D PROVE Append(t, s[n]) \in D
        BY <4>1 DEF D
      <4> QED BY <3>3, <4>1, <4>2
    <3> QED BY <3>1, <3>4
  <2> QED BY <1>6, <2>1
<1> QED BY <1>7, <1>8, <1>9 DEF IsOnlyLoop, D

\* Only keeps the wanted elements, in their order, and no others.
LEMMA OnlyKeeps ==
  ASSUME NEW A, NEW s \in Seq(A), NEW wanted
  PROVE  /\ Only(s, wanted) \in Seq(A)
         /\ \E f : Keeps(Only(s, wanted), f, s, Len(s), wanted)
<1> DEFINE L == Len(s)
<1>0. PICK kept : IsOnlyLoop(kept, A, s, wanted)
  BY OnlyLoop
<1>1. /\ kept \in [0..L -> Seq(A)] /\ kept[0] = <<>>
      /\ \A n \in 1..L : kept[n] = IF s[n] \in wanted THEN Append(kept[n - 1], s[n]) ELSE kept[n - 1]
      /\ Only(s, wanted) = kept[L]
  BY <1>0 DEF IsOnlyLoop
<1> DEFINE Bad == {n \in 0..L : ~\E f : Keeps(kept[n], f, s, n, wanted)}
<1>2. ASSUME Bad # {} PROVE FALSE
  <2>1. PICK n \in Bad : \A m \in Bad : n <= m
    <3>1. Bad \in SUBSET Nat
      OBVIOUS
    <3> HIDE DEF Bad
    <3> QED BY <1>2, <3>1, LeastNumber
  <2>2. n # 0
    <3>1. Keeps(<<>>, [i \in 1..0 |-> 0], s, 0, wanted)
      BY DEF Keeps, Rising
    <3> QED BY <1>1, <2>1, <3>1
  <2>3. n \in 1..L /\ n \in Nat /\ n - 1 \in 0..L /\ ~(n <= n - 1)
    BY <2>1, <2>2
  <2>4. PICK f : Keeps(kept[n - 1], f, s, n - 1, wanted)
    BY <2>1, <2>3
  <2>5. kept[n - 1] \in Seq(A) /\ s[n] \in A
    BY <1>1, <2>3
  <2> DEFINE t == kept[n - 1]
             M == Len(t)
  <2>6. /\ M \in Nat /\ f \in [1..M -> 1..(n - 1)] /\ Rising(f, M)
        /\ \A i \in 1..M : t[i] = s[f[i]]
        /\ \A i \in 1..M : t[i] \in wanted
        /\ \A k \in 1..(n - 1) : s[k] \in wanted => \E i \in 1..M : f[i] = k
    BY <2>4, <2>5 DEF Keeps
  <2>7. CASE s[n] \notin wanted
    <3>1. kept[n] = t
      BY <1>1, <2>3, <2>7
    <3> HIDE DEF t
    <3>2. f \in [1..M -> 1..n]
      BY <2>3, <2>6
    <3>3. \A k \in 1..n : k = n \/ k \in 1..(n - 1)
      BY <2>3
    <3>4. Keeps(t, f, s, n, wanted)
      BY <2>6, <2>7, <3>2, <3>3 DEF Keeps
    <3> QED BY <2>1, <3>1, <3>4
  <2>8. CASE s[n] \in wanted
    <3> DEFINE u == Append(t, s[n])
               g == [i \in 1..(M + 1) |-> IF i = M + 1 THEN n ELSE f[i]]
    <3>1. kept[n] = u
      BY <1>1, <2>3, <2>8
    <3>2. /\ Len(u) = M + 1 /\ u[M + 1] = s[n]
          /\ \A i \in 1..M : u[i] = t[i]
      BY <2>5
    <3>3. \A i \in 1..(M + 1) : i = M + 1 \/ i \in 1..M
      BY <2>6
    <3> HIDE DEF t, M, u
    <3>4. g[M + 1] = n /\ \A i \in 1..M : g[i] = f[i]
      BY <2>6
    <3>5. g \in [1..(M + 1) -> 1..n]
      <4>1. \A i \in 1..M : f[i] \in 1..n
        BY <2>3, <2>6
      <4> QED BY <2>3, <3>3, <4>1
    <3>6. Rising(g, M + 1)
      <4>1. SUFFICES ASSUME NEW i \in 1..(M + 1), NEW j \in 1..(M + 1), i < j PROVE g[i] < g[j]
        BY DEF Rising
      <4>2. i \in 1..M /\ f[i] \in 1..(n - 1)
        BY <2>6, <4>1
      <4>3. CASE j = M + 1
        <5>1. g[j] = n /\ g[i] = f[i]
          BY <3>4, <4>2, <4>3
        <5> QED BY ONLY <2>3, <4>2, <5>1
      <4>4. CASE j \in 1..M
        BY <2>6, <3>4, <4>1, <4>2, <4>4 DEF Rising
      <4> QED BY <3>3, <4>3, <4>4
    <3>7. \A i \in 1..(M + 1) : u[i] = s[g[i]] /\ u[i] \in wanted
      BY <2>6, <2>8, <3>2, <3>3, <3>4
    <3>8. ASSUME NEW k \in 1..n, s[k] \in wanted PROVE \E i \in 1..(M + 1) : g[i] = k
      <4>1. CASE k = n
        <5>1. M + 1 \in 1..(M + 1)
          BY <2>6
        <5> QED BY <3>4, <4>1, <5>1
      <4>2. CASE k # n
        <5>1. k \in 1..(n - 1)
          BY <2>3, <4>2
        <5>2. PICK i \in 1..M : f[i] = k
          BY <2>6, <3>8, <5>1
        <5>3. i \in 1..(M + 1) /\ g[i] = k
          BY <2>6, <3>4, <5>2
        <5> QED BY <5>3
      <4> QED BY <4>1, <4>2
    <3> HIDE DEF g
    <3>9. Keeps(u, g, s, n, wanted)
      BY <3>2, <3>5, <3>6, <3>7, <3>8 DEF Keeps
    <3> QED BY <2>1, <3>1, <3>9
  <2> QED BY <2>7, <2>8
<1>3. L \in 0..L /\ kept[L] \in Seq(A)
  BY <1>1
<1> QED BY <1>1, <1>2, <1>3

\* Whoever counts the places of what is wanted, in their order, knows what Only keeps.
Picks(h, n, s, wanted) ==
  /\ h \in [1..n -> 1..Len(s)] /\ Rising(h, n)
  /\ \A i \in 1..n : s[h[i]] \in wanted
  /\ \A k \in 1..Len(s) : s[k] \in wanted => \E i \in 1..n : h[i] = k

IsPicked(t, h, n, s) == Len(t) = n /\ \A i \in 1..n : t[i] = s[h[i]]

\* And so Only returns just the places that were counted.
LEMMA OnlyIs ==
  ASSUME NEW A, NEW s, s \in Seq(A), NEW wanted, NEW n, n \in Nat, NEW h, Picks(h, n, s, wanted)
  PROVE  Only(s, wanted) \in Seq(A) /\ IsPicked(Only(s, wanted), h, n, s)
<1>0. /\ h \in [1..n -> 1..Len(s)] /\ Rising(h, n)
      /\ \A i \in 1..n : s[h[i]] \in wanted
      /\ \A k \in 1..Len(s) : s[k] \in wanted => \E i \in 1..n : h[i] = k
  BY DEF Picks
<1> USE <1>0
<1> DEFINE t == Only(s, wanted)
           M == Len(t)
<1>1. t \in Seq(A) /\ \E f : Keeps(t, f, s, Len(s), wanted)
  BY OnlyKeeps
<1> HIDE DEF t
<1>2. M \in Nat
  BY <1>1
<1>3. PICK f : Keeps(t, f, s, Len(s), wanted)
  BY <1>1
<1>4. /\ f \in [1..M -> 1..Len(s)] /\ Rising(f, M)
      /\ \A i \in 1..M : t[i] = s[f[i]] /\ t[i] \in wanted
      /\ \A k \in 1..Len(s) : s[k] \in wanted => \E i \in 1..M : f[i] = k
  BY <1>3 DEF Keeps
<1> HIDE DEF M
<1>5. \A i \in 1..M : \E j \in 1..n : f[i] = h[j]
  <2>1. SUFFICES ASSUME NEW i \in 1..M PROVE \E j \in 1..n : f[i] = h[j]
    OBVIOUS
  <2>2. f[i] \in 1..Len(s) /\ s[f[i]] \in wanted
    BY <1>4
  <2> QED BY <2>2
<1>6. \A j \in 1..n : \E i \in 1..M : f[i] = h[j]
  <2>1. SUFFICES ASSUME NEW j \in 1..n PROVE \E i \in 1..M : f[i] = h[j]
    OBVIOUS
  <2>2. h[j] \in 1..Len(s) /\ s[h[j]] \in wanted
    OBVIOUS
  <2> QED BY <1>4, <2>2
<1>7. f \in [1..M -> Nat] /\ h \in [1..n -> Nat]
  <2>1. \A k \in 1..Len(s) : k \in Nat
    OBVIOUS
  <2> QED BY <1>4, <2>1
<1>8. M = n /\ \A i \in 1..M : f[i] = h[i]
  <2>1. Rising(f, M) /\ Rising(h, n) /\ SameNumbers(f, M, h, n)
    BY <1>4, <1>5, <1>6 DEF SameNumbers
  <2>2. Counted(f, M) /\ Counted(h, n)
    BY <1>2, <1>7, <2>1 DEF Counted
  <2>3. SameCount(f, M, h, n)
    BY <2>1, <2>2, RisingIsUnique
  <2> QED BY <2>3 DEF SameCount
<1> QED BY <1>1, <1>4, <1>8 DEF t, M, IsPicked

LEMMA ElementsAre ==
  ASSUME NEW s, NEW i, i \in 1..Len(s)
  PROVE  s[i] \in Elements(s)
  BY DEF Elements

\* A dict holds what the pairs say, when pairs of one key have one value.
LEMMA DictHolds ==
  ASSUME NEW n \in Nat, NEW pairs, DOMAIN pairs \subseteq 1..n,
         \A i, j \in DOMAIN pairs : pairs[i].key = pairs[j].key => pairs[i].value = pairs[j].value
  PROVE  /\ DOMAIN Dict(pairs) = {pairs[i].key : i \in DOMAIN pairs}
         /\ \A i \in DOMAIN pairs : Dict(pairs)[pairs[i].key] = pairs[i].value
<1>1. DOMAIN Dict(pairs) = {pairs[i].key : i \in DOMAIN pairs}
  BY DEF Dict
<1>2. ASSUME NEW i \in DOMAIN pairs PROVE Dict(pairs)[pairs[i].key] = pairs[i].value
  <2> DEFINE same == {j \in DOMAIN pairs : pairs[j].key = pairs[i].key}
             last == CHOOSE k \in same : \A j \in same : j <= k
  <2>1. Dict(pairs)[pairs[i].key] = pairs[last].value
    BY DEF Dict
  <2>2. \E k \in same : \A j \in same : j <= k
    <3>1. same \in SUBSET (0..n) /\ same # {}
      OBVIOUS
    <3> HIDE DEF same
    <3> QED BY <3>1, GreatestNumber
  <2>3. last \in same
    <3> HIDE DEF same
    <3> QED BY <2>2
  <2> HIDE DEF last
  <2> QED BY <2>1, <2>3
<1> QED BY <1>1, <1>2

-----------------------------------------------------------------------------
(* Words and numerals.                                                     *)

\* The words that occur: those that lower() changes, and those in lower case.
LEMMA LowerOf ==
  ASSUME NEW w \in LOWER
  PROVE  Lower(w[1]) = w[2]
<1>1. \A v \in LOWER : v[1] = w[1] => v[2] = w[2]
  BY DEF LOWER
<1> QED BY <1>1 DEF Lower

LEMMA LowerWords ==
  /\ Lower("displayName") = "displayname" /\ Lower("guestOS") = "guestos"
  /\ Lower("memSize") = "memsize" /\ Lower("numvCPUs") = "numvcpus"
  /\ Lower("virtualDev") = "virtualdev" /\ Lower("fileName") = "filename"
  /\ Lower("deviceType") = "devicetype" /\ Lower("addressType") = "addresstype"
  /\ Lower("generatedAddress") = "generatedaddress"
  /\ Lower("TRUE") = "true" /\ Lower("FALSE") = "false" /\ Lower("EFI") = "efi"
  /\ Lower("createType") = "createtype" /\ Lower("ddb.adapterType") = "ddb.adaptertype"
  /\ Lower("MegaBytes") = "megabytes" /\ Lower("GigaBytes") = "gigabytes"
<1>1. \A u, v : <<u, v>> \in LOWER => Lower(u) = v
  <2>1. SUFFICES ASSUME NEW u, NEW v, <<u, v>> \in LOWER PROVE Lower(u) = v
    OBVIOUS
  <2>2. Lower(<<u, v>>[1]) = <<u, v>>[2]
    BY <2>1, LowerOf
  <2> QED BY <2>2
<1>2. /\ {<<"displayName", "displayname">>, <<"guestOS", "guestos">>, <<"memSize", "memsize">>,
          <<"numvCPUs", "numvcpus">>, <<"virtualDev", "virtualdev">>, <<"fileName", "filename">>,
          <<"deviceType", "devicetype">>, <<"addressType", "addresstype">>} \subseteq LOWER
      /\ {<<"generatedAddress", "generatedaddress">>, <<"TRUE", "true">>, <<"FALSE", "false">>,
          <<"EFI", "efi">>, <<"createType", "createtype">>, <<"ddb.adapterType", "ddb.adaptertype">>,
          <<"MegaBytes", "megabytes">>, <<"GigaBytes", "gigabytes">>} \subseteq LOWER
  BY DEF LOWER
<1> QED BY <1>1, <1>2
LowerCase ==
  {"displayname", "guestos", "memsize", "numvcpus", "firmware", "virtualdev", "filename", "present",
   "devicetype", "addresstype", "address", "generatedaddress", "true", "false", "bios", "efi", "", "disk",
   "cdrom-image", "atapi-cdrom", ".vmdk", ".ovf", "version", "byte", "byte * 2^30", "byte*2^30"}

LEMMA LowerCaseWords == \A u \in LowerCase : Lower(u) = u
<1> DEFINE Capital ==
  {"displayName", "guestOS", "memSize", "numvCPUs", "virtualDev", "fileName", "deviceType",
   "addressType", "generatedAddress", "TRUE", "FALSE", "EFI", ".ISO", ".VMX", "VmxNet3", "E1000",
   "E1000e", "PCNet32", "VirtualSCSI", "createType", "parentCID", "CID", "parentFileNameHint",
   "ddb.adapterType", "MegaBytes", "GigaBytes", "twoGbMaxExtentFlat", "monolithicSparse",
   "windows9_64Guest", "winNetEnterprise", "winNetEnterpriseGuest", "ubuntu64Guest"}
<1>1. \A w \in LOWER : w[1] \in Capital
  BY DEF LOWER
<1>2. \A u \in LowerCase : u \notin Capital
  BY DEF LowerCase
<1> HIDE DEF Capital
<1>3. ASSUME NEW u \in LowerCase PROVE \A w \in LOWER : w[1] # u
  BY <1>1, <1>2
<1> QED BY <1>3 DEF Lower

\* int() reads back a number that was written.
LEMMA Numeral ==
  ASSUME NEW n \in NUMBERS
  PROVE  IsInt(ToString(n)) /\ NUMERALS[ToString(n)] = n /\ ToString(n) # "" /\ n \in Nat
<1>1. /\ n \in Nat /\ ToString(n) # ""
      /\ \A m \in NUMBERS : ToString(m) = ToString(n) => m = n
  BY NumbersAssumption
<1>2. NUMERALS[ToString(n)] = CHOOSE m \in NUMBERS : ToString(m) = ToString(n)
  BY DEF NUMERALS
<1>3. (CHOOSE m \in NUMBERS : ToString(m) = ToString(n)) = n
  BY <1>1
<1>4. IsInt(ToString(n))
  BY DEF IsInt, NUMERALS
<1> QED BY <1>1, <1>2, <1>3, <1>4

-----------------------------------------------------------------------------
(* The loops over the lines of a descriptor and over its extents.          *)

IsReading(st, L, lines) ==
  st = [n \in 0..L |-> IF n = 0 THEN VMDKInfo ELSE _parse_line(st[n - 1], lines[n])]

IsSum(st, L, sectors) == st = [n \in 0..L |-> IF n = 0 THEN 0 ELSE st[n - 1] + sectors[n]]

\* The loop of _parse_descriptor is the only function that satisfies it.
LEMMA DescriptorLoop ==
  ASSUME NEW lines, NEW st, NEW L \in Nat, Len(lines) = L, IsReading(st, L, lines)
  PROVE  _parse_descriptor(lines) = st[L]
<1> DEFINE Body(f) == [n \in 0..L |-> IF n = 0 THEN VMDKInfo ELSE _parse_line(f[n - 1], lines[n])]
           info == CHOOSE f : f = Body(f)
           Bad == {n \in 0..L : info[n] # st[n]}
<1>0. st = Body(st)
  BY DEF IsReading
<1>1. info = Body(info)
  BY <1>0
<1>2. _parse_descriptor(lines) = info[L]
  BY DEF _parse_descriptor
<1> HIDE DEF info
<1>3. ASSUME Bad # {} PROVE FALSE
  <2>1. PICK n \in Bad : \A m \in Bad : n <= m
    <3>1. Bad \in SUBSET Nat
      OBVIOUS
    <3> HIDE DEF Bad
    <3> QED BY <1>3, <3>1, LeastNumber
  <2>2. n \in 0..L /\ info[n] # st[n]
    BY <2>1
  <2>3. n # 0
    <3>1. 0 \in 0..L
      OBVIOUS
    <3>2. info[0] = VMDKInfo /\ st[0] = VMDKInfo
      BY <1>0, <1>1, <3>1
    <3> QED BY <2>2, <3>2
  <2>4. n - 1 \in 0..L /\ ~(n <= n - 1)
    BY <2>2, <2>3
  <2>5. info[n - 1] = st[n - 1]
    BY <2>1, <2>4
  <2> QED BY <1>0, <1>1, <2>2, <2>3, <2>5
<1>4. L \in 0..L
  OBVIOUS
<1> QED BY <1>2, <1>3, <1>4

\* So is the sum of the extents.
LEMMA SizeLoop ==
  ASSUME NEW info, NEW st, NEW L \in Nat, Len(info.sectors) = L, NEW sectors, info.sectors = sectors,
         IsSum(st, L, sectors)
  PROVE  virtual_size_bytes(info) = st[L] * SECTOR_SIZE
<1> DEFINE Body(f) == [n \in 0..L |-> IF n = 0 THEN 0 ELSE f[n - 1] + sectors[n]]
           total == CHOOSE f : f = Body(f)
           Bad == {n \in 0..L : total[n] # st[n]}
<1>0. st = Body(st)
  BY DEF IsSum
<1>1. total = Body(total)
  BY <1>0
<1>2. virtual_size_bytes(info) = total[L] * SECTOR_SIZE
  BY DEF virtual_size_bytes
<1> HIDE DEF total
<1>3. ASSUME Bad # {} PROVE FALSE
  <2>1. PICK n \in Bad : \A m \in Bad : n <= m
    <3>1. Bad \in SUBSET Nat
      OBVIOUS
    <3> HIDE DEF Bad
    <3> QED BY <1>3, <3>1, LeastNumber
  <2>2. n \in 0..L /\ total[n] # st[n]
    BY <2>1
  <2>3. n # 0
    <3>1. 0 \in 0..L
      OBVIOUS
    <3>2. total[0] = 0 /\ st[0] = 0
      BY <1>0, <1>1, <3>1
    <3> QED BY <2>2, <3>2
  <2>4. n - 1 \in 0..L /\ ~(n <= n - 1)
    BY <2>2, <2>3
  <2>5. total[n - 1] = st[n - 1]
    BY <2>1, <2>4
  <2> QED BY <1>0, <1>1, <2>2, <2>3, <2>5
<1>4. L \in 0..L
  OBVIOUS
<1> QED BY <1>2, <1>3, <1>4

\* What has been read of a descriptor.
Reading(info, ctype, sectors) ==
  /\ {"version", "create_type", "sectors", "ddb", "error"} \subseteq DOMAIN info
  /\ info.create_type = ctype /\ info.sectors = sectors /\ info.error = ""

Entry(key, value) == [kind |-> "entry", key |-> key, value |-> value]

\* The lines of DescriptorOf, one by one, then all.
LEMMA EntryIsRead ==
  ASSUME NEW info, NEW key, NEW value
  PROVE  _parse_line(info, Entry(key, value)) = _parse_entry(info, Entry(key, value))
  BY DEF _parse_line, Entry

LEMMA LinesAreRead ==
  ASSUME NEW info, NEW ctype, NEW sectors, Reading(info, ctype, sectors)
  PROVE  /\ Reading(_parse_line(info, [kind |-> "comment"]), ctype, sectors)
         /\ Reading(_parse_line(info, Entry("version", "1")), ctype, sectors)
         /\ Reading(_parse_line(info, Entry("ddb.adapterType", "lsilogic")), ctype, sectors)
         /\ \A t : Reading(_parse_line(info, Entry("createType", t)), t, sectors)
         /\ \A n \in NUMBERS : Reading(_parse_line(info, Extent(n)), ctype, Append(sectors, n))
<1>1. _parse_line(info, [kind |-> "comment"]) = info
  BY DEF _parse_line
<1>2. Reading(_parse_line(info, Entry("version", "1")), ctype, sectors)
  <2>1. Lower("version") = "version"
    BY LowerCaseWords DEF LowerCase
  <2>2. IsInt("1") /\ NUMERALS["1"] = 1
    BY Numeral, NumbersAssumption
  <2> DEFINE line == Entry("version", "1")
  <2>3. Lower(line.key) = "version" /\ IsInt(line.value) /\ NUMERALS[line.value] = 1
    BY <2>1, <2>2 DEF Entry
  <2> HIDE DEF line
  <2>4. _parse_entry(info, line) = [info EXCEPT !.version = NUMERALS[line.value]]
    BY ONLY <2>3 DEF _parse_entry, DDB_KEYS
  <2>5. Reading([info EXCEPT !.version = NUMERALS[line.value]], ctype, sectors)
    BY DEF Reading
  <2> QED BY <2>4, <2>5, EntryIsRead DEF line
<1>3. Reading(_parse_line(info, Entry("ddb.adapterType", "lsilogic")), ctype, sectors)
  <2> DEFINE line == Entry("ddb.adapterType", "lsilogic")
             key == "ddb.adaptertype"
             ddb == (key :> line.value) @@ info.ddb
  <2>1. Lower("ddb.adapterType") = key
    BY LowerWords
  <2>2. /\ line.key = "ddb.adapterType" /\ key \in DDB_KEYS
        /\ DDB_KEYS \cap {"version", "cid", "parentcid", "createtype"} = {}
    BY DEF Entry, DDB_KEYS
  <2>3. _parse_entry(info, line) = [info EXCEPT !.ddb = ddb]
    BY <2>1, <2>2 DEF _parse_entry
  <2> HIDE DEF ddb
  <2>4. Reading([info EXCEPT !.ddb = ddb], ctype, sectors)
    BY DEF Reading
  <2> QED BY <2>3, <2>4, EntryIsRead
<1>4. ASSUME NEW t PROVE Reading(_parse_line(info, Entry("createType", t)), t, sectors)
  <2>1. Lower("createType") = "createtype"
    BY LowerWords
  <2> DEFINE line == Entry("createType", t)
  <2>2. Lower(line.key) = "createtype" /\ line.value = t
    BY <2>1 DEF Entry
  <2> HIDE DEF line
  <2>3. _parse_entry(info, line) = [info EXCEPT !.create_type = line.value]
    BY ONLY <2>2 DEF _parse_entry, DDB_KEYS
  <2>4. Reading([info EXCEPT !.create_type = line.value], t, sectors)
    BY <2>2 DEF Reading
  <2> QED BY <2>3, <2>4, EntryIsRead DEF line
<1>5. ASSUME NEW n \in NUMBERS PROVE Reading(_parse_line(info, Extent(n)), ctype, Append(sectors, n))
  <2>1. IsInt(ToString(n)) /\ NUMERALS[ToString(n)] = n
    BY Numeral
  <2>2. /\ Extent(n).kind = "extent" /\ Extent(n).words = 4 /\ Extent(n).access = "RW"
        /\ Extent(n).sectors = ToString(n)
    BY DEF Extent
  <2>3. _parse_line(info, Extent(n)) = _parse_extent_line(info, Extent(n))
    BY <2>2 DEF _parse_line
  <2>4. _parse_extent_line(info, Extent(n)) = [info EXCEPT !.sectors = Append(info.sectors, n)]
    BY <2>1, <2>2 DEF _parse_extent_line
  <2>5. Reading([info EXCEPT !.sectors = Append(info.sectors, n)], ctype, Append(sectors, n))
    BY DEF Reading
  <2> QED BY <2>3, <2>4, <2>5
<1> QED BY <1>1, <1>2, <1>3, <1>4, <1>5

\* The sum over one extent, and over two.
LEMMA Sums ==
  ASSUME NEW info, NEW sectors \in Seq(Nat), info.sectors = sectors
  PROVE  /\ Len(sectors) = 1 => virtual_size_bytes(info) = sectors[1] * SECTOR_SIZE
         /\ Len(sectors) = 2 => virtual_size_bytes(info) = (sectors[1] + sectors[2]) * SECTOR_SIZE
<1>1. ASSUME Len(sectors) = 1 PROVE virtual_size_bytes(info) = sectors[1] * SECTOR_SIZE
  <2> DEFINE st == [n \in 0..1 |-> IF n = 0 THEN 0 ELSE sectors[1]]
  <2>1. IsSum(st, 1, sectors)
    <3>1. \A n \in 0..1 : n = 0 \/ n = 1
      OBVIOUS
    <3>2. sectors[1] \in Nat
      <4>1. 1 \in 1..Len(sectors)
        BY <1>1
      <4> QED BY <4>1
    <3> QED BY <3>1, <3>2 DEF IsSum
  <2>2. virtual_size_bytes(info) = st[1] * SECTOR_SIZE
    <3> HIDE DEF st
    <3> QED BY <1>1, <2>1, SizeLoop
  <2> QED BY <2>2
<1>2. ASSUME Len(sectors) = 2 PROVE virtual_size_bytes(info) = (sectors[1] + sectors[2]) * SECTOR_SIZE
  <2> DEFINE st == [n \in 0..2 |-> IF n = 0 THEN 0 ELSE IF n = 1 THEN sectors[1] ELSE sectors[1] + sectors[2]]
  <2>1. IsSum(st, 2, sectors)
    <3>1. \A n \in 0..2 : n = 0 \/ n = 1 \/ n = 2
      OBVIOUS
    <3>2. sectors[1] \in Nat /\ sectors[2] \in Nat
      <4>1. 1 \in 1..Len(sectors) /\ 2 \in 1..Len(sectors)
        BY <1>2
      <4> QED BY <4>1
    <3> QED BY <3>1, <3>2 DEF IsSum
  <2>2. virtual_size_bytes(info) = st[2] * SECTOR_SIZE
    <3> HIDE DEF st
    <3> QED BY <1>2, <2>1, SizeLoop
  <2> QED BY <2>2
<1> QED BY <1>1, <1>2

\* A descriptor is read as the disk it was written for.
LEMMA DescriptorIsRead ==
  ASSUME NEW d, NEW split \in {"one", "two"}, d.sectors \in Nat,
         split = "one" => d.sectors \in NUMBERS,
         split = "two" => d.sectors \div 2 \in NUMBERS /\ d.sectors % 2 = 0
  PROVE  /\ inspect_vmdk(DescriptorOf(d, split)).error = ""
         /\ inspect_vmdk(DescriptorOf(d, split)).size_bytes = d.sectors * SECTOR_SIZE
<1> DEFINE file == DescriptorOf(d, split)
           lines == file.lines
           ctype == IF split = "two" THEN "twoGbMaxExtentFlat" ELSE "monolithicSparse"
           one == d.sectors
           half == d.sectors \div 2
           last == Entry("ddb.adapterType", "lsilogic")
           s1 == _parse_line(VMDKInfo, lines[1])
           s2 == _parse_line(s1, lines[2])
           s3 == _parse_line(s2, lines[3])
           s4 == _parse_line(s3, lines[4])
           s5 == _parse_line(s4, lines[5])
           s6 == _parse_line(s5, lines[6])
<1>1. ~file.binary
  BY DEF DescriptorOf
<1>2. /\ lines[1] = [kind |-> "comment"] /\ lines[2] = Entry("version", "1") /\ lines[3] = Entry("createType", ctype)
      /\ split = "one" => Len(lines) = 5 /\ lines[4] = Extent(one) /\ lines[5] = last
      /\ split = "two" => Len(lines) = 6 /\ lines[4] = Extent(half) /\ lines[5] = Extent(half) /\ lines[6] = last
  <2> DEFINE a == [kind |-> "comment"]
             b == Entry("version", "1")
             c == Entry("createType", ctype)
  <2>1. /\ split = "one" => lines = <<a, b, c>> \o <<Extent(one)>> \o <<last>>
        /\ split = "two" => lines = <<a, b, c>> \o <<Extent(half), Extent(half)>> \o <<last>>
    BY DEF DescriptorOf, Entry
  <2> HIDE DEF a, b, c, last, one, half, lines
  <2>2. CASE split = "one"
    BY <2>1, <2>2 DEF a, b, c
  <2>3. CASE split = "two"
    BY <2>1, <2>3 DEF a, b, c
  <2> QED BY <2>2, <2>3
<1>3. Reading(VMDKInfo, "", <<>>)
  BY DEF Reading, VMDKInfo
<1> HIDE DEF lines, last, ctype, s1, s2, s3, s4, s5, s6
<1>4. Reading(s3, ctype, <<>>)
  <2>1. Reading(s1, "", <<>>)
    BY <1>2, <1>3, LinesAreRead DEF s1
  <2>2. Reading(s2, "", <<>>)
    BY <1>2, <2>1, LinesAreRead DEF s2
  <2> QED BY <1>2, <2>2, LinesAreRead DEF s3
<1>5. \E info, sectors : /\ _parse_descriptor(lines) = info /\ Reading(info, ctype, sectors)
                         /\ virtual_size_bytes(info) = d.sectors * SECTOR_SIZE
  <2>1. CASE split = "one"
    <3> DEFINE sectors == Append(<<>>, one)
               st == [n \in 0..5 |-> CASE n = 0 -> VMDKInfo [] n = 1 -> s1 [] n = 2 -> s2 [] n = 3 -> s3
                                       [] n = 4 -> s4 [] OTHER -> s5]
    <3>1. Reading(s4, ctype, sectors)
      BY <1>2, <1>4, <2>1, LinesAreRead DEF s4
    <3>2. Reading(s5, ctype, sectors)
      <4> HIDE DEF sectors
      <4> QED BY <1>2, <2>1, <3>1, LinesAreRead DEF s5, last
    <3>3. IsReading(st, 5, lines)
      <4>1. \A n \in 0..5 : n = 0 \/ n = 1 \/ n = 2 \/ n = 3 \/ n = 4 \/ n = 5
        OBVIOUS
      <4> QED BY <4>1 DEF IsReading, s1, s2, s3, s4, s5
    <3>4. _parse_descriptor(lines) = st[5] /\ st[5] = s5
      <4>1. 5 \in Nat /\ Len(lines) = 5
        BY <1>2, <2>1
      <4>2. st[5] = s5
        OBVIOUS
      <4> HIDE DEF st
      <4> QED BY <3>3, <4>1, <4>2, DescriptorLoop
    <3>5. sectors \in Seq(Nat) /\ Len(sectors) = 1 /\ sectors[1] = one
      OBVIOUS
    <3>6. virtual_size_bytes(s5) = one * SECTOR_SIZE
      <4>1. s5.sectors = sectors
        BY <3>2 DEF Reading
      <4> HIDE DEF sectors, one
      <4> QED BY <3>5, <4>1, Sums
    <3> QED BY <3>2, <3>4, <3>6
  <2>2. CASE split = "two"
    <3> DEFINE sectors == Append(Append(<<>>, half), half)
               st == [n \in 0..6 |-> CASE n = 0 -> VMDKInfo [] n = 1 -> s1 [] n = 2 -> s2 [] n = 3 -> s3
                                       [] n = 4 -> s4 [] n = 5 -> s5 [] OTHER -> s6]
    <3>1. Reading(s5, ctype, sectors)
      <4>1. Reading(s4, ctype, Append(<<>>, half))
        BY <1>2, <1>4, <2>2, LinesAreRead DEF s4
      <4> QED BY <1>2, <2>2, <4>1, LinesAreRead DEF s5
    <3>2. Reading(s6, ctype, sectors)
      <4> HIDE DEF sectors
      <4> QED BY <1>2, <2>2, <3>1, LinesAreRead DEF s6, last
    <3>3. IsReading(st, 6, lines)
      <4>1. \A n \in 0..6 : n = 0 \/ n = 1 \/ n = 2 \/ n = 3 \/ n = 4 \/ n = 5 \/ n = 6
        OBVIOUS
      <4> QED BY <4>1 DEF IsReading, s1, s2, s3, s4, s5, s6
    <3>4. _parse_descriptor(lines) = st[6] /\ st[6] = s6
      <4>1. 6 \in Nat /\ Len(lines) = 6
        BY <1>2, <2>2
      <4>2. st[6] = s6
        OBVIOUS
      <4> HIDE DEF st
      <4> QED BY <3>3, <4>1, <4>2, DescriptorLoop
    <3>5. half \in Nat /\ half + half = d.sectors
      BY <2>2
    <3>6. sectors \in Seq(Nat) /\ Len(sectors) = 2 /\ sectors[1] = half /\ sectors[2] = half
      <4> HIDE DEF half
      <4>1. Append(<<>>, half) \in Seq(Nat) /\ Len(Append(<<>>, half)) = 1 /\ Append(<<>>, half)[1] = half
        BY <3>5
      <4> QED BY <3>5, <4>1
    <3>7. virtual_size_bytes(s6) = d.sectors * SECTOR_SIZE
      <4>1. s6.sectors = sectors
        BY <3>2 DEF Reading
      <4> HIDE DEF sectors, half
      <4> QED BY <3>5, <3>6, <4>1, Sums
    <3> QED BY <3>2, <3>4, <3>7
  <2> QED BY <2>1, <2>2
<1>6. PICK info : /\ _parse_descriptor(lines) = info /\ info.error = "" /\ info.create_type = ctype
                  /\ virtual_size_bytes(info) = d.sectors * SECTOR_SIZE
  BY <1>5 DEF Reading
<1>7. ctype # ""
  BY DEF ctype
<1> HIDE DEF file
<1>8. inspect_vmdk(file).error = "" /\ inspect_vmdk(file).size_bytes = d.sectors * SECTOR_SIZE
  BY <1>1, <1>6, <1>7 DEF inspect_vmdk, lines
<1> QED BY <1>8 DEF file

-----------------------------------------------------------------------------
(* The lines of a VMX file.                                                *)

\* The lines that are there once, and the others.
GlobalLines(m) ==
  << Global("displayName", m.name), Global("guestOS", m.guest.vmx),
     Global("memSize", ToString(m.memory)), Global("numvCPUs", ToString(m.vcpus)),
     Global("firmware", IF m.efi THEN "EFI" ELSE "bios"),
     Pair("scsi", 0, NoUnit, "virtualDev", <<m.controller.vmx, "">>),
     [kind |-> "comment"] >>

IsGlobalLine(m, line) == \E k \in 1..7 : line = GlobalLines(m)[k]
IsDriveLine(m, line)  == \E i \in 1..Len(m.drives) : \E c \in 1..3 : line = DriveLines(m.drives[i])[c]
IsNicLine(m, line)    == \E i \in 1..Len(m.nics) : \E c \in 1..4 : line = NicLines(m.nics[i], i - 1)[c]

IsLine(m, line) == IsGlobalLine(m, line) \/ IsDriveLine(m, line) \/ IsNicLine(m, line)

\* Three lists in a row.
AreJoined(joined, s, t, u) ==
  /\ Len(joined) = Len(s) + Len(t) + Len(u)
  /\ \A k \in 1..Len(s) : joined[k] = s[k]
  /\ \A k \in 1..Len(t) : joined[Len(s) + k] = t[k]
  /\ \A k \in 1..Len(u) : joined[Len(s) + Len(t) + k] = u[k]

\* Where the elements are when lists are joined.
LEMMA JoinedLists ==
  ASSUME NEW S, NEW s \in Seq(S), NEW t \in Seq(S), NEW u \in Seq(S)
  PROVE  s \o t \o u \in Seq(S) /\ AreJoined(s \o t \o u, s, t, u)
<1> DEFINE p == s \o t
<1>1. p \in Seq(S) /\ Len(p) = Len(s) + Len(t) /\ \A k \in 1..Len(s) : p[k] = s[k]
  OBVIOUS
<1>2. \A k \in 1..Len(t) : p[Len(s) + k] = t[k]
  OBVIOUS
<1>3. Len(s) \in Nat /\ Len(t) \in Nat /\ Len(u) \in Nat
  OBVIOUS
<1>a. Len(p) \in Nat
  BY <1>1
<1> HIDE DEF p
<1>4. /\ p \o u \in Seq(S) /\ Len(p \o u) = Len(p) + Len(u)
      /\ \A k \in 1..Len(p) : (p \o u)[k] = p[k]
      /\ \A k \in 1..Len(u) : (p \o u)[Len(p) + k] = u[k]
  <2>1. p \in Seq(S)
    BY <1>1
  <2>2. p \o u \in Seq(S) /\ Len(p \o u) = Len(p) + Len(u) /\ \A k \in 1..Len(p) : (p \o u)[k] = p[k]
    BY <2>1
  <2>3. \A k \in 1..Len(u) : (p \o u)[Len(p) + k] = u[k]
    BY <2>1
  <2> QED BY <2>2, <2>3
<1>5. \A k \in 1..Len(s) : k \in 1..Len(p)
  BY <1>1, <1>3
<1>6. \A k \in 1..Len(t) : Len(s) + k \in 1..Len(p)
  BY <1>1, <1>3
<1> QED BY <1>1, <1>2, <1>4, <1>5, <1>6 DEF p, AreJoined

\* Every line is one of these, and each of these is there.
LEMMA LinesAre ==
  ASSUME NEW m, Len(m.drives) \in Nat, Len(m.nics) \in Nat
  PROVE  /\ Lines(m) \in Seq(Elements(Lines(m)))
         /\ \A k \in 1..Len(Lines(m)) : IsLine(m, Lines(m)[k])
         /\ \A line : IsLine(m, line) => \E k \in 1..Len(Lines(m)) : Lines(m)[k] = line
<1> DEFINE D == Len(m.drives)
           N == Len(m.nics)
           s == GlobalLines(m)
           t == [k \in 1..(3 * D) |-> DriveLines(m.drives[((k - 1) \div 3) + 1])[((k - 1) % 3) + 1]]
           u == [k \in 1..(4 * N) |-> NicLines(m.nics[((k - 1) \div 4) + 1], (k - 1) \div 4)[((k - 1) % 4) + 1]]
           S == {s[k] : k \in 1..7} \cup {t[k] : k \in 1..(3 * D)} \cup {u[k] : k \in 1..(4 * N)}
           L == s \o t \o u
<1>1. Lines(m) = L
  BY DEF Lines, GlobalLines
<1>2. D \in Nat /\ N \in Nat /\ 3 * D \in Nat /\ 4 * N \in Nat
  OBVIOUS
<1>3. Len(s) = 7 /\ s \in Seq({s[k] : k \in 1..7})
  <2> DEFINE T == {s[k] : k \in 1..7}
  <2>1. ASSUME NEW a, NEW b, NEW c, NEW d, NEW e, NEW f, NEW g, NEW w, w = <<a, b, c, d, e, f, g>>
        PROVE  w \in Seq({w[k] : k \in 1..7}) /\ Len(w) = 7
    BY ONLY <2>1
  <2>2. PICK a, b, c, d, e, f, g : s = <<a, b, c, d, e, f, g>>
    BY Zenon DEF GlobalLines
  <2> HIDE DEF s
  <2> QED BY <2>1, <2>2
<1>4. \A k \in 1..(3 * D) : t[k] = DriveLines(m.drives[((k - 1) \div 3) + 1])[((k - 1) % 3) + 1]
  OBVIOUS
<1>5. \A k \in 1..(4 * N) : u[k] = NicLines(m.nics[((k - 1) \div 4) + 1], (k - 1) \div 4)[((k - 1) % 4) + 1]
  OBVIOUS
<1>6. /\ DOMAIN t = 1..(3 * D) /\ DOMAIN u = 1..(4 * N)
      /\ t = [k \in 1..(3 * D) |-> t[k]] /\ u = [k \in 1..(4 * N) |-> u[k]]
  OBVIOUS
<1> HIDE DEF D, N, s, t, u
<1>7. s \in Seq(S) /\ t \in Seq(S) /\ u \in Seq(S) /\ Len(t) = 3 * D /\ Len(u) = 4 * N
  <2>1. s \in Seq(S)
    BY <1>3
  <2>2. t \in [1..(3 * D) -> S] /\ u \in [1..(4 * N) -> S]
    BY <1>6
  <2> HIDE DEF S
  <2> QED BY <1>2, <2>1, <2>2
<1>8. /\ L \in Seq(S) /\ Len(L) = 7 + 3 * D + 4 * N
      /\ \A k \in 1..7 : L[k] = s[k]
      /\ \A k \in 1..(3 * D) : L[7 + k] = t[k]
      /\ \A k \in 1..(4 * N) : L[7 + 3 * D + k] = u[k]
  <2> HIDE DEF S
  <2>0. s \in Seq(S) /\ t \in Seq(S) /\ u \in Seq(S)
    BY <1>7
  <2>1. L \in Seq(S) /\ AreJoined(L, s, t, u)
    BY <2>0, JoinedLists
  <2> QED BY <1>3, <1>7, <2>1 DEF AreJoined
<1> HIDE DEF S, L
<1>9. L \in Seq(Elements(L))
  BY <1>8 DEF Elements
<1>10. ASSUME NEW k \in 1..Len(L) PROVE IsLine(m, L[k])
  <2>1. \/ k \in 1..7
        \/ k - 7 \in 1..(3 * D) /\ k = 7 + (k - 7)
        \/ k - 7 - 3 * D \in 1..(4 * N) /\ k = 7 + 3 * D + (k - 7 - 3 * D)
    BY <1>2, <1>8
  <2>2. CASE k \in 1..7
    BY <1>8, <2>2 DEF s, IsLine, IsGlobalLine
  <2>3. ASSUME NEW j \in 1..(3 * D) PROVE IsDriveLine(m, t[j])
    <3>1. ((j - 1) \div 3) + 1 \in 1..D /\ ((j - 1) % 3) + 1 \in 1..3
      BY <1>2
    <3> QED BY <1>4, <3>1 DEF IsDriveLine, D
  <2>4. ASSUME NEW j \in 1..(4 * N) PROVE IsNicLine(m, u[j])
    <3> DEFINE i == ((j - 1) \div 4) + 1
               c == ((j - 1) % 4) + 1
    <3>1. i \in 1..N /\ c \in 1..4 /\ i - 1 = (j - 1) \div 4
      BY <1>2
    <3>2. u[j] = NicLines(m.nics[i], i - 1)[c]
      BY <1>5, <3>1
    <3> HIDE DEF i, c
    <3> QED BY <3>1, <3>2 DEF IsNicLine, N
  <2> QED BY <1>8, <2>1, <2>2, <2>3, <2>4 DEF IsLine
<1>11. ASSUME NEW line, IsLine(m, line) PROVE \E k \in 1..Len(L) : L[k] = line
  <2>1. CASE IsGlobalLine(m, line)
    <3>1. PICK k \in 1..7 : line = s[k]
      BY <2>1 DEF IsGlobalLine, s
    <3> QED BY <1>2, <1>8, <3>1
  <2>2. CASE IsDriveLine(m, line)
    <3>1. PICK i \in 1..D, c \in 1..3 : line = DriveLines(m.drives[i])[c]
      BY <2>2 DEF IsDriveLine, D
    <3> DEFINE j == 3 * (i - 1) + c
    <3>2. j \in 1..(3 * D) /\ ((j - 1) \div 3) + 1 = i /\ ((j - 1) % 3) + 1 = c
      BY <1>2
    <3> HIDE DEF j
    <3>3. line = t[j]
      BY <1>4, <3>1, <3>2
    <3>4. 7 + j \in 1..Len(L)
      BY <1>2, <1>8, <3>2
    <3> QED BY <1>8, <3>2, <3>3, <3>4
  <2>3. CASE IsNicLine(m, line)
    <3>1. PICK i \in 1..N, c \in 1..4 : line = NicLines(m.nics[i], i - 1)[c]
      BY <2>3 DEF IsNicLine, N
    <3> DEFINE j == 4 * (i - 1) + c
    <3>2. j \in 1..(4 * N) /\ ((j - 1) \div 4) + 1 = i /\ (j - 1) \div 4 = i - 1 /\ ((j - 1) % 4) + 1 = c
      BY <1>2
    <3> HIDE DEF j
    <3>3. line = u[j]
      BY <1>5, <3>1, <3>2
    <3>4. 7 + 3 * D + j \in 1..Len(L)
      BY <1>2, <1>8, <3>2
    <3> QED BY <1>8, <3>2, <3>3, <3>4
  <2> QED BY <1>11, <2>1, <2>2, <2>3 DEF IsLine
<1> QED BY <1>1, <1>9, <1>10, <1>11

-----------------------------------------------------------------------------
(* Their keys, in lower case: no two lines of a file have the same.        *)

GlobalAttributes == <<"displayname", "guestos", "memsize", "numvcpus", "firmware", "virtualdev">>

GlobalKey(k) == <<IF k = 6 THEN "scsi" ELSE Top, IF k = 6 THEN 0 ELSE NoNumber, NoUnit, GlobalAttributes[k]>>

DriveAttributes == <<"filename", "present", "devicetype">>

DriveKey(d, c) == <<d.bus, d.number, d.unit, DriveAttributes[c]>>

NicAttributes(nic) ==
  <<"present", "virtualdev", "addresstype", IF nic.static THEN "address" ELSE "generatedaddress">>

NicKey(nic, n, c) == <<"ethernet", n, NoUnit, NicAttributes(nic)[c]>>

\* The key of a line, as the parser keeps it.
LEMMA PairIs ==
  ASSUME NEW bus, NEW number, NEW unit, NEW attribute, NEW value
  PROVE  /\ Pair(bus, number, unit, attribute, value).kind = "pair"
         /\ Pair(bus, number, unit, attribute, value).key = <<bus, number, unit, attribute>>
         /\ Pair(bus, number, unit, attribute, value).value = value
         /\ LowerKey(Pair(bus, number, unit, attribute, value).key) = <<bus, number, unit, Lower(attribute)>>
  BY DEF Pair, LowerKey

\* A line of a key and a value.
IsPair(line, key) == /\ line.kind = "pair" /\ line.key = <<line.key[1], line.key[2], line.key[3], line.key[4]>>
                     /\ LowerKey(line.key) = key /\ key[4] \in LowerCase

LEMMA GlobalKeys ==
  ASSUME NEW m, NEW k \in 1..6
  PROVE  IsPair(GlobalLines(m)[k], GlobalKey(k))
<1>1. \A a, v : Global(a, v) = Pair(Top, NoNumber, NoUnit, a, <<v, "">>)
  BY DEF Global
<1>2. /\ Lower("displayName") = "displayname" /\ Lower("guestOS") = "guestos" /\ Lower("memSize") = "memsize"
      /\ Lower("numvCPUs") = "numvcpus" /\ Lower("firmware") = "firmware" /\ Lower("virtualDev") = "virtualdev"
  BY LowerWords, LowerCaseWords DEF LowerCase
<1>3. \A bus, number, a, v :
        Lower(a) \in LowerCase =>
          IsPair(Pair(bus, number, NoUnit, a, v), <<bus, number, NoUnit, Lower(a)>>)
  BY PairIs DEF IsPair
<1>4. /\ "displayname" \in LowerCase /\ "guestos" \in LowerCase /\ "memsize" \in LowerCase
      /\ "numvcpus" \in LowerCase /\ "firmware" \in LowerCase /\ "virtualdev" \in LowerCase
  BY DEF LowerCase
<1>5. /\ IsPair(GlobalLines(m)[1], <<Top, NoNumber, NoUnit, "displayname">>)
      /\ IsPair(GlobalLines(m)[2], <<Top, NoNumber, NoUnit, "guestos">>)
      /\ IsPair(GlobalLines(m)[3], <<Top, NoNumber, NoUnit, "memsize">>)
      /\ IsPair(GlobalLines(m)[4], <<Top, NoNumber, NoUnit, "numvcpus">>)
      /\ IsPair(GlobalLines(m)[5], <<Top, NoNumber, NoUnit, "firmware">>)
      /\ IsPair(GlobalLines(m)[6], <<"scsi", 0, NoUnit, "virtualdev">>)
  <2>1. /\ GlobalLines(m)[1] = Global("displayName", m.name)
        /\ GlobalLines(m)[2] = Global("guestOS", m.guest.vmx)
        /\ GlobalLines(m)[3] = Global("memSize", ToString(m.memory))
        /\ GlobalLines(m)[4] = Global("numvCPUs", ToString(m.vcpus))
        /\ GlobalLines(m)[5] = Global("firmware", IF m.efi THEN "EFI" ELSE "bios")
        /\ GlobalLines(m)[6] = Pair("scsi", 0, NoUnit, "virtualDev", <<m.controller.vmx, "">>)
    BY DEF GlobalLines
  <2> QED BY ONLY <2>1, <1>1, <1>2, <1>3, <1>4
<1>6. k = 1 \/ k = 2 \/ k = 3 \/ k = 4 \/ k = 5 \/ k = 6
  OBVIOUS
<1> QED BY <1>5, <1>6 DEF GlobalKey, GlobalAttributes

LEMMA DriveKeys ==
  ASSUME NEW d, NEW c \in 1..3
  PROVE  IsPair(DriveLines(d)[c], DriveKey(d, c))
<1>2. Lower("fileName") = "filename" /\ Lower("present") = "present" /\ Lower("deviceType") = "devicetype"
  BY LowerWords, LowerCaseWords DEF LowerCase
<1>3. \A a, v : Lower(a) \in LowerCase =>
        IsPair(Pair(d.bus, d.number, d.unit, a, v), <<d.bus, d.number, d.unit, Lower(a)>>)
  BY PairIs DEF IsPair
<1>4. "filename" \in LowerCase /\ "present" \in LowerCase /\ "devicetype" \in LowerCase
  BY DEF LowerCase
<1>5. /\ IsPair(DriveLines(d)[1], <<d.bus, d.number, d.unit, "filename">>)
      /\ IsPair(DriveLines(d)[2], <<d.bus, d.number, d.unit, "present">>)
      /\ IsPair(DriveLines(d)[3], <<d.bus, d.number, d.unit, "devicetype">>)
  <2>1. \E u, v, w : /\ DriveLines(d)[1] = Pair(d.bus, d.number, d.unit, "fileName", u)
                     /\ DriveLines(d)[2] = Pair(d.bus, d.number, d.unit, "present", v)
                     /\ DriveLines(d)[3] = Pair(d.bus, d.number, d.unit, "deviceType", w)
    BY DEF DriveLines
  <2> QED BY ONLY <2>1, <1>2, <1>3, <1>4
<1>6. c = 1 \/ c = 2 \/ c = 3
  OBVIOUS
<1> QED BY <1>5, <1>6 DEF DriveKey, DriveAttributes

LEMMA NicKeys ==
  ASSUME NEW nic, NEW n, NEW c \in 1..4
  PROVE  IsPair(NicLines(nic, n)[c], NicKey(nic, n, c))
<1>2. /\ Lower("present") = "present" /\ Lower("virtualDev") = "virtualdev" /\ Lower("addressType") = "addresstype"
      /\ Lower("address") = "address" /\ Lower("generatedAddress") = "generatedaddress"
  BY LowerWords, LowerCaseWords DEF LowerCase
<1>3. \A a, v : Lower(a) \in LowerCase =>
        IsPair(Pair("ethernet", n, NoUnit, a, v), <<"ethernet", n, NoUnit, Lower(a)>>)
  BY PairIs DEF IsPair
<1>4. /\ "present" \in LowerCase /\ "virtualdev" \in LowerCase /\ "addresstype" \in LowerCase
      /\ "address" \in LowerCase /\ "generatedaddress" \in LowerCase
  BY DEF LowerCase
<1>5. /\ IsPair(NicLines(nic, n)[1], <<"ethernet", n, NoUnit, "present">>)
      /\ IsPair(NicLines(nic, n)[2], <<"ethernet", n, NoUnit, "virtualdev">>)
      /\ IsPair(NicLines(nic, n)[3], <<"ethernet", n, NoUnit, "addresstype">>)
      /\ nic.static => IsPair(NicLines(nic, n)[4], <<"ethernet", n, NoUnit, "address">>)
      /\ ~nic.static => IsPair(NicLines(nic, n)[4], <<"ethernet", n, NoUnit, "generatedaddress">>)
  <2>1. \E u, v, w, x : /\ NicLines(nic, n)[1] = Pair("ethernet", n, NoUnit, "present", u)
                        /\ NicLines(nic, n)[2] = Pair("ethernet", n, NoUnit, "virtualDev", v)
                        /\ NicLines(nic, n)[3] = Pair("ethernet", n, NoUnit, "addressType", w)
                        /\ nic.static => NicLines(nic, n)[4] = Pair("ethernet", n, NoUnit, "address", x)
                        /\ ~nic.static => NicLines(nic, n)[4] = Pair("ethernet", n, NoUnit, "generatedAddress", x)
    BY DEF NicLines
  <2> QED BY ONLY <2>1, <1>2, <1>3, <1>4
<1>6. c = 1 \/ c = 2 \/ c = 3 \/ c = 4
  OBVIOUS
<1> QED BY <1>5, <1>6 DEF NicKey, NicAttributes

\* What the assumption about machines says of their parts.
LEMMA MachineIs ==
  ASSUME NEW m, IsMachine(m)
  PROVE  /\ m.drives \in Seq(DriveType) /\ m.nics \in Seq(NicType) /\ Len(m.nics) \in 0..10
         /\ m.name \in STRING /\ m.memory \in Nat /\ m.vcpus \in Nat /\ m.efi \in BOOLEAN
         /\ \A i \in 1..Len(m.drives) :
              /\ m.drives[i] \in DriveType
              /\ m.drives[i].bus \in {"scsi", "ide", "sata", "nvme"} /\ m.drives[i].number \in 0..3
              /\ m.drives[i].unit \in 0..63 /\ m.drives[i].sectors \in Nat
              /\ m.drives[i].kind \in {"disk", "cdrom", "removed"}
<1>1. /\ m.drives \in Seq(DriveType) /\ m.nics \in Seq(NicType)
      /\ m.name \in STRING /\ m.memory \in Nat /\ m.vcpus \in Nat /\ m.efi \in BOOLEAN
  BY DEF IsMachine, MachineType
<1>2. Len(m.nics) \in 0..10
  <2>1. Len(m.nics) <= 10
    BY DEF IsMachine
  <2>2. Len(m.nics) \in Nat
    BY <1>1
  <2>3. \A k \in Nat : k <= 10 => k \in 0..10
    OBVIOUS
  <2> QED BY ONLY <2>1, <2>2, <2>3
<1>3. \A i \in 1..Len(m.drives) : m.drives[i] \in DriveType
  BY <1>1
<1>4. \A d \in DriveType : /\ d.bus \in {"scsi", "ide", "sata", "nvme"} /\ d.number \in 0..3 /\ d.unit \in 0..63
                           /\ d.sectors \in Nat /\ d.kind \in {"disk", "cdrom", "removed"}
  BY DEF DriveType
<1>5. ASSUME NEW i \in 1..Len(m.drives)
      PROVE  /\ m.drives[i] \in DriveType
             /\ m.drives[i].bus \in {"scsi", "ide", "sata", "nvme"} /\ m.drives[i].number \in 0..3
             /\ m.drives[i].unit \in 0..63 /\ m.drives[i].sectors \in Nat
             /\ m.drives[i].kind \in {"disk", "cdrom", "removed"}
  BY <1>3, <1>4
<1> QED BY ONLY <1>1, <1>2, <1>5

\* Where the parser of VMX files looks, and when: the number of a slot, from 0.
Scanned == {d \in DriveType : IsScanned(d)}

SlotOf(d) == 64 * (IF d.bus = "scsi" THEN 0 ELSE IF d.bus = "ide" THEN 1 ELSE 2) + 16 * d.number + d.unit

LEMMA ScannedAre ==
  ASSUME NEW d \in Scanned
  PROVE  /\ d \in DriveType /\ d.bus \in {"scsi", "ide", "sata"} /\ d.number \in 0..3 /\ d.unit \in 0..15
<1>1. d \in DriveType /\ d.bus # "nvme" /\ d.unit < 16
  BY DEF Scanned, IsScanned
<1>2. d.bus \in {"scsi", "ide", "sata", "nvme"} /\ d.number \in 0..3 /\ d.unit \in 0..63
  BY <1>1 DEF DriveType
<1> QED BY <1>1, <1>2

\* The place of a drive is a number.
LEMMA Places ==
  ASSUME NEW d \in DriveType
  PROVE  Place(d) \in 0..1023
<1>1. d.bus \in {"scsi", "ide", "sata", "nvme"} /\ d.number \in 0..3 /\ d.unit \in 0..63
  BY DEF DriveType
<1>2. \E b \in 0..3 : Place(d) = 256 * b + 64 * d.number + d.unit
  BY <1>1 DEF Place
<1> QED BY <1>1, <1>2

\* The number of its slot tells where a drive is, and slots are in the order of places.
LEMMA ScannedSlots ==
  ASSUME NEW d \in Scanned
  PROVE  /\ SlotOf(d) \in 0..191
         /\ SlotOf(d) \div 64 = (IF d.bus = "scsi" THEN 0 ELSE IF d.bus = "ide" THEN 1 ELSE 2)
         /\ (SlotOf(d) \div 16) % 4 = d.number /\ SlotOf(d) % 16 = d.unit
<1>0. d.bus \in {"scsi", "ide", "sata"} /\ d.number \in 0..3 /\ d.unit \in 0..15
  BY ScannedAre
<1>1. \E b \in 0..2 : /\ b = (IF d.bus = "scsi" THEN 0 ELSE IF d.bus = "ide" THEN 1 ELSE 2)
                      /\ SlotOf(d) = 64 * b + 16 * d.number + d.unit
  BY <1>0 DEF SlotOf
<1> QED BY <1>0, <1>1

LEMMA SlotsRise ==
  ASSUME NEW d \in Scanned, NEW e \in Scanned, Place(d) < Place(e)
  PROVE  SlotOf(d) < SlotOf(e)
<1>1. \A c \in Scanned : \E b \in 0..2, n \in 0..3, u \in 0..15 :
        Place(c) = 256 * b + 64 * n + u /\ SlotOf(c) = 64 * b + 16 * n + u
  <2>1. SUFFICES ASSUME NEW c \in Scanned
                 PROVE  \E b \in 0..2, n \in 0..3, u \in 0..15 :
                          Place(c) = 256 * b + 64 * n + u /\ SlotOf(c) = 64 * b + 16 * n + u
    OBVIOUS
  <2>2. c.bus \in {"scsi", "ide", "sata"} /\ c.number \in 0..3 /\ c.unit \in 0..15
    BY ScannedAre
  <2>3. \E b \in 0..2 : /\ Place(c) = 256 * b + 64 * c.number + c.unit
                        /\ SlotOf(c) = 64 * b + 16 * c.number + c.unit
    BY <2>2 DEF Place, SlotOf
  <2> QED BY <2>2, <2>3
<1>2. PICK b \in 0..2, n \in 0..3, u \in 0..15 : Place(d) = 256 * b + 64 * n + u /\ SlotOf(d) = 64 * b + 16 * n + u
  BY <1>1
<1>3. PICK c \in 0..2, l \in 0..3, w \in 0..15 : Place(e) = 256 * c + 64 * l + w /\ SlotOf(e) = 64 * c + 16 * l + w
  BY <1>1
<1> QED BY <1>2, <1>3

\* At most one drive is at a place.
LEMMA OneDriveAtAPlace ==
  ASSUME NEW m, IsMachine(m), NEW i \in 1..Len(m.drives), NEW j \in 1..Len(m.drives),
         m.drives[i].bus = m.drives[j].bus, m.drives[i].number = m.drives[j].number,
         m.drives[i].unit = m.drives[j].unit
  PROVE  i = j
<1>1. Place(m.drives[i]) = Place(m.drives[j]) /\ Place(m.drives[i]) \in 0..1023
  <2>1. Place(m.drives[i]) = Place(m.drives[j])
    BY DEF Place
  <2>2. m.drives[i] \in DriveType
    BY MachineIs
  <2>3. Place(m.drives[i]) \in 0..1023
    BY <2>2, Places
  <2> QED BY <2>1, <2>3
<1>2. Len(m.drives) \in Nat
  BY MachineIs
<1>3. ~(i < j) /\ ~(j < i)
  <2>1. \A k, l \in 1..Len(m.drives) : k < l => Place(m.drives[k]) < Place(m.drives[l])
    BY DEF IsMachine
  <2>2. \A p \in 0..1023 : ~(p < p)
    OBVIOUS
  <2> QED BY ONLY <1>1, <2>1, <2>2
<1> QED BY <1>2, <1>3

\* Lines with one key are one line.
LEMMA LinesDiffer ==
  ASSUME NEW m, IsMachine(m), NEW a, NEW b, IsLine(m, a), IsLine(m, b),
         a.kind = "pair", b.kind = "pair", LowerKey(a.key) = LowerKey(b.key)
  PROVE  a = b
<1> DEFINE OfGlobal(line) == \E k \in 1..6 : line = GlobalLines(m)[k]
<1>1. \A line : IsGlobalLine(m, line) /\ line.kind = "pair" => OfGlobal(line)
  <2>1. GlobalLines(m)[7].kind # "pair"
    BY DEF GlobalLines
  <2> QED BY <2>1 DEF IsGlobalLine
<1>2. \A line : OfGlobal(line) => /\ LowerKey(line.key)[1] \in {Top, "scsi"} /\ LowerKey(line.key)[3] = NoUnit
  <2>1. \A k \in 1..6 : GlobalKey(k)[1] \in {Top, "scsi"} /\ GlobalKey(k)[3] = NoUnit
    BY DEF GlobalKey
  <2> QED BY <2>1, GlobalKeys DEF IsPair
<1>3. \A line : IsDriveLine(m, line) => LowerKey(line.key)[3] \in 0..63
  <2>1. SUFFICES ASSUME NEW i \in 1..Len(m.drives), NEW c \in 1..3
                 PROVE  LowerKey(DriveLines(m.drives[i])[c].key)[3] \in 0..63
    BY DEF IsDriveLine
  <2>2. LowerKey(DriveLines(m.drives[i])[c].key) = DriveKey(m.drives[i], c)
    BY DriveKeys DEF IsPair
  <2>3. m.drives[i].unit \in 0..63
    BY MachineIs
  <2> QED BY <2>2, <2>3 DEF DriveKey
<1>4. \A line : IsNicLine(m, line) => LowerKey(line.key)[1] = "ethernet" /\ LowerKey(line.key)[3] = NoUnit
  <2>1. SUFFICES ASSUME NEW i \in 1..Len(m.nics), NEW c \in 1..4
                 PROVE  /\ LowerKey(NicLines(m.nics[i], i - 1)[c].key)[1] = "ethernet"
                        /\ LowerKey(NicLines(m.nics[i], i - 1)[c].key)[3] = NoUnit
    BY DEF IsNicLine
  <2>2. LowerKey(NicLines(m.nics[i], i - 1)[c].key) = NicKey(m.nics[i], i - 1, c)
    BY NicKeys DEF IsPair
  <2> QED BY <2>2 DEF NicKey
<1>5. NoUnit \notin 0..63 /\ "ethernet" \notin {Top, "scsi"}
  BY DEF NoUnit, Top
<1>6. CASE OfGlobal(a) /\ OfGlobal(b)
  <2>1. PICK k \in 1..6, l \in 1..6 : a = GlobalLines(m)[k] /\ b = GlobalLines(m)[l]
    BY <1>6
  <2>2. GlobalKey(k) = GlobalKey(l)
    BY <2>1, GlobalKeys DEF IsPair
  <2>3. GlobalAttributes[k] = GlobalAttributes[l]
    BY <2>2 DEF GlobalKey
  <2>4. k = l
    BY <2>3 DEF GlobalAttributes
  <2> QED BY <2>1, <2>4
<1>7. CASE IsDriveLine(m, a) /\ IsDriveLine(m, b)
  <2>1. PICK i \in 1..Len(m.drives), c \in 1..3 : a = DriveLines(m.drives[i])[c]
    BY <1>7 DEF IsDriveLine
  <2>2. PICK j \in 1..Len(m.drives), e \in 1..3 : b = DriveLines(m.drives[j])[e]
    BY <1>7 DEF IsDriveLine
  <2>3. DriveKey(m.drives[i], c) = DriveKey(m.drives[j], e)
    BY <2>1, <2>2, DriveKeys DEF IsPair
  <2>4. /\ m.drives[i].bus = m.drives[j].bus /\ m.drives[i].number = m.drives[j].number
        /\ m.drives[i].unit = m.drives[j].unit /\ DriveAttributes[c] = DriveAttributes[e]
    BY <2>3 DEF DriveKey
  <2>5. i = j
    BY <2>4, OneDriveAtAPlace
  <2>6. c = e
    BY <2>4 DEF DriveAttributes
  <2> QED BY <2>1, <2>2, <2>5, <2>6
<1>8. CASE IsNicLine(m, a) /\ IsNicLine(m, b)
  <2>1. PICK i \in 1..Len(m.nics), c \in 1..4 : a = NicLines(m.nics[i], i - 1)[c]
    BY <1>8 DEF IsNicLine
  <2>2. PICK j \in 1..Len(m.nics), e \in 1..4 : b = NicLines(m.nics[j], j - 1)[e]
    BY <1>8 DEF IsNicLine
  <2>3. NicKey(m.nics[i], i - 1, c) = NicKey(m.nics[j], j - 1, e)
    BY <2>1, <2>2, NicKeys DEF IsPair
  <2>4. i - 1 = j - 1 /\ NicAttributes(m.nics[i])[c] = NicAttributes(m.nics[j])[e]
    BY <2>3 DEF NicKey
  <2>5. i = j
    <3>1. Len(m.nics) \in Nat
      BY MachineIs
    <3> QED BY <2>4, <3>1
  <2>6. c = e
    BY <2>4, <2>5 DEF NicAttributes
  <2> QED BY <2>1, <2>2, <2>5, <2>6
<1> QED BY <1>1, <1>2, <1>3, <1>4, <1>5, <1>6, <1>7, <1>8 DEF IsLine

\* A line as it is written in a style.
Written(line, style) == IF style.camel THEN line ELSE LowerLine(line)

Said(line, style) ==
  IF ~style.camel /\ line.key[4] = "present" THEN << Lower(line.value[1]), "" >> ELSE line.value

\* A file has just the lines of its machine, in either order and case.
LEMMA LinesAreWritten ==
  ASSUME NEW m, NEW style \in VmxStyles, NEW line, IsLine(m, line)
  PROVE  \/ line.kind = "comment" /\ Written(line, style).kind = "comment"
         \/ /\ line.kind = "pair" /\ Written(line, style).kind = "pair"
            /\ LowerKey(Written(line, style).key) = LowerKey(line.key)
            /\ Written(line, style).value = Said(line, style)
<1>1. line.kind = "comment" \/ \E key : IsPair(line, key)
  <2>1. \A k \in 1..7 : k = 7 \/ k \in 1..6
    OBVIOUS
  <2>2. GlobalLines(m)[7].kind = "comment"
    BY DEF GlobalLines
  <2> QED BY <2>1, <2>2, GlobalKeys, DriveKeys, NicKeys DEF IsLine, IsGlobalLine, IsDriveLine, IsNicLine
<1>2. CASE line.kind = "comment"
  BY <1>2 DEF Written, LowerLine
<1>3. ASSUME NEW key, IsPair(line, key)
      PROVE  /\ line.kind = "pair" /\ Written(line, style).kind = "pair"
             /\ LowerKey(Written(line, style).key) = LowerKey(line.key)
             /\ Written(line, style).value = Said(line, style)
  <2>1. /\ line.kind = "pair" /\ LowerKey(line.key) = key /\ key[4] \in LowerCase
        /\ line.key = <<line.key[1], line.key[2], line.key[3], line.key[4]>>
    BY <1>3 DEF IsPair
  <2>2. CASE style.camel
    BY <2>1, <2>2 DEF Written, Said
  <2>3. CASE ~style.camel
    <3>1. /\ Written(line, style).kind = "pair" /\ Written(line, style).key = key
          /\ Written(line, style).value = Said(line, style)
      BY <2>1, <2>3 DEF Written, LowerLine, Said
    <3>2. key = <<line.key[1], line.key[2], line.key[3], Lower(line.key[4])>>
      BY <2>1 DEF LowerKey
    <3>3. Lower(key[4]) = key[4]
      BY <2>1, LowerCaseWords
    <3>4. LowerKey(key) = key
      BY <3>2, <3>3 DEF LowerKey
    <3> QED BY <2>1, <3>1, <3>4
  <2> QED BY <2>2, <2>3
<1> QED BY <1>1, <1>2, <1>3

\* What the parser finds in the file.
AreEntries(entries, m, style) ==
  /\ \A line : IsLine(m, line) /\ line.kind = "pair" =>
       LowerKey(line.key) \in DOMAIN entries /\ entries[LowerKey(line.key)] = Said(line, style)
  /\ \A key \in DOMAIN entries : \E line : IsLine(m, line) /\ line.kind = "pair" /\ LowerKey(line.key) = key

\* The dict of parse_vmx_keyvalues says what the lines say, whatever their order.
LEMMA EntriesAre ==
  ASSUME NEW m, IsMachine(m), NEW style \in VmxStyles
  PROVE  AreEntries(parse_vmx_keyvalues(VmxOf(m, style)), m, style)
<1> DEFINE lines == Lines(m)
           file == VmxOf(m, style)
           n == Len(lines)
           From(i) == IF style.reversed THEN n + 1 - i ELSE i
           pairs == [i \in {j \in 1..n : file[j].kind = "pair"} |->
                       [key |-> LowerKey(file[i].key), value |-> file[i].value]]
           entries == parse_vmx_keyvalues(file)
<1>1. Len(m.drives) \in Nat /\ Len(m.nics) \in Nat
  BY MachineIs
<1>2. /\ lines \in Seq(Elements(lines)) /\ n \in Nat
      /\ \A k \in 1..n : IsLine(m, lines[k])
      /\ \A line : IsLine(m, line) => \E k \in 1..n : lines[k] = line
  BY <1>1, LinesAre
<1>3. Len(file) = n /\ \A i \in 1..n : file[i] = Written(lines[From(i)], style) /\ From(i) \in 1..n
  BY <1>2 DEF VmxOf, Written
<1>4. \A k \in 1..n : \E i \in 1..n : From(i) = k
  <2>1. SUFFICES ASSUME NEW k \in 1..n PROVE \E i \in 1..n : From(i) = k
    OBVIOUS
  <2>2. n + 1 - k \in 1..n /\ n + 1 - (n + 1 - k) = k
    BY <1>2
  <2> QED BY <2>2
<1>5. entries = Dict(pairs)
  BY <1>3 DEF parse_vmx_keyvalues
<1> HIDE DEF lines, file, n, From, entries
<1>6. \A i \in 1..n : IsLine(m, lines[From(i)])
  BY <1>2, <1>3
<1>7. \A i \in 1..n : /\ file[i].kind = "pair" <=> lines[From(i)].kind = "pair"
                      /\ file[i].kind = "pair" =>
                           /\ LowerKey(file[i].key) = LowerKey(lines[From(i)].key)
                           /\ file[i].value = Said(lines[From(i)], style)
  BY <1>3, <1>6, LinesAreWritten
<1>8. DOMAIN pairs = {j \in 1..n : file[j].kind = "pair"}
  OBVIOUS
<1>9. \A i \in DOMAIN pairs : /\ pairs[i].key = LowerKey(lines[From(i)].key)
                              /\ pairs[i].value = Said(lines[From(i)], style)
  BY <1>7
<1>10. \A i, j \in DOMAIN pairs : pairs[i].key = pairs[j].key => pairs[i].value = pairs[j].value
  <2>1. \A i \in DOMAIN pairs : IsLine(m, lines[From(i)]) /\ lines[From(i)].kind = "pair"
    BY <1>6, <1>7, <1>8
  <2> HIDE DEF pairs
  <2>2. \A i, j \in DOMAIN pairs : pairs[i].key = pairs[j].key => lines[From(i)] = lines[From(j)]
    BY <1>9, <2>1, LinesDiffer
  <2> QED BY <1>9, <2>2
<1>11. DOMAIN pairs \subseteq 1..n
  BY <1>8
<1> HIDE DEF pairs
<1>12. /\ DOMAIN entries = {pairs[i].key : i \in DOMAIN pairs}
       /\ \A i \in DOMAIN pairs : entries[pairs[i].key] = pairs[i].value
  BY <1>2, <1>5, <1>10, <1>11, DictHolds
<1>13. ASSUME NEW line, IsLine(m, line), line.kind = "pair"
       PROVE  LowerKey(line.key) \in DOMAIN entries /\ entries[LowerKey(line.key)] = Said(line, style)
  <2>1. PICK i \in 1..n : lines[From(i)] = line
    BY <1>2, <1>4, <1>13
  <2>2. i \in DOMAIN pairs
    BY <1>7, <1>8, <1>13, <2>1
  <2> QED BY <1>9, <1>12, <2>1, <2>2
<1>14. ASSUME NEW key \in DOMAIN entries
       PROVE  \E line : IsLine(m, line) /\ line.kind = "pair" /\ LowerKey(line.key) = key
  <2>1. PICK i \in DOMAIN pairs : pairs[i].key = key
    BY <1>12
  <2>2. i \in 1..n /\ file[i].kind = "pair"
    BY <1>8, <2>1
  <2> QED BY <1>6, <1>7, <1>9, <2>1, <2>2
<1> QED BY <1>13, <1>14 DEF AreEntries, entries, file

\* What a line says is found under its key.
LEMMA ValueIs ==
  ASSUME NEW m, NEW style, NEW entries, AreEntries(entries, m, style),
         NEW line, IsLine(m, line), NEW key, IsPair(line, key)
  PROVE  key \in DOMAIN entries /\ entries[key] = Said(line, style)
  BY DEF AreEntries, IsPair

\* Hence the settings of the machine as a whole.
LEMMA SettingsAre ==
  ASSUME NEW m, NEW style \in VmxStyles, NEW entries, AreEntries(entries, m, style)
  PROVE  /\ Setting(entries, "displayname", "") = m.name
         /\ Setting(entries, "guestos", "") = m.guest.vmx
         /\ Setting(entries, "memsize", "1024") = ToString(m.memory)
         /\ Setting(entries, "numvcpus", "1") = ToString(m.vcpus)
         /\ Setting(entries, "firmware", "bios") = IF m.efi THEN "EFI" ELSE "bios"
<1> DEFINE Sets(k, a, v, b) == /\ k \in 1..6 /\ a # "present" /\ GlobalLines(m)[k] = Global(a, v)
                               /\ GlobalKey(k) = <<Top, NoNumber, NoUnit, b>>
           IsSet(b, v) == \A default : Setting(entries, b, default) = v
<1>1. ASSUME NEW k, NEW a, NEW v, NEW b, Sets(k, a, v, b) PROVE IsSet(b, v)
  <2>0. SUFFICES ASSUME NEW default PROVE Setting(entries, b, default) = v
    OBVIOUS
  <2>1. IsLine(m, GlobalLines(m)[k])
    <3>1. k \in 1..7
      BY <1>1
    <3> QED BY <3>1 DEF IsLine, IsGlobalLine
  <2>2. IsPair(GlobalLines(m)[k], <<Top, NoNumber, NoUnit, b>>)
    BY <1>1, GlobalKeys
  <2>3. Said(GlobalLines(m)[k], style)[1] = v
    <3>1. Said(Global(a, v), style) = <<v, "">>
      BY <1>1 DEF Said, Global, Pair
    <3>2. <<v, "">>[1] = v
      OBVIOUS
    <3>3. Said(GlobalLines(m)[k], style) = <<v, "">>
      BY <1>1, <3>1
    <3> QED BY ONLY <3>2, <3>3
  <2>4. Word(entries, Top, NoNumber, NoUnit, b, default) = Said(GlobalLines(m)[k], style)[1]
    <3> DEFINE key == <<Top, NoNumber, NoUnit, b>>
    <3>1. key \in DOMAIN entries /\ entries[key] = Said(GlobalLines(m)[k], style)
      <4>1. IsPair(GlobalLines(m)[k], key)
        BY <2>2
      <4> HIDE DEF key
      <4> QED BY <2>1, <4>1, ValueIs
    <3> QED BY <3>1 DEF Word, Value, Get
  <2> QED BY <2>3, <2>4 DEF Setting
<1>2. /\ GlobalLines(m)[1] = Global("displayName", m.name)
      /\ GlobalLines(m)[2] = Global("guestOS", m.guest.vmx)
      /\ GlobalLines(m)[3] = Global("memSize", ToString(m.memory))
      /\ GlobalLines(m)[4] = Global("numvCPUs", ToString(m.vcpus))
      /\ GlobalLines(m)[5] = Global("firmware", IF m.efi THEN "EFI" ELSE "bios")
  BY DEF GlobalLines
<1>3. /\ GlobalKey(1) = <<Top, NoNumber, NoUnit, "displayname">>
      /\ GlobalKey(2) = <<Top, NoNumber, NoUnit, "guestos">>
      /\ GlobalKey(3) = <<Top, NoNumber, NoUnit, "memsize">>
      /\ GlobalKey(4) = <<Top, NoNumber, NoUnit, "numvcpus">>
      /\ GlobalKey(5) = <<Top, NoNumber, NoUnit, "firmware">>
  BY DEF GlobalKey, GlobalAttributes
<1>4. 1 \in 1..6 /\ 2 \in 1..6 /\ 3 \in 1..6 /\ 4 \in 1..6 /\ 5 \in 1..6
  OBVIOUS
<1> DEFINE v1 == m.name
           v2 == m.guest.vmx
           v3 == ToString(m.memory)
           v4 == ToString(m.vcpus)
           v5 == IF m.efi THEN "EFI" ELSE "bios"
<1>5. /\ Sets(1, "displayName", v1, "displayname")
      /\ Sets(2, "guestOS", v2, "guestos")
      /\ Sets(3, "memSize", v3, "memsize")
      /\ Sets(4, "numvCPUs", v4, "numvcpus")
      /\ Sets(5, "firmware", v5, "firmware")
  BY <1>2, <1>3, <1>4
<1> HIDE DEF Sets, IsSet, v1, v2, v3, v4, v5
<1>6. IsSet("displayname", v1) /\ IsSet("guestos", v2) /\ IsSet("memsize", v3)
      /\ IsSet("numvcpus", v4) /\ IsSet("firmware", v5)
  BY ONLY <1>1, <1>5
<1> QED BY <1>6 DEF IsSet, v1, v2, v3, v4, v5

\* No line gives a hardware version, so the parser takes its default.
LEMMA NoVersion ==
  ASSUME NEW m, NEW style, NEW entries, AreEntries(entries, m, style)
  PROVE  Setting(entries, "virtualhw.version", "0") = "0"
<1> DEFINE a == "virtualhw.version"
           key == <<Top, NoNumber, NoUnit, a>>
<1>1. SUFFICES key \notin DOMAIN entries
  BY DEF Setting, Word, Value, Get
<1>2. SUFFICES ASSUME NEW line, IsLine(m, line), line.kind = "pair", LowerKey(line.key) = key PROVE FALSE
  BY DEF AreEntries
<1>3. key[4] = a
  OBVIOUS
<1>4. ASSUME IsGlobalLine(m, line) PROVE FALSE
  <2>1. PICK k \in 1..7 : line = GlobalLines(m)[k]
    BY <1>4 DEF IsGlobalLine
  <2>2. k \in 1..6
    <3>1. GlobalLines(m)[7].kind # "pair"
      BY DEF GlobalLines
    <3> QED BY <1>2, <2>1, <3>1
  <2>3. GlobalKey(k) = key
    BY <1>2, <2>1, <2>2, GlobalKeys DEF IsPair
  <2>4. GlobalKey(k)[4] = GlobalAttributes[k]
    BY DEF GlobalKey
  <2>5. GlobalAttributes[k] # a
    BY <2>2 DEF GlobalAttributes
  <2> QED BY <1>3, <2>3, <2>4, <2>5
<1>5. ASSUME IsDriveLine(m, line) PROVE FALSE
  <2>1. PICK i \in 1..Len(m.drives), c \in 1..3 : line = DriveLines(m.drives[i])[c]
    BY <1>5 DEF IsDriveLine
  <2>2. DriveKey(m.drives[i], c) = key
    BY <1>2, <2>1, DriveKeys DEF IsPair
  <2>3. DriveKey(m.drives[i], c)[4] = DriveAttributes[c]
    BY DEF DriveKey
  <2>4. DriveAttributes[c] # a
    BY DEF DriveAttributes
  <2> QED BY <1>3, <2>2, <2>3, <2>4
<1>6. ASSUME IsNicLine(m, line) PROVE FALSE
  <2>1. PICK i \in 1..Len(m.nics), c \in 1..4 : line = NicLines(m.nics[i], i - 1)[c]
    BY <1>6 DEF IsNicLine
  <2>2. NicKey(m.nics[i], i - 1, c) = key
    BY <1>2, <2>1, NicKeys DEF IsPair
  <2>3. NicKey(m.nics[i], i - 1, c)[4] = NicAttributes(m.nics[i])[c]
    BY DEF NicKey
  <2>4. NicAttributes(m.nics[i])[c] # a
    BY DEF NicAttributes
  <2> QED BY <1>3, <2>2, <2>3, <2>4
<1> QED BY <1>2, <1>4, <1>5, <1>6 DEF IsLine

\* The words that tell what is there, and what is a CD-ROM.
LEMMA PresentWords ==
  /\ Lower("TRUE") = "true" /\ Lower("true") = "true" /\ Lower("FALSE") = "false" /\ Lower("false") = "false"
  /\ Lower("") = ""
  /\ Lower("disk") \notin CdromTypes /\ Lower("cdrom-image") \in CdromTypes /\ Lower("atapi-cdrom") \in CdromTypes
<1>1. /\ Lower("true") = "true" /\ Lower("false") = "false" /\ Lower("") = "" /\ Lower("disk") = "disk"
      /\ Lower("cdrom-image") = "cdrom-image" /\ Lower("atapi-cdrom") = "atapi-cdrom"
  BY LowerCaseWords DEF LowerCase
<1> QED BY <1>1, LowerWords DEF CdromTypes

\* What the dict says of a drive; nothing is said of a place without one.
LEMMA DriveEntries ==
  ASSUME NEW m, NEW style \in VmxStyles, NEW entries, AreEntries(entries, m, style),
         NEW i \in 1..Len(m.drives), NEW d, d = m.drives[i]
  PROVE  /\ Value(entries, d.bus, d.number, d.unit, "filename", "") = d.file
         /\ IsPresent(entries, d.bus, d.number, d.unit) <=> d.kind # "removed"
         /\ Lower(Word(entries, d.bus, d.number, d.unit, "devicetype", "")) \in CdromTypes <=> d.kind = "cdrom"
<1>1. /\ IsPair(DriveLines(d)[1], <<d.bus, d.number, d.unit, "filename">>)
      /\ IsPair(DriveLines(d)[2], <<d.bus, d.number, d.unit, "present">>)
      /\ IsPair(DriveLines(d)[3], <<d.bus, d.number, d.unit, "devicetype">>)
  <2>1. /\ DriveKey(d, 1) = <<d.bus, d.number, d.unit, "filename">>
        /\ DriveKey(d, 2) = <<d.bus, d.number, d.unit, "present">>
        /\ DriveKey(d, 3) = <<d.bus, d.number, d.unit, "devicetype">>
    BY DEF DriveKey, DriveAttributes
  <2>2. 1 \in 1..3 /\ 2 \in 1..3 /\ 3 \in 1..3
    OBVIOUS
  <2>3. \A c \in 1..3 : IsPair(DriveLines(d)[c], DriveKey(d, c))
    BY DriveKeys
  <2> QED BY ONLY <2>1, <2>2, <2>3
<1>2. IsLine(m, DriveLines(d)[1]) /\ IsLine(m, DriveLines(d)[2]) /\ IsLine(m, DriveLines(d)[3])
  <2>1. 1 \in 1..3 /\ 2 \in 1..3 /\ 3 \in 1..3
    OBVIOUS
  <2>2. \A c \in 1..3 : IsLine(m, DriveLines(d)[c])
    BY DEF IsLine, IsDriveLine
  <2> QED BY ONLY <2>1, <2>2
<1>a. ASSUME NEW line, NEW a, IsLine(m, line), IsPair(line, <<d.bus, d.number, d.unit, a>>)
      PROVE  /\ Value(entries, d.bus, d.number, d.unit, a, "") = Said(line, style)
             /\ Word(entries, d.bus, d.number, d.unit, a, "") = Said(line, style)[1]
  <2> DEFINE key == <<d.bus, d.number, d.unit, a>>
  <2>1. key \in DOMAIN entries /\ entries[key] = Said(line, style)
    <3>1. IsPair(line, key)
      BY <1>a
    <3> HIDE DEF key
    <3> QED BY <1>a, <3>1, ValueIs
  <2> QED BY <2>1 DEF Word, Value, Get
<1>3. Value(entries, d.bus, d.number, d.unit, "filename", "") = d.file
  <2>1. Said(DriveLines(d)[1], style) = d.file
    BY DEF Said, DriveLines, Pair
  <2> QED BY ONLY <1>1, <1>2, <1>a, <2>1
<1>4. IsPresent(entries, d.bus, d.number, d.unit) <=> d.kind # "removed"
  <2> DEFINE word == IF d.kind = "removed" THEN "FALSE" ELSE "TRUE"
  <2>1. Said(DriveLines(d)[2], style)[1] = IF style.camel THEN word ELSE Lower(word)
    BY DEF Said, DriveLines, Pair
  <2>2. Word(entries, d.bus, d.number, d.unit, "present", "") = Said(DriveLines(d)[2], style)[1]
    BY ONLY <1>1, <1>2, <1>a
  <2>3. IsPresent(entries, d.bus, d.number, d.unit)
          <=> (IF style.camel THEN Lower(word) ELSE Lower(Lower(word))) = "true"
    BY <2>1, <2>2 DEF IsPresent
  <2> QED BY <2>3, PresentWords
<1>5. Lower(Word(entries, d.bus, d.number, d.unit, "devicetype", "")) \in CdromTypes <=> d.kind = "cdrom"
  <2> DEFINE word == IF d.kind # "cdrom" THEN "disk" ELSE IF d.file[2] = ".ISO" THEN "cdrom-image" ELSE "atapi-cdrom"
  <2>1. Said(DriveLines(d)[3], style)[1] = word
    BY DEF Said, DriveLines, Pair
  <2>2. Word(entries, d.bus, d.number, d.unit, "devicetype", "") = Said(DriveLines(d)[3], style)[1]
    BY ONLY <1>1, <1>2, <1>a
  <2>3. Lower(word) \in CdromTypes <=> d.kind = "cdrom"
    BY PresentWords
  <2> HIDE DEF word
  <2> QED BY <2>1, <2>2, <2>3
<1> QED BY <1>3, <1>4, <1>5

LEMMA NoOtherDrive ==
  ASSUME NEW m, NEW style, NEW entries, AreEntries(entries, m, style),
         NEW bus, NEW number, NEW unit, unit \in 0..15, IsPresent(entries, bus, number, unit)
  PROVE  \E i \in 1..Len(m.drives) :
           m.drives[i].bus = bus /\ m.drives[i].number = number /\ m.drives[i].unit = unit
<1> DEFINE key == <<bus, number, unit, "present">>
<1>1. key \in DOMAIN entries
  <2>1. CASE key \notin DOMAIN entries
    <3>1. Word(entries, bus, number, unit, "present", "") = ""
      BY <2>1 DEF Word, Value, Get
    <3> QED BY <3>1, PresentWords DEF IsPresent
  <2> QED BY <2>1
<1>2. PICK line : IsLine(m, line) /\ line.kind = "pair" /\ LowerKey(line.key) = key
  BY <1>1 DEF AreEntries
<1>3. key[3] = unit /\ key[3] # NoUnit
  BY DEF NoUnit
<1>4. ~IsGlobalLine(m, line)
  <2>1. GlobalLines(m)[7].kind # "pair"
    BY DEF GlobalLines
  <2>2. \A k \in 1..6 : LowerKey(GlobalLines(m)[k].key)[3] = NoUnit
    BY GlobalKeys DEF IsPair, GlobalKey
  <2>3. \A k \in 1..7 : k = 7 \/ k \in 1..6
    OBVIOUS
  <2> QED BY <1>2, <1>3, <2>1, <2>2, <2>3 DEF IsGlobalLine
<1>5. ~IsNicLine(m, line)
  <2>1. \A i \in 1..Len(m.nics), c \in 1..4 : LowerKey(NicLines(m.nics[i], i - 1)[c].key)[3] = NoUnit
    BY NicKeys DEF IsPair, NicKey
  <2> QED BY <1>2, <1>3, <2>1 DEF IsNicLine
<1>6. PICK i \in 1..Len(m.drives), c \in 1..3 : line = DriveLines(m.drives[i])[c]
  BY <1>2, <1>4, <1>5 DEF IsLine, IsDriveLine
<1>7. DriveKey(m.drives[i], c) = key
  BY <1>2, <1>6, DriveKeys DEF IsPair
<1> QED BY <1>7 DEF DriveKey

\* The same of NICs.
LEMMA NicEntries ==
  ASSUME NEW m, NEW style \in VmxStyles, NEW entries, AreEntries(entries, m, style),
         NEW i \in 1..Len(m.nics), NEW n, n = i - 1
  PROVE  IsPresent(entries, "ethernet", n, NoUnit) /\ MacAddress(entries, n) = m.nics[i].mac
<1> DEFINE nic == m.nics[i]
<1>1. /\ IsPair(NicLines(nic, n)[1], <<"ethernet", n, NoUnit, "present">>)
      /\ IsPair(NicLines(nic, n)[3], <<"ethernet", n, NoUnit, "addresstype">>)
      /\ nic.static => IsPair(NicLines(nic, n)[4], <<"ethernet", n, NoUnit, "address">>)
      /\ ~nic.static => IsPair(NicLines(nic, n)[4], <<"ethernet", n, NoUnit, "generatedaddress">>)
  <2>1. /\ NicKey(nic, n, 1) = <<"ethernet", n, NoUnit, "present">>
        /\ NicKey(nic, n, 3) = <<"ethernet", n, NoUnit, "addresstype">>
        /\ nic.static => NicKey(nic, n, 4) = <<"ethernet", n, NoUnit, "address">>
        /\ ~nic.static => NicKey(nic, n, 4) = <<"ethernet", n, NoUnit, "generatedaddress">>
    BY DEF NicKey, NicAttributes
  <2>2. 1 \in 1..4 /\ 3 \in 1..4 /\ 4 \in 1..4
    OBVIOUS
  <2>3. \A c \in 1..4 : IsPair(NicLines(nic, n)[c], NicKey(nic, n, c))
    BY NicKeys
  <2> HIDE DEF nic
  <2>4. IsPair(NicLines(nic, n)[1], NicKey(nic, n, 1)) /\ IsPair(NicLines(nic, n)[3], NicKey(nic, n, 3))
        /\ IsPair(NicLines(nic, n)[4], NicKey(nic, n, 4))
    BY ONLY <2>2, <2>3
  <2> QED BY ONLY <2>1, <2>4
<1>2. IsLine(m, NicLines(nic, n)[1]) /\ IsLine(m, NicLines(nic, n)[3]) /\ IsLine(m, NicLines(nic, n)[4])
  <2>1. 1 \in 1..4 /\ 3 \in 1..4 /\ 4 \in 1..4
    OBVIOUS
  <2>2. \A c \in 1..4 : IsLine(m, NicLines(nic, n)[c])
    BY DEF IsLine, IsNicLine
  <2> HIDE DEF nic
  <2> QED BY ONLY <2>1, <2>2
<1> HIDE DEF nic
<1>a. ASSUME NEW line, NEW a, IsLine(m, line), IsPair(line, <<"ethernet", n, NoUnit, a>>)
      PROVE  Word(entries, "ethernet", n, NoUnit, a, "") = Said(line, style)[1]
  <2> DEFINE key == <<"ethernet", n, NoUnit, a>>
  <2>1. key \in DOMAIN entries /\ entries[key] = Said(line, style)
    <3>1. IsPair(line, key)
      BY <1>a
    <3> HIDE DEF key
    <3> QED BY <1>a, <3>1, ValueIs
  <2> QED BY <2>1 DEF Word, Value, Get
<1>3. IsPresent(entries, "ethernet", n, NoUnit)
  <2>1. Said(NicLines(nic, n)[1], style)[1] = IF style.camel THEN "TRUE" ELSE Lower("TRUE")
    BY DEF Said, NicLines, Pair
  <2>2. Word(entries, "ethernet", n, NoUnit, "present", "") = Said(NicLines(nic, n)[1], style)[1]
    BY ONLY <1>1, <1>2, <1>a
  <2> QED BY <2>1, <2>2, PresentWords DEF IsPresent
<1>4. Word(entries, "ethernet", n, NoUnit, "addresstype", "") = IF nic.static THEN "static" ELSE "generated"
  <2>1. Said(NicLines(nic, n)[3], style)[1] = IF nic.static THEN "static" ELSE "generated"
    BY DEF Said, NicLines, Pair
  <2>2. Word(entries, "ethernet", n, NoUnit, "addresstype", "") = Said(NicLines(nic, n)[3], style)[1]
    BY ONLY <1>1, <1>2, <1>a
  <2> QED BY <2>1, <2>2
<1>5. Said(NicLines(nic, n)[4], style)[1] = nic.mac
  BY DEF Said, NicLines, Pair
<1>6. CASE nic.static
  <2>1. Word(entries, "ethernet", n, NoUnit, "address", "") = Said(NicLines(nic, n)[4], style)[1]
    BY ONLY <1>1, <1>2, <1>6, <1>a
  <2>2. MacAddress(entries, n) = nic.mac
    BY <1>4, <1>5, <1>6, <2>1 DEF MacAddress
  <2> QED BY <1>3, <2>2 DEF nic
<1>7. CASE ~nic.static
  <2>1. Word(entries, "ethernet", n, NoUnit, "generatedaddress", "") = Said(NicLines(nic, n)[4], style)[1]
    BY ONLY <1>1, <1>2, <1>7, <1>a
  <2>2. MacAddress(entries, n) = nic.mac
    BY <1>4, <1>5, <1>7, <2>1 DEF MacAddress
  <2> QED BY <1>3, <2>2 DEF nic
<1> QED BY <1>6, <1>7

LEMMA NoOtherNic ==
  ASSUME NEW m, IsMachine(m), NEW style, NEW entries, AreEntries(entries, m, style),
         NEW n, IsPresent(entries, "ethernet", n, NoUnit)
  PROVE  \E i \in 1..Len(m.nics) : i - 1 = n
<1> DEFINE key == <<"ethernet", n, NoUnit, "present">>
<1>1. key \in DOMAIN entries
  <2>1. CASE key \notin DOMAIN entries
    <3>1. Word(entries, "ethernet", n, NoUnit, "present", "") = ""
      BY <2>1 DEF Word, Value, Get
    <3> QED BY <3>1, PresentWords DEF IsPresent
  <2> QED BY <2>1
<1>2. PICK line : IsLine(m, line) /\ line.kind = "pair" /\ LowerKey(line.key) = key
  BY <1>1 DEF AreEntries
<1>3. key[1] = "ethernet" /\ key[3] \notin 0..63
  BY DEF NoUnit
<1>4. ~IsGlobalLine(m, line)
  <2>1. GlobalLines(m)[7].kind # "pair"
    BY DEF GlobalLines
  <2>2. \A k \in 1..6 : LowerKey(GlobalLines(m)[k].key)[1] # "ethernet"
    <3>1. \A k \in 1..6 : GlobalKey(k)[1] \in {"", "scsi"}
      BY DEF GlobalKey, Top
    <3>2. \A k \in 1..6 : LowerKey(GlobalLines(m)[k].key) = GlobalKey(k)
      BY GlobalKeys DEF IsPair
    <3> QED BY <3>1, <3>2
  <2>3. \A k \in 1..7 : k = 7 \/ k \in 1..6
    OBVIOUS
  <2> QED BY <1>2, <1>3, <2>1, <2>2, <2>3 DEF IsGlobalLine
<1>5. ~IsDriveLine(m, line)
  <2>1. \A i \in 1..Len(m.drives), c \in 1..3 : LowerKey(DriveLines(m.drives[i])[c].key)[3] \in 0..63
    <3>1. \A i \in 1..Len(m.drives), c \in 1..3 :
            LowerKey(DriveLines(m.drives[i])[c].key) = DriveKey(m.drives[i], c)
      BY DriveKeys DEF IsPair
    <3>2. \A i \in 1..Len(m.drives), c \in 1..3 : DriveKey(m.drives[i], c)[3] = m.drives[i].unit
      BY DEF DriveKey
    <3>3. \A i \in 1..Len(m.drives) : m.drives[i].unit \in 0..63
      BY MachineIs
    <3> QED BY <3>1, <3>2, <3>3
  <2> QED BY <1>2, <1>3, <2>1 DEF IsDriveLine
<1>6. PICK i \in 1..Len(m.nics), c \in 1..4 : line = NicLines(m.nics[i], i - 1)[c]
  BY <1>2, <1>4, <1>5 DEF IsLine, IsNicLine
<1>7. NicKey(m.nics[i], i - 1, c) = key
  BY <1>2, <1>6, NicKeys DEF IsPair
<1> QED BY <1>7 DEF NicKey

-----------------------------------------------------------------------------
(* The hard disks of a machine, and the slots where the parser finds them. *)

\* t is what is kept of the drives, all of it disks.
AreDisks(m, t, wanted, f) ==
  /\ t \in Seq(DriveType) /\ f \in [1..Len(t) -> 1..Len(m.drives)] /\ Rising(f, Len(t))
  /\ \A i \in 1..Len(t) : t[i] = m.drives[f[i]] /\ t[i] \in wanted
  /\ \A k \in 1..Len(m.drives) : m.drives[k] \in wanted => \E i \in 1..Len(t) : f[i] = k

\* Such disks are among the drives, in their order.
LEMMA DisksAre ==
  ASSUME NEW m, IsMachine(m), NEW wanted, NEW t, t = Only(m.drives, wanted)
  PROVE  \E f : AreDisks(m, t, wanted, f)
<1> DEFINE s == m.drives
<1>1. s \in Seq(DriveType)
  BY MachineIs
<1>2. t = Only(s, wanted)
  OBVIOUS
<1> HIDE DEF s
<1>5. t \in Seq(DriveType) /\ \E f : Keeps(t, f, s, Len(s), wanted)
  BY <1>1, <1>2, OnlyKeeps
<1>6. PICK f : Keeps(t, f, s, Len(s), wanted)
  BY <1>5
<1>7. AreDisks(m, t, wanted, f)
  BY <1>5, <1>6 DEF AreDisks, Keeps, s
<1> QED BY <1>7

\* They have one place each, in this order, and a file each.
HavePlaces(t, m) ==
  /\ t \in Seq(DriveType)
  /\ \A i, j \in 1..Len(t) : i < j => Place(t[i]) < Place(t[j])
  /\ \A i, j \in 1..Len(t) : t[i].file = t[j].file => i = j
  /\ \A i \in 1..Len(t) :
       /\ t[i] \in DriveType /\ t[i].kind = "disk"
       /\ t[i].file[1] # "" /\ Lower(t[i].file[1]) # "auto detect" /\ t[i].file[2] = ".vmdk"
       /\ \E k \in 1..Len(m.drives) : t[i] = m.drives[k]

AreHardDisks(wanted) == \A d \in wanted : d.kind = "disk"

LEMMA KeptDisksHavePlaces ==
  ASSUME NEW m, IsMachine(m), NEW wanted, AreHardDisks(wanted), NEW t, t = Only(m.drives, wanted)
  PROVE  /\ HavePlaces(t, m) /\ \A i \in 1..Len(t) : t[i] \in wanted
         /\ \A k \in 1..Len(m.drives) : m.drives[k] \in wanted => \E i \in 1..Len(t) : t[i] = m.drives[k]
<1> DEFINE s == m.drives
           n == Len(t)
<1>1. PICK f : AreDisks(m, t, wanted, f)
  BY DisksAre
<1>2. /\ t \in Seq(DriveType) /\ f \in [1..n -> 1..Len(s)] /\ Rising(f, n)
      /\ \A i \in 1..n : t[i] = s[f[i]] /\ t[i] \in wanted /\ t[i].kind = "disk"
      /\ \A k \in 1..Len(s) : s[k] \in wanted => \E i \in 1..n : f[i] = k
  BY <1>1 DEF AreDisks, AreHardDisks
<1>3. /\ \A i, j \in 1..Len(s) : i < j => Place(s[i]) < Place(s[j])
      /\ \A i \in 1..Len(s) : s[i].kind = "disk" =>
           s[i].file[1] # "" /\ Lower(s[i].file[1]) # "auto detect" /\ s[i].file[2] = ".vmdk"
      /\ \A i, j \in 1..Len(s) : s[i].kind = "disk" /\ s[j].kind = "disk" /\ s[i].file = s[j].file => i = j
  BY DEF IsMachine
<1>4. n \in Nat
  BY <1>2
<1> HIDE DEF s, n
<1>5. ASSUME NEW i \in 1..n, NEW j \in 1..n, i < j PROVE Place(t[i]) < Place(t[j])
  <2>1. f[i] < f[j] /\ f[i] \in 1..Len(s) /\ f[j] \in 1..Len(s)
    BY <1>2, <1>5 DEF Rising
  <2>2. t[i] = s[f[i]] /\ t[j] = s[f[j]] /\ Place(s[f[i]]) < Place(s[f[j]])
    BY ONLY <1>2, <1>3, <2>1
  <2> QED BY ONLY <2>2
<1>6. ASSUME NEW i \in 1..n, NEW j \in 1..n, t[i].file = t[j].file PROVE i = j
  <2>1. f[i] = f[j] /\ f[i] \in Nat
    <3>1. f[i] \in 1..Len(s) /\ f[j] \in 1..Len(s) /\ t[i] = s[f[i]] /\ t[j] = s[f[j]]
          /\ t[i].kind = "disk" /\ t[j].kind = "disk"
      BY <1>2
    <3>2. s[f[i]].file = s[f[j]].file /\ s[f[i]].kind = "disk" /\ s[f[j]].kind = "disk"
      BY <1>6, <3>1
    <3>3. f[i] = f[j]
      BY ONLY <1>3, <3>1, <3>2
    <3> QED BY <3>1, <3>3
  <2>2. ~(i < j) /\ ~(j < i)
    BY <1>2, <2>1 DEF Rising
  <2> QED BY <1>4, <2>2
<1>7. ASSUME NEW i \in 1..n
      PROVE  /\ t[i] \in DriveType /\ t[i].kind = "disk"
             /\ t[i].file[1] # "" /\ Lower(t[i].file[1]) # "auto detect" /\ t[i].file[2] = ".vmdk"
             /\ \E k \in 1..Len(s) : t[i] = s[k]
  <2>1. f[i] \in 1..Len(s) /\ t[i] = s[f[i]] /\ t[i].kind = "disk" /\ t[i] \in DriveType
    BY <1>2 DEF n
  <2> QED BY <1>3, <2>1
<1>8. ASSUME NEW k \in 1..Len(s), s[k] \in wanted PROVE \E i \in 1..n : t[i] = s[k]
  BY <1>2, <1>8
<1> QED BY <1>2, <1>5, <1>6, <1>7, <1>8 DEF HavePlaces, s, n

\* The disks of a machine, and those that the parser of VMX files looks for.
LEMMA DisksHavePlaces ==
  ASSUME NEW m, IsMachine(m)
  PROVE  /\ DisksOf(m) \in Seq(DriveType)
         /\ \A i, j \in 1..Len(DisksOf(m)) : DisksOf(m)[i].file = DisksOf(m)[j].file => i = j
         /\ \A i \in 1..Len(DisksOf(m)) :
              DisksOf(m)[i] \in DriveType /\ DisksOf(m)[i].kind = "disk" /\ DisksOf(m)[i].file[2] = ".vmdk"
         /\ \A k \in 1..Len(m.drives) :
              m.drives[k].kind = "disk" => \E i \in 1..Len(DisksOf(m)) : DisksOf(m)[i] = m.drives[k]
<1> DEFINE wanted == {d \in Elements(m.drives) : d.kind = "disk"}
           t == DisksOf(m)
<1>1. t = Only(m.drives, wanted) /\ AreHardDisks(wanted)
  BY DEF DisksOf, AreHardDisks
<1>2. \A k \in 1..Len(m.drives) : m.drives[k].kind = "disk" => m.drives[k] \in wanted
  BY DEF Elements
<1> HIDE DEF wanted, t
<1>3. /\ HavePlaces(t, m)
      /\ \A k \in 1..Len(m.drives) : m.drives[k] \in wanted => \E i \in 1..Len(t) : t[i] = m.drives[k]
  <2>1. IsMachine(m)
    OBVIOUS
  <2> QED BY ONLY <1>1, <2>1, KeptDisksHavePlaces
<1> QED BY <1>2, <1>3 DEF HavePlaces, t

LEMMA ScannedHavePlaces ==
  ASSUME NEW m, IsMachine(m)
  PROVE  /\ HavePlaces(ScannedDisks(m), m)
         /\ \A i \in 1..Len(ScannedDisks(m)) :
              /\ ScannedDisks(m)[i] \in Scanned
              /\ \E j \in 1..Len(DisksOf(m)) : DisksOf(m)[j] = ScannedDisks(m)[i]
         /\ \A k \in 1..Len(m.drives) : m.drives[k].kind = "disk" /\ IsScanned(m.drives[k]) =>
              \E i \in 1..Len(ScannedDisks(m)) : ScannedDisks(m)[i] = m.drives[k]
<1> DEFINE wanted == {d \in Elements(m.drives) : d.kind = "disk" /\ IsScanned(d)}
           t == ScannedDisks(m)
<1>1. t = Only(m.drives, wanted) /\ AreHardDisks(wanted) /\ \A d \in wanted : IsScanned(d)
  BY DEF ScannedDisks, AreHardDisks
<1>2. \A k \in 1..Len(m.drives) : m.drives[k].kind = "disk" /\ IsScanned(m.drives[k]) => m.drives[k] \in wanted
  BY DEF Elements
<1> HIDE DEF wanted, t
<1>3. /\ HavePlaces(t, m) /\ \A i \in 1..Len(t) : t[i] \in wanted
      /\ \A k \in 1..Len(m.drives) : m.drives[k] \in wanted => \E i \in 1..Len(t) : t[i] = m.drives[k]
  <2>1. IsMachine(m)
    OBVIOUS
  <2> QED BY ONLY <1>1, <2>1, KeptDisksHavePlaces
<1>4. ASSUME NEW i \in 1..Len(t)
      PROVE  t[i] \in Scanned /\ \E j \in 1..Len(DisksOf(m)) : DisksOf(m)[j] = t[i]
  <2>1. t[i] \in DriveType /\ t[i].kind = "disk" /\ IsScanned(t[i])
    BY <1>1, <1>3 DEF HavePlaces, AreHardDisks
  <2>2. PICK k \in 1..Len(m.drives) : t[i] = m.drives[k]
    BY <1>3 DEF HavePlaces
  <2>3. \E j \in 1..Len(DisksOf(m)) : DisksOf(m)[j] = m.drives[k]
    BY <2>1, <2>2, DisksHavePlaces
  <2> QED BY <2>1, <2>2, <2>3 DEF Scanned
<1> QED BY <1>2, <1>3, <1>4 DEF t


\* Functions on 1..n are lists.
LEMMA FunctionIsSequence ==
  ASSUME NEW S, NEW n \in Nat, NEW s \in [1..n -> S]
  PROVE  s \in Seq(S) /\ Len(s) = n
OBVIOUS

\* The slots of the parser are the places of drives.
IsSlotOf(slot, d) == slot.bus = d.bus /\ slot.number = d.number /\ slot.unit = d.unit

LEMMA SlotsAre ==
  /\ Slots \in Seq(Elements(Slots)) /\ Len(Slots) = 192
  /\ \A d \in Scanned : Slots[SlotOf(d) + 1] = [bus |-> d.bus, number |-> d.number, unit |-> d.unit]
  /\ \A k \in 1..192 : Slots[k].bus \in {"scsi", "ide", "sata"} /\ Slots[k].unit \in 0..15
  /\ \A k \in 1..192, d \in Scanned : IsSlotOf(Slots[k], d) => k = SlotOf(d) + 1
<1>1. 3 * 4 * 16 = 192
  OBVIOUS
<1>2. \A k \in 1..192 :
        Slots[k] = [bus |-> Buses[((k - 1) \div 64) + 1], number |-> ((k - 1) \div 16) % 4, unit |-> (k - 1) % 16]
  BY <1>1 DEF Slots
<1>3. DOMAIN Slots = 1..192 /\ Slots = [k \in 1..192 |-> Slots[k]]
  BY <1>1 DEF Slots
<1>4. Len(Slots) = 192 /\ Slots \in Seq(Elements(Slots))
  <2> DEFINE E == {Slots[k] : k \in 1..192}
  <2>1. Slots \in [1..192 -> E]
    BY <1>3
  <2>2. Slots \in Seq(E) /\ Len(Slots) = 192
    <3> DEFINE n == 192
    <3>1. n \in Nat /\ Slots \in [1..n -> E]
      BY <2>1
    <3> HIDE DEF E, n
    <3>2. Slots \in Seq(E) /\ Len(Slots) = n
      BY <3>1, FunctionIsSequence
    <3> QED BY <3>2 DEF n
  <2> QED BY <2>2 DEF Elements
<1>5. Buses[1] = "scsi" /\ Buses[2] = "ide" /\ Buses[3] = "sata"
  BY DEF Buses
<1>6. ASSUME NEW d \in Scanned
      PROVE  Slots[SlotOf(d) + 1] = [bus |-> d.bus, number |-> d.number, unit |-> d.unit]
  <2>1. SlotOf(d) + 1 \in 1..192 /\ (SlotOf(d) + 1) - 1 = SlotOf(d)
    BY ScannedSlots
  <2>2. Buses[(SlotOf(d) \div 64) + 1] = d.bus
    <3>1. d.bus \in {"scsi", "ide", "sata"}
      BY ScannedAre
    <3>2. SlotOf(d) \div 64 = (IF d.bus = "scsi" THEN 0 ELSE IF d.bus = "ide" THEN 1 ELSE 2)
      BY ScannedSlots
    <3> QED BY <1>5, <3>1, <3>2
  <2>3. (SlotOf(d) \div 16) % 4 = d.number /\ SlotOf(d) % 16 = d.unit
    BY ScannedSlots
  <2> QED BY <1>2, <2>1, <2>2, <2>3
<1>6a. ASSUME NEW k \in 1..192
       PROVE  /\ Slots[k].bus = Buses[((k - 1) \div 64) + 1] /\ Slots[k].number = ((k - 1) \div 16) % 4
              /\ Slots[k].unit = (k - 1) % 16
  <2> DEFINE bus == Buses[((k - 1) \div 64) + 1]
             number == ((k - 1) \div 16) % 4
             unit == (k - 1) % 16
  <2>1. Slots[k] = [bus |-> bus, number |-> number, unit |-> unit]
    BY <1>2
  <2> HIDE DEF bus, number, unit
  <2>2. Slots[k].bus = bus /\ Slots[k].number = number /\ Slots[k].unit = unit
    BY ONLY <2>1
  <2> QED BY <2>2 DEF bus, number, unit
<1>7. ASSUME NEW k \in 1..192 PROVE Slots[k].bus \in {"scsi", "ide", "sata"} /\ Slots[k].unit \in 0..15
  <2>1. Slots[k].bus = Buses[((k - 1) \div 64) + 1] /\ Slots[k].unit = (k - 1) % 16
    BY <1>6a
  <2>2. (k - 1) \div 64 = 0 \/ (k - 1) \div 64 = 1 \/ (k - 1) \div 64 = 2
    OBVIOUS
  <2> QED BY <1>5, <2>1, <2>2
<1>8. ASSUME NEW k \in 1..192, NEW d \in Scanned,
             Slots[k].bus = d.bus, Slots[k].number = d.number, Slots[k].unit = d.unit
      PROVE  k = SlotOf(d) + 1
  <2>1. PICK b \in 0..2 : b = (k - 1) \div 64
    OBVIOUS
  <2>2. Buses[b + 1] = d.bus /\ d.number = ((k - 1) \div 16) % 4 /\ d.unit = (k - 1) % 16
    <3>1. /\ Slots[k].bus = Buses[((k - 1) \div 64) + 1] /\ Slots[k].number = ((k - 1) \div 16) % 4
          /\ Slots[k].unit = (k - 1) % 16
      BY <1>6a
    <3> QED BY <1>8, <2>1, <3>1
  <2>3. b = (IF d.bus = "scsi" THEN 0 ELSE IF d.bus = "ide" THEN 1 ELSE 2)
    BY <1>5, <2>2
  <2>4. SlotOf(d) = 64 * b + 16 * d.number + d.unit
    <3>1. d.bus \in {"scsi", "ide", "sata"}
      BY ScannedAre
    <3> QED BY <2>3, <3>1 DEF SlotOf
  <2>5. k - 1 = 64 * ((k - 1) \div 64) + 16 * (((k - 1) \div 16) % 4) + ((k - 1) % 16)
    OBVIOUS
  <2> QED BY <2>1, <2>2, <2>4, <2>5
<1>9. \A k \in 1..192, d \in Scanned : IsSlotOf(Slots[k], d) => k = SlotOf(d) + 1
  BY <1>8 DEF IsSlotOf
<1> QED BY ONLY <1>4, <1>6, <1>7, <1>9

\* A slot is taken for a disk if and only if one is there.
LEMMA DiskSlots ==
  ASSUME NEW m, IsMachine(m), NEW style \in VmxStyles, NEW entries, AreEntries(entries, m, style)
  PROVE  /\ \A i \in 1..Len(ScannedDisks(m)) : IsDisk(entries, Slots[SlotOf(ScannedDisks(m)[i]) + 1])
         /\ \A k \in 1..192 : IsDisk(entries, Slots[k]) =>
              \E i \in 1..Len(ScannedDisks(m)) : k = SlotOf(ScannedDisks(m)[i]) + 1
<1>1. ASSUME NEW i \in 1..Len(ScannedDisks(m)) PROVE IsDisk(entries, Slots[SlotOf(ScannedDisks(m)[i]) + 1])
  <2> DEFINE d == ScannedDisks(m)[i]
             slot == Slots[SlotOf(d) + 1]
  <2>1. /\ d \in Scanned /\ d.kind = "disk" /\ d.file[1] # "" /\ Lower(d.file[1]) # "auto detect" /\ d.file[2] = ".vmdk"
        /\ \E k \in 1..Len(m.drives) : d = m.drives[k]
    BY ScannedHavePlaces DEF HavePlaces
  <2> HIDE DEF d
  <2>2. PICK k \in 1..Len(m.drives) : d = m.drives[k]
    BY <2>1
  <2>3. slot.bus = d.bus /\ slot.number = d.number /\ slot.unit = d.unit
    <3>1. slot = [bus |-> d.bus, number |-> d.number, unit |-> d.unit]
      BY <2>1, SlotsAre
    <3> HIDE DEF slot
    <3> QED BY <3>1
  <2> HIDE DEF slot
  <2>4. /\ Value(entries, d.bus, d.number, d.unit, "filename", "") = d.file
        /\ IsPresent(entries, d.bus, d.number, d.unit)
        /\ Lower(Word(entries, d.bus, d.number, d.unit, "devicetype", "")) \notin CdromTypes
    BY <2>1, <2>2, DriveEntries
  <2>5. d.file # NoPath
    <3>1. NoPath[1] = ""
      BY DEF NoPath
    <3> QED BY <2>1, <3>1
  <2>6. Lower(d.file[2]) # ".iso"
    BY <2>1, LowerCaseWords DEF LowerCase
  <2>7. IsDisk(entries, slot)
    BY <2>1, <2>3, <2>4, <2>5, <2>6 DEF IsDisk
  <2> QED BY <2>7 DEF d, slot
<1>2. ASSUME NEW k \in 1..192, IsDisk(entries, Slots[k])
      PROVE  \E i \in 1..Len(ScannedDisks(m)) : k = SlotOf(ScannedDisks(m)[i]) + 1
  <2> DEFINE slot == Slots[k]
  <2>1. slot.bus # "nvme" /\ slot.unit \in 0..15
    BY SlotsAre
  <2>2. /\ IsPresent(entries, slot.bus, slot.number, slot.unit)
        /\ Lower(Word(entries, slot.bus, slot.number, slot.unit, "devicetype", "")) \notin CdromTypes
    BY <1>2 DEF IsDisk
  <2> HIDE DEF slot
  <2>3. PICK j \in 1..Len(m.drives) :
          m.drives[j].bus = slot.bus /\ m.drives[j].number = slot.number /\ m.drives[j].unit = slot.unit
    <3> DEFINE bus == slot.bus
               number == slot.number
               unit == slot.unit
    <3>1. IsPresent(entries, bus, number, unit) /\ unit \in 0..15
      BY <2>1, <2>2
    <3> HIDE DEF bus, number, unit
    <3>2. \E j \in 1..Len(m.drives) :
            m.drives[j].bus = bus /\ m.drives[j].number = number /\ m.drives[j].unit = unit
      BY <3>1, NoOtherDrive
    <3> QED BY <3>2 DEF bus, number, unit
  <2> DEFINE d == m.drives[j]
  <2>4. d \in Scanned /\ IsScanned(d) /\ d.kind \in {"disk", "cdrom", "removed"}
    <3>1. d.unit < 16
      BY <2>1, <2>3
    <3> QED BY <2>1, <2>3, <3>1, MachineIs DEF Scanned, IsScanned
  <2>5. /\ IsPresent(entries, d.bus, d.number, d.unit) <=> d.kind # "removed"
        /\ Lower(Word(entries, d.bus, d.number, d.unit, "devicetype", "")) \in CdromTypes <=> d.kind = "cdrom"
    BY DriveEntries
  <2>6. d.kind = "disk"
    BY <2>2, <2>3, <2>4, <2>5
  <2>7. PICK i \in 1..Len(ScannedDisks(m)) : ScannedDisks(m)[i] = d
    BY <2>4, <2>6, ScannedHavePlaces
  <2>8. k = SlotOf(d) + 1
    <3>1. IsSlotOf(Slots[k], d) /\ d \in Scanned /\ k \in 1..192
      BY <2>3, <2>4 DEF slot, IsSlotOf
    <3> HIDE DEF d
    <3> QED BY ONLY <3>1, SlotsAre
  <2> HIDE DEF d
  <2> QED BY <2>7, <2>8
<1> QED BY <1>1, <1>2

-----------------------------------------------------------------------------
(* What the parser of VMX files returns.                                   *)

\* The place of a drive is the number of a slot.
LEMMA SlotNumbers == \A d \in Scanned : SlotOf(d) + 1 \in 1..192 /\ SlotOf(d) \in Nat
<1>1. SUFFICES ASSUME NEW d \in Scanned PROVE SlotOf(d) + 1 \in 1..192 /\ SlotOf(d) \in Nat
  OBVIOUS
<1>2. SlotOf(d) \in 0..191
  BY ScannedSlots
<1> QED BY <1>2

LEMMA FunctionIsList ==
  ASSUME NEW n \in Nat, NEW s, DOMAIN s = 1..n, s = [i \in 1..n |-> s[i]]
  PROVE  s \in Seq(Elements(s)) /\ Len(s) = n
<1> DEFINE E == {s[i] : i \in 1..n}
<1>1. s \in [1..n -> E]
  OBVIOUS
<1>2. Len(s) = n
  OBVIOUS
<1>3. Elements(s) = E
  BY <1>2 DEF Elements
<1> HIDE DEF E
<1>4. s \in Seq(E)
  BY <1>1, FunctionIsSequence
<1> QED BY <1>2, <1>3, <1>4

\* The slots of the hard disks, in their order.
LEMMA SlotsOfDisks ==
  ASSUME NEW m, IsMachine(m), NEW style \in VmxStyles, NEW entries, AreEntries(entries, m, style),
         NEW slots, slots = Only(Slots, {s \in Elements(Slots) : IsDisk(entries, s)})
  PROVE  /\ Len(slots) = Len(ScannedDisks(m)) /\ Len(slots) \in Nat
         /\ \A i \in 1..Len(ScannedDisks(m)) : slots[i] = Slots[SlotOf(ScannedDisks(m)[i]) + 1]
<1> DEFINE wanted == {s \in Elements(Slots) : IsDisk(entries, s)}
           t == ScannedDisks(m)
           n == Len(t)
           h == [i \in 1..n |-> SlotOf(t[i]) + 1]
<1>0. t \in Seq(DriveType) /\ (\A i \in 1..n : t[i] \in Scanned) /\ \A i, j \in 1..n : i < j => SlotOf(t[i]) < SlotOf(t[j])
  <2>1. \A i, j \in 1..n : i < j => Place(t[i]) < Place(t[j])
    BY ScannedHavePlaces DEF HavePlaces
  <2>2. \A i \in 1..n : t[i] \in Scanned
    BY ScannedHavePlaces
  <2>3. t \in Seq(DriveType)
    BY ScannedHavePlaces DEF HavePlaces
  <2> QED BY <2>1, <2>2, <2>3, SlotsRise
<1> HIDE DEF t
<1>1. /\ t \in Seq(DriveType) /\ n \in Nat
      /\ \A i, j \in 1..n : i < j => SlotOf(t[i]) < SlotOf(t[j])
      /\ \A i \in 1..n : t[i] \in Scanned
  BY <1>0
<1>2. \A i \in 1..n : SlotOf(t[i]) + 1 \in 1..192 /\ SlotOf(t[i]) \in Nat
  BY ONLY <1>1, SlotNumbers
<1>3. Slots \in Seq(Elements(Slots)) /\ Len(Slots) = 192
  BY SlotsAre
<1>4. \A k \in 1..192 : Slots[k] \in wanted <=> IsDisk(entries, Slots[k])
  <2>1. \A k \in 1..192 : Slots[k] \in Elements(Slots)
    BY <1>3, ElementsAre
  <2> QED BY <2>1
<1>5. /\ \A i \in 1..n : IsDisk(entries, Slots[SlotOf(t[i]) + 1])
      /\ \A k \in 1..192 : IsDisk(entries, Slots[k]) => \E i \in 1..n : k = SlotOf(t[i]) + 1
  BY DiskSlots DEF t
<1> HIDE DEF wanted, n
<1>6. h \in [1..n -> 1..Len(Slots)]
  BY <1>2, <1>3
<1>7. Rising(h, n)
  BY <1>1, <1>2 DEF Rising
<1>8. \A i \in 1..n : Slots[h[i]] \in wanted
  BY <1>2, <1>4, <1>5
<1>9. \A k \in 1..Len(Slots) : Slots[k] \in wanted => \E i \in 1..n : h[i] = k
  <2>1. SUFFICES ASSUME NEW k \in 1..192, Slots[k] \in wanted PROVE \E i \in 1..n : h[i] = k
    BY <1>3
  <2>2. PICK i \in 1..n : k = SlotOf(t[i]) + 1
    BY <1>4, <1>5, <2>1
  <2> QED BY <2>2
<1>10. \A i \in 1..n : h[i] = SlotOf(t[i]) + 1
  OBVIOUS
<1> HIDE DEF h
<1>11. Len(Only(Slots, wanted)) = n /\ \A i \in 1..n : Only(Slots, wanted)[i] = Slots[h[i]]
  <2> DEFINE s == Slots
             A == Elements(Slots)
  <2>1. s \in Seq(A) /\ n \in Nat /\ Picks(h, n, s, wanted)
    BY <1>1, <1>3, <1>6, <1>7, <1>8, <1>9 DEF Picks
  <2> HIDE DEF s, A
  <2>2. IsPicked(Only(s, wanted), h, n, s)
    BY ONLY <2>1, OnlyIs
  <2> QED BY <2>2 DEF s, IsPicked
<1> QED BY <1>1, <1>10, <1>11 DEF wanted, t, n

\* Disks in a row, as a parser returns them: in order, with their files, the first of them marked.
ReadsDisks(disks, t) ==
  /\ disks \in Seq(Elements(disks)) /\ Len(disks) = Len(t)
  /\ \A i \in 1..Len(disks) : disks[i].path = t[i].file /\ (disks[i].is_boot <=> i = 1)

LEMMA DiskFields ==
  ASSUME NEW d, NEW path, NEW controller, NEW unit, NEW size, NEW type, NEW marked,
         d = DiskDefinition(path, controller, unit, size, type, marked)
  PROVE  d.path = path /\ d.size_bytes = size /\ d.is_boot = marked
  BY DEF DiskDefinition

\* _extract_disks finds every disk it looks for, in order, and marks the first.
LEMMA DisksAreExtracted ==
  ASSUME NEW m, IsMachine(m), NEW style \in VmxStyles, NEW entries, AreEntries(entries, m, style), NEW files
  PROVE  /\ ReadsDisks(_extract_disks(entries, files), ScannedDisks(m))
         /\ \A i \in 1..Len(ScannedDisks(m)) :
              _extract_disks(entries, files)[i].size_bytes = InspectedDisk(files, ScannedDisks(m)[i].file).size_bytes
<1> DEFINE slots == Only(Slots, {s \in Elements(Slots) : IsDisk(entries, s)})
           File(i) == Value(entries, slots[i].bus, slots[i].number, slots[i].unit, "filename", "")
           Disk(i) == DiskDefinition(File(i), <<slots[i].bus, slots[i].number>>, slots[i].unit,
                                     InspectedDisk(files, File(i)).size_bytes,
                                     InspectedDisk(files, File(i)).disk_type, i = 1)
           disks == _extract_disks(entries, files)
           t == ScannedDisks(m)
           n == Len(t)
<1>1. disks = [i \in 1..Len(slots) |-> Disk(i)]
  BY DEF _extract_disks
<1>2. Len(slots) = n /\ n \in Nat /\ \A i \in 1..n : slots[i] = Slots[SlotOf(t[i]) + 1]
  BY SlotsOfDisks
<1> HIDE DEF slots, disks
<1>3. ASSUME NEW i \in 1..n PROVE File(i) = t[i].file
  <2> DEFINE d == t[i]
  <2>1. d \in Scanned /\ \E k \in 1..Len(m.drives) : d = m.drives[k]
    BY ScannedHavePlaces DEF HavePlaces
  <2>2. slots[i] = Slots[SlotOf(d) + 1]
    BY <1>2
  <2> HIDE DEF d
  <2>3. slots[i] = [bus |-> d.bus, number |-> d.number, unit |-> d.unit]
    BY <2>1, <2>2, SlotsAre
  <2>4. slots[i].bus = d.bus /\ slots[i].number = d.number /\ slots[i].unit = d.unit
    BY ONLY <2>3
  <2>5. Value(entries, d.bus, d.number, d.unit, "filename", "") = d.file
    BY <2>1, DriveEntries
  <2> QED BY <2>4, <2>5 DEF d
<1>4. \A i \in 1..n : disks[i] = Disk(i)
  BY <1>1, <1>2
<1>5. disks \in Seq(Elements(disks)) /\ Len(disks) = n
  <2> HIDE DEF Disk, n
  <2>1. DOMAIN disks = 1..n /\ disks = [i \in 1..n |-> disks[i]]
    BY <1>1, <1>2
  <2> QED BY <1>2, <2>1, FunctionIsList
<1>6. ASSUME NEW i \in 1..n
      PROVE  /\ disks[i].path = t[i].file /\ (disks[i].is_boot <=> i = 1)
             /\ disks[i].size_bytes = InspectedDisk(files, t[i].file).size_bytes
  <2> DEFINE d == disks[i]
             file == File(i)
             slot == slots[i]
             info == InspectedDisk(files, file)
             marked == i = 1
  <2>1. d = DiskDefinition(file, <<slot.bus, slot.number>>, slot.unit, info.size_bytes, info.disk_type, marked)
    BY <1>4
  <2>2. file = t[i].file
    BY <1>3
  <2> HIDE DEF d, file, slot, info, marked
  <2>3. d.path = file /\ d.size_bytes = info.size_bytes /\ d.is_boot = marked
    BY <2>1, DiskFields
  <2> QED BY <2>2, <2>3 DEF d, info, marked
<1> QED BY <1>5, <1>6 DEF ReadsDisks, disks

\* The sizes that the files beside it tell.
SizeIs(d, split) == IF split = "binary" THEN 0 ELSE d.sectors * SECTOR_SIZE

\* inspect_vmdk reads the capacity of a disk from the file beside the VMX file.
LEMMA SizesBeside ==
  ASSUME NEW m, IsMachine(m), NEW split \in {"one", "two", "binary"},
         VmxNumbers(m, split) \subseteq NUMBERS, VmxIsExact(m, split), NEW i \in 1..Len(DisksOf(m))
  PROVE  InspectedDisk(Beside(m, split), DisksOf(m)[i].file).size_bytes = SizeIs(DisksOf(m)[i], split)
<1> DEFINE t == DisksOf(m)
           d == t[i]
           S == {t[j] : j \in 1..Len(t)}
           files == Beside(m, split)
<1>1. /\ d \in DriveType /\ d.file[2] = ".vmdk"
      /\ \A j \in 1..Len(t) : t[j].file = d.file => j = i
  BY DisksHavePlaces
<1>2. d.sectors \in Nat
  BY <1>1 DEF DriveType
<1>3. d \in S /\ \A e \in S : e.file = d.file => e = d
  BY <1>1
<1>4. d.file \in DOMAIN files /\ files[d.file] = DescriptorOf(d, split)
  <2>1. (CHOOSE e \in S : e.file = d.file) = d
    <3> HIDE DEF d, S
    <3> QED BY <1>3
  <2> QED BY <2>1 DEF Beside
<1>5. d \in Elements(t)
  BY DEF Elements
<1>6. Lower(".vmdk") = ".vmdk"
  BY LowerCaseWords DEF LowerCase
<1> DEFINE info == inspect_vmdk(DescriptorOf(d, split))
<1> HIDE DEF files
<1>7. CASE split = "binary"
  <2>1. DescriptorOf(d, split).binary
    BY <1>7 DEF DescriptorOf
  <2>2. info.error = "ValueError"
    <3> HIDE DEF d
    <3> QED BY <2>1 DEF inspect_vmdk, NotADescriptor
  <2>3. InspectedDisk(files, d.file).size_bytes = 0
    <3> HIDE DEF info, d
    <3>1. inspect_vmdk(files[d.file]).error # ""
      BY <1>4, <2>2 DEF info
    <3> QED BY <3>1 DEF InspectedDisk
  <2> QED BY <1>7, <2>3 DEF SizeIs, files
<1>8. CASE split # "binary"
  <2>1. /\ split \in {"one", "two"}
        /\ split = "one" => d.sectors \in NUMBERS
        /\ split = "two" => d.sectors \div 2 \in NUMBERS /\ d.sectors % 2 = 0
    BY <1>5, <1>8 DEF VmxNumbers, VmxIsExact
  <2>2. info.error = "" /\ info.size_bytes = d.sectors * SECTOR_SIZE
    <3> HIDE DEF d
    <3>1. ASSUME NEW e, NEW r \in {"one", "two"}, e.sectors \in Nat,
                 r = "one" => e.sectors \in NUMBERS,
                 r = "two" => e.sectors \div 2 \in NUMBERS /\ e.sectors % 2 = 0
          PROVE  inspect_vmdk(DescriptorOf(e, r)).error = ""
                 /\ inspect_vmdk(DescriptorOf(e, r)).size_bytes = e.sectors * SECTOR_SIZE
      BY <3>1, DescriptorIsRead
    <3> QED BY <1>2, <2>1, <3>1
  <2>3. InspectedDisk(files, d.file) = info
    <3> HIDE DEF d
    <3> QED BY <1>1, <1>4, <1>6, <2>2 DEF InspectedDisk
  <2> HIDE DEF info
  <2> QED BY <1>8, <2>2, <2>3 DEF SizeIs, files
<1> QED BY <1>7, <1>8

\* NICs in a row, as a parser returns them: in order, with their addresses.
ReadsNics(nics, m) ==
  /\ nics \in Seq(Elements(nics)) /\ Len(nics) = Len(m.nics)
  /\ \A i \in 1..Len(nics) : nics[i].mac_address = m.nics[i].mac

LEMMA NicFields ==
  ASSUME NEW nic, NEW dev, NEW mac, nic = [virtual_dev |-> dev, mac_address |-> mac]
  PROVE  nic.mac_address = mac
  OBVIOUS

\* _extract_nics finds every NIC, with its address, fixed or generated.
LEMMA NicsAreExtracted ==
  ASSUME NEW m, IsMachine(m), NEW style \in VmxStyles, NEW entries, AreEntries(entries, m, style)
  PROVE  ReadsNics(_extract_nics(entries), m)
<1> DEFINE s == [k \in 1..10 |-> k - 1]
           wanted == {k \in 0..9 : IsPresent(entries, "ethernet", k, NoUnit)}
           n == Len(m.nics)
           h == [i \in 1..n |-> i]
           present == Only(s, wanted)
           nics == _extract_nics(entries)
           Dev(i) == Word(entries, "ethernet", present[i], NoUnit, "virtualdev", "e1000")
<1>1. nics = [i \in 1..Len(present) |-> [virtual_dev |-> Dev(i), mac_address |-> MacAddress(entries, present[i])]]
  BY DEF _extract_nics
<1>2. n \in 0..10 /\ n \in Nat
  BY MachineIs
<1>3. s \in Seq(Nat) /\ Len(s) = 10 /\ \A k \in 1..10 : s[k] = k - 1
  OBVIOUS
<1>4. \A k \in 1..10 : s[k] \in wanted <=> IsPresent(entries, "ethernet", k - 1, NoUnit)
  BY <1>3
<1>5. \A i \in 1..n : i \in 1..10
  <2> HIDE DEF n
  <2> QED BY <1>2
<1>6. \A i \in 1..n : IsPresent(entries, "ethernet", i - 1, NoUnit) /\ MacAddress(entries, i - 1) = m.nics[i].mac
  <2>1. ASSUME NEW i \in 1..n, NEW k, k = i - 1
        PROVE  IsPresent(entries, "ethernet", k, NoUnit) /\ MacAddress(entries, k) = m.nics[i].mac
    BY <2>1, NicEntries
  <2> QED BY <2>1
<1>7. \A k \in 1..10 : IsPresent(entries, "ethernet", k - 1, NoUnit) => k \in 1..n
  <2>1. ASSUME NEW k \in 1..10, NEW j, j = k - 1, IsPresent(entries, "ethernet", j, NoUnit) PROVE k \in 1..n
    <3>1. \E i \in 1..n : i - 1 = j
      BY <2>1, NoOtherNic
    <3> QED BY <2>1, <3>1
  <2> QED BY <2>1
<1>8. Picks(h, n, s, wanted)
  <2> HIDE DEF s, wanted, n
  <2>1. h \in [1..n -> 1..Len(s)] /\ Rising(h, n)
    BY <1>2, <1>3, <1>5 DEF Rising
  <2>2. \A i \in 1..n : h[i] = i
    OBVIOUS
  <2> HIDE DEF h
  <2>3. \A i \in 1..n : s[h[i]] \in wanted
    BY <1>4, <1>5, <1>6, <2>2
  <2>4. \A k \in 1..Len(s) : s[k] \in wanted => \E i \in 1..n : h[i] = k
    BY <1>3, <1>4, <1>7, <2>2
  <2> QED BY <2>1, <2>3, <2>4 DEF Picks
<1>9. Len(present) = n /\ \A i \in 1..n : present[i] = i - 1
  <2>1. \A i \in 1..n : h[i] = i
    OBVIOUS
  <2> HIDE DEF s, wanted, n, h
  <2>2. IsPicked(Only(s, wanted), h, n, s)
    BY <1>2, <1>3, <1>8, OnlyIs
  <2> QED BY <1>3, <1>5, <2>1, <2>2 DEF IsPicked
<1> HIDE DEF present, nics, s, wanted, h
<1>10. nics \in Seq(Elements(nics)) /\ Len(nics) = n
  <2> HIDE DEF n, Dev
  <2>1. DOMAIN nics = 1..n /\ nics = [i \in 1..n |-> nics[i]]
    BY <1>1, <1>9
  <2> QED BY <1>2, <2>1, FunctionIsList
<1>11. ASSUME NEW i \in 1..n PROVE nics[i].mac_address = m.nics[i].mac
  <2> DEFINE nic == nics[i]
             dev == Dev(i)
             mac == MacAddress(entries, present[i])
  <2>1. nic = [virtual_dev |-> dev, mac_address |-> mac]
    BY <1>1, <1>9
  <2>2. mac = m.nics[i].mac
    BY <1>6, <1>9
  <2> HIDE DEF nic, dev, mac
  <2>3. nic.mac_address = mac
    BY <2>1, NicFields
  <2> QED BY <2>2, <2>3 DEF nic
<1> QED BY <1>10, <1>11 DEF ReadsNics, nics

\* What both parsers return, for a machine and the disks t of it that they look for.
ReadsMachine(v, m, t) ==
  /\ v.name = m.name /\ v.memory_mb = m.memory /\ v.vcpus = m.vcpus
  /\ v.firmware = (IF m.efi THEN "efi" ELSE "bios")
  /\ ReadsDisks(v.disks, t) /\ ReadsNics(v.nics, m)

\* parse_vmx_file returns the machine.
LEMMA VmxIsRead ==
  ASSUME NEW m, IsMachine(m), NEW style \in VmxStyles, m.memory \in NUMBERS, m.vcpus \in NUMBERS,
         NEW files, NEW v, v = parse_vmx_file(VmxOf(m, style), files), v.error = ""
  PROVE  /\ ReadsMachine(v, m, ScannedDisks(m)) /\ v.guest_os = m.guest.vmx
         /\ \A i \in 1..Len(ScannedDisks(m)) :
              v.disks[i].size_bytes = InspectedDisk(files, ScannedDisks(m)[i].file).size_bytes
<1> DEFINE entries == parse_vmx_keyvalues(VmxOf(m, style))
           name == Setting(entries, "displayname", "")
           guest_os == Setting(entries, "guestos", "")
           memsize == Setting(entries, "memsize", "1024")
           numvcpus == Setting(entries, "numvcpus", "1")
           version == Setting(entries, "virtualhw.version", "0")
           memory_mb == NUMERALS[memsize]
           vcpus == NUMERALS[numvcpus]
           firmware == IF Lower(Setting(entries, "firmware", "bios")) = "efi" THEN "efi" ELSE "bios"
           controller == _extract_scsi_controller(entries)
           disks == _extract_disks(entries, files)
           nics == _extract_nics(entries)
<1>1. AreEntries(entries, m, style)
  BY EntriesAre
<1>2. v = IF name = "" \/ \E w \in {memsize, numvcpus, version} : ~IsInt(w)
          THEN NotAVmx
          ELSE [name |-> name, guest_os |-> guest_os, memory_mb |-> memory_mb, vcpus |-> vcpus,
                firmware |-> firmware, scsi_controller |-> controller, disks |-> disks, nics |-> nics, error |-> ""]
  BY DEF parse_vmx_file
<1> HIDE DEF entries
<1>3. /\ name = m.name /\ guest_os = m.guest.vmx /\ memsize = ToString(m.memory) /\ numvcpus = ToString(m.vcpus)
      /\ Setting(entries, "firmware", "bios") = IF m.efi THEN "EFI" ELSE "bios"
  BY <1>1, SettingsAre
<1>4. memory_mb = m.memory /\ vcpus = m.vcpus
  <2>1. NUMERALS[ToString(m.memory)] = m.memory /\ NUMERALS[ToString(m.vcpus)] = m.vcpus
    BY Numeral
  <2> QED BY <1>3, <2>1
<1>5. firmware = (IF m.efi THEN "efi" ELSE "bios")
  <2>1. Lower("EFI") = "efi" /\ Lower("bios") = "bios"
    BY LowerWords, LowerCaseWords DEF LowerCase
  <2> QED BY <1>3, <2>1
<1>6. /\ ReadsDisks(disks, ScannedDisks(m)) /\ ReadsNics(nics, m)
      /\ \A i \in 1..Len(ScannedDisks(m)) : disks[i].size_bytes = InspectedDisk(files, ScannedDisks(m)[i].file).size_bytes
  BY <1>1, DisksAreExtracted, NicsAreExtracted
<1> HIDE DEF name, guest_os, memsize, numvcpus, version, memory_mb, vcpus, firmware, controller, disks, nics
<1>7. NotAVmx.error # ""
  BY DEF NotAVmx
<1>8. v = [name |-> name, guest_os |-> guest_os, memory_mb |-> memory_mb, vcpus |-> vcpus,
           firmware |-> firmware, scsi_controller |-> controller, disks |-> disks, nics |-> nics, error |-> ""]
  BY <1>2, <1>7
<1>9. /\ v.name = name /\ v.guest_os = guest_os /\ v.memory_mb = memory_mb /\ v.vcpus = vcpus
      /\ v.firmware = firmware /\ v.disks = disks /\ v.nics = nics
  BY ONLY <1>8
<1> QED BY <1>3, <1>4, <1>5, <1>6, <1>9 DEF ReadsMachine

\* And it does not refuse a machine that has a name.
LEMMA VmxIsAccepted ==
  ASSUME NEW m, IsMachine(m), NEW style \in VmxStyles, m.memory \in NUMBERS, m.vcpus \in NUMBERS, m.name # "",
         NEW files
  PROVE  parse_vmx_file(VmxOf(m, style), files).error = ""
<1> DEFINE entries == parse_vmx_keyvalues(VmxOf(m, style))
           name == Setting(entries, "displayname", "")
           memsize == Setting(entries, "memsize", "1024")
           numvcpus == Setting(entries, "numvcpus", "1")
           version == Setting(entries, "virtualhw.version", "0")
           wrong == name = "" \/ \E w \in {memsize, numvcpus, version} : ~IsInt(w)
<1>1. AreEntries(entries, m, style)
  BY EntriesAre
<1>2. wrong \/ parse_vmx_file(VmxOf(m, style), files).error = ""
  BY DEF parse_vmx_file
<1> HIDE DEF entries
<1>3. name = m.name /\ memsize = ToString(m.memory) /\ numvcpus = ToString(m.vcpus) /\ version = "0"
  BY <1>1, SettingsAre, NoVersion
<1>4. IsInt(ToString(m.memory)) /\ IsInt(ToString(m.vcpus))
  BY Numeral
<1>5. IsInt("0")
  BY Numeral, NumbersAssumption
<1>6. ~wrong
  <2> HIDE DEF name, memsize, numvcpus, version
  <2> QED BY <1>3, <1>4, <1>5
<1> QED BY <1>2, <1>6

-----------------------------------------------------------------------------
(* The loop over the hardware section of an OVF descriptor.                *)

IsHardware(run, items, n) ==
  run = [k \in 0..n |-> IF k = 0 THEN Collected ELSE WithItem(run[k - 1], items[k])]

\* _parse_hardware has a run.
LEMMA HardwareLoop ==
  ASSUME NEW items, NEW L, L \in Nat, Len(items) = L
  PROVE  \E run : IsHardware(run, items, L) /\ _parse_hardware(items) = run[L]
<1> DEFINE Bad == {n \in 0..L : ~\E run : IsHardware(run, items, n)}
           Body(f) == [k \in 0..L |-> IF k = 0 THEN Collected ELSE WithItem(f[k - 1], items[k])]
           loop == CHOOSE f : f = Body(f)
<1>1. Bad = {}
  <2>1. SUFFICES ASSUME Bad # {} PROVE FALSE
    OBVIOUS
  <2>2. PICK n \in Bad : \A j \in Bad : n <= j
    <3>1. Bad \in SUBSET Nat
      OBVIOUS
    <3> HIDE DEF Bad
    <3> QED BY <2>1, <3>1, LeastNumber
  <2>3. n # 0
    <3> DEFINE r == [k \in 0..0 |-> Collected]
    <3>1. r = [k \in 0..0 |-> IF k = 0 THEN Collected ELSE WithItem(r[k - 1], items[k])]
      OBVIOUS
    <3> HIDE DEF r
    <3>2. IsHardware(r, items, 0)
      BY <3>1 DEF IsHardware
    <3> QED BY <2>2, <3>2
  <2>4. n \in 1..L /\ n - 1 \in 0..L /\ ~(n <= n - 1)
    BY <2>2, <2>3
  <2>5. PICK run : IsHardware(run, items, n - 1)
    BY <2>2, <2>4
  <2> DEFINE next == [k \in 0..n |-> IF k = n THEN WithItem(run[n - 1], items[n]) ELSE run[k]]
  <2>6. run = [k \in 0..(n - 1) |-> IF k = 0 THEN Collected ELSE WithItem(run[k - 1], items[k])]
    BY <2>5 DEF IsHardware
  <2>7. ASSUME NEW k \in 0..n
        PROVE  next[k] = IF k = 0 THEN Collected ELSE WithItem(next[k - 1], items[k])
    <3>1. CASE k = n
      <4>1. next[k] = WithItem(run[n - 1], items[n]) /\ k # 0 /\ n - 1 \in 0..n /\ n - 1 # n
        BY <2>4, <3>1
      <4>2. next[n - 1] = run[n - 1]
        BY <4>1
      <4> HIDE DEF next
      <4> QED BY <3>1, <4>1, <4>2
    <3>2. CASE k # n
      <4>1. k \in 0..(n - 1)
        BY <2>4, <3>2
      <4>2. next[k] = run[k]
        BY <3>2
      <4>3. run[k] = IF k = 0 THEN Collected ELSE WithItem(run[k - 1], items[k])
        BY <2>6, <4>1
      <4>4. k # 0 => next[k - 1] = run[k - 1]
        <5>1. k # 0 => k - 1 \in 0..n /\ k - 1 # n
          BY <2>4, <4>1
        <5> QED BY <5>1
      <4> HIDE DEF next
      <4> QED BY <4>2, <4>3, <4>4
    <3> QED BY <3>1, <3>2
  <2>8. DOMAIN next = 0..n /\ next = [k \in 0..n |-> next[k]]
    OBVIOUS
  <2> HIDE DEF next
  <2>9. next = [k \in 0..n |-> IF k = 0 THEN Collected ELSE WithItem(next[k - 1], items[k])]
    BY <2>7, <2>8
  <2>10. IsHardware(next, items, n)
    BY <2>9 DEF IsHardware
  <2> QED BY <2>2, <2>10
<1>2. \E f : f = Body(f)
  <2>1. L \in 0..L
    OBVIOUS
  <2>2. PICK run : IsHardware(run, items, L)
    BY <1>1, <2>1
  <2> QED BY <2>2 DEF IsHardware
<1>3. loop = Body(loop)
  BY <1>2
<1>4. _parse_hardware(items) = loop[L]
  BY DEF _parse_hardware
<1> HIDE DEF loop
<1> QED BY <1>3, <1>4 DEF IsHardware

\* What has been read of a hardware section.
Progress(got, vcpus, memory, drives, nics) ==
  /\ {"vcpus", "memory_mb", "scsi_controller", "nics", "drives", "error"} \subseteq DOMAIN got
  /\ got.vcpus = vcpus /\ got.memory_mb = memory /\ got.drives = drives /\ got.nics = nics
  /\ got.error = ""

\* What each kind of item adds.
LEMMA CpuIsRead ==
  ASSUME NEW got, NEW c, NEW mem, NEW d, NEW n, Progress(got, c, mem, d, n), NEW item, NEW k \in NUMBERS,
         item.tag = "Item", item.resource_type = "3", item.quantity = ToString(k)
  PROVE  Progress(WithItem(got, item), k, mem, d, n)
<1>1. IsInt(ToString(k)) /\ NUMERALS[ToString(k)] = k /\ ToString(k) # ""
  BY Numeral
<1>2. WithItem(got, item) = WithCpu(got, item)
  BY DEF WithItem, WithResource, RESOURCE_CPU, RESOURCE_MEMORY, RESOURCE_SCSI_CONTROLLER, RESOURCE_ETHERNET,
         RESOURCE_DISK_DRIVE
<1>3. WithCpu(got, item) = [got EXCEPT !.vcpus = NUMERALS[item.quantity]]
  BY <1>1 DEF WithCpu
<1>4. Progress([got EXCEPT !.vcpus = NUMERALS[item.quantity]], k, mem, d, n)
  BY <1>1 DEF Progress
<1> QED BY <1>2, <1>3, <1>4

LEMMA MemoryIsRead ==
  ASSUME NEW got, NEW c, NEW mem, NEW d, NEW n, Progress(got, c, mem, d, n), NEW item, NEW k \in NUMBERS,
         item.tag = "Item", item.resource_type = "4", item.quantity = ToString(k)
  PROVE  Progress(WithItem(got, item), c, _parse_memory(k, item.units), d, n)
<1>1. IsInt(ToString(k)) /\ NUMERALS[ToString(k)] = k /\ ToString(k) # ""
  BY Numeral
<1>2. WithItem(got, item) = WithMemory(got, item)
  BY DEF WithItem, WithResource, RESOURCE_CPU, RESOURCE_MEMORY, RESOURCE_SCSI_CONTROLLER, RESOURCE_ETHERNET,
         RESOURCE_DISK_DRIVE
<1>3. WithMemory(got, item) = [got EXCEPT !.memory_mb = _parse_memory(NUMERALS[item.quantity], item.units)]
  BY <1>1 DEF WithMemory
<1>4. Progress([got EXCEPT !.memory_mb = _parse_memory(NUMERALS[item.quantity], item.units)],
               c, _parse_memory(k, item.units), d, n)
  BY <1>1 DEF Progress
<1> QED BY <1>2, <1>3, <1>4

LEMMA ControllerIsRead ==
  ASSUME NEW got, NEW c, NEW mem, NEW d, NEW n, Progress(got, c, mem, d, n), NEW item,
         item.tag = "Item", item.resource_type = "6"
  PROVE  Progress(WithItem(got, item), c, mem, d, n)
<1>1. WithItem(got, item) = WithController(got, item)
  BY DEF WithItem, WithResource, RESOURCE_CPU, RESOURCE_MEMORY, RESOURCE_SCSI_CONTROLLER, RESOURCE_ETHERNET,
         RESOURCE_DISK_DRIVE
<1>2. WithController(got, item) \in {got, [got EXCEPT !.scsi_controller = Lower(item.sub_type)]}
  BY DEF WithController
<1>3. Progress([got EXCEPT !.scsi_controller = Lower(item.sub_type)], c, mem, d, n)
  BY DEF Progress
<1> QED BY <1>1, <1>2, <1>3

LEMMA DriveIsRead ==
  ASSUME NEW got, NEW c, NEW mem, NEW d, NEW n, Progress(got, c, mem, d, n), NEW item, NEW k \in NUMBERS,
         item.tag = "Item", item.resource_type = "17", item.address = ToString(k), item.host_resource # <<>>
  PROVE  Progress(WithItem(got, item), c, mem, Append(d, [host_resource |-> item.host_resource, unit |-> k]), n)
<1> DEFINE drive == [host_resource |-> item.host_resource, unit |-> k]
<1>1. IsInt(ToString(k)) /\ NUMERALS[ToString(k)] = k /\ ToString(k) # ""
  BY Numeral
<1>2. WithItem(got, item) = WithDrive(got, item)
  BY DEF WithItem, WithResource, RESOURCE_CPU, RESOURCE_MEMORY, RESOURCE_SCSI_CONTROLLER, RESOURCE_ETHERNET,
         RESOURCE_DISK_DRIVE
<1>3. WithDrive(got, item) = [got EXCEPT !.drives = Append(got.drives, drive)]
  BY <1>1 DEF WithDrive
<1> HIDE DEF drive
<1>4. Progress([got EXCEPT !.drives = Append(got.drives, drive)], c, mem, Append(d, drive), n)
  BY DEF Progress
<1> QED BY <1>2, <1>3, <1>4 DEF drive

LEMMA NicIsRead ==
  ASSUME NEW got, NEW c, NEW mem, NEW d, NEW n, Progress(got, c, mem, d, n), NEW item,
         item.tag = "EthernetPortItem" \/ (item.tag = "Item" /\ item.resource_type = "10")
  PROVE  Progress(WithItem(got, item), c, mem, d, Append(n, _parse_nic_item(item)))
<1> DEFINE nic == _parse_nic_item(item)
<1>1. WithItem(got, item) = WithNic(got, item)
  BY DEF WithItem, WithResource, RESOURCE_CPU, RESOURCE_MEMORY, RESOURCE_SCSI_CONTROLLER, RESOURCE_ETHERNET,
         RESOURCE_DISK_DRIVE
<1>2. WithNic(got, item) = [got EXCEPT !.nics = Append(got.nics, nic)]
  BY DEF WithNic
<1> HIDE DEF nic
<1>3. Progress([got EXCEPT !.nics = Append(got.nics, nic)], c, mem, d, Append(n, nic))
  BY DEF Progress
<1> QED BY <1>1, <1>2, <1>3 DEF nic

LEMMA CdromIsSkipped ==
  ASSUME NEW got, NEW item, item.tag = "Item", item.resource_type = "15"
  PROVE  WithItem(got, item) = got
  BY DEF WithItem, WithResource, RESOURCE_CPU, RESOURCE_MEMORY, RESOURCE_SCSI_CONTROLLER, RESOURCE_ETHERNET,
         RESOURCE_DISK_DRIVE

-----------------------------------------------------------------------------
(* The items of a hardware section.                                        *)

MemoryUnits(style) == IF ~style.giga THEN "MegaBytes" ELSE IF style.ns = "v2" THEN "byte*2^30" ELSE "GigaBytes"

CpuItem(m) == [AnItem EXCEPT !.resource_type = "3", !.quantity = ToString(m.vcpus)]

MemoryItem(m, style) ==
  [AnItem EXCEPT !.resource_type = "4", !.quantity = ToString(MemoryOf(m, style)), !.units = MemoryUnits(style)]

ControllerItem(m) == [AnItem EXCEPT !.resource_type = "6", !.instance_id = "3", !.sub_type = m.controller.ovf]

CdromItem == [AnItem EXCEPT !.resource_type = "15", !.text = "cdrom"]

\* The fields of the items.
LEMMA CpuFields ==
  ASSUME NEW m, NEW item, item = CpuItem(m)
  PROVE  item.tag = "Item" /\ item.resource_type = "3" /\ item.quantity = ToString(m.vcpus) /\ item.text = ""
  BY DEF CpuItem, AnItem

LEMMA MemoryFields ==
  ASSUME NEW m, NEW style, NEW item, item = MemoryItem(m, style)
  PROVE  /\ item.tag = "Item" /\ item.resource_type = "4" /\ item.quantity = ToString(MemoryOf(m, style))
         /\ item.units = MemoryUnits(style) /\ item.text = ""
  BY DEF MemoryItem, AnItem

LEMMA ControllerFields ==
  ASSUME NEW m, NEW item, item = ControllerItem(m)
  PROVE  item.tag = "Item" /\ item.resource_type = "6" /\ item.text = ""
  BY DEF ControllerItem, AnItem

LEMMA CdromFields == CdromItem.tag = "Item" /\ CdromItem.resource_type = "15" /\ CdromItem.text = "cdrom"
  BY DEF CdromItem, AnItem

LEMMA NicItemFields ==
  ASSUME NEW nic, NEW style, NEW item, item = NicItem(nic, style)
  PROVE  /\ item.tag = (IF style.ns = "v2" THEN "EthernetPortItem" ELSE "Item")
         /\ item.resource_type = "10" /\ item.text = "adapter"
         /\ item.mac_config = "" /\ item.mac_address = nic.mac
  BY DEF NicItem, AnItem

AreItems(items, m, style) ==
  /\ Len(items) = 4 + Len(DisksOf(m)) + Len(m.nics)
  /\ items[1] = CpuItem(m) /\ items[2] = MemoryItem(m, style) /\ items[3] = ControllerItem(m)
  /\ \A i \in 1..Len(DisksOf(m)) : items[3 + i] = DriveItem(i, DisksOf(m)[i], style)
  /\ \A i \in 1..Len(m.nics) : items[3 + Len(DisksOf(m)) + i] = NicItem(m.nics[i], style)
  /\ items[4 + Len(DisksOf(m)) + Len(m.nics)] = CdromItem

\* Where the elements of two joined lists are.
LEMMA TwoLists ==
  ASSUME NEW S, NEW s \in Seq(S), NEW t \in Seq(S)
  PROVE  /\ s \o t \in Seq(S) /\ Len(s \o t) = Len(s) + Len(t) /\ \A k \in 1..Len(s) : (s \o t)[k] = s[k]
         /\ \A k \in 1..Len(t) : (s \o t)[Len(s) + k] = t[k]
<1>1. s \o t \in Seq(S) /\ Len(s \o t) = Len(s) + Len(t) /\ \A k \in 1..Len(s) : (s \o t)[k] = s[k]
  OBVIOUS
<1>2. \A k \in 1..Len(t) : (s \o t)[Len(s) + k] = t[k]
  OBVIOUS
<1> QED BY <1>1, <1>2

\* Which item is where.
LEMMA ItemsAre ==
  ASSUME NEW m, IsMachine(m), NEW style
  PROVE  AreItems(Items(m, style), m, style)
<1> DEFINE D == Len(DisksOf(m))
           N == Len(m.nics)
           a == CpuItem(m)
           b == MemoryItem(m, style)
           c == ControllerItem(m)
           x == CdromItem
           s == <<a, b, c>>
           t == [i \in 1..D |-> DriveItem(i, DisksOf(m)[i], style)]
           u == [i \in 1..N |-> NicItem(m.nics[i], style)]
           w == <<x>>
           S == {s[k] : k \in 1..3} \cup {t[k] : k \in 1..D} \cup {u[k] : k \in 1..N} \cup {x}
           L == s \o t \o u
<1>1. Items(m, style) = L \o w
  BY DEF Items, CpuItem, MemoryItem, ControllerItem, CdromItem, MemoryUnits
<1>2. D \in Nat /\ N \in Nat
  <2>1. DisksOf(m) \in Seq(DriveType) /\ m.nics \in Seq(NicType)
    BY DisksHavePlaces, MachineIs
  <2> QED BY <2>1
<1>3. /\ \A i \in 1..D : t[i] = DriveItem(i, DisksOf(m)[i], style)
      /\ \A i \in 1..N : u[i] = NicItem(m.nics[i], style)
  OBVIOUS
<1>4. DOMAIN t = 1..D /\ DOMAIN u = 1..N /\ t = [k \in 1..D |-> t[k]] /\ u = [k \in 1..N |-> u[k]]
  OBVIOUS
<1> HIDE DEF a, b, c, x, D, N, t, u
<1>5. Len(s) = 3 /\ s[1] = a /\ s[2] = b /\ s[3] = c /\ Len(w) = 1 /\ w[1] = x
  OBVIOUS
<1>6. s \in Seq(S) /\ w \in Seq(S) /\ t \in Seq(S) /\ u \in Seq(S) /\ Len(t) = D /\ Len(u) = N
  <2>1. a \in S /\ b \in S /\ c \in S /\ x \in S
    <3>1. 1 \in 1..3 /\ 2 \in 1..3 /\ 3 \in 1..3
      OBVIOUS
    <3> HIDE DEF s
    <3> QED BY <1>5, <3>1
  <2>2. t \in [1..D -> S] /\ u \in [1..N -> S]
    BY <1>4
  <2> HIDE DEF S
  <2>3. s \in Seq(S) /\ w \in Seq(S)
    BY <2>1
  <2> QED BY <1>2, <2>2, <2>3, FunctionIsSequence
<1> HIDE DEF s, w, S
<1>7. L \in Seq(S) /\ AreJoined(L, s, t, u)
  BY <1>6, JoinedLists
<1>8. /\ L \in Seq(S) /\ Len(L) = 3 + D + N /\ L[1] = a /\ L[2] = b /\ L[3] = c
      /\ \A k \in 1..D : L[3 + k] = t[k]
      /\ \A k \in 1..N : L[3 + D + k] = u[k]
  BY <1>5, <1>6, <1>7 DEF AreJoined
<1> HIDE DEF L
<1> DEFINE I == L \o w
<1>9. /\ Len(I) = 4 + D + N /\ \A k \in 1..(3 + D + N) : I[k] = L[k]
      /\ I[4 + D + N] = x
  <2>0. L \in Seq(S) /\ w \in Seq(S) /\ 1 \in 1..1
    BY <1>6, <1>8
  <2>1. Len(I) = Len(L) + Len(w) /\ \A k \in 1..Len(L) : I[k] = L[k]
    BY <2>0, TwoLists
  <2>2. I[Len(L) + 1] = w[1]
    <3>1. \A k \in 1..Len(w) : I[Len(L) + k] = w[k]
      BY <2>0, TwoLists
    <3> QED BY <1>5, <2>0, <3>1
  <2>3. 4 + D + N = Len(L) + 1
    BY <1>2, <1>8
  <2> QED BY <1>2, <1>5, <1>8, <2>1, <2>2, <2>3
<1> HIDE DEF I
<1>10. /\ 1 \in 1..(3 + D + N) /\ 2 \in 1..(3 + D + N) /\ 3 \in 1..(3 + D + N)
       /\ \A k \in 1..D : 3 + k \in 1..(3 + D + N)
       /\ \A k \in 1..N : 3 + D + k \in 1..(3 + D + N)
  BY <1>2
<1>11. AreItems(I, m, style)
  BY <1>3, <1>8, <1>9, <1>10 DEF AreItems, a, b, c, x, D, N
<1> QED BY <1>1, <1>11 DEF I

-----------------------------------------------------------------------------
(* What the loop over the hardware section collects.                       *)

\* Memory is read in megabytes, whichever unit it was written in.
LEMMA MemoryIs ==
  ASSUME NEW m, m.memory \in Nat, NEW style \in OvfStyles, OvfIsExact(m, style)
  PROVE  _parse_memory(MemoryOf(m, style), MemoryUnits(style)) = m.memory
<1> DEFINE units == Lower(MemoryUnits(style))
           value == MemoryOf(m, style)
<1>1. style.giga \in BOOLEAN /\ style.ns \in {"v1", "v2"}
  BY DEF OvfStyles
<1>2. Lower("MegaBytes") = "megabytes" /\ Lower("GigaBytes") = "gigabytes" /\ Lower("byte*2^30") = "byte*2^30"
  BY LowerWords, LowerCaseWords DEF LowerCase
<1>3. CASE style.giga
  <2>1. units \in {"gigabytes", "byte*2^30"}
    BY <1>2, <1>3 DEF MemoryUnits
  <2>2. value * Kilo = m.memory
    BY <1>3 DEF MemoryOf, OvfIsExact, Kilo
  <2> HIDE DEF units, value
  <2>3. \A v, u : Lower(u) \in {"gigabytes", "byte*2^30"} => _parse_memory(v, u) = v * Kilo
    BY DEF _parse_memory
  <2> QED BY <2>1, <2>2, <2>3 DEF units, value
<1>4. CASE ~style.giga
  <2>1. units = "megabytes" /\ value = m.memory
    BY <1>2, <1>4 DEF MemoryUnits, MemoryOf
  <2>2. \A v, u : Lower(u) = "megabytes" => _parse_memory(v, u) = v
    BY DEF _parse_memory
  <2> QED BY <2>1, <2>2
<1> QED BY <1>3, <1>4

Prefix(f, n) == [i \in 1..n |-> f[i]]

\* Disk by disk and NIC by NIC.
LEMMA PrefixGrows ==
  ASSUME NEW f, NEW n \in Nat
  PROVE  Append(Prefix(f, n), f[n + 1]) = Prefix(f, n + 1)
<1> DEFINE s == Prefix(f, n)
           t == Append(s, f[n + 1])
           S == {f[i] : i \in 1..n} \cup {f[n + 1]}
<1>1. s \in [1..n -> S]
  BY DEF Prefix
<1>2. s \in Seq(S) /\ Len(s) = n /\ f[n + 1] \in S
  <2>1. f[n + 1] \in S
    OBVIOUS
  <2> HIDE DEF s, S
  <2> QED BY <1>1, <2>1, FunctionIsSequence
<1>3. \A i \in 1..n : s[i] = f[i]
  BY DEF Prefix
<1> HIDE DEF s, S
<1>4. t \in Seq(S) /\ Len(t) = n + 1 /\ t[n + 1] = f[n + 1] /\ \A i \in 1..n : t[i] = f[i]
  BY <1>2, <1>3
<1> HIDE DEF t
<1>5. DOMAIN t = 1..(n + 1) /\ t = [i \in DOMAIN t |-> t[i]]
  BY <1>4
<1>6. \A i \in 1..(n + 1) : t[i] = f[i]
  <2>1. \A i \in 1..(n + 1) : i \in 1..n \/ i = n + 1
    OBVIOUS
  <2> QED BY <1>4, <2>1
<1>7. t = [i \in 1..(n + 1) |-> f[i]]
  BY <1>5, <1>6
<1> QED BY <1>7 DEF t, s, Prefix

LEMMA PrefixOfNone ==
  ASSUME NEW f
  PROVE  Prefix(f, 0) = <<>>
  BY DEF Prefix

DrivesOf(m, style) ==
  [i \in 1..Len(DisksOf(m)) |-> [host_resource |-> DriveItem(i, DisksOf(m)[i], style).host_resource,
                                 unit |-> DisksOf(m)[i].unit]]

NicsOf(m, style) == [i \in 1..Len(m.nics) |-> _parse_nic_item(NicItem(m.nics[i], style))]

\* Item by item, the whole section is collected.
LEMMA SectionIsRead ==
  ASSUME NEW m, IsMachine(m), NEW style \in OvfStyles, OvfNumbers(m, style) \subseteq NUMBERS, OvfIsExact(m, style)
  PROVE  Progress(_parse_hardware(Items(m, style)), m.vcpus, m.memory, DrivesOf(m, style), NicsOf(m, style))
<1> DEFINE items == Items(m, style)
           t == DisksOf(m)
           D == Len(t)
           N == Len(m.nics)
           d == DrivesOf(m, style)
           n == NicsOf(m, style)
           c == m.vcpus
           mem == m.memory
<1>1. t \in Seq(DriveType) /\ m.nics \in Seq(NicType) /\ m.memory \in Nat
  BY DisksHavePlaces, MachineIs
<1>2. D \in Nat /\ N \in Nat
  BY <1>1
<1> HIDE DEF D, N
<1>3. /\ c \in NUMBERS /\ MemoryOf(m, style) \in NUMBERS
      /\ \A i \in 1..D : t[i].unit \in NUMBERS
  <2>1. \A i \in 1..D : t[i] \in Elements(t)
    BY ElementsAre DEF D
  <2> QED BY <2>1 DEF OvfNumbers
<1>4. AreItems(items, m, style)
  BY ItemsAre
<1>5. /\ \A i \in 1..D : d[i] = [host_resource |-> DriveItem(i, t[i], style).host_resource, unit |-> t[i].unit]
      /\ \A i \in 1..N : n[i] = _parse_nic_item(NicItem(m.nics[i], style))
      /\ d = Prefix(d, D) /\ n = Prefix(n, N)
  <2>1. \A i \in 1..D : d[i] = [host_resource |-> DriveItem(i, t[i], style).host_resource, unit |-> t[i].unit]
    BY DEF DrivesOf, D, N
  <2>2. \A i \in 1..N : n[i] = _parse_nic_item(NicItem(m.nics[i], style))
    BY DEF NicsOf, D, N
  <2>3. d = Prefix(d, D)
    BY DEF DrivesOf, Prefix, D, N
  <2>4. n = Prefix(n, N)
    BY DEF NicsOf, Prefix, D, N
  <2> QED BY <2>1, <2>2, <2>3, <2>4
<1> HIDE DEF items, d, n
<1> DEFINE L == 4 + D + N
<1>6. Len(items) = L /\ L \in Nat /\ L = 4 + D + N
  <2>1. Len(items) = 4 + D + N
    BY <1>4 DEF AreItems, D, N
  <2> QED BY <1>2, <2>1
<1> HIDE DEF L
<1>7. PICK run : IsHardware(run, items, L) /\ _parse_hardware(items) = run[L]
  BY <1>6, HardwareLoop
<1>8. run[0] = Collected /\ \A k \in 1..L : run[k] = WithItem(run[k - 1], items[k])
  <2>1. run = [k \in 0..L |-> IF k = 0 THEN Collected ELSE WithItem(run[k - 1], items[k])]
    BY <1>7 DEF IsHardware
  <2>2. 0 \in 0..L /\ \A k \in 1..L : k \in 0..L /\ k # 0
    BY <1>6
  <2> QED BY <2>1, <2>2
<1>9. /\ items[1] = CpuItem(m) /\ items[2] = MemoryItem(m, style) /\ items[3] = ControllerItem(m)
      /\ \A i \in 1..D : items[3 + i] = DriveItem(i, t[i], style)
      /\ \A i \in 1..N : items[3 + D + i] = NicItem(m.nics[i], style)
      /\ items[4 + D + N] = CdromItem
  BY <1>4 DEF AreItems, D, N
<1>10. Progress(run[3], c, mem, <<>>, <<>>)
  <2> DEFINE r0 == run[0]
             r1 == run[1]
             r2 == run[2]
             r3 == run[3]
  <2>1. /\ r1 = WithItem(r0, CpuItem(m)) /\ r2 = WithItem(r1, MemoryItem(m, style))
        /\ r3 = WithItem(r2, ControllerItem(m))
    <3>1. 1 \in 1..L /\ 2 \in 1..L /\ 3 \in 1..L
      BY <1>2, <1>6
    <3> QED BY <1>8, <1>9, <3>1
  <2>2. Progress(r0, 1, 1024, <<>>, <<>>)
    <3>1. r0 = Collected
      BY <1>8
    <3> HIDE DEF r0
    <3> QED BY ONLY <3>1 DEF Progress, Collected
  <2> HIDE DEF r0, r1, r2, r3
  <2>3. Progress(r1, c, 1024, <<>>, <<>>)
    <3> DEFINE item == CpuItem(m)
    <3>1. item.tag = "Item" /\ item.resource_type = "3" /\ item.quantity = ToString(c)
      BY CpuFields
    <3> HIDE DEF item, c
    <3>2. Progress(WithItem(r0, item), c, 1024, <<>>, <<>>)
      BY <1>3, <2>2, <3>1, CpuIsRead
    <3> QED BY <2>1, <3>2 DEF item
  <2>4. Progress(r2, c, mem, <<>>, <<>>)
    <3> DEFINE item == MemoryItem(m, style)
               k == MemoryOf(m, style)
    <3>1. /\ item.tag = "Item" /\ item.resource_type = "4" /\ item.quantity = ToString(k)
          /\ item.units = MemoryUnits(style)
      BY MemoryFields
    <3>2. k \in NUMBERS /\ _parse_memory(k, MemoryUnits(style)) = mem
      BY <1>1, <1>3, MemoryIs
    <3> HIDE DEF item, k, c, mem
    <3>3. Progress(WithItem(r1, item), c, _parse_memory(k, item.units), <<>>, <<>>)
      BY <2>3, <3>1, <3>2, MemoryIsRead
    <3> QED BY <2>1, <3>1, <3>2, <3>3 DEF item
  <2>5. Progress(r3, c, mem, <<>>, <<>>)
    <3> DEFINE item == ControllerItem(m)
    <3>1. item.tag = "Item" /\ item.resource_type = "6"
      BY ControllerFields
    <3> HIDE DEF item, c, mem
    <3>2. Progress(WithItem(r2, item), c, mem, <<>>, <<>>)
      BY <2>4, <3>1, ControllerIsRead
    <3> QED BY <2>1, <3>2 DEF item
  <2> QED BY <2>5 DEF r3
<1>11. \A k \in 0..D : Progress(run[3 + k], c, mem, Prefix(d, k), <<>>)
  <2> DEFINE Bad == {k \in 0..D : ~Progress(run[3 + k], c, mem, Prefix(d, k), <<>>)}
  <2>1. SUFFICES ASSUME Bad # {} PROVE FALSE
    OBVIOUS
  <2>2. PICK k \in Bad : \A j \in Bad : k <= j
    <3>1. Bad \in SUBSET Nat
      OBVIOUS
    <3> HIDE DEF Bad
    <3> QED BY <2>1, <3>1, LeastNumber
  <2>3. k # 0
    <3>1. Prefix(d, 0) = <<>> /\ 3 + 0 = 3
      BY PrefixOfNone
    <3> QED BY <1>10, <2>2, <3>1
  <2>4. k \in 1..D /\ k - 1 \in 0..D /\ ~(k <= k - 1)
    BY <1>2, <2>2, <2>3
  <2> DEFINE got == run[3 + (k - 1)]
             p == Prefix(d, k - 1)
             item == DriveItem(k, t[k], style)
             unit == t[k].unit
  <2>5. Progress(got, c, mem, p, <<>>)
    BY <2>2, <2>4
  <2>6. run[3 + k] = WithItem(got, item)
    <3>1. 3 + k \in 1..L /\ (3 + k) - 1 = 3 + (k - 1)
      BY <1>2, <1>6, <2>4
    <3> QED BY <1>8, <1>9, <2>4, <3>1
  <2>7. /\ item.tag = "Item" /\ item.resource_type = "17" /\ item.address = ToString(unit)
        /\ item.host_resource # <<>> /\ unit \in NUMBERS
    <3> DEFINE disk == t[k]
    <3>1. item = DriveItem(k, disk, style) /\ unit = disk.unit
      OBVIOUS
    <3>2. unit \in NUMBERS
      BY <1>3, <2>4
    <3> HIDE DEF item, disk, unit
    <3>3. item.tag = "Item" /\ item.resource_type = "17" /\ item.address = ToString(unit)
      BY ONLY <3>1 DEF DriveItem, AnItem
    <3>4. item.host_resource = IF style.short THEN <<ToString(k)>> ELSE <<"ovf:", "disk", ToString(k)>>
      BY ONLY <3>1 DEF DriveItem, AnItem
    <3>5. item.host_resource # <<>>
      BY ONLY <3>4
    <3> QED BY <3>2, <3>3, <3>5
  <2>8. d[k] = [host_resource |-> item.host_resource, unit |-> unit]
    BY <1>5, <2>4
  <2>9. Append(p, d[k]) = Prefix(d, k)
    <3>1. k - 1 \in Nat /\ (k - 1) + 1 = k
      BY <2>4
    <3>2. Append(p, d[(k - 1) + 1]) = Prefix(d, (k - 1) + 1)
      BY <3>1, PrefixGrows
    <3> QED BY <3>1, <3>2
  <2> HIDE DEF got, p, item, unit, c, mem
  <2>10. Progress(WithItem(got, item), c, mem, Append(p, [host_resource |-> item.host_resource, unit |-> unit]), <<>>)
    BY <2>5, <2>7, DriveIsRead
  <2>11. Progress(run[3 + k], c, mem, Prefix(d, k), <<>>)
    BY <2>6, <2>8, <2>9, <2>10
  <2> QED BY <2>2, <2>11
<1>12. \A k \in 0..N : Progress(run[3 + D + k], c, mem, d, Prefix(n, k))
  <2> DEFINE Bad == {k \in 0..N : ~Progress(run[3 + D + k], c, mem, d, Prefix(n, k))}
  <2>1. SUFFICES ASSUME Bad # {} PROVE FALSE
    OBVIOUS
  <2>2. PICK k \in Bad : \A j \in Bad : k <= j
    <3>1. Bad \in SUBSET Nat
      OBVIOUS
    <3> HIDE DEF Bad
    <3> QED BY <2>1, <3>1, LeastNumber
  <2>3. k # 0
    <3>1. Prefix(n, 0) = <<>> /\ 3 + D + 0 = 3 + D /\ D \in 0..D
      BY <1>2, PrefixOfNone
    <3>2. Progress(run[3 + D], c, mem, d, <<>>)
      BY <1>5, <1>11, <3>1
    <3> QED BY <2>2, <3>1, <3>2
  <2>4. k \in 1..N /\ k - 1 \in 0..N /\ ~(k <= k - 1)
    BY <1>2, <2>2, <2>3
  <2> DEFINE got == run[3 + D + (k - 1)]
             p == Prefix(n, k - 1)
             nic == m.nics[k]
             item == NicItem(nic, style)
  <2>5. Progress(got, c, mem, d, p)
    BY <2>2, <2>4
  <2>6. run[3 + D + k] = WithItem(got, item)
    <3>1. 3 + D + k \in 1..L /\ (3 + D + k) - 1 = 3 + D + (k - 1)
      BY <1>2, <1>6, <2>4
    <3> QED BY <1>8, <1>9, <2>4, <3>1
  <2>7. item.tag = "EthernetPortItem" \/ (item.tag = "Item" /\ item.resource_type = "10")
    <3>1. item = NicItem(nic, style) /\ style.ns \in {"v1", "v2"}
      BY DEF OvfStyles
    <3> HIDE DEF item, nic
    <3>2. item.tag = (IF style.ns = "v2" THEN "EthernetPortItem" ELSE "Item") /\ item.resource_type = "10"
      BY <3>1, NicItemFields
    <3> QED BY <3>1, <3>2
  <2>8. n[k] = _parse_nic_item(item)
    BY <1>5, <2>4
  <2>9. Append(p, n[k]) = Prefix(n, k)
    <3>1. k - 1 \in Nat /\ (k - 1) + 1 = k
      BY <2>4
    <3>2. Append(p, n[(k - 1) + 1]) = Prefix(n, (k - 1) + 1)
      BY <3>1, PrefixGrows
    <3> QED BY <3>1, <3>2
  <2> HIDE DEF got, p, nic, item, c, mem
  <2>10. Progress(WithItem(got, item), c, mem, d, Append(p, _parse_nic_item(item)))
    BY <2>5, <2>7, NicIsRead
  <2>11. Progress(run[3 + D + k], c, mem, d, Prefix(n, k))
    BY <2>6, <2>8, <2>9, <2>10
  <2> QED BY <2>2, <2>11
<1>13. Progress(run[3 + D + N], c, mem, d, n)
  <2>1. N \in 0..N
    BY <1>2
  <2> QED BY <1>5, <1>12, <2>1
<1>14. run[L] = run[3 + D + N]
  <2>1. L \in 1..L /\ L - 1 = 3 + D + N
    BY <1>2, <1>6
  <2>2. run[L] = WithItem(run[3 + D + N], CdromItem)
    BY <1>6, <1>8, <1>9, <2>1
  <2>3. CdromItem.tag = "Item" /\ CdromItem.resource_type = "15"
    BY CdromFields
  <2> QED BY <2>2, <2>3, CdromIsSkipped
<1> QED BY <1>7, <1>13, <1>14 DEF items, d, n

-----------------------------------------------------------------------------
(* The references of an OVF descriptor.                                    *)

UnitsOf(d, style) == IF InGigabytes(d, style) THEN "byte * 2^30" ELSE "byte"

\* Gigabytes, sectors and bytes.
LEMMA WholeGigabytes ==
  /\ \A x \in Nat : x % GigaSectors = 0 => x \div GigaSectors \in Nat /\ x = GigaSectors * (x \div GigaSectors)
  /\ \A n \in Nat : n * (Kilo * Kilo * Kilo) = (GigaSectors * n) * SECTOR_SIZE
<1>1. \A x \in Nat : x % GigaSectors = 0 => x \div GigaSectors \in Nat /\ x = GigaSectors * (x \div GigaSectors)
  BY SMT DEF GigaSectors
<1>2. \A n \in Nat : n * (Kilo * Kilo * Kilo) = (GigaSectors * n) * SECTOR_SIZE
  BY SMT DEF GigaSectors, Kilo, SECTOR_SIZE
<1> QED BY <1>1, <1>2

Factor(units) ==
  CASE Lower(units) \in {"gigabytes", "gb", "byte * 2^30"} -> Kilo * Kilo * Kilo
    [] Lower(units) \in {"megabytes", "mb", "byte * 2^20"} -> Kilo * Kilo
    [] Lower(units) \in {"kilobytes", "kb", "byte * 2^10"} -> Kilo
    [] OTHER                                               -> 1

\* A capacity is read in bytes, whichever unit it was written in.
LEMMA CapacityIs ==
  ASSUME NEW d, d.sectors \in Nat, NEW style, CapacityOf(d, style) \in NUMBERS
  PROVE  _parse_capacity(ToString(CapacityOf(d, style)), UnitsOf(d, style)) = d.sectors * SECTOR_SIZE
<1> DEFINE n == CapacityOf(d, style)
           units == UnitsOf(d, style)
           x == d.sectors
<1>1. IsInt(ToString(n)) /\ NUMERALS[ToString(n)] = n
  BY Numeral
<1>2. Lower("byte * 2^30") = "byte * 2^30" /\ Lower("byte") = "byte"
  BY LowerCaseWords DEF LowerCase
<1>3. CASE InGigabytes(d, style)
  <2>1. n = x \div GigaSectors /\ x % GigaSectors = 0 /\ Lower(units) = "byte * 2^30"
    BY <1>2, <1>3 DEF CapacityOf, InGigabytes, UnitsOf
  <2>2. n \in Nat /\ x = GigaSectors * n
    BY <2>1, WholeGigabytes
  <2> HIDE DEF n, units, x
  <2>3. _parse_capacity(ToString(n), units) = n * Factor(units)
    BY <1>1 DEF _parse_capacity, Factor
  <2>4. Factor(units) = Kilo * Kilo * Kilo
    <3> DEFINE u == Lower(units)
               K3 == Kilo * Kilo * Kilo
               K2 == Kilo * Kilo
    <3>1. u = "byte * 2^30"
      BY <2>1
    <3>2. Factor(units) = CASE u \in {"gigabytes", "gb", "byte * 2^30"} -> K3
                            [] u \in {"megabytes", "mb", "byte * 2^20"} -> K2
                            [] u \in {"kilobytes", "kb", "byte * 2^10"} -> Kilo
                            [] OTHER -> 1
      BY DEF Factor
    <3> HIDE DEF u, K3, K2
    <3>3. Factor(units) = K3
      BY <3>1, <3>2
    <3> QED BY <3>3 DEF K3
  <2>5. n * (Kilo * Kilo * Kilo) = x * SECTOR_SIZE
    BY <2>2, WholeGigabytes
  <2> QED BY <2>3, <2>4, <2>5 DEF n, units, x
<1>4. CASE ~InGigabytes(d, style)
  <2>1. n = x * 512 /\ Lower(units) = "byte"
    BY <1>2, <1>4 DEF CapacityOf, UnitsOf, SECTOR_SIZE
  <2>2. n \in Nat
    BY <2>1
  <2> HIDE DEF n, units, x
  <2>3. _parse_capacity(ToString(n), units) = n * 1
    BY <1>1, <2>1 DEF _parse_capacity
  <2> QED BY <2>1, <2>2, <2>3 DEF n, units, x, SECTOR_SIZE
<1> QED BY <1>3, <1>4

\* What the envelope holds.
AreReferences(envelope, m, style) ==
  /\ envelope.ns \in {"v1", "v2"} /\ envelope.ns = style.ns
  /\ Len(envelope.files) = Len(DisksOf(m)) /\ Len(envelope.disks) = Len(DisksOf(m))
  /\ \A i \in 1..Len(DisksOf(m)) :
       /\ envelope.files[i].id = ToString(i) /\ envelope.files[i].href = DisksOf(m)[i].file
       /\ envelope.disks[i].id = ToString(i) /\ envelope.disks[i].file_ref = ToString(i)
       /\ envelope.disks[i].capacity = ToString(CapacityOf(DisksOf(m)[i], style))
       /\ envelope.disks[i].units = UnitsOf(DisksOf(m)[i], style)

\* What the descriptor says of its files and disks.
LEMMA ReferencesAre ==
  ASSUME NEW m, IsMachine(m), NEW style \in OvfStyles
  PROVE  AreReferences(OvfOf(m, style), m, style)
<1> DEFINE e == OvfOf(m, style)
           t == DisksOf(m)
           D == Len(t)
           File(i) == [id |-> ToString(i), href |-> t[i].file]
           Disk(i) == [id |-> ToString(i), file_ref |-> ToString(i),
                       capacity |-> ToString(CapacityOf(t[i], style)), units |-> UnitsOf(t[i], style)]
<1>1. /\ e.ns = style.ns /\ e.files = [i \in 1..D |-> File(i)]
      /\ e.disks = [i \in 1..D |-> Disk(i)]
  BY DEF OvfOf, UnitsOf
<1>2. style.ns \in {"v1", "v2"}
  BY DEF OvfStyles
<1>3. D \in Nat
  <2>1. t \in Seq(DriveType)
    BY DisksHavePlaces
  <2> QED BY <2>1
<1> HIDE DEF e, D
<1>4. Len(e.files) = D /\ Len(e.disks) = D
  BY <1>1, <1>3
<1>5. ASSUME NEW i \in 1..D
      PROVE  /\ e.files[i].id = ToString(i) /\ e.files[i].href = t[i].file
             /\ e.disks[i].id = ToString(i) /\ e.disks[i].file_ref = ToString(i)
             /\ e.disks[i].capacity = ToString(CapacityOf(t[i], style)) /\ e.disks[i].units = UnitsOf(t[i], style)
  <2>1. e.files[i] = File(i) /\ e.disks[i] = Disk(i)
    BY <1>1
  <2> DEFINE id == ToString(i)
             href == t[i].file
             capacity == ToString(CapacityOf(t[i], style))
             units == UnitsOf(t[i], style)
             file == e.files[i]
             disk == e.disks[i]
  <2>2. /\ file = [id |-> id, href |-> href]
        /\ disk = [id |-> id, file_ref |-> id, capacity |-> capacity, units |-> units]
    BY <2>1
  <2> HIDE DEF id, href, capacity, units, file, disk
  <2>3. /\ file.id = id /\ file.href = href /\ disk.id = id /\ disk.file_ref = id
        /\ disk.capacity = capacity /\ disk.units = units
    BY ONLY <2>2
  <2> QED BY <2>3 DEF id, href, capacity, units, file, disk
<1>6. AreReferences(e, m, style)
  BY <1>1, <1>2, <1>4, <1>5 DEF AreReferences, D
<1> QED BY <1>6 DEF e

\* The dicts of the parser, by the number of the disk.
LEMMA DictsAre ==
  ASSUME NEW m, IsMachine(m), NEW style \in OvfStyles, OvfNumbers(m, style) \subseteq NUMBERS,
         NEW envelope, AreReferences(envelope, m, style), NEW i \in 1..Len(DisksOf(m)), NEW id, id = ToString(i)
  PROVE  /\ id \in DOMAIN _extract_file_references(envelope)
         /\ _extract_file_references(envelope)[id] = DisksOf(m)[i].file
         /\ id \in DOMAIN _extract_disk_references(envelope)
         /\ _extract_disk_references(envelope)[id].file_ref = id
         /\ _extract_disk_references(envelope)[id].size_bytes = DisksOf(m)[i].sectors * SECTOR_SIZE
<1> DEFINE t == DisksOf(m)
           D == Len(t)
           files == envelope.files
           disks == envelope.disks
<1>1. /\ envelope.ns # "other" /\ Len(files) = D /\ Len(disks) = D
      /\ \A j \in 1..D : /\ files[j].id = ToString(j) /\ files[j].href = t[j].file
                         /\ disks[j].id = ToString(j) /\ disks[j].file_ref = ToString(j)
                         /\ disks[j].capacity = ToString(CapacityOf(t[j], style))
                         /\ disks[j].units = UnitsOf(t[j], style)
  BY DEF AreReferences
<1>2. /\ t \in Seq(DriveType)
      /\ \A j \in 1..D : t[j] \in DriveType /\ t[j].file[2] = ".vmdk"
  BY DisksHavePlaces
<1>3. D \in Nat
  BY <1>2
<1>4. \A j \in 1..D : j \in NUMBERS /\ CapacityOf(t[j], style) \in NUMBERS
  <2>1. \A j \in 1..D : t[j] \in Elements(t)
    BY ElementsAre
  <2> QED BY <2>1 DEF OvfNumbers
<1>5. \A j, k \in 1..D : ToString(j) # "" /\ (ToString(j) = ToString(k) => j = k)
  <2> HIDE DEF D
  <2> QED BY <1>4, NumbersAssumption
<1>6. \A j \in 1..D : t[j].file # NoPath /\ t[j].sectors \in Nat
  <2>1. NoPath[2] = ""
    BY DEF NoPath
  <2>2. \A d \in DriveType : d.sectors \in Nat
    BY DEF DriveType
  <2> HIDE DEF D, t
  <2> QED BY <1>2, <2>1, <2>2
<1>7. \A v : Attribute(envelope, v) = v
  BY <1>1 DEF Attribute
<1> DEFINE FJ == {j \in 1..Len(files) : Attribute(envelope, files[j].id) # "" /\ files[j].href # NoPath}
           DJ == {j \in 1..Len(disks) : Attribute(envelope, disks[j].id) # ""}
           Ref(j) == [file_ref |-> disks[j].file_ref,
                       size_bytes |-> _parse_capacity(disks[j].capacity, disks[j].units)]
           fpairs == [j \in FJ |-> [key |-> files[j].id, value |-> files[j].href]]
           dpairs == [j \in DJ |-> [key |-> disks[j].id, value |-> Ref(j)]]
<1>8. _extract_file_references(envelope) = Dict(fpairs) /\ _extract_disk_references(envelope) = Dict(dpairs)
  BY DEF _extract_file_references, _extract_disk_references
<1> HIDE DEF files, disks, D, t
<1>9. FJ = 1..D /\ DJ = 1..D
  <2>1. \A j \in 1..D : /\ Attribute(envelope, files[j].id) = ToString(j)
                         /\ Attribute(envelope, disks[j].id) = ToString(j)
    BY <1>1, <1>7
  <2>2. \A j \in 1..D : ToString(j) # ""
    BY <1>5
  <2>3. \A j \in 1..D : files[j].href # NoPath
    BY <1>1, <1>6
  <2>4. Len(files) = D /\ Len(disks) = D
    BY <1>1
  <2> QED BY <2>1, <2>2, <2>3, <2>4
<1> HIDE DEF FJ, DJ
<1>10. /\ DOMAIN fpairs = 1..D /\ \A j \in 1..D : fpairs[j].key = ToString(j) /\ fpairs[j].value = t[j].file
  BY <1>1, <1>9
<1>11. /\ DOMAIN dpairs = 1..D /\ \A j \in 1..D : dpairs[j].key = ToString(j) /\ dpairs[j].value = Ref(j)
  <2> HIDE DEF Ref
  <2> QED BY <1>1, <1>9
<1>12. ASSUME NEW j \in 1..D PROVE Ref(j).file_ref = ToString(j) /\ Ref(j).size_bytes = t[j].sectors * SECTOR_SIZE
  <2> DEFINE d == t[j]
             ref == disks[j].file_ref
             size == _parse_capacity(disks[j].capacity, disks[j].units)
             r == Ref(j)
  <2>1. size = d.sectors * SECTOR_SIZE
    <3>1. d.sectors \in Nat /\ CapacityOf(d, style) \in NUMBERS
      BY <1>4, <1>6
    <3>2. size = _parse_capacity(ToString(CapacityOf(d, style)), UnitsOf(d, style))
      BY <1>1
    <3> HIDE DEF d, size
    <3> QED BY <3>1, <3>2, CapacityIs
  <2>2. ref = ToString(j)
    BY <1>1
  <2>3. r = [file_ref |-> ref, size_bytes |-> size]
    OBVIOUS
  <2> HIDE DEF ref, size, r
  <2>4. r.file_ref = ref /\ r.size_bytes = size
    BY ONLY <2>3
  <2> QED BY <2>1, <2>2, <2>4 DEF r
<1> HIDE DEF fpairs, dpairs, Ref
<1>13. /\ DOMAIN Dict(fpairs) = {fpairs[j].key : j \in DOMAIN fpairs}
       /\ \A j \in DOMAIN fpairs : Dict(fpairs)[fpairs[j].key] = fpairs[j].value
  <2>1. \A j, k \in DOMAIN fpairs : fpairs[j].key = fpairs[k].key => fpairs[j].value = fpairs[k].value
    <3>1. SUFFICES ASSUME NEW j \in DOMAIN fpairs, NEW k \in DOMAIN fpairs, fpairs[j].key = fpairs[k].key
                   PROVE  fpairs[j].value = fpairs[k].value
      OBVIOUS
    <3>2. j \in 1..D /\ k \in 1..D /\ ToString(j) = ToString(k)
      BY <1>10, <3>1
    <3>3. j = k
      BY ONLY <1>5, <3>2
    <3> QED BY <3>3
  <2>2. DOMAIN fpairs \subseteq 1..D
    BY <1>10
  <2> QED BY <1>3, <2>1, <2>2, DictHolds
<1>14. /\ DOMAIN Dict(dpairs) = {dpairs[j].key : j \in DOMAIN dpairs}
       /\ \A j \in DOMAIN dpairs : Dict(dpairs)[dpairs[j].key] = dpairs[j].value
  <2>1. \A j, k \in DOMAIN dpairs : dpairs[j].key = dpairs[k].key => dpairs[j].value = dpairs[k].value
    <3>1. SUFFICES ASSUME NEW j \in DOMAIN dpairs, NEW k \in DOMAIN dpairs, dpairs[j].key = dpairs[k].key
                   PROVE  dpairs[j].value = dpairs[k].value
      OBVIOUS
    <3>2. j \in 1..D /\ k \in 1..D /\ ToString(j) = ToString(k)
      BY <1>11, <3>1
    <3>3. j = k
      BY ONLY <1>5, <3>2
    <3> QED BY <3>3
  <2>2. DOMAIN dpairs \subseteq 1..D
    BY <1>11
  <2> QED BY <1>3, <2>1, <2>2, DictHolds
<1>15. i \in 1..D
  BY DEF D, t
<1>16. id \in DOMAIN Dict(fpairs) /\ Dict(fpairs)[id] = t[i].file
  BY <1>10, <1>13, <1>15
<1>17. id \in DOMAIN Dict(dpairs) /\ Dict(dpairs)[id] = Ref(i)
  BY <1>11, <1>14, <1>15
<1> QED BY <1>8, <1>12, <1>15, <1>16, <1>17 DEF t

\* The disks of an OVF descriptor are found by their numbers.
LEMMA DisksAreResolved ==
  ASSUME NEW m, IsMachine(m), NEW style \in OvfStyles, OvfNumbers(m, style) \subseteq NUMBERS,
         NEW envelope, AreReferences(envelope, m, style), NEW drives, drives = DrivesOf(m, style)
  PROVE  /\ ReadsDisks(_resolve_disks(drives, envelope), DisksOf(m))
         /\ \A i \in 1..Len(DisksOf(m)) :
              _resolve_disks(drives, envelope)[i].size_bytes = DisksOf(m)[i].sectors * SECTOR_SIZE
<1> DEFINE t == DisksOf(m)
           D == Len(t)
           refs == _extract_disk_references(envelope)
           files == _extract_file_references(envelope)
           disks == _resolve_disks(drives, envelope)
<1>1. D \in Nat
  <2>1. t \in Seq(DriveType)
    BY DisksHavePlaces
  <2> QED BY <2>1
<1>2. /\ drives = [i \in 1..D |-> [host_resource |-> DriveItem(i, t[i], style).host_resource, unit |-> t[i].unit]]
  BY DEF DrivesOf
<1> HIDE DEF D
<1>3. Len(drives) = D
  BY <1>1, <1>2
<1>4. disks = [i \in 1..D |-> _resolve_disk(drives[i], refs, files, i)]
  BY <1>3 DEF _resolve_disks
<1> HIDE DEF disks, refs, files
<1>5. ASSUME NEW i \in 1..D
      PROVE  /\ disks[i].path = t[i].file /\ (disks[i].is_boot <=> i = 1)
             /\ disks[i].size_bytes = t[i].sectors * SECTOR_SIZE
  <2> DEFINE id == ToString(i)
             drive == drives[i]
             path == drive.host_resource
             item == DriveItem(i, t[i], style)
             disk == t[i]
             d == disks[i]
             unit == drive.unit
             marked == i = 1
  <2>1. path = IF style.short THEN <<id>> ELSE <<"ovf:", "disk", id>>
    <3>1. item = DriveItem(i, disk, style)
      OBVIOUS
    <3>2. drive = [host_resource |-> item.host_resource, unit |-> t[i].unit]
      BY <1>2
    <3> HIDE DEF item, disk, drive
    <3>3. path = item.host_resource
      BY ONLY <3>2
    <3>4. item.host_resource = IF style.short THEN <<ToString(i)>> ELSE <<"ovf:", "disk", ToString(i)>>
      BY ONLY <3>1 DEF DriveItem, AnItem
    <3> QED BY <3>3, <3>4
  <2>2. /\ id \in DOMAIN files /\ files[id] = t[i].file
        /\ id \in DOMAIN refs /\ refs[id].file_ref = id /\ refs[id].size_bytes = t[i].sectors * SECTOR_SIZE
    <3>1. i \in 1..Len(t)
      BY DEF D
    <3> HIDE DEF id
    <3>2. id = ToString(i)
      BY DEF id
    <3> QED BY <3>1, <3>2, DictsAre DEF files, refs
  <2>3. d = _resolve_disk(drive, refs, files, i)
    BY <1>4
  <2> HIDE DEF id, drive, disk, item, d
  <2>4. path[Len(path)] = id
    <3> HIDE DEF path
    <3> QED BY ONLY <2>1
  <2> DEFINE ref == Get(refs, path[Len(path)], [file_ref |-> "", size_bytes |-> 0])
             file == Get(files, ref.file_ref, NoPath)
  <2>5. ref = refs[id]
    BY <2>2, <2>4 DEF Get
  <2>6. file = t[i].file
    <3> HIDE DEF ref
    <3> QED BY <2>2, <2>5 DEF Get
  <2>7. d = DiskDefinition(file, <<"scsi", 0>>, unit, ref.size_bytes, "streamoptimized", marked)
    BY <2>3 DEF _resolve_disk
  <2> DEFINE size == ref.size_bytes
             controller == <<"scsi", 0>>
             type == "streamoptimized"
  <2>8. d = DiskDefinition(file, controller, unit, size, type, marked)
    BY <2>7
  <2>9. size = t[i].sectors * SECTOR_SIZE
    BY <2>2, <2>5
  <2> HIDE DEF file, controller, unit, size, type, marked, ref
  <2>10. d.path = file /\ d.size_bytes = size /\ d.is_boot = marked
    BY <2>8, DiskFields
  <2> QED BY <2>6, <2>9, <2>10 DEF d, marked
<1>6. disks \in Seq(Elements(disks)) /\ Len(disks) = D
  <2>1. DOMAIN disks = 1..D /\ disks = [i \in 1..D |-> disks[i]]
    BY <1>4
  <2> QED BY <1>1, <2>1, FunctionIsList
<1> QED BY <1>5, <1>6 DEF ReadsDisks, disks, D

\* The NICs have their addresses.
LEMMA NicsAreRead ==
  ASSUME NEW m, IsMachine(m), NEW style, NEW nics, nics = NicsOf(m, style)
  PROVE  ReadsNics(nics, m)
<1> DEFINE N == Len(m.nics)
<1>1. N \in Nat
  BY MachineIs
<1>2. nics = [i \in 1..N |-> _parse_nic_item(NicItem(m.nics[i], style))]
  BY DEF NicsOf
<1> HIDE DEF N
<1>3. nics \in Seq(Elements(nics)) /\ Len(nics) = N
  <2>1. DOMAIN nics = 1..N /\ nics = [i \in 1..N |-> nics[i]]
    BY <1>2
  <2> QED BY <1>1, <2>1, FunctionIsList
<1>4. ASSUME NEW i \in 1..N PROVE nics[i].mac_address = m.nics[i].mac
  <2> DEFINE nic == m.nics[i]
             item == NicItem(nic, style)
             sub_type == IF item.sub_type = "" THEN "e1000" ELSE Lower(item.sub_type)
             dev == Get(dev_map, sub_type, sub_type)
             mac == IF item.mac_config # "" THEN item.mac_config ELSE item.mac_address
             read == nics[i]
  <2>1. read = _parse_nic_item(item)
    BY <1>2
  <2>2. item = NicItem(nic, style)
    OBVIOUS
  <2> HIDE DEF nic, item, read
  <2>3. mac = nic.mac
    BY <2>2, NicItemFields
  <2>4. read = [virtual_dev |-> dev, mac_address |-> mac]
    BY <2>1 DEF _parse_nic_item
  <2> HIDE DEF dev, mac
  <2>5. read.mac_address = mac
    BY <2>4, NicFields
  <2> QED BY <2>3, <2>5 DEF read, nic
<1> QED BY <1>3, <1>4 DEF ReadsNics, N

-----------------------------------------------------------------------------
(* What the parser of OVF descriptors returns.                             *)

\* No item says EFI.
LEMMA TextsAre ==
  ASSUME NEW m, IsMachine(m), NEW style, NEW items, AreItems(items, m, style), NEW k \in 1..Len(items)
  PROVE  items[k].text \notin EfiTexts
<1> DEFINE t == DisksOf(m)
           D == Len(t)
           N == Len(m.nics)
<1>1. D \in Nat /\ N \in Nat
  <2>1. t \in Seq(DriveType) /\ m.nics \in Seq(NicType)
    BY DisksHavePlaces, MachineIs
  <2> QED BY <2>1
<1>2. /\ Len(items) = 4 + D + N
      /\ items[1] = CpuItem(m) /\ items[2] = MemoryItem(m, style) /\ items[3] = ControllerItem(m)
      /\ \A i \in 1..D : items[3 + i] = DriveItem(i, t[i], style)
      /\ \A i \in 1..N : items[3 + D + i] = NicItem(m.nics[i], style)
      /\ items[4 + D + N] = CdromItem
  BY DEF AreItems
<1>3. EfiTexts \cap {"", "Hard disk", "adapter", "cdrom"} = {}
  BY DEF EfiTexts
<1> HIDE DEF D, N
<1>4. \/ k \in {1, 2, 3}
      \/ k - 3 \in 1..D /\ k = 3 + (k - 3)
      \/ k - 3 - D \in 1..N /\ k = 3 + D + (k - 3 - D)
      \/ k = 4 + D + N
  BY <1>1, <1>2
<1>5. items[k].text \in {"", "Hard disk", "adapter", "cdrom"}
  <2>1. CASE k = 1
    BY <1>2, <2>1, CpuFields
  <2>2. CASE k = 2
    <3> DEFINE item == items[k]
    <3>1. item = MemoryItem(m, style)
      BY <1>2, <2>2
    <3> HIDE DEF item
    <3>2. item.text = ""
      BY ONLY <3>1 DEF MemoryItem, AnItem
    <3> QED BY <3>2 DEF item
  <2>3. CASE k = 3
    BY <1>2, <2>3, ControllerFields
  <2>4. ASSUME NEW i \in 1..D, k = 3 + i PROVE items[k].text \in {"", "Hard disk", "adapter", "cdrom"}
    <3> DEFINE item == items[k]
               d == t[i]
    <3>1. item = DriveItem(i, d, style)
      BY <1>2, <2>4
    <3> HIDE DEF item, d
    <3>2. item.text = "Hard disk"
      BY ONLY <3>1 DEF DriveItem, AnItem
    <3> QED BY <3>2 DEF item
  <2>5. ASSUME NEW i \in 1..N, k = 3 + D + i PROVE items[k].text \in {"", "Hard disk", "adapter", "cdrom"}
    <3> DEFINE item == items[k]
               nic == m.nics[i]
    <3>1. item = NicItem(nic, style)
      BY <1>2, <2>5
    <3> HIDE DEF item, nic
    <3>2. item.text = "adapter"
      BY ONLY <3>1 DEF NicItem, AnItem
    <3> QED BY <3>2 DEF item
  <2>6. CASE k = 4 + D + N
    BY <1>2, <2>6, CdromFields
  <2> QED BY <1>4, <2>1, <2>2, <2>3, <2>4, <2>5, <2>6
<1> QED BY <1>3, <1>5

\* The virtual system of a descriptor.
IsSystem(vs, m, style) ==
  /\ vs.id = m.name /\ vs.name = (IF style.ns = "v2" THEN m.name ELSE "")
  /\ vs.os.osType = (IF style.osType THEN m.guest.osType ELSE "")
  /\ vs.hardware /\ vs.system /\ vs.firmware = (IF m.efi THEN "EFI" ELSE "") /\ vs.items = Items(m, style)

LEMMA SystemIs ==
  ASSUME NEW m, NEW style, NEW envelope, envelope = OvfOf(m, style)
  PROVE  envelope.systems # <<>> /\ IsSystem(envelope.systems[1], m, style)
<1> DEFINE name == IF style.ns = "v2" THEN m.name ELSE ""
           type == IF style.osType THEN m.guest.osType ELSE ""
           os == [id |-> m.guest.id, osType |-> type, description |-> "an operating system"]
           firmware == IF m.efi THEN "EFI" ELSE ""
           items == Items(m, style)
           id == m.name
           vs == [id |-> id, name |-> name, os |-> os, hardware |-> TRUE, system |-> TRUE, firmware |-> firmware,
                  items |-> items]
<1>1. envelope.systems = <<vs>>
  BY DEF OvfOf
<1>2. os.osType = type
  OBVIOUS
<1> HIDE DEF name, type, os, firmware, items, id
<1>3. /\ vs.id = id /\ vs.name = name /\ vs.os = os /\ vs.firmware = firmware /\ vs.items = items
  OBVIOUS
<1>4. vs.hardware /\ vs.system
  OBVIOUS
<1> HIDE DEF vs
<1>5. envelope.systems # <<>> /\ envelope.systems[1] = vs
  BY ONLY <1>1
<1> QED BY <1>2, <1>3, <1>4, <1>5 DEF IsSystem, name, type, firmware, items, id

\* parse_ovf_file returns the machine, and never fails on what VMware has written.
LEMMA OvfIsRead ==
  ASSUME NEW m, IsMachine(m), NEW style \in OvfStyles, OvfNumbers(m, style) \subseteq NUMBERS, OvfIsExact(m, style),
         NEW envelope, envelope = OvfOf(m, style), NEW v, v = parse_ovf_file(envelope)
  PROVE  /\ v.error = "" /\ ReadsMachine(v, m, DisksOf(m))
         /\ style.osType /\ m.guest.osType # "" => v.guest_os = m.guest.osType
         /\ \A i \in 1..Len(DisksOf(m)) : v.disks[i].size_bytes = DisksOf(m)[i].sectors * SECTOR_SIZE
<1> DEFINE vs == envelope.systems[1]
           got == _parse_hardware(vs.items)
           name == VmName(envelope, vs)
           guest_os == GuestOs(envelope, vs)
           memory_mb == got.memory_mb
           vcpus == got.vcpus
           firmware == _extract_firmware(vs)
           controller == got.scsi_controller
           disks == _resolve_disks(got.drives, envelope)
           nics == got.nics
<1>1. envelope.systems # <<>> /\ IsSystem(vs, m, style)
  BY SystemIs
<1>2. v = IF envelope.systems = <<>> \/ ~vs.hardware \/ got.error # "" THEN NotAnOvf
          ELSE [name |-> name, guest_os |-> guest_os, memory_mb |-> memory_mb, vcpus |-> vcpus,
                firmware |-> firmware, scsi_controller |-> controller, disks |-> disks, nics |-> nics, error |-> ""]
  BY DEF parse_ovf_file
<1> HIDE DEF vs
<1>3. got = _parse_hardware(Items(m, style))
  BY <1>1 DEF IsSystem
<1> HIDE DEF got
<1>4. /\ got.error = "" /\ vcpus = m.vcpus /\ memory_mb = m.memory
      /\ got.drives = DrivesOf(m, style) /\ nics = NicsOf(m, style)
  BY <1>3, SectionIsRead DEF Progress
<1>5. AreReferences(envelope, m, style)
  BY ReferencesAre
<1>6. name = m.name
  <2>1. Attribute(envelope, vs.id) = vs.id
    BY <1>5 DEF Attribute, AreReferences
  <2> QED BY <1>1, <2>1 DEF IsSystem, VmName
<1>7. style.osType /\ m.guest.osType # "" => guest_os = m.guest.osType
  BY <1>1 DEF IsSystem, GuestOs
<1>8. firmware = (IF m.efi THEN "efi" ELSE "bios")
  <2>1. Lower("EFI") = "efi" /\ Lower("") = ""
    BY LowerWords, LowerCaseWords DEF LowerCase
  <2>2. AreItems(vs.items, m, style)
    BY <1>1, ItemsAre DEF IsSystem
  <2>3. \A k \in 1..Len(vs.items) : vs.items[k].text \notin EfiTexts
    BY <2>2, TextsAre
  <2>4. vs.system /\ vs.firmware = (IF m.efi THEN "EFI" ELSE "")
    BY <1>1 DEF IsSystem
  <2> QED BY <2>1, <2>3, <2>4 DEF _extract_firmware
<1>9. /\ ReadsDisks(disks, DisksOf(m))
      /\ \A i \in 1..Len(DisksOf(m)) : disks[i].size_bytes = DisksOf(m)[i].sectors * SECTOR_SIZE
  <2> DEFINE drives == got.drives
  <2>1. drives = DrivesOf(m, style)
    BY <1>4
  <2> HIDE DEF drives
  <2>2. /\ ReadsDisks(_resolve_disks(drives, envelope), DisksOf(m))
        /\ \A i \in 1..Len(DisksOf(m)) :
             _resolve_disks(drives, envelope)[i].size_bytes = DisksOf(m)[i].sectors * SECTOR_SIZE
    BY <1>5, <2>1, DisksAreResolved
  <2> QED BY <2>2 DEF drives
<1>10. ReadsNics(nics, m)
  BY <1>4, NicsAreRead
<1> HIDE DEF name, guest_os, memory_mb, vcpus, firmware, controller, disks, nics
<1>11. v = [name |-> name, guest_os |-> guest_os, memory_mb |-> memory_mb, vcpus |-> vcpus,
            firmware |-> firmware, scsi_controller |-> controller, disks |-> disks, nics |-> nics, error |-> ""]
  BY <1>1, <1>2, <1>4 DEF IsSystem
<1>12. /\ v.name = name /\ v.guest_os = guest_os /\ v.memory_mb = memory_mb /\ v.vcpus = vcpus
       /\ v.firmware = firmware /\ v.disks = disks /\ v.nics = nics /\ v.error = ""
  BY ONLY <1>11
<1> QED BY <1>4, <1>6, <1>7, <1>8, <1>9, <1>10, <1>12 DEF ReadsMachine

\* An OVA is read as its descriptor, and holds the files of its disks.
LEMMA OvaIsRead ==
  ASSUME NEW m, IsMachine(m), NEW ovf, NEW v, v = _extract_and_parse_ova(OvaOf(m), ovf)
  PROVE  /\ v = parse_ovf_file(ovf)
         /\ \A i \in 1..Len(DisksOf(m)) : DisksOf(m)[i].file \in Extracted(OvaOf(m))
<1> DEFINE t == DisksOf(m)
           D == Len(t)
           first == [name |-> <<m.name, ".ovf">>, safe |-> TRUE]
           s == <<first>>
           Member(i) == [name |-> t[i].file, safe |-> TRUE]
           u == [i \in 1..D |-> Member(i)]
           members == OvaOf(m)
           S == {first} \cup {u[i] : i \in 1..D}
           found == Only(members, {e \in Elements(members) : IsOvf(e)})
<1>2. (found # <<>> /\ found[1].safe) => v = parse_ovf_file(ovf)
  BY DEF _extract_and_parse_ova
<1>3. D \in Nat
  <2>1. t \in Seq(DriveType)
    BY DisksHavePlaces
  <2> QED BY <2>1
<1>4. members = s \o u
  BY DEF OvaOf
<1>5. first.name[2] = ".ovf" /\ first.safe /\ \A i \in 1..D : u[i].name = t[i].file /\ u[i].safe
  <2>1. first.name[2] = ".ovf" /\ first.safe
    OBVIOUS
  <2>2. \A i \in 1..D : u[i] = Member(i)
    OBVIOUS
  <2>3. \A i : Member(i).name = t[i].file /\ Member(i).safe
    OBVIOUS
  <2> HIDE DEF first, u, Member
  <2> QED BY <2>1, <2>2, <2>3
<1>6. DOMAIN u = 1..D /\ u = [i \in 1..D |-> u[i]]
  OBVIOUS
<1> HIDE DEF first, u, members, D, found
<1>7. s \in Seq(S) /\ Len(s) = 1 /\ s[1] = first /\ u \in Seq(S) /\ Len(u) = D
  <2>1. u \in [1..D -> S] /\ first \in S
    BY <1>6
  <2> HIDE DEF S
  <2> QED BY <1>3, <2>1, FunctionIsSequence
<1>a. members \in Seq(S)
  BY <1>4, <1>7
<1>b. \A e \in S : e.safe
  BY <1>5
<1> HIDE DEF S, s
<1>8. /\ members[1] = first /\ Len(members) = 1 + D
      /\ \A i \in 1..D : members[1 + i] = u[i]
  <2>1. s \in Seq(S) /\ u \in Seq(S)
    BY <1>7
  <2>2. /\ Len(s \o u) = Len(s) + Len(u) /\ \A k \in 1..Len(s) : (s \o u)[k] = s[k]
        /\ \A k \in 1..Len(u) : (s \o u)[Len(s) + k] = u[k]
    BY ONLY <2>1, TwoLists
  <2>3. 1 \in 1..1
    OBVIOUS
  <2> QED BY <1>4, <1>7, <2>2, <2>3
<1>9. 1 \in 1..Len(members) /\ IsOvf(members[1])
  <2>1. Lower(".ovf") = ".ovf"
    BY LowerCaseWords DEF LowerCase
  <2> QED BY <1>3, <1>5, <1>8, <2>1 DEF IsOvf
<1>10. ASSUME NEW i \in 1..D PROVE t[i].file \in Extracted(members)
  <2> DEFINE k == 1 + i
  <2>1. k \in 1..Len(members)
    BY <1>3, <1>8
  <2>2. members[k] = u[i]
    BY <1>8
  <2>3. u[i].name = t[i].file /\ u[i].safe
    BY <1>5
  <2> HIDE DEF k
  <2>4. members[k].name = t[i].file /\ members[k].safe
    BY ONLY <2>2, <2>3
  <2>5. \E j \in 1..Len(members) : IsOvf(members[j])
    BY <1>9
  <2>6. Extracted(members) = {members[j].name : j \in {l \in 1..Len(members) : members[l].safe}}
    BY <2>5 DEF Extracted
  <2> QED BY <2>1, <2>4, <2>6
<1>11. found # <<>> /\ found[1].safe
  <2> DEFINE wanted == {e \in Elements(members) : IsOvf(e)}
  <2>1. found = Only(members, wanted)
    BY DEF found
  <2>2. members[1] \in wanted
    BY <1>9 DEF Elements
  <2> HIDE DEF wanted
  <2>3. found \in Seq(S) /\ \E f : Keeps(found, f, members, Len(members), wanted)
    BY <1>a, <2>1, OnlyKeeps
  <2>4. \E i \in 1..Len(found) : TRUE
    BY <1>9, <2>2, <2>3 DEF Keeps
  <2>5. found # <<>> /\ found[1] \in S
    BY <2>3, <2>4
  <2> QED BY <1>b, <2>5
<1> QED BY <1>2, <1>10, <1>11 DEF members, D

-----------------------------------------------------------------------------
(* What stage 1 leaves, whatever the format.                               *)

ReadsExport(v) ==
  /\ kind \in {".vmx", ".ovf", ".ova"} /\ ReadsMachine(v, machine, SoughtDisks)
  /\ kind = ".vmx" => v.guest_os = machine.guest.vmx
  /\ kind # ".vmx" => (invocation.style.osType /\ machine.guest.osType # "" => v.guest_os = machine.guest.osType)
  /\ \A i \in 1..Len(SoughtDisks) :
       v.disks[i].size_bytes = IF kind = ".vmx" /\ invocation.split = "binary" THEN 0
                               ELSE SoughtDisks[i].sectors * SECTOR_SIZE
  /\ kind = ".ova" => \A i \in 1..Len(SoughtDisks) : SoughtDisks[i].file \in Extracted(OvaOf(machine))

Succeeds(v) == v.error = ""

\* What is returned for a file that cannot be read.
LEMMA Unreadable ==
  ~Succeeds(NotAVmx) /\ ~Succeeds(NotAnOvf) /\ ~Succeeds([error |-> "ClickException"]) /\ ~Succeeds(NotYet)
BY DEF Succeeds, NotAVmx, NotAnOvf, NotYet

\* What the assumptions say of the invocation.
LEMMA InvocationIs ==
  ASSUME invocation \in Invocations
  PROVE  /\ IsMachine(machine) /\ invocation.split \in {"one", "two", "binary"}
         /\ kind = ".vmx" => /\ invocation.style \in VmxStyles
                             /\ VmxNumbers(machine, invocation.split) \subseteq NUMBERS
                             /\ VmxIsExact(machine, invocation.split)
         /\ kind \in {".ovf", ".ova"} => /\ invocation.style \in OvfStyles
                                         /\ OvfNumbers(machine, invocation.style) \subseteq NUMBERS
                                         /\ OvfIsExact(machine, invocation.style)
<1>1. invocation \in InvocationType
  BY InvocationsAreTyped
<1>2. invocation.split \in {"one", "two", "binary"}
  BY <1>1 DEF InvocationType
<1> QED BY <1>2, InvocationsAreExports DEF machine, kind

\* The machine is read from a VMX file and the files beside it.
LEMMA VmxExportIsRead ==
  ASSUME NEW m, IsMachine(m), NEW style \in VmxStyles, NEW split \in {"one", "two", "binary"},
         VmxNumbers(m, split) \subseteq NUMBERS, VmxIsExact(m, split),
         NEW v, v = parse_vmx_file(VmxOf(m, style), Beside(m, split)), Succeeds(v)
  PROVE  /\ ReadsMachine(v, m, ScannedDisks(m)) /\ v.guest_os = m.guest.vmx
         /\ \A i \in 1..Len(ScannedDisks(m)) : v.disks[i].size_bytes = SizeIs(ScannedDisks(m)[i], split)
<1> DEFINE files == Beside(m, split)
<1>1. m.memory \in NUMBERS /\ m.vcpus \in NUMBERS
  BY DEF VmxNumbers
<1>2. v = parse_vmx_file(VmxOf(m, style), files)
  OBVIOUS
<1>3. \A i \in 1..Len(DisksOf(m)) : InspectedDisk(files, DisksOf(m)[i].file).size_bytes = SizeIs(DisksOf(m)[i], split)
  BY SizesBeside
<1>3a. ASSUME NEW i \in 1..Len(ScannedDisks(m))
       PROVE  InspectedDisk(files, ScannedDisks(m)[i].file).size_bytes = SizeIs(ScannedDisks(m)[i], split)
  <2>1. PICK j \in 1..Len(DisksOf(m)) : DisksOf(m)[j] = ScannedDisks(m)[i]
    BY ScannedHavePlaces
  <2> QED BY <1>3, <2>1
<1> HIDE DEF files
<1>4. /\ ReadsMachine(v, m, ScannedDisks(m)) /\ v.guest_os = m.guest.vmx
      /\ \A i \in 1..Len(ScannedDisks(m)) :
           v.disks[i].size_bytes = InspectedDisk(files, ScannedDisks(m)[i].file).size_bytes
  BY <1>1, <1>2, VmxIsRead DEF Succeeds
<1> QED BY <1>3a, <1>4

\* The machine is read from any export.
LEMMA ParsedIs ==
  ASSUME invocation \in Invocations, NEW v, v = _parse_source, Succeeds(v)
  PROVE  ReadsExport(v)
<1> DEFINE m == machine
           style == invocation.style
           split == invocation.split
           t == SoughtDisks
<1>1. /\ IsMachine(m) /\ split \in {"one", "two", "binary"}
      /\ kind = ".vmx" => style \in VmxStyles /\ VmxNumbers(m, split) \subseteq NUMBERS /\ VmxIsExact(m, split)
      /\ kind \in {".ovf", ".ova"} =>
           style \in OvfStyles /\ OvfNumbers(m, style) \subseteq NUMBERS /\ OvfIsExact(m, style)
  BY InvocationIs
<1>2. /\ kind = ".vmx" => v = parse_vmx_file(VmxOf(m, style), Beside(m, split))
      /\ kind = ".ovf" => v = parse_ovf_file(OvfOf(m, style))
      /\ kind = ".ova" => v = _extract_and_parse_ova(OvaOf(m), OvfOf(m, style))
      /\ kind \notin {".vmx", ".ovf", ".ova"} => v = [error |-> "ClickException"]
  BY DEF _parse_source
<1>3. kind \in {".vmx", ".ovf", ".ova"}
  BY <1>2, Unreadable
<1> DEFINE Read == /\ ReadsMachine(v, m, t)
                   /\ style.osType /\ m.guest.osType # "" => v.guest_os = m.guest.osType
                   /\ \A i \in 1..Len(t) : v.disks[i].size_bytes = t[i].sectors * SECTOR_SIZE
<1>4. CASE kind = ".vmx"
  <2>0. t = ScannedDisks(m)
    BY <1>4 DEF SoughtDisks
  <2> HIDE DEF m, style, split, t
  <2>1. /\ ReadsMachine(v, m, t) /\ v.guest_os = m.guest.vmx
        /\ \A i \in 1..Len(t) : v.disks[i].size_bytes = SizeIs(t[i], split)
    BY <1>1, <1>2, <1>4, <2>0, VmxExportIsRead
  <2> USE DEF m, style, split, t
  <2> QED BY <1>4, <2>1 DEF ReadsExport, SizeIs
<1>5. ASSUME kind \in {".ovf", ".ova"}, v = parse_ovf_file(OvfOf(m, style)) PROVE Read
  <2> DEFINE envelope == OvfOf(m, style)
  <2>1. envelope = OvfOf(m, style) /\ v = parse_ovf_file(envelope)
    BY <1>5
  <2>2. IsMachine(m) /\ style \in OvfStyles /\ OvfNumbers(m, style) \subseteq NUMBERS /\ OvfIsExact(m, style)
    BY <1>1, <1>5
  <2>2a. t = DisksOf(m)
    BY <1>5 DEF SoughtDisks
  <2> HIDE DEF envelope, m, style, t
  <2>3. /\ ReadsMachine(v, m, DisksOf(m))
        /\ style.osType /\ m.guest.osType # "" => v.guest_os = m.guest.osType
        /\ \A i \in 1..Len(DisksOf(m)) : v.disks[i].size_bytes = DisksOf(m)[i].sectors * SECTOR_SIZE
    BY ONLY <2>1, <2>2, OvfIsRead
  <2> QED BY <2>2a, <2>3
<1>6. CASE kind = ".ovf"
  <2>1. Read
    BY <1>2, <1>5, <1>6
  <2> QED BY <1>6, <2>1 DEF ReadsExport
<1>7. CASE kind = ".ova"
  <2> DEFINE ovf == OvfOf(m, style)
  <2>1. IsMachine(m) /\ v = _extract_and_parse_ova(OvaOf(m), ovf)
    BY <1>1, <1>2, <1>7
  <2> HIDE DEF m, ovf
  <2>2. v = parse_ovf_file(ovf) /\ \A i \in 1..Len(DisksOf(m)) : DisksOf(m)[i].file \in Extracted(OvaOf(m))
    BY <2>1, OvaIsRead
  <2> USE DEF m, ovf
  <2>3. Read
    BY <1>5, <1>7, <2>2
  <2>4. t = DisksOf(m)
    BY <1>7 DEF SoughtDisks
  <2> QED BY <1>7, <2>2, <2>3, <2>4 DEF ReadsExport
<1> QED BY <1>3, <1>4, <1>6, <1>7

\* And no export is refused but a VMX file without a name.
LEMMA NoneIsRefused ==
  ASSUME invocation \in Invocations, kind \in {".vmx", ".ovf", ".ova"}, kind = ".vmx" => machine.name # ""
  PROVE  Succeeds(_parse_source)
<1> DEFINE m == machine
           style == invocation.style
           split == invocation.split
<1>1. /\ IsMachine(m)
      /\ kind = ".vmx" => style \in VmxStyles /\ VmxNumbers(m, split) \subseteq NUMBERS
      /\ kind \in {".ovf", ".ova"} =>
           style \in OvfStyles /\ OvfNumbers(m, style) \subseteq NUMBERS /\ OvfIsExact(m, style)
  BY InvocationIs
<1>2. CASE kind = ".vmx"
  <2> DEFINE files == Beside(m, split)
  <2>1. _parse_source = parse_vmx_file(VmxOf(m, style), files)
    BY <1>2 DEF _parse_source
  <2>2. m.memory \in NUMBERS /\ m.vcpus \in NUMBERS
    BY <1>1, <1>2 DEF VmxNumbers
  <2>3. style \in VmxStyles /\ m.name # ""
    BY <1>1, <1>2
  <2> HIDE DEF m, style, files
  <2>4. parse_vmx_file(VmxOf(m, style), files).error = ""
    BY <1>1, <2>2, <2>3, VmxIsAccepted
  <2> QED BY <2>1, <2>4 DEF Succeeds
<1>3. CASE kind \in {".ovf", ".ova"}
  <2> DEFINE ovf == OvfOf(m, style)
  <2>1. /\ kind = ".ovf" => _parse_source = parse_ovf_file(ovf)
        /\ kind = ".ova" => _parse_source = _extract_and_parse_ova(OvaOf(m), ovf)
    BY <1>3 DEF _parse_source
  <2>2. ovf = OvfOf(m, style) /\ style \in OvfStyles /\ OvfNumbers(m, style) \subseteq NUMBERS /\ OvfIsExact(m, style)
    BY <1>1, <1>3
  <2> HIDE DEF m, style, ovf
  <2>3. parse_ovf_file(ovf).error = ""
    BY ONLY <1>1, <2>2, OvfIsRead
  <2>4. _extract_and_parse_ova(OvaOf(m), ovf) = parse_ovf_file(ovf)
    BY <1>1, OvaIsRead
  <2> QED BY <1>3, <2>1, <2>3, <2>4 DEF Succeeds
<1> QED BY <1>2, <1>3

-----------------------------------------------------------------------------
(* The commands for Proxmox: one to create the VM, one for each disk to    *)
(* import it and one to attach it, then the rest.                          *)

AreInRow(l, s, t, u, b, e) ==
  /\ Len(l) = Len(s) + Len(t) + Len(u) + Len(b) + Len(e)
  /\ \A k \in 1..Len(s) : l[k] = s[k]
  /\ \A k \in 1..Len(t) : l[Len(s) + k] = t[k]
  /\ \A k \in 1..Len(u) : l[Len(s) + Len(t) + k] = u[k]
  /\ \A k \in 1..Len(b) : l[Len(s) + Len(t) + Len(u) + k] = b[k]
  /\ \A k \in 1..Len(e) : l[Len(s) + Len(t) + Len(u) + Len(b) + k] = e[k]

\* Where the elements of five joined lists are.
LEMMA FiveLists ==
  ASSUME NEW S, NEW s \in Seq(S), NEW t \in Seq(S), NEW u \in Seq(S), NEW b \in Seq(S), NEW e \in Seq(S),
         NEW l, l = s \o t \o u \o b \o e
  PROVE  l \in Seq(S) /\ AreInRow(l, s, t, u, b, e)
<1> DEFINE j == s \o t \o u
           q == j \o b
<1>1. j \in Seq(S) /\ AreJoined(j, s, t, u)
  BY JoinedLists
<1> HIDE DEF j
<1>2. /\ q \in Seq(S) /\ Len(q) = Len(j) + Len(b) /\ \A k \in 1..Len(j) : q[k] = j[k]
      /\ \A k \in 1..Len(b) : q[Len(j) + k] = b[k]
  BY <1>1, TwoLists
<1> HIDE DEF q
<1>3. /\ q \o e \in Seq(S) /\ Len(q \o e) = Len(q) + Len(e) /\ \A k \in 1..Len(q) : (q \o e)[k] = q[k]
      /\ \A k \in 1..Len(e) : (q \o e)[Len(q) + k] = e[k]
  <2>1. q \in Seq(S) /\ e \in Seq(S)
    BY <1>2
  <2> QED BY ONLY <2>1, TwoLists
<1>4. l = q \o e
  BY DEF j, q
<1> DEFINE a1 == Len(s)
           a2 == Len(t)
           a3 == Len(u)
           a4 == Len(b)
           a5 == Len(e)
<1>5. a1 \in Nat /\ a2 \in Nat /\ a3 \in Nat /\ a4 \in Nat /\ a5 \in Nat
  OBVIOUS
<1>6. /\ l \in Seq(S) /\ Len(l) = Len(q) + a5 /\ \A k \in 1..Len(q) : l[k] = q[k]
      /\ \A k \in 1..a5 : l[Len(q) + k] = e[k]
  BY <1>3, <1>4
<1>7. /\ Len(j) = a1 + a2 + a3
      /\ \A k \in 1..a1 : j[k] = s[k]
      /\ \A k \in 1..a2 : j[a1 + k] = t[k]
      /\ \A k \in 1..a3 : j[a1 + a2 + k] = u[k]
  BY <1>1 DEF AreJoined
<1>8. /\ Len(q) = Len(j) + a4 /\ \A k \in 1..Len(j) : q[k] = j[k]
      /\ \A k \in 1..a4 : q[Len(j) + k] = b[k]
  BY <1>2
<1> HIDE DEF a1, a2, a3, a4, a5
<1>9. /\ \A k \in 1..a1 : k \in 1..Len(j) /\ k \in 1..Len(q)
      /\ \A k \in 1..a2 : a1 + k \in 1..Len(j) /\ a1 + k \in 1..Len(q)
      /\ \A k \in 1..a3 : a1 + a2 + k \in 1..Len(j) /\ a1 + a2 + k \in 1..Len(q)
      /\ \A k \in 1..a4 : Len(j) + k \in 1..Len(q)
      /\ Len(q) = a1 + a2 + a3 + a4
  BY ONLY <1>5, <1>7, <1>8
<1>10. /\ Len(l) = a1 + a2 + a3 + a4 + a5
       /\ \A k \in 1..a1 : l[k] = s[k]
       /\ \A k \in 1..a2 : l[a1 + k] = t[k]
       /\ \A k \in 1..a3 : l[a1 + a2 + k] = u[k]
  BY ONLY <1>6, <1>7, <1>8, <1>9
<1>11. /\ \A k \in 1..a4 : l[a1 + a2 + a3 + k] = b[k]
       /\ \A k \in 1..a5 : l[a1 + a2 + a3 + a4 + k] = e[k]
  <2>1. \A k \in 1..a4 : l[Len(j) + k] = b[k]
    BY ONLY <1>6, <1>8, <1>9
  <2> QED BY ONLY <1>6, <1>7, <1>9, <2>1
<1> QED BY <1>6, <1>10, <1>11 DEF AreInRow, a1, a2, a3, a4, a5

\* n disks are imported, then attached.
AreCommands(s, n, create, imports, attaches) ==
  /\ s \in Seq(Elements(s)) /\ n \in Nat /\ Len(s) >= 1 + 2 * n
  /\ s[1] = create /\ create.op = "create"
  /\ \A i \in 1..n : s[1 + i] = imports[i] /\ imports[i].op = "importdisk"
  /\ \A i \in 1..n : s[1 + n + i] = attaches[i] /\ attaches[i].op = "attach"
  /\ \A k \in 1..Len(s) : k > 1 + 2 * n => s[k].op \in {"boot", "efidisk"}

\* At most one command, of one kind.
LEMMA FewCommands ==
  ASSUME NEW op, NEW b, b = <<>> \/ \E x : b = <<x>> /\ x.op = op
  PROVE  /\ Len(b) \in Nat /\ b = [i \in 1..Len(b) |-> b[i]] /\ DOMAIN b = 1..Len(b)
         /\ \A i \in 1..Len(b) : b[i].op = op
<1>1. CASE b = <<>>
  <2>1. Len(b) = 0 /\ DOMAIN b = 1..0 /\ b = [i \in 1..0 |-> b[i]]
    BY <1>1
  <2> QED BY <2>1
<1>2. ASSUME NEW x, b = <<x>>, x.op = op
      PROVE  /\ Len(b) \in Nat /\ b = [i \in 1..Len(b) |-> b[i]] /\ DOMAIN b = 1..Len(b)
             /\ \A i \in 1..Len(b) : b[i].op = op
  <2>1. Len(b) = 1 /\ DOMAIN b = 1..1 /\ b[1] = x
    BY <1>2
  <2>2. b = [i \in 1..1 |-> b[i]]
    BY <1>2
  <2> QED BY <1>2, <2>1, <2>2
<1> QED BY <1>1, <1>2

\* What generate_proxmox_commands returns.
LEMMA CommandsAre ==
  ASSUME NEW v, NEW h, NEW paths, NEW network, NEW n \in Nat, Len(v.disks) = n, Len(paths) = n,
         NEW s, s = generate_proxmox_commands(v, h, paths, network)
  PROVE  AreCommands(s, n, CreateCommand(v, h, network), ImportCommands(paths), AttachCommands(v, h))
<1> DEFINE create == CreateCommand(v, h, network)
           c == <<create>>
           t == ImportCommands(paths)
           u == AttachCommands(v, h)
           b == BootCommands(v, h)
           e == EfidiskCommands(h)
           S == {create} \cup {t[i] : i \in 1..n} \cup {u[i] : i \in 1..n}
                  \cup {b[i] : i \in 1..Len(b)} \cup {e[i] : i \in 1..Len(e)}
<1>1. s = c \o t \o u \o b \o e
  BY DEF generate_proxmox_commands
<1>2. create.op = "create"
  BY DEF CreateCommand
<1>3. /\ DOMAIN t = 1..n /\ t = [i \in 1..n |-> t[i]]
      /\ \A i \in 1..n : t[i].op = "importdisk"
  BY DEF ImportCommands
<1>4. /\ DOMAIN u = 1..n /\ u = [i \in 1..n |-> u[i]]
      /\ \A i \in 1..n : u[i].op = "attach"
  <2> DEFINE Slot(i) == <<ProxmoxPrefix(h), i - 1>>
  <2>1. u = [i \in 1..n |-> [op |-> "attach", slot |-> Slot(i), volume |-> i - 1]]
    BY DEF AttachCommands
  <2> HIDE DEF u, Slot
  <2> QED BY <2>1
<1>5. b = <<>> \/ \E x : b = <<x>> /\ x.op = "boot"
  BY DEF BootCommands
<1>6. e = <<>> \/ \E x : e = <<x>> /\ x.op = "efidisk"
  BY DEF EfidiskCommands
<1> HIDE DEF create, t, u, b, e
<1>7. /\ Len(b) \in Nat /\ b = [i \in 1..Len(b) |-> b[i]] /\ DOMAIN b = 1..Len(b)
      /\ \A i \in 1..Len(b) : b[i].op = "boot"
  BY <1>5, FewCommands
<1>8. /\ Len(e) \in Nat /\ e = [i \in 1..Len(e) |-> e[i]] /\ DOMAIN e = 1..Len(e)
      /\ \A i \in 1..Len(e) : e[i].op = "efidisk"
  BY <1>6, FewCommands
<1>9. /\ t \in [1..n -> S] /\ u \in [1..n -> S] /\ b \in [1..Len(b) -> S] /\ e \in [1..Len(e) -> S] /\ create \in S
  BY <1>3, <1>4, <1>7, <1>8
<1> HIDE DEF S
<1>10. /\ c \in Seq(S) /\ t \in Seq(S) /\ u \in Seq(S) /\ b \in Seq(S) /\ e \in Seq(S)
       /\ Len(t) = n /\ Len(u) = n
  <2>1. t \in Seq(S) /\ Len(t) = n
    BY <1>9, FunctionIsSequence
  <2>2. u \in Seq(S) /\ Len(u) = n
    BY <1>9, FunctionIsSequence
  <2>3. b \in Seq(S)
    BY <1>7, <1>9, FunctionIsSequence
  <2>4. e \in Seq(S)
    BY <1>8, <1>9, FunctionIsSequence
  <2>5. c \in Seq(S)
    BY <1>9
  <2> QED BY <2>1, <2>2, <2>3, <2>4, <2>5
<1>11. Len(c) = 1 /\ c[1] = create /\ 1 \in 1..1
  OBVIOUS
<1> HIDE DEF c
<1>12. s \in Seq(S) /\ AreInRow(s, c, t, u, b, e)
  BY ONLY <1>1, <1>10, FiveLists
<1> DEFINE B == Len(b)
           E == Len(e)
<1>13. /\ Len(s) = 1 + n + n + B + E /\ s[1] = create
       /\ \A k \in 1..n : s[1 + k] = t[k]
       /\ \A k \in 1..n : s[1 + n + k] = u[k]
       /\ \A k \in 1..B : s[1 + n + n + k] = b[k]
       /\ \A k \in 1..E : s[1 + n + n + B + k] = e[k]
  BY ONLY <1>10, <1>11, <1>12 DEF AreInRow
<1>14. B \in Nat /\ E \in Nat
  BY <1>7, <1>8
<1> HIDE DEF B, E
<1>15. Len(s) \in Nat /\ Len(s) >= 1 + 2 * n
  BY ONLY <1>13, <1>14, n \in Nat
<1>16. s \in Seq(Elements(s))
  BY <1>12 DEF Elements
<1>17. ASSUME NEW k \in 1..Len(s), k > 1 + 2 * n PROVE s[k].op \in {"boot", "efidisk"}
  <2>1. \/ k - (1 + n + n) \in 1..B /\ k = 1 + n + n + (k - (1 + n + n))
        \/ k - (1 + n + n + B) \in 1..E /\ k = 1 + n + n + B + (k - (1 + n + n + B))
    BY ONLY <1>13, <1>14, <1>17, n \in Nat
  <2>2. ASSUME NEW i \in 1..B, k = 1 + n + n + i PROVE s[k].op = "boot"
    <3>1. s[k] = b[i]
      BY ONLY <1>13, <2>2
    <3> QED BY <1>7, <3>1 DEF B
  <2>3. ASSUME NEW i \in 1..E, k = 1 + n + n + B + i PROVE s[k].op = "efidisk"
    <3>1. s[k] = e[i]
      BY ONLY <1>13, <2>3
    <3> QED BY <1>8, <3>1 DEF E
  <2> QED BY <2>1, <2>2, <2>3
<1> QED BY <1>2, <1>3, <1>4, <1>13, <1>15, <1>16, <1>17 DEF AreCommands, create, t, u

\* The commands of a kind that are next to each other.
LieTogether(s, n, from, op) ==
  /\ \A i \in 1..n : from + i \in 1..Len(s) /\ s[from + i].op = op
  /\ \A k \in 1..Len(s) : s[k].op = op => k - from \in 1..n

IsPart(kept, n, s, from) == Len(kept) = n /\ \A i \in 1..n : kept[i] = s[from + i]

KindOf(s, op) == Only(s, {c \in Elements(s) : c.op = op})

LEMMA OneKind ==
  ASSUME NEW s, s \in Seq(Elements(s)), NEW n, n \in Nat, NEW from, from \in Nat, NEW op,
         LieTogether(s, n, from, op)
  PROVE  IsPart(KindOf(s, op), n, s, from)
<1>0. /\ \A i \in 1..n : from + i \in 1..Len(s) /\ s[from + i].op = op
      /\ \A k \in 1..Len(s) : s[k].op = op => k - from \in 1..n
  BY DEF LieTogether
<1> USE <1>0
<1> DEFINE A == Elements(s)
           wanted == {c \in Elements(s) : c.op = op}
           h == [i \in 1..n |-> from + i]
<1>1. \A k \in 1..Len(s) : s[k] \in wanted <=> s[k].op = op
  BY ElementsAre
<1>2. \A i \in 1..n : h[i] = from + i
  OBVIOUS
<1>3. h \in [1..n -> 1..Len(s)]
  OBVIOUS
<1>4. Len(s) \in Nat
  OBVIOUS
<1> HIDE DEF wanted, h, A
<1>5. Rising(h, n)
  BY <1>2 DEF Rising
<1>6. \A i \in 1..n : s[h[i]] \in wanted
  BY <1>1, <1>2
<1>7. \A k \in 1..Len(s) : s[k] \in wanted => \E i \in 1..n : h[i] = k
  <2>1. SUFFICES ASSUME NEW k \in 1..Len(s), s[k] \in wanted PROVE \E i \in 1..n : h[i] = k
    OBVIOUS
  <2>2. k - from \in 1..n
    BY <1>1, <2>1
  <2>3. h[k - from] = k
    BY <1>2, <1>4, <2>2
  <2> QED BY <2>2, <2>3
<1>8. s \in Seq(A) /\ n \in Nat /\ Picks(h, n, s, wanted)
  BY <1>3, <1>5, <1>6, <1>7 DEF Picks, A
<1>9. IsPicked(Only(s, wanted), h, n, s)
  BY ONLY <1>8, OnlyIs
<1>10. KindOf(s, op) = Only(s, wanted)
  BY DEF KindOf, wanted
<1> QED BY <1>2, <1>9, <1>10 DEF IsPicked, IsPart

\* The imports and the attachments, as they are asked for by Commands.
LEMMA KindsAre ==
  ASSUME NEW s, NEW n, NEW create, NEW imports, NEW attaches, AreCommands(s, n, create, imports, attaches)
  PROVE  /\ Len(KindOf(s, "importdisk")) = n /\ \A i \in 1..n : KindOf(s, "importdisk")[i] = imports[i]
         /\ Len(KindOf(s, "attach")) = n /\ \A i \in 1..n : KindOf(s, "attach")[i] = attaches[i]
<1> DEFINE L == Len(s)
<1>1. /\ s \in Seq(Elements(s)) /\ n \in Nat /\ L >= 1 + 2 * n
      /\ s[1] = create /\ create.op = "create"
      /\ \A i \in 1..n : s[1 + i] = imports[i] /\ imports[i].op = "importdisk"
      /\ \A i \in 1..n : s[1 + n + i] = attaches[i] /\ attaches[i].op = "attach"
      /\ \A k \in 1..L : k > 1 + 2 * n => s[k].op \in {"boot", "efidisk"}
  BY DEF AreCommands
<1>2. L \in Nat
  BY <1>1
<1>3. \A i \in 1..n : 1 + i \in 1..L /\ 1 + n + i \in 1..L
  <2> HIDE DEF L
  <2> QED BY <1>1, <1>2
<1>4. ASSUME NEW k \in 1..L
      PROVE  \/ k = 1 /\ s[k].op = "create"
             \/ k - 1 \in 1..n /\ s[k].op = "importdisk"
             \/ k - (1 + n) \in 1..n /\ s[k].op = "attach"
             \/ s[k].op \in {"boot", "efidisk"}
  <2> HIDE DEF L
  <2>1. \/ k = 1
        \/ k - 1 \in 1..n /\ k = 1 + (k - 1)
        \/ k - (1 + n) \in 1..n /\ k = 1 + n + (k - (1 + n))
        \/ k > 1 + 2 * n
    BY <1>1, <1>2
  <2>2. ASSUME NEW i \in 1..n, k = 1 + i PROVE s[k].op = "importdisk"
    <3>1. s[k] = imports[i] /\ imports[i].op = "importdisk"
      BY <1>1, <2>2
    <3> QED BY ONLY <3>1
  <2>3. ASSUME NEW i \in 1..n, k = 1 + n + i PROVE s[k].op = "attach"
    <3>1. s[k] = attaches[i] /\ attaches[i].op = "attach"
      BY <1>1, <2>3
    <3> QED BY ONLY <3>1
  <2> QED BY <1>1, <2>1, <2>2, <2>3
<1>5. /\ \A k \in 1..L : s[k].op = "importdisk" => k - 1 \in 1..n
      /\ \A k \in 1..L : s[k].op = "attach" => k - (1 + n) \in 1..n
  BY <1>4
<1>6. /\ \A i \in 1..n : 1 + i \in 1..Len(s) /\ s[1 + i].op = "importdisk"
      /\ \A i \in 1..n : 1 + n + i \in 1..Len(s) /\ s[1 + n + i].op = "attach"
  <2>1. ASSUME NEW i \in 1..n PROVE s[1 + i].op = "importdisk" /\ s[1 + n + i].op = "attach"
    <3>1. s[1 + i] = imports[i] /\ imports[i].op = "importdisk"
      BY <1>1
    <3>2. s[1 + n + i] = attaches[i] /\ attaches[i].op = "attach"
      BY <1>1
    <3> QED BY ONLY <3>1, <3>2
  <2> QED BY <1>3, <2>1
<1>7. LieTogether(s, n, 1, "importdisk")
  BY <1>5, <1>6 DEF LieTogether
<1>8. LieTogether(s, n, 1 + n, "attach")
  BY <1>5, <1>6 DEF LieTogether
<1>9. 1 \in Nat /\ 1 + n \in Nat
  BY <1>1
<1>10. IsPart(KindOf(s, "importdisk"), n, s, 1)
  BY ONLY <1>1, <1>7, <1>9, OneKind
<1>11. IsPart(KindOf(s, "attach"), n, s, 1 + n)
  BY ONLY <1>1, <1>8, <1>9, OneKind
<1> QED BY <1>1, <1>10, <1>11 DEF IsPart

\* The disk to boot from is the first.
LEMMA BootDiskIs ==
  ASSUME NEW v, NEW t, ReadsDisks(v.disks, t), t # <<>>, t \in Seq(DriveType)
  PROVE  boot_disk(v).path = t[1].file
<1> DEFINE s == v.disks
           A == Elements(s)
           wanted == {d \in Elements(s) : d.is_boot}
           n == 1
           h == [i \in 1..1 |-> 1]
<1>1. Len(t) \in Nat /\ Len(t) # 0
  OBVIOUS
<1>2. /\ s \in Seq(A) /\ Len(s) = Len(t) /\ 1 \in 1..Len(s)
      /\ \A i \in 1..Len(s) : s[i].path = t[i].file /\ (s[i].is_boot <=> i = 1)
  BY <1>1 DEF ReadsDisks
<1>3. \A k \in 1..Len(s) : s[k] \in wanted <=> k = 1
  BY <1>2, ElementsAre
<1>4. h \in [1..n -> 1..Len(s)] /\ h[1] = 1 /\ n \in Nat /\ 1 \in 1..n /\ \A i \in 1..n : i = 1
  BY <1>2
<1>5. boot_disk(v) = IF Only(s, wanted) = <<>> THEN s[1] ELSE Only(s, wanted)[1]
  BY DEF boot_disk
<1> HIDE DEF s, wanted, n, h, A
<1>6. s \in Seq(A) /\ n \in Nat /\ Picks(h, n, s, wanted)
  BY <1>2, <1>3, <1>4 DEF Picks, Rising
<1>7. IsPicked(Only(s, wanted), h, n, s)
  BY ONLY <1>6, OnlyIs
<1>8. Only(s, wanted)[1] = s[1]
  BY <1>4, <1>7 DEF IsPicked
<1> QED BY <1>2, <1>5, <1>8

\* The firmware of the two kinds of machine.
LEMMA FirmwareIs == map_firmware("efi") = "ovmf" /\ map_firmware("bios") = NoFirmware
<1>1. Lower("efi") = "efi" /\ Lower("bios") = "bios"
  BY LowerCaseWords DEF LowerCase
<1> QED BY <1>1 DEF map_firmware, FIRMWARE_MAP, Get

-----------------------------------------------------------------------------
(* What the generators make of it.                                         *)

\* What stage 2 leaves, and the generators.
Mapped == map_hardware(vm.scsi_controller,
                       IF vm.nics = <<>> THEN "e1000" ELSE vm.nics[1].virtual_dev,
                       vm.firmware,
                       invocation.windows_safe \/ is_windows(vm))

Generated == IF Kvm THEN generate_libvirt_xml(vm, hw, Paths, net) ELSE generate_proxmox_commands(vm, hw, Paths, net)

\* The images the disks will be in.
LEMMA PathsAre ==
  ASSUME NEW m, NEW t, ReadsMachine(vm, m, t), NEW n, n = Len(t), t \in Seq(DriveType)
  PROVE  /\ n \in Nat /\ Len(vm.disks) = n /\ Len(Paths) = n /\ Paths = [i \in 1..n |-> Paths[i]]
         /\ Paths = [i \in 1..n |-> <<t[i].file[1], ".qcow2">>]
<1>1. n \in Nat /\ Len(vm.disks) = n /\ \A i \in 1..n : vm.disks[i].path = t[i].file
  BY DEF ReadsMachine, ReadsDisks
<1>2. Paths = [i \in 1..n |-> <<vm.disks[i].path[1], ".qcow2">>]
  BY <1>1 DEF Paths
<1>3. ASSUME NEW i \in 1..n PROVE <<vm.disks[i].path[1], ".qcow2">> = <<t[i].file[1], ".qcow2">>
  BY <1>1
<1>4. Paths = [i \in 1..n |-> <<t[i].file[1], ".qcow2">>]
  BY <1>2, <1>3
<1> QED BY <1>1, <1>4

\* For libvirt.
LEMMA DomainIs ==
  ASSUME Kvm, result = Generated, NEW n \in Nat, Len(vm.disks) = n, Len(Paths) = n, Paths = [i \in 1..n |-> Paths[i]]
  PROVE  /\ Images = Paths
         /\ Drives = [i \in 1..n |-> <<LibvirtBus(hw), i - 1>>]
         /\ Made = [name |-> vm.name, memory |-> vm.memory_mb, vcpus |-> vm.vcpus, firmware |-> hw.firmware]
         /\ Nics = _build_nics(vm, hw, net)
<1> DEFINE name == vm.name
           memory == vm.memory_mb
           vcpus == vm.vcpus
           firmware == hw.firmware
           files == SubSeq(Paths, 1, n)
           slots == [i \in 1..n |-> <<LibvirtBus(hw), i - 1>>]
           nics == _build_nics(vm, hw, net)
<1>1. Zipped(vm, Paths) = n
  BY DEF Zipped
<1>2. result = [name |-> name, memory |-> memory, vcpus |-> vcpus, firmware |-> firmware,
                files |-> files, slots |-> slots, nics |-> nics]
  BY <1>1 DEF Generated, generate_libvirt_xml
<1>3. files = Paths
  OBVIOUS
<1> HIDE DEF name, memory, vcpus, firmware, files, slots, nics
<1>4. /\ result.name = name /\ result.memory = memory /\ result.vcpus = vcpus /\ result.firmware = firmware
      /\ result.files = files /\ result.slots = slots /\ result.nics = nics
  BY ONLY <1>2
<1>5. /\ Images = result.files /\ Drives = result.slots /\ Nics = result.nics
      /\ Made = [name |-> result.name, memory |-> result.memory, vcpus |-> result.vcpus, firmware |-> result.firmware]
  BY DEF Images, Drives, Nics, Made
<1>6. Made = [name |-> name, memory |-> memory, vcpus |-> vcpus, firmware |-> firmware]
  BY ONLY <1>4, <1>5
<1> QED BY <1>3, <1>4, <1>5, <1>6 DEF name, memory, vcpus, firmware, slots, nics

\* For Proxmox.
LEMMA VmIs ==
  ASSUME ~Kvm, result = Generated, NEW n \in Nat, Len(vm.disks) = n, Len(Paths) = n, Paths = [i \in 1..n |-> Paths[i]]
  PROVE  /\ Images = Paths
         /\ Drives = [i \in 1..n |-> <<ProxmoxPrefix(hw), i - 1>>]
         /\ Made = [name |-> vm.name, memory |-> vm.memory_mb, vcpus |-> vm.vcpus, firmware |-> hw.firmware]
         /\ Nics = << _build_nic_string(vm, hw, net) >>
<1> DEFINE s == result
           create == CreateCommand(vm, hw, net)
           imports == ImportCommands(Paths)
           attaches == AttachCommands(vm, hw)
           paths == Paths
           network == net
           name == vm.name
           memory == vm.memory_mb
           cores == vm.vcpus
           firmware == hw.firmware
           net0 == _build_nic_string(vm, hw, net)
           scsihw == _map_scsihw(hw)
           Slot(i) == <<ProxmoxPrefix(hw), i - 1>>
           File(i) == Paths[i]
<1>1. create = [op |-> "create", name |-> name, memory |-> memory, cores |-> cores, scsihw |-> scsihw,
                firmware |-> firmware, net0 |-> net0]
  BY DEF CreateCommand
<1>2. imports = [i \in 1..n |-> [op |-> "importdisk", file |-> File(i)]]
  BY DEF ImportCommands
<1>3. attaches = [i \in 1..n |-> [op |-> "attach", slot |-> Slot(i), volume |-> i - 1]]
  BY DEF AttachCommands
<1>4. AreCommands(s, n, create, imports, attaches)
  <2>1. s = generate_proxmox_commands(vm, hw, paths, network) /\ n \in Nat /\ Len(vm.disks) = n /\ Len(paths) = n
    BY DEF Generated
  <2> HIDE DEF s, paths, network
  <2>2. AreCommands(s, n, CreateCommand(vm, hw, network), ImportCommands(paths), AttachCommands(vm, hw))
    BY ONLY <2>1, CommandsAre
  <2> QED BY <2>2 DEF paths, network
<1>5. /\ Images = [i \in 1..Len(KindOf(s, "importdisk")) |-> KindOf(s, "importdisk")[i].file]
      /\ Drives = [i \in 1..Len(KindOf(s, "attach")) |-> KindOf(s, "attach")[i].slot]
      /\ Made = [name |-> s[1].name, memory |-> s[1].memory, vcpus |-> s[1].cores, firmware |-> s[1].firmware]
      /\ Nics = << s[1].net0 >>
  BY DEF Images, Drives, Made, Nics, Commands, KindOf
<1> HIDE DEF s, create, imports, attaches, name, memory, cores, firmware, net0, scsihw, Slot, File
<1>6. /\ Len(KindOf(s, "importdisk")) = n /\ \A i \in 1..n : KindOf(s, "importdisk")[i] = imports[i]
      /\ Len(KindOf(s, "attach")) = n /\ \A i \in 1..n : KindOf(s, "attach")[i] = attaches[i]
  BY ONLY <1>4, KindsAre
<1>7. s[1] = create
  BY <1>4 DEF AreCommands
<1>8. /\ create.name = name /\ create.memory = memory /\ create.cores = cores /\ create.firmware = firmware
      /\ create.net0 = net0
  BY ONLY <1>1
<1>9. \A i \in 1..n : imports[i].file = File(i)
  BY ONLY <1>2
<1>10. \A i \in 1..n : attaches[i].slot = Slot(i)
  BY ONLY <1>3
<1>11. Images = [i \in 1..n |-> File(i)]
  BY ONLY <1>5, <1>6, <1>9
<1>12. Drives = [i \in 1..n |-> Slot(i)]
  BY ONLY <1>5, <1>6, <1>10
<1>13. Made = [name |-> name, memory |-> memory, vcpus |-> cores, firmware |-> firmware] /\ Nics = << net0 >>
  BY ONLY <1>5, <1>7, <1>8
<1> QED BY <1>11, <1>12, <1>13 DEF name, memory, cores, firmware, net0, Slot, File

-----------------------------------------------------------------------------
(* The inductive invariant: what each stage has left for the next.         *)

MayFail ==
  \/ kind \notin {".vmx", ".ovf", ".ova"}
  \/ kind = ".vmx" /\ machine.name = ""
  \/ Kvm /\ Len(SoughtDisks) > DevLetters

ImportInv ==
  /\ invocation \in Invocations
  /\ stage \in {"parse", "map", "bridge", "generate", "done", "failed"}
  /\ vm = NotYet \/ ReadsExport(vm)
  /\ stage \in {"map", "bridge", "generate", "done"} => ReadsExport(vm)
  /\ stage \in {"map", "bridge", "generate", "done"} /\ kind = ".ova" => extracted = Extracted(OvaOf(machine))
  /\ stage \in {"bridge", "generate", "done"} => hw = Mapped
  /\ stage = "done" => result = Generated
  /\ stage = "failed" => MayFail

\* The disks that the program looks for are drives.
LEMMA SoughtAre ==
  ASSUME IsMachine(machine)
  PROVE  SoughtDisks \in Seq(DriveType)
BY DisksHavePlaces, ScannedHavePlaces DEF SoughtDisks, HavePlaces

\* More device letters than there are would be asked for.
LEMMA LettersRunOut ==
  ASSUME invocation \in Invocations, ReadsExport(vm), Kvm, LibvirtIndexError(vm, Paths)
  PROVE  MayFail
<1>1. IsMachine(machine) /\ ReadsMachine(vm, machine, SoughtDisks)
  BY InvocationIs DEF ReadsExport
<1>2. SoughtDisks \in Seq(DriveType)
  BY <1>1, SoughtAre
<1> DEFINE n == Len(SoughtDisks)
<1>3. n \in Nat /\ Len(vm.disks) = n /\ Len(Paths) = n
  BY <1>1, <1>2, PathsAre
<1>4. Zipped(vm, Paths) = n
  BY <1>3 DEF Zipped
<1> QED BY <1>4 DEF MayFail, LibvirtIndexError

\* ImportInv holds at first, and every step keeps it.
LEMMA InitImportInv == Init => ImportInv
BY DEF Init, ImportInv

LEMMA StepImportInv == ImportInv /\ [Next]_vars => ImportInv'
<1> SUFFICES ASSUME ImportInv, [Next]_vars PROVE ImportInv'
  OBVIOUS
<1>1. ASSUME vm' = vm, invocation' = invocation PROVE ReadsExport(vm)' <=> ReadsExport(vm)
  BY <1>1 DEF ReadsExport, SoughtDisks, machine, kind
<1>2. ASSUME vm' = vm, invocation' = invocation PROVE Mapped' = Mapped
  BY <1>2 DEF Mapped
<1>3. ASSUME invocation' = invocation PROVE kind' = kind /\ machine' = machine /\ MayFail' = MayFail
  BY <1>3 DEF kind, machine, MayFail, Kvm, SoughtDisks
<1>4. CASE UNCHANGED vars
  <2>1. UNCHANGED <<invocation, stage, vm, extracted, hw, bridge, result>>
    BY <1>4 DEF vars
  <2>2. Generated' = Generated
    BY <2>1 DEF Generated, Kvm, Paths, net
  <2> QED BY <1>1, <1>2, <1>3, <2>1, <2>2 DEF ImportInv, NotYet
<1>5. CASE Parse
  <2>1. /\ stage = "parse" /\ stage' = "map" /\ vm' = _parse_source /\ invocation' = invocation
        /\ extracted' = IF kind = ".ova" THEN Extracted(OvaOf(machine)) ELSE {}
    BY <1>5 DEF Parse
  <2>2. Succeeds(_parse_source)
    BY <1>5 DEF Parse, Succeeds
  <2>3. ReadsExport(_parse_source)
    BY <2>2, ParsedIs DEF ImportInv
  <2>4. ReadsExport(vm)'
    BY <2>1, <2>3 DEF ReadsExport, SoughtDisks, machine, kind
  <2> QED BY <1>3, <2>1, <2>4 DEF ImportInv
<1>6. CASE ParseFails
  <2>1. stage' = "failed" /\ UNCHANGED <<invocation, vm>> /\ ~Succeeds(_parse_source)
    BY <1>6 DEF ParseFails, Succeeds
  <2>2. MayFail
    BY <2>1, NoneIsRefused DEF MayFail, ImportInv
  <2> QED BY <1>1, <1>3, <2>1, <2>2 DEF ImportInv, NotYet
<1>7. CASE MapHardware
  <2>1. stage = "map" /\ stage' = "bridge" /\ UNCHANGED <<invocation, vm, extracted>> /\ hw' = Mapped
    BY <1>7 DEF MapHardware, Mapped
  <2> QED BY <1>1, <1>2, <1>3, <2>1 DEF ImportInv, NotYet
<1>8. CASE DetectBridge
  <2>1. stage = "bridge" /\ stage' = "generate" /\ UNCHANGED <<invocation, vm, extracted, hw>>
    BY <1>8 DEF DetectBridge
  <2> QED BY <1>1, <1>2, <1>3, <2>1 DEF ImportInv, NotYet
<1>9. CASE Generate
  <2>1. stage = "generate" /\ UNCHANGED <<invocation, vm, extracted, hw, bridge>>
    BY <1>9 DEF Generate
  <2>2. \/ stage' = "failed" /\ MayFail
        \/ stage' = "done" /\ result' = Generated
    BY <1>9, LettersRunOut DEF Generate, Generated, Kvm, ImportInv
  <2>3. Generated' = Generated
    BY <2>1 DEF Generated, Kvm, Paths, net
  <2> QED BY <1>1, <1>2, <1>3, <2>1, <2>2, <2>3 DEF ImportInv, NotYet
<1> QED BY <1>4, <1>5, <1>6, <1>7, <1>8, <1>9 DEF Next

\* All of it, when the program is done.
LEMMA WhenDone ==
  ASSUME ImportInv, Done
  PROVE  /\ ReadsExport(vm) /\ hw = Mapped /\ result = Generated /\ IsMachine(machine)
         /\ SoughtDisks \in Seq(DriveType) /\ machine.nics \in Seq(NicType)
         /\ kind = ".ova" => extracted = Extracted(OvaOf(machine))
<1>1. invocation \in Invocations /\ ReadsExport(vm) /\ hw = Mapped /\ result = Generated
  BY DEF ImportInv, Done
<1>2. IsMachine(machine)
  BY <1>1, InvocationIs
<1>3. SoughtDisks \in Seq(DriveType) /\ machine.nics \in Seq(NicType)
  BY <1>2, SoughtAre, MachineIs
<1> QED BY <1>1, <1>2, <1>3 DEF ImportInv, Done

\* The result, whichever target it is for.
LEMMA MadeOf ==
  ASSUME ImportInv, Done, NEW n, n = Len(SoughtDisks)
  PROVE  /\ n \in Nat /\ ReadsMachine(vm, machine, SoughtDisks) /\ hw = Mapped
         /\ Images = [i \in 1..n |-> <<SoughtDisks[i].file[1], ".qcow2">>]
         /\ Drives = [i \in 1..n |-> <<IF Kvm THEN LibvirtBus(hw) ELSE ProxmoxPrefix(hw), i - 1>>]
         /\ Made = [name |-> vm.name, memory |-> vm.memory_mb, vcpus |-> vm.vcpus, firmware |-> hw.firmware]
         /\ Nics = IF Kvm THEN _build_nics(vm, hw, net) ELSE << _build_nic_string(vm, hw, net) >>
<1> DEFINE m == machine
           t == SoughtDisks
<1>1. ReadsMachine(vm, m, t) /\ t \in Seq(DriveType) /\ result = Generated /\ hw = Mapped
  BY WhenDone DEF ReadsExport
<1>2. n = Len(t)
  OBVIOUS
<1> HIDE DEF m, t
<1>3. /\ n \in Nat /\ Len(vm.disks) = n /\ Len(Paths) = n /\ Paths = [i \in 1..n |-> Paths[i]]
      /\ Paths = [i \in 1..n |-> <<t[i].file[1], ".qcow2">>]
  BY ONLY <1>1, <1>2, PathsAre
<1>4. CASE Kvm
  BY <1>1, <1>3, <1>4, DomainIs DEF m, t
<1>5. CASE ~Kvm
  BY <1>1, <1>3, <1>5, VmIs DEF m, t
<1> QED BY <1>4, <1>5

\* Each invariant follows.
LEMMA DisksAreFound == ImportInv => EveryDiskIsFound
<1> SUFFICES ASSUME ImportInv, Done
             PROVE  LET disks == SoughtDisks
                    IN  /\ Images = [i \in 1..Len(disks) |-> <<disks[i].file[1], ".qcow2">>]
                        /\ Len(Drives) = Len(disks)
                        /\ disks # <<>> => boot_disk(vm).path = disks[1].file
                        /\ kind = ".ova" => \A i \in 1..Len(disks) : vm.disks[i].path \in extracted
  BY DEF EveryDiskIsFound
<1> DEFINE t == SoughtDisks
           n == Len(t)
<1>1. /\ n \in Nat /\ ReadsMachine(vm, machine, SoughtDisks)
      /\ Images = [i \in 1..n |-> <<t[i].file[1], ".qcow2">>]
      /\ Drives = [i \in 1..n |-> <<IF Kvm THEN LibvirtBus(hw) ELSE ProxmoxPrefix(hw), i - 1>>]
  BY MadeOf
<1>2. t \in Seq(DriveType) /\ ReadsExport(vm) /\ (kind = ".ova" => extracted = Extracted(OvaOf(machine)))
  BY WhenDone
<1>3. ReadsDisks(vm.disks, SoughtDisks)
  BY <1>1 DEF ReadsMachine
<1>4. t # <<>> => boot_disk(vm).path = t[1].file
  BY <1>2, <1>3, BootDiskIs
<1>5. kind = ".ova" => \A i \in 1..n : vm.disks[i].path \in extracted
  BY <1>2, <1>3 DEF ReadsExport, ReadsDisks
<1>6. Len(Drives) = n
  <2> HIDE DEF n
  <2> QED BY <1>1
<1> QED BY <1>1, <1>4, <1>5, <1>6

LEMMA HardwareIs == ImportInv => HardwareSurvives
<1> SUFFICES ASSUME ImportInv, Done
             PROVE  Made = [name |-> machine.name, memory |-> machine.memory, vcpus |-> machine.vcpus,
                            firmware |-> IF machine.efi THEN "ovmf" ELSE NoFirmware]
  BY DEF HardwareSurvives
<1>1. /\ ReadsMachine(vm, machine, SoughtDisks) /\ hw = Mapped
      /\ Made = [name |-> vm.name, memory |-> vm.memory_mb, vcpus |-> vm.vcpus, firmware |-> hw.firmware]
  BY MadeOf
<1>2. hw.firmware = map_firmware(vm.firmware)
  <2> DEFINE a == map_controller(vm.scsi_controller, invocation.windows_safe \/ is_windows(vm))
             b == map_nic(IF vm.nics = <<>> THEN "e1000" ELSE vm.nics[1].virtual_dev,
                          invocation.windows_safe \/ is_windows(vm))
             c == map_firmware(vm.firmware)
             d == invocation.windows_safe \/ is_windows(vm)
  <2>1. hw = [controller |-> a, nic |-> b, firmware |-> c, is_safe_mode |-> d]
    BY <1>1 DEF Mapped, map_hardware
  <2> HIDE DEF a, b, c, d
  <2>2. hw.firmware = c
    BY ONLY <2>1
  <2> QED BY <2>2 DEF c
<1>3. hw.firmware = IF machine.efi THEN "ovmf" ELSE NoFirmware
  BY <1>1, <1>2, FirmwareIs DEF ReadsMachine
<1> QED BY <1>1, <1>3 DEF ReadsMachine

LEMMA AddressesAre == ImportInv => AddressesSurvive
<1> SUFFICES ASSUME ImportInv, Done, invocation.preserve_mac
             PROVE  /\ Kvm => Len(Nics) = Len(machine.nics)
                    /\ \A i \in 1..Len(Nics) :
                         /\ Nics[i].bridge = bridge
                         /\ i <= Len(machine.nics) =>
                              Nics[i].mac = Get(COLONS, machine.nics[i].mac, machine.nics[i].mac)
  BY DEF AddressesSurvive
<1> DEFINE k == Len(machine.nics)
           Address(i) == Get(COLONS, machine.nics[i].mac, machine.nics[i].mac)
<1>1. Nics = IF Kvm THEN _build_nics(vm, hw, net) ELSE << _build_nic_string(vm, hw, net) >>
  BY MadeOf
<1>2. ReadsNics(vm.nics, machine)
  BY MadeOf DEF ReadsMachine
<1>3. k \in Nat /\ Len(vm.nics) = k /\ \A i \in 1..k : vm.nics[i].mac_address = machine.nics[i].mac
  <2>1. machine.nics \in Seq(NicType)
    BY WhenDone
  <2> QED BY <1>2, <2>1 DEF ReadsNics
<1>4. net.bridge = bridge /\ net.preserve_mac
  BY DEF net
<1>5. \A i \in 1..k : KeptMac(vm.nics[i], net) = Address(i)
  BY <1>3, <1>4 DEF KeptMac
<1>6. CASE Kvm
  <2> DEFINE Model == hw.nic
             Mac(i) == KeptMac(vm.nics[i], net)
  <2>1. Nics = [i \in 1..k |-> [model |-> Model, bridge |-> bridge, mac |-> Mac(i)]]
    BY <1>1, <1>3, <1>4, <1>6 DEF _build_nics
  <2>2. \A i \in 1..k : Mac(i) = Address(i)
    BY <1>5
  <2>3. k \in Nat
    BY <1>3
  <2> HIDE DEF Model, Mac, Address, k
  <2>4. Len(Nics) = k
    BY ONLY <2>1, <2>3
  <2>5. \A i \in 1..k : Nics[i].bridge = bridge /\ Nics[i].mac = Mac(i)
    BY ONLY <2>1
  <2> QED BY <2>2, <2>4, <2>5 DEF Address, k
<1>7. CASE ~Kvm
  <2> DEFINE Model == _map_nic_model(hw)
             Mac == IF vm.nics = <<>> THEN "" ELSE KeptMac(vm.nics[1], net)
             nic == [model |-> Model, bridge |-> bridge, mac |-> Mac]
  <2>1. Nics = << nic >>
    BY <1>1, <1>4, <1>7 DEF _build_nic_string
  <2>2. 1 <= k => Mac = Address(1)
    <3>1. SUFFICES ASSUME 1 <= k PROVE Mac = Address(1)
      OBVIOUS
    <3>2. 1 \in 1..k
      BY <1>3, <3>1
    <3>3. vm.nics # <<>>
      BY <1>3, <3>1
    <3> QED BY <1>5, <3>2, <3>3
  <2> HIDE DEF Model, Mac
  <2>3. nic.bridge = bridge /\ nic.mac = Mac
    OBVIOUS
  <2> HIDE DEF nic, k, Address
  <2>4. Len(Nics) = 1 /\ Nics[1] = nic
    BY ONLY <2>1
  <2>5. \A i \in 1..Len(Nics) : i = 1
    BY <2>4
  <2> QED BY <1>7, <2>2, <2>3, <2>4, <2>5 DEF Address, k
<1> QED BY <1>6, <1>7

LEMMA SizesAre == ImportInv => KnownSizeIsCapacity
<1> SUFFICES ASSUME ImportInv, vm.error = ""
             PROVE  \A i \in 1..Len(vm.disks) :
                      vm.disks[i].size_bytes = IF kind = ".vmx" /\ invocation.split = "binary" THEN 0
                                               ELSE SoughtDisks[i].sectors * SECTOR_SIZE
  BY DEF KnownSizeIsCapacity
<1>1. vm # NotYet
  <2>1. Succeeds(vm)
    BY DEF Succeeds
  <2> QED BY <2>1, Unreadable
<1>2. ReadsExport(vm)
  BY <1>1 DEF ImportInv
<1>3. Len(vm.disks) = Len(SoughtDisks)
  BY <1>2 DEF ReadsExport, ReadsMachine, ReadsDisks
<1> QED BY <1>2, <1>3 DEF ReadsExport

LEMMA ExportsAre == ImportInv => EveryExportIsRead
BY DEF ImportInv, MayFail, EveryExportIsRead

\* is_windows is true of every Windows guest.
LEMMA WindowsIsDetected ==
  ASSUME WindowsIsKnown(Invocations), ImportInv, Done, machine.windows PROVE is_windows(vm)
<1>1. ReadsExport(vm) /\ invocation \in Invocations
  BY WhenDone DEF ImportInv
<1>2. /\ kind = ".vmx" => Lower(machine.guest.vmx) \in DOMAIN windows_hints
      /\ kind \in {".ovf", ".ova"} =>
           /\ invocation.style.osType /\ machine.guest.osType # ""
           /\ Lower(machine.guest.osType) \in DOMAIN windows_hints
  BY <1>1 DEF WindowsIsKnown, kind, machine
<1>3. CASE kind = ".vmx"
  BY <1>1, <1>2, <1>3 DEF ReadsExport, is_windows
<1>4. CASE kind \in {".ovf", ".ova"}
  BY <1>1, <1>2, <1>4 DEF ReadsExport, is_windows
<1> QED BY <1>1, <1>3, <1>4 DEF ReadsExport

\* Hence the hardware of safe mode, in the domain and in the commands.
LEMMA WindowsIsGivenSafe == WindowsIsKnown(Invocations) /\ ImportInv => WindowsIsSafe
<1> SUFFICES ASSUME WindowsIsKnown(Invocations), ImportInv, Done, machine.windows
             PROVE  /\ \A i \in 1..Len(Drives) : Drives[i][1] = "ide"
                    /\ \A i \in 1..Len(Nics) : Nics[i].model = "e1000"
  BY DEF WindowsIsSafe
<1> DEFINE t == SoughtDisks
           n == Len(t)
           Bus == IF Kvm THEN LibvirtBus(hw) ELSE ProxmoxPrefix(hw)
<1>1. /\ n \in Nat /\ hw = Mapped /\ ReadsMachine(vm, machine, SoughtDisks)
      /\ Drives = [i \in 1..n |-> <<Bus, i - 1>>]
      /\ Nics = IF Kvm THEN _build_nics(vm, hw, net) ELSE << _build_nic_string(vm, hw, net) >>
  BY MadeOf
<1>2. is_windows(vm)
  BY WindowsIsDetected
<1>3. hw.controller = "ide" /\ hw.nic = "e1000"
  <2> DEFINE safe == invocation.windows_safe \/ is_windows(vm)
             a == map_controller(vm.scsi_controller, safe)
             b == map_nic(IF vm.nics = <<>> THEN "e1000" ELSE vm.nics[1].virtual_dev, safe)
             c == map_firmware(vm.firmware)
  <2>1. hw = [controller |-> a, nic |-> b, firmware |-> c, is_safe_mode |-> safe]
    BY <1>1 DEF Mapped, map_hardware
  <2>2. a = "ide" /\ b = "e1000"
    BY <1>2 DEF map_controller, map_nic, WINDOWS_SAFE_CONTROLLER, WINDOWS_SAFE_NIC
  <2> HIDE DEF a, b, c, safe
  <2>3. hw.controller = a /\ hw.nic = b
    BY ONLY <2>1
  <2> QED BY <2>2, <2>3
<1>4. Bus = "ide"
  BY <1>3 DEF LibvirtBus, ProxmoxPrefix
<1>5. ASSUME NEW i \in 1..Len(Drives) PROVE Drives[i][1] = "ide"
  <2> HIDE DEF n
  <2>1. Len(Drives) = n
    BY <1>1
  <2>2. Drives[i] = <<Bus, i - 1>>
    BY <1>1, <2>1
  <2> HIDE DEF Bus
  <2>3. Drives[i][1] = Bus
    BY ONLY <2>2
  <2> QED BY <1>4, <2>3
<1>6. CASE Kvm
  <2> DEFINE k == Len(vm.nics)
             Bridge == net.bridge
             Mac(i) == KeptMac(vm.nics[i], net)
  <2>1. Nics = [i \in 1..k |-> [model |-> "e1000", bridge |-> Bridge, mac |-> Mac(i)]]
    BY <1>1, <1>3, <1>6 DEF _build_nics
  <2>2. k \in Nat
    BY <1>1 DEF ReadsMachine, ReadsNics
  <2> HIDE DEF k, Bridge, Mac
  <2>3. Len(Nics) = k /\ \A i \in 1..k : Nics[i].model = "e1000"
    BY ONLY <2>1, <2>2
  <2> QED BY <1>5, <2>3
<1>7. CASE ~Kvm
  <2> DEFINE Bridge == net.bridge
             Mac == IF vm.nics = <<>> THEN "" ELSE KeptMac(vm.nics[1], net)
             nic == [model |-> "e1000", bridge |-> Bridge, mac |-> Mac]
  <2>0. _map_nic_model(hw) = "e1000"
    BY <1>3 DEF _map_nic_model
  <2>1. Nics = << nic >>
    BY <1>1, <1>7, <2>0 DEF _build_nic_string
  <2> HIDE DEF Bridge, Mac
  <2>2. nic.model = "e1000"
    OBVIOUS
  <2> HIDE DEF nic
  <2>3. Len(Nics) = 1 /\ Nics[1] = nic
    BY ONLY <2>1
  <2>4. \A i \in 1..Len(Nics) : Nics[i].model = "e1000"
    BY <2>2, <2>3
  <2> QED BY <1>5, <2>4
<1> QED BY <1>6, <1>7

-----------------------------------------------------------------------------
(* The theorems.                                                           *)

(* The guest gets every hard disk that the program looks for, once each    *)
(* and in order, and nothing else, and boots from the first; an OVA's      *)
(* disks have been extracted.  In an OVF descriptor these are all the      *)
(* disks; in a VMX file those in units 0 to 15 of the SCSI, IDE and SATA   *)
(* controllers, whatever other drives the machine has, there or elsewhere. *)
THEOREM EveryDiskIsAlwaysFound == Spec => []EveryDiskIsFound
BY InitImportInv, StepImportInv, DisksAreFound, PTL DEF Spec

(* Name, memory, processors and firmware are the machine's, whatever the   *)
(* format, the case of its words and its units.                            *)
THEOREM HardwareAlwaysSurvives == Spec => []HardwareSurvives
BY InitImportInv, StepImportInv, HardwareIs, PTL DEF Spec

(* With --preserve-mac every interface has the address of the machine's,   *)
(* in order, and all are on the bridge that was given or found.            *)
THEOREM AddressesAlwaysSurvive == Spec => []AddressesSurvive
BY InitImportInv, StepImportInv, AddressesAre, PTL DEF Spec

(* A size that the parser has found is the capacity of the disk, whatever  *)
(* the format and however many extents or units tell it.                   *)
THEOREM KnownSizesAreCapacities == Spec => []KnownSizeIsCapacity
BY InitImportInv, StepImportInv, SizesAre, PTL DEF Spec

(* No export is refused but a VMX file without a name, and nothing else    *)
(* stops the program but the end of the device letters.                    *)
THEOREM EveryExportIsAlwaysRead == Spec => []EveryExportIsRead
BY InitImportInv, StepImportInv, ExportsAre, PTL DEF Spec

(* A Windows guest that its export tells to be one has all its drives on   *)
(* IDE, and the NIC model that Windows has a driver for.                   *)
THEOREM WindowsIsAlwaysSafe == WindowsIsKnown(Invocations) /\ Spec => []WindowsIsSafe
<1> SUFFICES ASSUME WindowsIsKnown(Invocations) PROVE Spec => []WindowsIsSafe
  OBVIOUS
<1>1. ImportInv => WindowsIsSafe
  BY WindowsIsGivenSafe
<1> QED BY <1>1, InitImportInv, StepImportInv, PTL DEF Spec

-----------------------------------------------------------------------------
(* The bridge.                                                             *)

(* Net!First finds what it is to find, and nothing that is wanted comes    *)
(* before it.                                                              *)
LEMMA FirstIsFirst ==
  ASSUME NEW s, Len(s) \in Nat, NEW wanted, Net!Some(s, wanted)
  PROVE  \E i \in 1..Len(s) : /\ Net!First(s, wanted) = s[i]
                              /\ s[i] \in wanted
                              /\ \A j \in 1..(i - 1) : s[j] \notin wanted
<1> DEFINE T == {i \in 1..Len(s) : s[i] \in wanted}
<1>1. T \subseteq Nat /\ T # {}
  BY DEF Net!Some
<1>2. PICK x \in T : \A y \in T : x <= y
  <2> HIDE DEF T
  <2> QED BY <1>1, LeastNumber
<1>3. ASSUME NEW j \in 1..(x - 1) PROVE s[j] \notin wanted
  <2>1. j \in 1..Len(s) /\ ~(x <= j)
    BY <1>2, <1>3
  <2> QED BY <1>2, <2>1
<1>4. x \in 1..Len(s) /\ s[x] \in wanted /\ \A j \in 1..(x - 1) : s[j] \notin wanted
  BY <1>2, <1>3
<1> QED BY <1>4 DEF Net!First

-----------------------------------------------------------------------------
(* The host, and what detect_bridge returns.                               *)

HostTyped == /\ sysfs \subseteq {HostNames[i] : i \in 1..Len(HostNames)}
             /\ Len(routes) \in Nat
             /\ \A i \in 1..Len(routes) : routes[i] \in Net!Route

Detected == Net!detect_bridge(invocation.target, sysfs, routes)

\* The first bridge, the preferred one and the detected one are among the host's.
LEMMA FirstBridgeIsOne ==
  ASSUME HostTyped, sysfs # {} PROVE Net!FirstBridge(sysfs) \in sysfs
<1>1. Len(HostNames) \in Nat /\ Net!Some(HostNames, sysfs)
  BY HostNamesAssumption DEF HostTyped, Net!Some
<1>2. Net!First(HostNames, sysfs) \in sysfs
  BY <1>1, FirstIsFirst
<1> QED BY <1>2 DEF Net!FirstBridge

LEMMA PreferredIsOne ==
  ASSUME HostTyped, sysfs # {} PROVE Net!PreferredBridge(sysfs) \in sysfs
<1> DEFINE known == <<"vmbr0", "br0", "virbr0">>
<1>1. Len(known) \in Nat
  OBVIOUS
<1> HIDE DEF known
<1>2. Net!Some(known, sysfs) => Net!First(known, sysfs) \in sysfs
  BY <1>1, FirstIsFirst
<1> QED BY <1>2, FirstBridgeIsOne DEF Net!PreferredBridge, known

LEMMA DetectedIsOne ==
  ASSUME HostTyped
  PROVE  Detected \in sysfs \/ (sysfs = {} /\ Detected = Net!DEFAULT_BRIDGES[invocation.target])
  BY FirstBridgeIsOne, PreferredIsOne DEF Detected, Net!detect_bridge, Net!ChooseBridge

\* The first default route decides, unless there is but one bridge.
LEMMA FirstRouteIsDetected ==
  ASSUME HostTyped, NEW i \in 1..Len(routes),
         routes[i].default, routes[i].iface \in sysfs,
         \A j \in 1..(i - 1) : ~routes[j].default
  PROVE  Detected = routes[i].iface \/ sysfs = {Detected}
<1>1. sysfs # {} /\ Len(routes) \in Nat
  BY DEF HostTyped
<1>2. CASE \E b \in sysfs : sysfs = {b}
  BY <1>1, <1>2, FirstBridgeIsOne DEF Detected, Net!detect_bridge
<1>3. CASE ~\E b \in sysfs : sysfs = {b}
  <2>1. \A j \in 1..Len(routes) : routes[j] \in Net!Defaults <=> routes[j].default
    BY DEF HostTyped, Net!Defaults
  <2>2. Net!Some(routes, Net!Defaults)
    BY <2>1 DEF Net!Some
  <2>3. PICK k \in 1..Len(routes) : /\ Net!First(routes, Net!Defaults) = routes[k]
                                    /\ routes[k] \in Net!Defaults
                                    /\ \A j \in 1..(k - 1) : routes[j] \notin Net!Defaults
    BY <1>1, <2>2, FirstIsFirst
  <2>4. ~(i < k) /\ ~(k < i)
    <3>1. i < k => i \in 1..(k - 1)
      BY <1>1
    <3>2. k < i => k \in 1..(i - 1)
      BY <1>1
    <3> QED BY <2>1, <2>3, <3>1, <3>2
  <2>5. i = k
    BY <1>1, <2>4
  <2>6. Net!_find_default_route_interface(routes) = routes[i].iface
    BY <2>2, <2>3, <2>5 DEF Net!_find_default_route_interface
  <2> QED BY <1>1, <1>3, <2>6 DEF Detected, Net!detect_bridge, Net!ChooseBridge
<1> QED BY <1>2, <1>3

-----------------------------------------------------------------------------
(* The inductive invariant, when --bridge is left to the program.          *)
BridgeInv == invocation.bridge = NoBridge => HostTyped /\ bridge \in {Net!Pending, Detected}

\* BridgeInv holds at first, and every step keeps it.
LEMMA InitBridgeInv == Init => BridgeInv
<1> SUFFICES ASSUME Init, invocation.bridge = NoBridge
             PROVE  HostTyped /\ bridge \in {Net!Pending, Detected}
  BY DEF BridgeInv
<1>1. Net!Init
  BY DEF Init
<1>2. PICK n \in 0..MaxRoutes : routes \in [1..n -> Net!Route]
  BY <1>1 DEF Net!Init
<1>3. Len(routes) = n /\ n \in Nat
  BY <1>2
<1> QED BY <1>1, <1>2, <1>3 DEF Net!Init, HostTyped, Net!Names

LEMMA StepBridgeInv == BridgeInv /\ [Next]_vars => BridgeInv'
<1> SUFFICES ASSUME BridgeInv, [Next]_vars PROVE BridgeInv'
  OBVIOUS
<1>1. CASE UNCHANGED <<invocation, sysfs, routes, bridge>>
  BY <1>1 DEF BridgeInv, HostTyped, Detected, Net!detect_bridge, Net!ChooseBridge, Net!_find_default_route_interface
<1>2. CASE DetectBridge
  <2>1. SUFFICES ASSUME invocation'.bridge = NoBridge
                 PROVE  HostTyped' /\ bridge' = Detected'
    BY DEF BridgeInv
  <2>2. Net!Detect /\ invocation' = invocation
    BY <1>2, <2>1 DEF DetectBridge
  <2> QED BY <2>1, <2>2 DEF BridgeInv, HostTyped, Detected, Net!Detect
<1> QED BY <1>1, <1>2 DEF Next, vars, Parse, ParseFails, MapHardware, Generate

(* The bridge is one of the host's, or, if it has none, the target's       *)
(* customary one: whatever the interfaces, routes and preferred names.     *)
THEOREM BridgesAreReal == Spec => []AnswerIsABridge
<1>1. BridgeInv => AnswerIsABridge
  BY DetectedIsOne DEF BridgeInv, AnswerIsABridge, Net!AnswerIsABridge
<1> QED BY <1>1, InitBridgeInv, StepBridgeInv, PTL DEF Spec

(* Of several bridges, it is the one with the first default route, if that *)
(* goes through a bridge at all.                                           *)
THEOREM FirstRoutesDecide == Spec => []FirstRouteDecides
<1>1. BridgeInv => FirstRouteDecides
  BY FirstRouteIsDetected DEF BridgeInv, FirstRouteDecides, Net!FirstRouteDecides
<1> QED BY <1>1, InitBridgeInv, StepBridgeInv, PTL DEF Spec
=============================================================================
