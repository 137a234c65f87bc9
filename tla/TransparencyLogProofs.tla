----------------------- MODULE TransparencyLogProofs -----------------------
(***************************************************************************)
(* Proofs about the log, for logs, sizes and words of any number: a root   *)
(* determines its leaves; the two verifiers accept nothing but the truth,  *)
(* whoever made the proof; the proofs the log builds are accepted, for     *)
(* every shape of tree.  The size of a log is bounded by half the range of *)
(* the integers (LogAssumption), where the verifiers' shifts do not wrap.  *)
(***************************************************************************)
EXTENDS MCTransparencyLog, FiniteSetTheorems, SequenceTheorems, WellFoundedInduction, TLAPS

\* The order that makes Nat well founded.
LessThan == {ss \in Nat \X Nat : ss[1] < ss[2]}

\* A non-empty set of numbers has a least element.
LEMMA LeastNumber ==
    ASSUME NEW T, T \subseteq Nat, T # {}
    PROVE  \E n \in T : \A k \in T : n <= k
<1>1. IsWellFoundedOn(LessThan, Nat)
  BY NatLessThanWellFounded DEF LessThan, OpToRel
<1>2. \E n \in T : \A k \in T : ~(<<k, n>> \in LessThan)
  BY <1>1, WFMin
<1>3. \A k, n \in Nat : <<k, n>> \in LessThan <=> k < n
  BY DEF LessThan
<1>4. \E n \in T : n \in Nat /\ \A k \in T : k \in Nat /\ ~(k < n)
  BY <1>2, <1>3, Zenon
<1> QED BY <1>4

\* Induction over the naturals, for a set.  The library's theorem is about an
\* operator; a minimal counterexample needs none.
LEMMA StrongInduction ==
    ASSUME NEW Ok, \A n \in Nat : (\A k \in 0..(n - 1) : k \in Ok) => n \in Ok
    PROVE  \A n \in Nat : n \in Ok
<1>1. SUFFICES ASSUME NEW n \in Nat \ Ok, \A k \in Nat \ Ok : n <= k PROVE FALSE
  <2> DEFINE T == Nat \ Ok
  <2>1. T = {} \/ \E n \in T : \A k \in T : n <= k BY LeastNumber
  <2> QED BY <2>1
<1>2. \A k \in 0..(n - 1) : k \in Ok BY <1>1
<1> QED BY <1>1, <1>2

\* The same, with one step at a time.
LEMMA Induction ==
    ASSUME NEW Ok, 0 \in Ok, \A n \in Nat : n \in Ok => n + 1 \in Ok
    PROVE  \A n \in Nat : n \in Ok
<1>1. ASSUME NEW n \in Nat, \A k \in 0..(n - 1) : k \in Ok PROVE n \in Ok
  <2>1. CASE n = 0 BY <2>1
  <2>2. CASE n # 0
    <3>1. n - 1 \in Nat /\ n - 1 \in 0..(n - 1) /\ (n - 1) + 1 = n BY <2>2
    <3> QED BY <1>1, <3>1
  <2> QED BY <2>1, <2>2
<1> QED BY <1>1, StrongInduction

-----------------------------------------------------------------------------
(* The recursive functions of Merkle are CHOSEN: [n \in Nat |-> ... f[n - 1] ...] *)
(* is some f that satisfies the equation, if there is one.  That there is one is  *)
(* proved here once for all of them.  The library's theorems on recursive         *)
(* functions take the body as an operator; here a body is a value p, a tuple that *)
(* names one of the five bodies of Merkle with its parameters.                    *)

\* The bodies of Tree, PathIn, ConsSubproofIn, Climb and Pow2: the value at n, of
\* a function h that has the values below n.
TreeStep(d, h, n) ==
    [i \in Nat |->
        IF n = 0 THEN EmptyRoot
        ELSE IF n = 1 THEN d[i + 1]
        ELSE LET k == Split(n) IN NodeHash(h[k][i], h[n - k][i + k])]

\* PathIn.
PathStep(m, d, h, n) ==
    [i \in Nat |->
        LET k == Split(n)
        IN  IF n <= 1 THEN <<>>
            ELSE IF m < i + k THEN Append(h[k][i], Tree(d)[n - k][i + k])
            ELSE Append(h[n - k][i + k], Tree(d)[k][i])]

\* ConsSubproofIn.
ConsStep(m, d, h, n) ==
    [i \in Nat |-> [b \in BOOLEAN |->
        LET k == Split(n)
        IN  IF m = i + n \/ n <= 1 THEN IF b THEN <<>> ELSE <<Tree(d)[n][i]>>
            ELSE IF m <= i + k THEN Append(h[k][i][b], Tree(d)[n - k][i + k])
            ELSE Append(h[n - k][i + k][FALSE], Tree(d)[k][i])]]

\* Climb.
ClimbStep(seed, proof, side, h, n) ==
    IF n = 0 THEN seed
    ELSE IF side[n] = "left" THEN NodeHash(proof[n], h[n - 1])
    ELSE IF side[n] = "right" THEN NodeHash(h[n - 1], proof[n])
    ELSE h[n - 1]

\* Pow2.
Pow2Step(h, n) == IF n = 0 THEN 1 ELSE 2 * h[n - 1]

\* The body that p names, with its parameters.
Step(p, h, n) ==
    IF p[1] = "Pow2" THEN Pow2Step(h, n)
    ELSE IF p[1] = "Tree" THEN TreeStep(p[2], h, n)
    ELSE IF p[1] = "Path" THEN PathStep(p[2], p[3], h, n)
    ELSE IF p[1] = "Cons" THEN ConsStep(p[2], p[3], h, n)
    ELSE ClimbStep(p[2], p[3], p[4], h, n)

\* The value at n depends on the values below n only.
LooksBack(p) ==
    \A g, h : \A n \in Nat :
        (\A k \in 0..(n - 1) : g[k] = h[k]) => Step(p, g, n) = Step(p, h, n)

\* h satisfies the equation up to N.
UpTo(p, N, h) == \A n \in 0..N : h[n] = Step(p, h, n)

\* Partial solutions agree where both are defined.
LEMMA UpToAgree ==
    ASSUME NEW p, LooksBack(p), NEW M \in Nat, NEW N \in Nat, M <= N,
           NEW g, NEW h, UpTo(p, M, g), UpTo(p, N, h)
    PROVE  \A n \in 0..M : g[n] = h[n]
<1> DEFINE Same == {n \in Nat : n <= M => g[n] = h[n]}
<1>1. ASSUME NEW n \in Nat, \A k \in 0..(n - 1) : k \in Same PROVE n \in Same
  <2> SUFFICES ASSUME n <= M PROVE g[n] = h[n] OBVIOUS
  <2>1. \A k \in 0..(n - 1) : g[k] = h[k] BY <1>1
  <2>2. Step(p, g, n) = Step(p, h, n) BY <2>1 DEF LooksBack
  <2> QED BY <2>2 DEF UpTo
<1> HIDE DEF Same
<1>2. \A n \in Nat : n \in Same BY <1>1, StrongInduction
<1> QED BY <1>2 DEF Same

\* There are partial solutions of every length.
LEMMA UpToExists ==
    ASSUME NEW p, LooksBack(p)
    PROVE  \A N \in Nat : \E h : UpTo(p, N, h)
<1> DEFINE Ok == {N \in Nat : \E h : UpTo(p, N, h)}
<1>1. 0 \in Ok
  <2> DEFINE h == [n \in 0..0 |-> Step(p, <<>>, 0)]
  <2>1. h[0] = Step(p, <<>>, 0) OBVIOUS
  <2>2. Step(p, <<>>, 0) = Step(p, h, 0)
    <3> HIDE DEF h
    <3>1. \A k \in 0..(0 - 1) : <<>>[k] = h[k] OBVIOUS
    <3> QED BY <3>1 DEF LooksBack
  <2> HIDE DEF h
  <2>3. UpTo(p, 0, h) BY <2>1, <2>2 DEF UpTo
  <2> QED BY <2>3
<1>2. ASSUME NEW N \in Nat, N \in Ok PROVE N + 1 \in Ok
  <2>1. PICK h : UpTo(p, N, h) BY <1>2
  <2> DEFINE g == [n \in 0..(N + 1) |-> IF n <= N THEN h[n] ELSE Step(p, h, n)]
  <2>2. \A n \in 0..N : g[n] = h[n] OBVIOUS
  <2>3. g[N + 1] = Step(p, h, N + 1) OBVIOUS
  <2> HIDE DEF g
  <2>4. ASSUME NEW n \in 0..(N + 1) PROVE g[n] = Step(p, g, n)
    <3>1. \A k \in 0..(n - 1) : h[k] = g[k] BY <2>2
    <3>2. Step(p, h, n) = Step(p, g, n) BY <3>1 DEF LooksBack
    <3>3. CASE n <= N
      <4>1. n \in 0..N BY <3>3
      <4> QED BY <4>1, <3>2, <2>1, <2>2 DEF UpTo
    <3>4. CASE n = N + 1 BY <3>4, <3>2, <2>3
    <3> QED BY <3>3, <3>4
  <2>5. UpTo(p, N + 1, g) BY <2>4 DEF UpTo
  <2> QED BY <2>5
<1> HIDE DEF Ok
<1>3. \A N \in Nat : N \in Ok BY <1>1, <1>2, Induction
<1> QED BY <1>3 DEF Ok

\* A recursive definition that only looks back has a solution: the functions of
\* Merkle that stand for the code's recursion on slices (mth, path, cons_subproof)
\* and for its loops are what their equations say, for arguments of any size.
LEMMA RecursionWorks ==
    ASSUME NEW p, LooksBack(p)
    PROVE  \E f : f = [n \in Nat |-> Step(p, f, n)]
<1> DEFINE part(N) == CHOOSE h : UpTo(p, N, h)
           f == [n \in Nat |-> part(n)[n]]
<1>1. \A N \in Nat : UpTo(p, N, part(N)) BY UpToExists
<1> HIDE DEF part
<1>2. ASSUME NEW n \in Nat PROVE f[n] = Step(p, f, n)
  <2>1. ASSUME NEW k \in 0..(n - 1) PROVE part(n)[k] = f[k]
    <3>1. k \in Nat /\ k <= n OBVIOUS
    <3>2. part(k)[k] = part(n)[k] BY <3>1, <1>1, UpToAgree
    <3> QED BY <3>1, <3>2
  <2>2. f[n] = part(n)[n] OBVIOUS
  <2> HIDE DEF f
  <2>3. Step(p, part(n), n) = Step(p, f, n) BY <2>1 DEF LooksBack
  <2>4. part(n)[n] = Step(p, part(n), n) BY <1>1 DEF UpTo
  <2> QED BY <2>2, <2>3, <2>4
<1>3. f = [n \in Nat |-> Step(p, f, n)]
  <2>1. f = [n \in Nat |-> f[n]] OBVIOUS
  <2> HIDE DEF f
  <2> QED BY <1>2, <2>1
<1> QED BY <1>3

-----------------------------------------------------------------------------
(* Powers of two, and the size at which a tree is split. *)

\* The equation of Pow2.
LEMMA Pow2Def == \A n \in Nat : Pow2[n] = IF n = 0 THEN 1 ELSE 2 * Pow2[n - 1]
<1> DEFINE p == <<"Pow2">>
<1>1. \A h, n : Step(p, h, n) = Pow2Step(h, n) BY DEF Step
<1>2. ASSUME NEW g, NEW h, NEW n \in Nat, \A k \in 0..(n - 1) : g[k] = h[k]
      PROVE  Pow2Step(g, n) = Pow2Step(h, n)
  <2>1. n # 0 => n - 1 \in 0..(n - 1) OBVIOUS
  <2> QED BY <2>1, <1>2 DEF Pow2Step
<1>3. LooksBack(p) BY <1>1, <1>2 DEF LooksBack
<1> HIDE DEF p
<1>4. \E f : f = [n \in Nat |-> Step(p, f, n)] BY <1>3, RecursionWorks
<1>5. \E f : f = [n \in Nat |-> IF n = 0 THEN 1 ELSE 2 * f[n - 1]]
  BY <1>1, <1>4 DEF Pow2Step
<1>6. Pow2 = [n \in Nat |-> IF n = 0 THEN 1 ELSE 2 * Pow2[n - 1]]
  BY <1>5 DEF Pow2
<1> QED BY <1>6

\* Powers of two are numbers, and not small.
LEMMA Pow2Facts ==
    /\ Pow2[0] = 1
    /\ \A n \in Nat : Pow2[n] \in Nat /\ Pow2[n] > n /\ Pow2[n + 1] = 2 * Pow2[n]
<1>1. Pow2[0] = 1 BY Pow2Def
<1>2. \A n \in Nat : Pow2[n + 1] = 2 * Pow2[n]
  <2>1. \A n \in Nat : n + 1 \in Nat /\ n + 1 # 0 /\ (n + 1) - 1 = n OBVIOUS
  <2> QED BY Pow2Def, <2>1
<1> DEFINE Ok == {n \in Nat : Pow2[n] \in Nat /\ Pow2[n] > n}
<1>3. 0 \in Ok BY <1>1
<1>4. ASSUME NEW n \in Nat, n \in Ok PROVE n + 1 \in Ok BY <1>2, <1>4
<1> HIDE DEF Ok
<1>5. \A n \in Nat : n \in Ok BY <1>3, <1>4, Induction
<1> QED BY <1>1, <1>2, <1>5 DEF Ok

\* A greater power is at least the double.
LEMMA Pow2Monotone ==
    ASSUME NEW a \in Nat, NEW b \in Nat, a < b
    PROVE  2 * Pow2[a] <= Pow2[b]
<1> DEFINE Ok == {c \in Nat : 2 * Pow2[a] <= Pow2[a + 1 + c]}
<1>1. 0 \in Ok
  <2>1. a + 1 + 0 = a + 1 OBVIOUS
  <2> QED BY <2>1, Pow2Facts
<1>2. ASSUME NEW c \in Nat, c \in Ok PROVE c + 1 \in Ok
  <2>1. a + 1 + (c + 1) = (a + 1 + c) + 1 /\ a + 1 + c \in Nat OBVIOUS
  <2> QED BY <2>1, <1>2, Pow2Facts
<1> HIDE DEF Ok
<1>3. \A c \in Nat : c \in Ok BY <1>1, <1>2, Induction
<1>4. b - a - 1 \in Nat /\ a + 1 + (b - a - 1) = b OBVIOUS
<1>5. b - a - 1 \in Ok BY <1>3, <1>4
<1> QED BY <1>4, <1>5 DEF Ok

\* The powers are a homomorphism.
LEMMA Pow2Add ==
    ASSUME NEW a \in Nat, NEW b \in Nat
    PROVE  Pow2[a + b] = Pow2[a] * Pow2[b]
<1> DEFINE Ok == {c \in Nat : Pow2[a + c] = Pow2[a] * Pow2[c]}
<1>1. 0 \in Ok BY Pow2Facts
<1>2. ASSUME NEW c \in Nat, c \in Ok PROVE c + 1 \in Ok
  <2>1. a + (c + 1) = (a + c) + 1 /\ a + c \in Nat OBVIOUS
  <2>2. Pow2[a + (c + 1)] = 2 * Pow2[a + c] /\ Pow2[c + 1] = 2 * Pow2[c] BY <2>1, Pow2Facts
  <2>3. Pow2[a] \in Nat /\ Pow2[c] \in Nat BY Pow2Facts
  <2>4. 2 * (Pow2[a] * Pow2[c]) = Pow2[a] * (2 * Pow2[c]) BY <2>3
  <2> QED BY <2>2, <2>4, <1>2
<1> HIDE DEF Ok
<1>3. \A c \in Nat : c \in Ok BY <1>1, <1>2, Induction
<1> QED BY <1>3 DEF Ok

\* A tree of two leaves or more is split at a power of two, the largest below n.
LEMMA SplitIsPow2 ==
    ASSUME NEW n \in Nat, n >= 2
    PROVE  \E p \in Nat : Split(n) = Pow2[p] /\ Pow2[p] < n /\ n <= 2 * Pow2[p]
<1> DEFINE Reach == {p \in Nat : n <= Pow2[p]}
<1>1. n \in Reach BY Pow2Facts
<1>2. \E q \in Reach : \A k \in Reach : q <= k
  <2> HIDE DEF Reach
  <2>1. Reach \subseteq Nat BY DEF Reach
  <2> QED BY <1>1, <2>1, LeastNumber
<1>3. PICK q \in Reach : \A k \in Reach : q <= k BY <1>2
<1>4. q # 0 /\ q <= n /\ q \in Nat BY <1>1, <1>3, Pow2Facts
<1>5. q - 1 \in Nat /\ q - 1 \in 0..n /\ (q - 1) + 1 = q BY <1>4
<1>6. ~(n <= Pow2[q - 1]) BY <1>3, <1>5
<1>7. Pow2[q - 1] < n /\ n <= 2 * Pow2[q - 1] BY <1>3, <1>5, <1>6, Pow2Facts
<1>8. \E k \in {Pow2[i] : i \in 0..n} : k < n /\ n <= 2 * k BY <1>5, <1>7
<1>9. Split(n) \in {Pow2[i] : i \in 0..n} /\ Split(n) < n /\ n <= 2 * Split(n)
  BY <1>8 DEF Split
<1> QED BY <1>9

\* Both parts are smaller than the whole, and neither is empty.
LEMMA SplitBounds ==
    ASSUME NEW n \in Nat, n >= 2
    PROVE  /\ Split(n) \in 1..(n - 1)
           /\ n - Split(n) \in 1..(n - 1)
           /\ n <= 2 * Split(n)
<1>1. PICK p \in Nat : Split(n) = Pow2[p] /\ Pow2[p] < n /\ n <= 2 * Pow2[p] BY SplitIsPow2
<1>2. Pow2[p] \in Nat /\ Pow2[p] > p BY Pow2Facts
<1> QED BY <1>1, <1>2

\* There is one such power.
LEMMA SplitUnique ==
    ASSUME NEW n \in Nat, NEW p \in Nat, Pow2[p] < n, n <= 2 * Pow2[p]
    PROVE  Split(n) = Pow2[p]
<1>1. n >= 2 BY Pow2Facts
<1>2. PICK q \in Nat : Split(n) = Pow2[q] /\ Pow2[q] < n /\ n <= 2 * Pow2[q]
  BY <1>1, SplitIsPow2
<1>3. Pow2[p] \in Nat /\ Pow2[q] \in Nat BY Pow2Facts
<1>4. CASE p < q
  <2>1. 2 * Pow2[p] <= Pow2[q] BY <1>4, Pow2Monotone
  <2> QED BY <2>1, <1>2, <1>3
<1>5. CASE q < p
  <2>1. 2 * Pow2[q] <= Pow2[p] BY <1>5, Pow2Monotone
  <2> QED BY <2>1, <1>2, <1>3
<1>6. CASE p = q BY <1>6, <1>2
<1> QED BY <1>4, <1>5, <1>6

-----------------------------------------------------------------------------
(* The equations of the recursive functions. *)

\* The equation of Tree.
LEMMA TreeDef ==
    ASSUME NEW d
    PROVE  \A n \in Nat : Tree(d)[n] = TreeStep(d, Tree(d), n)
<1> DEFINE p == <<"Tree", d>>
<1>1. \A h, n : Step(p, h, n) = TreeStep(d, h, n) BY DEF Step
<1>2. ASSUME NEW g, NEW h, NEW n \in Nat, \A k \in 0..(n - 1) : g[k] = h[k]
      PROVE  TreeStep(d, g, n) = TreeStep(d, h, n)
  <2>1. CASE n < 2 BY <2>1 DEF TreeStep
  <2>2. CASE n >= 2
    <3>1. Split(n) \in 0..(n - 1) /\ n - Split(n) \in 0..(n - 1) BY <2>2, SplitBounds
    <3>2. g[Split(n)] = h[Split(n)] /\ g[n - Split(n)] = h[n - Split(n)] BY <3>1, <1>2
    <3> QED BY <3>2 DEF TreeStep
  <2> QED BY <2>1, <2>2
<1>3. LooksBack(p) BY <1>1, <1>2 DEF LooksBack
<1> HIDE DEF p
<1>4. \E f : f = [n \in Nat |-> Step(p, f, n)] BY <1>3, RecursionWorks
<1>5. \E f : f = [n \in Nat |-> TreeStep(d, f, n)] BY <1>1, <1>4
<1>6. Tree(d) = [n \in Nat |-> TreeStep(d, Tree(d), n)]
  <2>1. \E f : f = [n \in Nat |->
                [i \in Nat |->
                    IF n = 0 THEN EmptyRoot
                    ELSE IF n = 1 THEN d[i + 1]
                    ELSE LET k == Split(n) IN NodeHash(f[k][i], f[n - k][i + k])]]
    BY <1>5 DEF TreeStep
  <2> QED BY <2>1, Zenon DEF Tree, TreeStep
<1> QED BY <1>6

\* The equation of PathIn.
LEMMA PathDef ==
    ASSUME NEW m, NEW d
    PROVE  \A n \in Nat : PathIn(m, d)[n] = PathStep(m, d, PathIn(m, d), n)
<1> DEFINE p == <<"Path", m, d>>
<1>1. \A h, n : Step(p, h, n) = PathStep(m, d, h, n) BY DEF Step
<1>2. ASSUME NEW g, NEW h, NEW n \in Nat, \A k \in 0..(n - 1) : g[k] = h[k]
      PROVE  PathStep(m, d, g, n) = PathStep(m, d, h, n)
  <2>1. CASE n < 2 BY <2>1 DEF PathStep
  <2>2. CASE n >= 2
    <3>1. Split(n) \in 0..(n - 1) /\ n - Split(n) \in 0..(n - 1) BY <2>2, SplitBounds
    <3>2. g[Split(n)] = h[Split(n)] /\ g[n - Split(n)] = h[n - Split(n)] BY <3>1, <1>2
    <3> QED BY <3>2, Zenon DEF PathStep
  <2> QED BY <2>1, <2>2
<1>3. LooksBack(p) BY <1>1, <1>2 DEF LooksBack
<1> HIDE DEF p
<1>4. \E f : f = [n \in Nat |-> Step(p, f, n)] BY <1>3, RecursionWorks
<1>5. \E f : f = [n \in Nat |-> PathStep(m, d, f, n)] BY <1>1, <1>4
<1>6. PathIn(m, d) = [n \in Nat |-> PathStep(m, d, PathIn(m, d), n)]
  BY <1>5, Zenon DEF PathIn, PathStep
<1> QED BY <1>6

\* The equation of ConsSubproofIn.
LEMMA ConsDef ==
    ASSUME NEW m, NEW d
    PROVE  \A n \in Nat : ConsSubproofIn(m, d)[n] = ConsStep(m, d, ConsSubproofIn(m, d), n)
<1> DEFINE p == <<"Cons", m, d>>
<1>1. \A h, n : Step(p, h, n) = ConsStep(m, d, h, n) BY DEF Step
<1>2. ASSUME NEW g, NEW h, NEW n \in Nat, \A k \in 0..(n - 1) : g[k] = h[k]
      PROVE  ConsStep(m, d, g, n) = ConsStep(m, d, h, n)
  <2>1. CASE n < 2
    <3>1. n <= 1 BY <2>1
    <3> QED BY <3>1, Zenon DEF ConsStep
  <2>2. CASE n >= 2
    <3>1. Split(n) \in 0..(n - 1) /\ n - Split(n) \in 0..(n - 1) BY <2>2, SplitBounds
    <3>2. g[Split(n)] = h[Split(n)] /\ g[n - Split(n)] = h[n - Split(n)] BY <3>1, <1>2
    <3> QED BY <3>2, Zenon DEF ConsStep
  <2> QED BY <2>1, <2>2
<1>3. LooksBack(p) BY <1>1, <1>2 DEF LooksBack
<1> HIDE DEF p
<1>4. \E f : f = [n \in Nat |-> Step(p, f, n)] BY <1>3, RecursionWorks
<1>5. \E f : f = [n \in Nat |-> ConsStep(m, d, f, n)] BY <1>1, <1>4
<1>6. ConsSubproofIn(m, d) = [n \in Nat |-> ConsStep(m, d, ConsSubproofIn(m, d), n)]
  BY <1>5, Zenon DEF ConsSubproofIn, ConsStep
<1> QED BY <1>6

\* The function inside Climb: the accumulator after each step.
Acc(seed, proof, side) == CHOOSE acc : acc = [n \in Nat |-> ClimbStep(seed, proof, side, acc, n)]

\* Climb ends with the last of them.
LEMMA ClimbDef ==
    ASSUME NEW seed, NEW proof, NEW side
    PROVE  /\ Climb(seed, proof, side) = Acc(seed, proof, side)[Len(proof)]
           /\ \A n \in Nat : Acc(seed, proof, side)[n]
                  = ClimbStep(seed, proof, side, Acc(seed, proof, side), n)
<1> DEFINE p == <<"Climb", seed, proof, side>>
<1>1. \A h, n : Step(p, h, n) = ClimbStep(seed, proof, side, h, n) BY DEF Step
<1>2. ASSUME NEW g, NEW h, NEW n \in Nat, \A k \in 0..(n - 1) : g[k] = h[k]
      PROVE  ClimbStep(seed, proof, side, g, n) = ClimbStep(seed, proof, side, h, n)
  <2>1. n # 0 => n - 1 \in 0..(n - 1) OBVIOUS
  <2> QED BY <2>1, <1>2 DEF ClimbStep
<1>3. LooksBack(p) BY <1>1, <1>2 DEF LooksBack
<1> HIDE DEF p
<1>4. \E f : f = [n \in Nat |-> Step(p, f, n)] BY <1>3, RecursionWorks
<1>5. \E f : f = [n \in Nat |-> ClimbStep(seed, proof, side, f, n)] BY <1>1, <1>4
<1>6. Acc(seed, proof, side) = [n \in Nat |-> ClimbStep(seed, proof, side, Acc(seed, proof, side), n)]
  BY <1>5, Zenon DEF Acc
<1>7. Climb(seed, proof, side) = Acc(seed, proof, side)[Len(proof)]
  BY Zenon DEF Climb, Acc, ClimbStep
<1> QED BY <1>6, <1>7

-----------------------------------------------------------------------------
(* The tree hash is injective: a root determines the leaves. *)

\* Hashes of different inputs differ, and so do hashes of different kinds.
LEMMA HashFacts ==
    /\ \A a, b, c, e : NodeHash(a, b) = NodeHash(c, e) => a = c /\ b = e
    /\ \A a, b, m : NodeHash(a, b) # LeafHash(m)
    /\ \A a, b : NodeHash(a, b) # EmptyRoot
    /\ \A m : LeafHash(m) # EmptyRoot
    /\ \A m, n : LeafHash(m) = LeafHash(n) => m = n
<1>1. \A a, b, c, e : NodeHash(a, b) = NodeHash(c, e) => a = c /\ b = e
  <2> SUFFICES ASSUME NEW a, NEW b, NEW c, NEW e, NodeHash(a, b) = NodeHash(c, e)
               PROVE  a = c /\ b = e
    OBVIOUS
  <2>1. NodeHash(a, b)[2] = a /\ NodeHash(a, b)[3] = b /\ NodeHash(c, e)[2] = c /\ NodeHash(c, e)[3] = e
    BY DEF NodeHash
  <2> QED BY <2>1
<1>2. \A a, b, m : NodeHash(a, b) # LeafHash(m)
  <2>1. \A a, b, m : NodeHash(a, b)[1] = "node" /\ LeafHash(m)[1] = "leaf" BY DEF NodeHash, LeafHash
  <2> QED BY <2>1
<1>3. \A a, b : NodeHash(a, b) # EmptyRoot
  <2>1. \A a, b : NodeHash(a, b)[1] = "node" /\ EmptyRoot[1] = "empty" BY DEF NodeHash, EmptyRoot
  <2> QED BY <2>1
<1>4. \A m : LeafHash(m) # EmptyRoot
  <2>1. \A m : LeafHash(m)[1] = "leaf" /\ EmptyRoot[1] = "empty" BY DEF LeafHash, EmptyRoot
  <2> QED BY <2>1
<1>5. \A m, n : LeafHash(m) = LeafHash(n) => m = n
  <2>1. \A m : LeafHash(m)[2] = m BY DEF LeafHash
  <2> QED BY <2>1
<1> QED BY <1>1, <1>2, <1>3, <1>4, <1>5

\* The equation of Tree, case by case.
LEMMA TreeFacts ==
    ASSUME NEW d, NEW i \in Nat
    PROVE  /\ Tree(d)[0][i] = EmptyRoot
           /\ Tree(d)[1][i] = d[i + 1]
           /\ \A n \in Nat : n >= 2 =>
                 Tree(d)[n][i] = NodeHash(Tree(d)[Split(n)][i], Tree(d)[n - Split(n)][i + Split(n)])
<1>1. Tree(d)[0] = TreeStep(d, Tree(d), 0) /\ Tree(d)[1] = TreeStep(d, Tree(d), 1) BY TreeDef
<1>2. TreeStep(d, Tree(d), 0)[i] = EmptyRoot BY DEF TreeStep
<1>3. TreeStep(d, Tree(d), 1)[i] = d[i + 1] BY DEF TreeStep
<1>4. ASSUME NEW n \in Nat, n >= 2
      PROVE  Tree(d)[n][i] = NodeHash(Tree(d)[Split(n)][i], Tree(d)[n - Split(n)][i + Split(n)])
  <2>1. Tree(d)[n] = TreeStep(d, Tree(d), n) BY TreeDef
  <2>2. n # 0 /\ n # 1 BY <1>4
  <2>3. TreeStep(d, Tree(d), n)[i]
            = NodeHash(Tree(d)[Split(n)][i], Tree(d)[n - Split(n)][i + Split(n)])
    BY <2>2, Zenon DEF TreeStep
  <2> QED BY <2>1, <2>3
<1> QED BY <1>1, <1>2, <1>3, <1>4

\* The n leaves of d after i are those of e after j.
SameLeaves(d, e, n, i, j) == \A x \in 1..n : d[i + x] = e[j + x]

\* A subtree depends on its own leaves alone.
LEMMA TreeOfSameLeaves ==
    ASSUME NEW d, NEW e
    PROVE  \A n \in Nat : \A i, j \in Nat :
               SameLeaves(d, e, n, i, j) => Tree(d)[n][i] = Tree(e)[n][j]
<1> DEFINE Ok == {n \in Nat : \A i, j \in Nat :
                              SameLeaves(d, e, n, i, j) => Tree(d)[n][i] = Tree(e)[n][j]}
<1>1. ASSUME NEW n \in Nat, \A k \in 0..(n - 1) : k \in Ok PROVE n \in Ok
  <2> SUFFICES ASSUME NEW i \in Nat, NEW j \in Nat, SameLeaves(d, e, n, i, j)
               PROVE  Tree(d)[n][i] = Tree(e)[n][j]
    OBVIOUS
  <2> HIDE DEF Ok
  <2>0. \A x \in 1..n : d[i + x] = e[j + x] BY DEF SameLeaves
  <2>1. CASE n = 0 BY <2>1, TreeFacts
  <2>2. CASE n = 1 BY <2>0, <2>2, TreeFacts
  <2>3. CASE n >= 2
    <3>1. PICK k \in Nat : k = Split(n) /\ k \in 1..(n - 1) /\ n - k \in 1..(n - 1) BY <2>3, SplitBounds
    <3>2. Tree(d)[k][i] = Tree(e)[k][j]
      <4>1. k \in Ok BY <1>1, <3>1
      <4>2. SameLeaves(d, e, k, i, j) BY <2>0, <3>1 DEF SameLeaves
      <4> QED BY <4>1, <4>2 DEF Ok
    <3>3. Tree(d)[n - k][i + k] = Tree(e)[n - k][j + k]
      <4>1. n - k \in 0..(n - 1) /\ i + k \in Nat /\ j + k \in Nat BY <3>1
      <4>2. n - k \in Ok BY <4>1, <1>1
      <4>3. ASSUME NEW x \in 1..(n - k) PROVE d[(i + k) + x] = e[(j + k) + x]
        <5>1. k + x \in 1..n /\ (i + k) + x = i + (k + x) /\ (j + k) + x = j + (k + x) BY <3>1
        <5> QED BY <2>0, <5>1
      <4>4. SameLeaves(d, e, n - k, i + k, j + k) BY <4>3 DEF SameLeaves
      <4> QED BY <4>1, <4>2, <4>4 DEF Ok
    <3>4. /\ Tree(d)[n][i] = NodeHash(Tree(d)[k][i], Tree(d)[n - k][i + k])
          /\ Tree(e)[n][j] = NodeHash(Tree(e)[k][j], Tree(e)[n - k][j + k])
      <4>1. Tree(d)[n][i] = NodeHash(Tree(d)[Split(n)][i], Tree(d)[n - Split(n)][i + Split(n)])
        BY <2>3, TreeFacts
      <4>2. Tree(e)[n][j] = NodeHash(Tree(e)[Split(n)][j], Tree(e)[n - Split(n)][j + Split(n)])
        BY <2>3, TreeFacts
      <4> QED BY <3>1, <4>1, <4>2
    <3> QED BY <3>2, <3>3, <3>4
  <2> QED BY <2>1, <2>2, <2>3
<1> HIDE DEF Ok
<1>2. \A n \in Nat : n \in Ok BY <1>1, StrongInduction
<1> QED BY <1>2 DEF Ok

\* The same, for one subtree of each.
LEMMA SubtreeOfSameLeaves ==
    ASSUME NEW c, NEW e, NEW n \in Nat, NEW i \in Nat, NEW j \in Nat, SameLeaves(c, e, n, i, j)
    PROVE  Tree(c)[n][i] = Tree(e)[n][j]
<1>1. \A k \in Nat : \A x, y \in Nat : SameLeaves(c, e, k, x, y) => Tree(c)[k][x] = Tree(e)[k][y]
  BY TreeOfSameLeaves
<1> QED BY <1>1

\* The leaf hashes of the measurements M.
Leaves(M) == {LeafHash(m) : m \in M}

\* The two parts of a sequence cut at k.
LEMMA Parts ==
    ASSUME NEW L, NEW d \in Seq(L), NEW k \in 0..Len(d)
    PROVE  /\ FirstPart(d, k) \in Seq(L) /\ Len(FirstPart(d, k)) = k
           /\ \A x \in 1..k : FirstPart(d, k)[x] = d[x]
           /\ SecondPart(d, k) \in Seq(L) /\ Len(SecondPart(d, k)) = Len(d) - k
           /\ \A x \in 1..(Len(d) - k) : SecondPart(d, k)[x] = d[k + x]
<1>1. k \in Nat /\ Len(d) \in Nat OBVIOUS
<1> QED BY <1>1 DEF FirstPart, SecondPart

\* e is the slice of the m leaves of c after j.
Slice(e, c, m, j) == Len(e) = m /\ \A x \in 1..m : e[x] = c[j + x]

\* Its root is the hash of that subtree.
LEMMA SliceRoot ==
    ASSUME NEW c, NEW e, NEW m \in Nat, NEW j \in Nat, Slice(e, c, m, j)
    PROVE  Mth(e) = Tree(c)[m][j]
<1>1. PICK z \in Nat : z = 0 OBVIOUS
<1>2. SameLeaves(e, c, m, z, j) BY <1>1 DEF SameLeaves, Slice
<1>3. Tree(e)[m][z] = Tree(c)[m][j] BY <1>2, SubtreeOfSameLeaves
<1> QED BY <1>1, <1>3 DEF Mth, Slice

\* The roots of the parts are the subtrees of the whole.
LEMMA PartRoots ==
    ASSUME NEW E, NEW d \in Seq(E), NEW k \in 0..Len(d)
    PROVE  /\ Mth(FirstPart(d, k)) = Tree(d)[k][0]
           /\ Mth(SecondPart(d, k)) = Tree(d)[Len(d) - k][k]
<1>1. PICK z \in Nat : z = 0 OBVIOUS
<1>2. PICK q \in Nat : q = k OBVIOUS
<1>3. PICK m \in Nat : m = Len(d) - k
  <2>1. Len(d) \in Nat OBVIOUS
  <2> QED BY <2>1
<1>4. PICK c, e, f : c = d /\ e = FirstPart(d, k) /\ f = SecondPart(d, k) OBVIOUS
<1>5. Len(e) = q /\ \A x \in 1..q : e[x] = c[x] BY <1>2, <1>4, Parts
<1>6. Len(f) = m /\ \A x \in 1..m : f[x] = c[q + x] BY <1>2, <1>3, <1>4, Parts
<1>7. Slice(e, c, q, z) BY <1>1, <1>5 DEF Slice
<1>8. Slice(f, c, m, q) BY <1>6 DEF Slice
<1>9. Mth(e) = Tree(c)[q][z] BY <1>7, SliceRoot
<1>10. Mth(f) = Tree(c)[m][q] BY <1>8, SliceRoot
<1> QED BY <1>1, <1>2, <1>3, <1>4, <1>9, <1>10

\* A tree of n leaves is split at Split(n).
LEMMA TreeSplit ==
    ASSUME NEW d, NEW n \in Nat, n >= 2
    PROVE  Tree(d)[n][0] = NodeHash(Tree(d)[Split(n)][0], Tree(d)[n - Split(n)][Split(n)])
<1>1. PICK z \in Nat : z = 0 OBVIOUS
<1>2. PICK k \in Nat : k = Split(n) BY SplitBounds
<1>3. Tree(d)[n][z] = NodeHash(Tree(d)[Split(n)][z], Tree(d)[n - Split(n)][z + Split(n)])
  BY TreeFacts
<1>4. z + k = k BY <1>1
<1> QED BY <1>1, <1>2, <1>3, <1>4

\* The recursion of mth on slices, as the code has it.
LEMMA MthFacts ==
    ASSUME NEW L, NEW d \in Seq(L)
    PROVE  /\ Len(d) = 0 => Mth(d) = EmptyRoot
           /\ Len(d) = 1 => Mth(d) = d[1]
           /\ Len(d) >= 2 => Mth(d) = NodeHash(Mth(FirstPart(d, Split(Len(d)))),
                                               Mth(SecondPart(d, Split(Len(d)))))
<1>1. Len(d) = 0 => Mth(d) = EmptyRoot BY TreeFacts DEF Mth
<1>2. Len(d) = 1 => Mth(d) = d[1] BY TreeFacts DEF Mth
<1>3. ASSUME Len(d) >= 2
      PROVE  Mth(d) = NodeHash(Mth(FirstPart(d, Split(Len(d)))), Mth(SecondPart(d, Split(Len(d)))))
  <2>1. PICK n \in Nat : n = Len(d) OBVIOUS
  <2>2. PICK k \in Nat : k = Split(n) /\ k \in 1..(n - 1) /\ n - k \in 1..(n - 1)
    BY <1>3, <2>1, SplitBounds
  <2>3. k \in 0..Len(d) BY <2>1, <2>2
  <2>4. Mth(d) = NodeHash(Tree(d)[k][0], Tree(d)[n - k][k])
    <3>1. Tree(d)[n][0] = NodeHash(Tree(d)[Split(n)][0], Tree(d)[n - Split(n)][Split(n)])
      BY <1>3, <2>1, TreeSplit
    <3> QED BY <2>1, <2>2, <3>1 DEF Mth
  <2>5. Mth(FirstPart(d, k)) = Tree(d)[k][0] /\ Mth(SecondPart(d, k)) = Tree(d)[n - k][k]
    BY <2>1, <2>3, PartRoots
  <2> QED BY <2>1, <2>2, <2>4, <2>5
<1> QED BY <1>1, <1>2, <1>3

\* Sequences of leaf hashes.
LEMMA LeafFacts ==
    ASSUME NEW M, NEW d \in Seq(Leaves(M))
    PROVE  /\ Len(d) = 0 => d = <<>>
           /\ \A x \in 1..Len(d) : \E m \in M : d[x] = LeafHash(m)
<1>1. Len(d) = 0 => d = <<>> OBVIOUS
<1>2. \A x \in 1..Len(d) : d[x] \in Leaves(M) OBVIOUS
<1> QED BY <1>1, <1>2 DEF Leaves

\* The form of a root tells how many leaves there are: none, one, or more.
LEMMA MthForms ==
    ASSUME NEW M, NEW d \in Seq(Leaves(M))
    PROVE  /\ Mth(d) = EmptyRoot => Len(d) = 0
           /\ \A m : Mth(d) = LeafHash(m) => d = <<LeafHash(m)>>
           /\ \A a, b : Mth(d) = NodeHash(a, b) =>
                 /\ Len(d) >= 2
                 /\ Mth(FirstPart(d, Split(Len(d)))) = a
                 /\ Mth(SecondPart(d, Split(Len(d)))) = b
<1>1. Len(d) = 0 \/ Len(d) = 1 \/ Len(d) >= 2
  <2>1. PICK n \in Nat : n = Len(d) OBVIOUS
  <2>2. n = 0 \/ n = 1 \/ n >= 2 OBVIOUS
  <2> QED BY <2>1, <2>2
<1>2. CASE Len(d) = 0
  <2>1. Mth(d) = EmptyRoot BY <1>2, MthFacts
  <2> QED BY <1>2, <2>1, HashFacts
<1>3. CASE Len(d) = 1
  <2>1. Mth(d) = d[1] BY <1>3, MthFacts
  <2>2. PICK m \in M : d[1] = LeafHash(m) BY <1>3, LeafFacts
  <2>3. d = <<LeafHash(m)>> BY <1>3, <2>2
  <2> QED BY <2>1, <2>2, <2>3, HashFacts
<1>4. CASE Len(d) >= 2
  <2>1. Mth(d) = NodeHash(Mth(FirstPart(d, Split(Len(d)))), Mth(SecondPart(d, Split(Len(d)))))
    BY <1>4, MthFacts
  <2> QED BY <1>4, <2>1, HashFacts
<1> QED BY <1>1, <1>2, <1>3, <1>4

\* A sequence of two leaves or more is the concatenation of its parts.
LEMMA MthSplit ==
    ASSUME NEW L, NEW d \in Seq(L), Len(d) >= 2
    PROVE  LET k == Split(Len(d))
               d1 == FirstPart(d, k)
               d2 == SecondPart(d, k)
           IN  /\ k \in 1..(Len(d) - 1)
               /\ d1 \in Seq(L) /\ Len(d1) = k
               /\ d2 \in Seq(L) /\ Len(d2) = Len(d) - k
               /\ d = d1 \o d2
<1> DEFINE k == Split(Len(d))
<1>1. Len(d) \in Nat OBVIOUS
<1>2. k \in 1..(Len(d) - 1) BY <1>1, SplitBounds
<1>3. k \in 0..Len(d) /\ k \in Nat BY <1>1, <1>2
<1> HIDE DEF k
<1>4. /\ FirstPart(d, k) \in Seq(L) /\ Len(FirstPart(d, k)) = k
      /\ \A x \in 1..k : FirstPart(d, k)[x] = d[x]
      /\ SecondPart(d, k) \in Seq(L) /\ Len(SecondPart(d, k)) = Len(d) - k
      /\ \A x \in 1..(Len(d) - k) : SecondPart(d, k)[x] = d[k + x]
  BY <1>3, Parts
<1>5. d = FirstPart(d, k) \o SecondPart(d, k)
  <2> DEFINE c == FirstPart(d, k) \o SecondPart(d, k)
  <2>1. c \in Seq(L) /\ Len(c) = Len(d) BY <1>1, <1>3, <1>4
  <2>2. ASSUME NEW x \in 1..Len(d) PROVE c[x] = d[x]
    <3>1. CASE x <= k BY <3>1, <1>3, <1>4
    <3>2. CASE x > k
      <4>1. x - k \in 1..(Len(d) - k) /\ k + (x - k) = x BY <3>2, <1>1, <1>3
      <4>2. c[x] = SecondPart(d, k)[x - k] BY <3>2, <4>1, <1>1, <1>3, <1>4
      <4> QED BY <4>1, <4>2, <1>4
    <3>3. x \in Nat BY <1>1
    <3>4. x <= k \/ x > k BY <1>3, <3>3
    <3> QED BY <3>1, <3>2, <3>4
  <2> HIDE DEF c
  <2>3. c = d BY <2>1, <2>2, SeqEqual
  <2> QED BY <2>3 DEF c
<1> QED BY <1>2, <1>4, <1>5 DEF k

\* Two logs with the same root have the same leaves, in the same order, of any
\* number (mth, with a hash that has no collisions and tells leaves from nodes).
THEOREM MthInjective ==
    ASSUME NEW M, NEW c \in Seq(Leaves(M)), NEW d \in Seq(Leaves(M)), Mth(c) = Mth(d)
    PROVE  c = d
<1> DEFINE L == Leaves(M)
           Ok == {n \in Nat : \A x, y \in Seq(L) : Len(x) = n /\ Mth(x) = Mth(y) => x = y}
<1>1. ASSUME NEW n \in Nat, \A k \in 0..(n - 1) : k \in Ok PROVE n \in Ok
  <2> SUFFICES ASSUME NEW x \in Seq(L), NEW y \in Seq(L), Len(x) = n, Mth(x) = Mth(y)
               PROVE  x = y
    OBVIOUS
  <2> HIDE DEF Ok
  <2>1. x \in Seq(Leaves(M)) /\ y \in Seq(Leaves(M)) OBVIOUS
  <2>2. CASE n = 0
    <3>1. Mth(x) = EmptyRoot BY <2>2, MthFacts
    <3>2. Len(y) = 0 BY <3>1, MthForms
    <3> QED BY <2>2, <3>2
  <2>3. CASE n = 1
    <3>1. \A i \in 1..Len(x) : \E m \in M : x[i] = LeafHash(m) BY <2>1, LeafFacts
    <3>2. PICK m \in M : x[1] = LeafHash(m) BY <2>3, <3>1
    <3>3. Mth(x) = LeafHash(m) BY <2>3, <3>2, MthFacts
    <3>4. x = <<LeafHash(m)>> BY <2>1, <3>3, MthForms
    <3>5. y = <<LeafHash(m)>> BY <2>1, <3>3, MthForms
    <3> QED BY <3>4, <3>5
  <2>4. CASE n >= 2
    <3> DEFINE x1 == FirstPart(x, Split(Len(x)))
               x2 == SecondPart(x, Split(Len(x)))
               y1 == FirstPart(y, Split(Len(y)))
               y2 == SecondPart(y, Split(Len(y)))
    <3>1. Mth(x) = NodeHash(Mth(x1), Mth(x2)) BY <2>4, MthFacts
    <3>2. Len(y) >= 2 /\ Mth(y1) = Mth(x1) /\ Mth(y2) = Mth(x2)
      <4>1. Mth(y) = NodeHash(Mth(x1), Mth(x2)) BY <3>1
      <4> QED BY <2>1, <4>1, MthForms
    <3>3. /\ x1 \in Seq(L) /\ x2 \in Seq(L) /\ x = x1 \o x2
          /\ Len(x1) \in 0..(n - 1) /\ Len(x2) \in 0..(n - 1)
      <4>1. /\ Split(Len(x)) \in 1..(Len(x) - 1)
            /\ x1 \in Seq(L) /\ Len(x1) = Split(Len(x))
            /\ x2 \in Seq(L) /\ Len(x2) = Len(x) - Split(Len(x))
            /\ x = x1 \o x2
        BY <2>4, MthSplit
      <4> QED BY <4>1
    <3>4. y1 \in Seq(L) /\ y2 \in Seq(L) /\ y = y1 \o y2 BY <3>2, MthSplit
    <3> HIDE DEF x1, x2, y1, y2, L
    <3>5. x1 = y1 BY <3>2, <3>3, <3>4, <1>1 DEF Ok
    <3>6. x2 = y2 BY <3>2, <3>3, <3>4, <1>1 DEF Ok
    <3> QED BY <3>3, <3>4, <3>5, <3>6
  <2> QED BY <2>2, <2>3, <2>4
<1> HIDE DEF Ok
<1>2. \A n \in Nat : n \in Ok BY <1>1, StrongInduction
<1>3. Len(c) \in Nat OBVIOUS
<1> QED BY <1>2, <1>3 DEF Ok

-----------------------------------------------------------------------------
(* What it means that a proof joins two roots, and that hashing a node in keeps it. *)

\* A prefix, element by element.
LEMMA PrefixDef ==
    ASSUME NEW L, NEW s \in Seq(L), NEW t \in Seq(L)
    PROVE  S!IsPrefix(s, t) <=> Len(s) <= Len(t) /\ \A i \in 1..Len(s) : s[i] = t[i]
<1>1. PICK k \in Nat : k = Len(s) OBVIOUS
<1>2. PICK n \in Nat : n = Len(t) OBVIOUS
<1>3. S!IsPrefix(s, t) <=> k <= n /\ SubSeq(s, 1, k) = SubSeq(t, 1, k)
  BY <1>1, <1>2 DEF S!IsPrefix
<1>4. ASSUME k <= n
      PROVE  SubSeq(s, 1, k) = SubSeq(t, 1, k) <=> \A i \in 1..k : s[i] = t[i]
  <2>1. /\ SubSeq(s, 1, k) \in Seq(L) /\ Len(SubSeq(s, 1, k)) = k
        /\ \A i \in 1..k : SubSeq(s, 1, k)[i] = s[i]
    BY <1>1
  <2>2. /\ SubSeq(t, 1, k) \in Seq(L) /\ Len(SubSeq(t, 1, k)) = k
        /\ \A i \in 1..k : SubSeq(t, 1, k)[i] = t[i]
    BY <1>2, <1>4
  <2>3. ASSUME \A i \in 1..k : s[i] = t[i] PROVE SubSeq(s, 1, k) = SubSeq(t, 1, k)
    <3>1. \A i \in 1..k : SubSeq(s, 1, k)[i] = SubSeq(t, 1, k)[i] BY <2>1, <2>2, <2>3
    <3> QED BY <3>1, <2>1, <2>2, SeqEqual
  <2> QED BY <2>1, <2>2, <2>3
<1> QED BY <1>1, <1>2, <1>3, <1>4

\* Prefixes and concatenation.
LEMMA PrefixFacts ==
    ASSUME NEW L, NEW r \in Seq(L), NEW s \in Seq(L), NEW t \in Seq(L), S!IsPrefix(s, t)
    PROVE  /\ S!IsPrefix(r \o s, r \o t)
           /\ S!IsPrefix(s, t \o r)
<1>1. PICK k \in Nat : k = Len(r) OBVIOUS
<1>2. PICK m \in Nat : m = Len(s) OBVIOUS
<1>3. PICK n \in Nat : n = Len(t) OBVIOUS
<1>4. m <= n /\ \A i \in 1..m : s[i] = t[i] BY <1>2, <1>3, PrefixDef
<1>5. /\ r \o s \in Seq(L) /\ Len(r \o s) = k + m
      /\ \A i \in 1..(k + m) : (r \o s)[i] = IF i <= k THEN r[i] ELSE s[i - k]
  BY <1>1, <1>2
<1>6. /\ r \o t \in Seq(L) /\ Len(r \o t) = k + n
      /\ \A i \in 1..(k + n) : (r \o t)[i] = IF i <= k THEN r[i] ELSE t[i - k]
  BY <1>1, <1>3
<1>7. /\ t \o r \in Seq(L) /\ Len(t \o r) = n + k
      /\ \A i \in 1..n : (t \o r)[i] = t[i]
  BY <1>1, <1>3
<1>8. ASSUME NEW i \in 1..(k + m) PROVE (r \o s)[i] = (r \o t)[i]
  <2>1. i \in 1..(k + n) BY <1>4
  <2>2. CASE i <= k BY <2>1, <2>2, <1>5, <1>6
  <2>3. CASE ~(i <= k)
    <3>1. i - k \in 1..m BY <2>3
    <3> QED BY <2>1, <2>3, <3>1, <1>4, <1>5, <1>6
  <2> QED BY <2>2, <2>3
<1>9. S!IsPrefix(r \o s, r \o t)
  <2>1. Len(r \o s) <= Len(r \o t) BY <1>4, <1>5, <1>6
  <2>2. \A i \in 1..Len(r \o s) : (r \o s)[i] = (r \o t)[i] BY <1>5, <1>8
  <2> QED BY <1>5, <1>6, <2>1, <2>2, PrefixDef
<1>10. ASSUME NEW i \in 1..m PROVE s[i] = (t \o r)[i]
  <2>1. i \in 1..n BY <1>4
  <2> QED BY <2>1, <1>4, <1>7
<1>11. S!IsPrefix(s, t \o r)
  <2>1. Len(s) <= Len(t \o r) BY <1>2, <1>4, <1>7
  <2>2. \A i \in 1..Len(s) : s[i] = (t \o r)[i] BY <1>2, <1>10
  <2> QED BY <1>7, <2>1, <2>2, PrefixDef
<1> QED BY <1>9, <1>11

\* Whatever leaves x and y are roots of, those of x are a prefix of those of y.
Joins(M, x, y) ==
    \A old, new \in Seq(Leaves(M)) :
        Mth(old) = x /\ Mth(new) = y =>
            S!IsPrefix(old, new) /\ (Len(new) > 0 => Len(old) > 0)

\* The same, and neither are they equal nor is x the root of the empty log.
JoinsStrictly(M, x, y) ==
    \A old, new \in Seq(Leaves(M)) :
        Mth(old) = x /\ Mth(new) = y =>
            S!IsPrefix(old, new) /\ Len(old) > 0 /\ old # new

\* A root joins itself, since it determines its leaves.
LEMMA SameJoins == ASSUME NEW M, NEW x PROVE Joins(M, x, x)
<1> SUFFICES ASSUME NEW old \in Seq(Leaves(M)), NEW new \in Seq(Leaves(M)), Mth(old) = x, Mth(new) = x
             PROVE  S!IsPrefix(old, new) /\ (Len(new) > 0 => Len(old) > 0)
  BY DEF Joins
<1>1. old = new BY MthInjective
<1>2. Len(old) \in Nat OBVIOUS
<1>3. Len(old) <= Len(old) BY <1>2
<1>4. S!IsPrefix(old, old) BY <1>3, PrefixDef
<1> QED BY <1>1, <1>4

\* Strictly implies at all.
LEMMA StrictJoins == ASSUME NEW M, NEW x, NEW y, JoinsStrictly(M, x, y) PROVE Joins(M, x, y)
  BY DEF Joins, JoinsStrictly

\* The same complete tree on the left of both keeps the relation.
LEMMA LeftJoins ==
    ASSUME NEW M, NEW h, NEW x, NEW y
    PROVE  /\ Joins(M, x, y) => Joins(M, NodeHash(h, x), NodeHash(h, y))
           /\ JoinsStrictly(M, x, y) => JoinsStrictly(M, NodeHash(h, x), NodeHash(h, y))
<1> DEFINE L == Leaves(M)
<1>1. ASSUME NEW old \in Seq(Leaves(M)), NEW new \in Seq(Leaves(M)),
             Mth(old) = NodeHash(h, x), Mth(new) = NodeHash(h, y)
      PROVE  \E c, old2, new2 \in Seq(Leaves(M)) :
                 /\ old = c \o old2 /\ new = c \o new2
                 /\ Mth(old2) = x /\ Mth(new2) = y
                 /\ Len(old) > 0
  <2> DEFINE a1 == FirstPart(old, Split(Len(old)))
             a2 == SecondPart(old, Split(Len(old)))
             b1 == FirstPart(new, Split(Len(new)))
             b2 == SecondPart(new, Split(Len(new)))
  <2>1. Len(old) >= 2 /\ Mth(a1) = h /\ Mth(a2) = x BY <1>1, MthForms
  <2>2. Len(new) >= 2 /\ Mth(b1) = h /\ Mth(b2) = y BY <1>1, MthForms
  <2>3. a1 \in Seq(Leaves(M)) /\ a2 \in Seq(Leaves(M)) /\ old = a1 \o a2 BY <2>1, MthSplit
  <2>4. b1 \in Seq(Leaves(M)) /\ b2 \in Seq(Leaves(M)) /\ new = b1 \o b2 BY <2>2, MthSplit
  <2> HIDE DEF a1, a2, b1, b2
  <2>5. a1 = b1 BY <2>1, <2>2, <2>3, <2>4, MthInjective
  <2>6. Len(old) > 0 BY <2>1
  <2>7. new = a1 \o b2 BY <2>4, <2>5
  <2> QED BY <2>1, <2>2, <2>3, <2>4, <2>6, <2>7
<1>2. ASSUME Joins(M, x, y) PROVE Joins(M, NodeHash(h, x), NodeHash(h, y))
  <2> SUFFICES ASSUME NEW old \in Seq(Leaves(M)), NEW new \in Seq(Leaves(M)),
                      Mth(old) = NodeHash(h, x), Mth(new) = NodeHash(h, y)
               PROVE  S!IsPrefix(old, new) /\ Len(old) > 0
    BY DEF Joins
  <2>1. PICK c, old2, new2 \in Seq(Leaves(M)) :
            /\ old = c \o old2 /\ new = c \o new2
            /\ Mth(old2) = x /\ Mth(new2) = y
            /\ Len(old) > 0
    BY <1>1
  <2>2. S!IsPrefix(old2, new2) BY <1>2, <2>1 DEF Joins
  <2>3. S!IsPrefix(c \o old2, c \o new2) BY <2>2, PrefixFacts
  <2> QED BY <2>1, <2>3
<1>3. ASSUME JoinsStrictly(M, x, y) PROVE JoinsStrictly(M, NodeHash(h, x), NodeHash(h, y))
  <2> SUFFICES ASSUME NEW old \in Seq(Leaves(M)), NEW new \in Seq(Leaves(M)),
                      Mth(old) = NodeHash(h, x), Mth(new) = NodeHash(h, y)
               PROVE  S!IsPrefix(old, new) /\ Len(old) > 0 /\ old # new
    BY DEF JoinsStrictly
  <2>1. PICK c, old2, new2 \in Seq(Leaves(M)) :
            /\ old = c \o old2 /\ new = c \o new2
            /\ Mth(old2) = x /\ Mth(new2) = y
            /\ Len(old) > 0
    BY <1>1
  <2>2. S!IsPrefix(old2, new2) /\ old2 # new2 BY <1>3, <2>1 DEF JoinsStrictly
  <2>3. S!IsPrefix(c \o old2, c \o new2) BY <2>2, PrefixFacts
  <2>4. old # new
    <3>1. SUFFICES ASSUME old = new PROVE FALSE OBVIOUS
    <3>2. NodeHash(h, x) = NodeHash(h, y) BY <3>1
    <3>3. x = y BY <3>2, HashFacts
    <3> QED BY <3>3, <2>1, <2>2, MthInjective
  <2> QED BY <2>1, <2>3, <2>4
<1> QED BY <1>2, <1>3

\* More leaves on the right of the new one establish or keep it.
LEMMA RightJoins ==
    ASSUME NEW M, NEW h, NEW x, NEW y, Joins(M, x, y)
    PROVE  JoinsStrictly(M, x, NodeHash(y, h))
<1> SUFFICES ASSUME NEW old \in Seq(Leaves(M)), NEW new \in Seq(Leaves(M)),
                    Mth(old) = x, Mth(new) = NodeHash(y, h)
             PROVE  S!IsPrefix(old, new) /\ Len(old) > 0 /\ old # new
  BY DEF JoinsStrictly
<1> DEFINE new1 == FirstPart(new, Split(Len(new)))
           new2 == SecondPart(new, Split(Len(new)))
<1>1. Len(new) >= 2 /\ Mth(new1) = y BY MthForms
<1>2. /\ Split(Len(new)) \in 1..(Len(new) - 1)
      /\ new1 \in Seq(Leaves(M)) /\ Len(new1) = Split(Len(new))
      /\ new2 \in Seq(Leaves(M)) /\ new = new1 \o new2
  BY <1>1, MthSplit
<1> HIDE DEF new1, new2
<1>3. PICK n \in Nat : n = Len(new) OBVIOUS
<1>4. Len(new1) > 0 /\ Len(new1) < n BY <1>2, <1>3
<1>5. S!IsPrefix(old, new1) /\ Len(old) > 0 BY <1>1, <1>2, <1>4 DEF Joins
<1>6. S!IsPrefix(old, new) BY <1>2, <1>5, PrefixFacts
<1>7. Len(old) <= Len(new1) BY <1>2, <1>5, PrefixDef
<1>8. PICK m \in Nat : m = Len(old) OBVIOUS
<1>9. m # n BY <1>2, <1>4, <1>7, <1>8
<1> QED BY <1>3, <1>5, <1>6, <1>8, <1>9

-----------------------------------------------------------------------------
(* The arithmetic of the verifiers, and the soundness of verify_consistency. *)

\* Division with remainder.
LEMMA DivFacts ==
    ASSUME NEW x \in Nat, NEW D \in Nat, D > 0
    PROVE  /\ x \div D \in Nat /\ x % D \in 0..(D - 1)
           /\ x = D * (x \div D) + (x % D)
  OBVIOUS

\* Shifted words are numbers.
LEMMA DivNat == \A x, k \in Nat : x \div Pow2[k] \in Nat
<1> SUFFICES ASSUME NEW x \in Nat, NEW k \in Nat PROVE x \div Pow2[k] \in Nat OBVIOUS
<1>1. PICK D \in Nat : D = Pow2[k] /\ D > 0 BY Pow2Facts
<1> QED BY <1>1, DivFacts

\* Quotient and remainder are unique.
LEMMA DivUnique ==
    ASSUME NEW x \in Nat, NEW D \in Nat, D > 0, NEW q \in Nat, NEW r \in 0..(D - 1),
           x = D * q + r
    PROVE  x \div D = q /\ x % D = r
<1> DEFINE a == x \div D
           b == x % D
<1>1. a \in Nat /\ b \in 0..(D - 1) /\ x = D * a + b BY DivFacts
<1> HIDE DEF a, b
<1>2. CASE a < q
  <2>1. q = a + 1 + (q - a - 1) /\ q - a - 1 \in Nat BY <1>1, <1>2
  <2>2. PICK e \in Nat : q = a + 1 + e BY <2>1
  <2>3. D * q = D * a + D + D * e BY <2>2, <1>1
  <2>4. D * e \in Nat OBVIOUS
  <2>5. D * a \in Nat /\ D * q \in Nat BY <1>1
  <2> QED BY <2>3, <2>4, <2>5, <1>1
<1>3. CASE q < a
  <2>1. a = q + 1 + (a - q - 1) /\ a - q - 1 \in Nat BY <1>1, <1>3
  <2>2. PICK e \in Nat : a = q + 1 + e BY <2>1
  <2>3. D * a = D * q + D + D * e BY <2>2, <1>1
  <2>4. D * e \in Nat OBVIOUS
  <2>5. D * a \in Nat /\ D * q \in Nat BY <1>1
  <2> QED BY <2>3, <2>4, <2>5, <1>1
<1>4. CASE a = q BY <1>1, <1>4
<1>5. a < q \/ q < a \/ a = q BY <1>1
<1> QED BY <1>2, <1>3, <1>4, <1>5 DEF a, b

\* Two shifts are one.
LEMMA DivTwice ==
    ASSUME NEW x \in Nat, NEW a \in Nat, NEW b \in Nat
    PROVE  (x \div Pow2[a]) \div Pow2[b] = x \div Pow2[a + b]
<1> DEFINE A == Pow2[a]
           B == Pow2[b]
           q == x \div A
           r == x % A
           s == q \div B
           t == q % B
<1>1. A \in Nat /\ A > 0 /\ B \in Nat /\ B > 0 /\ Pow2[a + b] = A * B
  <2>1. A \in Nat /\ A > 0 /\ B \in Nat /\ B > 0 BY Pow2Facts
  <2>2. Pow2[a + b] = A * B BY Pow2Add
  <2> QED BY <2>1, <2>2
<1> HIDE DEF A, B
<1>2. q \in Nat /\ r \in 0..(A - 1) /\ x = A * q + r BY <1>1, DivFacts
<1> HIDE DEF q, r
<1>3. s \in Nat /\ t \in 0..(B - 1) /\ q = B * s + t BY <1>1, <1>2, DivFacts
<1> HIDE DEF s, t
<1>4. x = (A * B) * s + (A * t + r)
  <2>1. A * q = A * (B * s) + A * t BY <1>1, <1>3
  <2>2. A * (B * s) = (A * B) * s BY <1>1, <1>3
  <2>3. A * t \in Nat /\ (A * B) * s \in Nat /\ A * q \in Nat BY <1>1, <1>2, <1>3
  <2> QED BY <2>1, <2>2, <2>3, <1>2
<1>5. A * t + r \in 0..((A * B) - 1)
  <2>1. PICK e \in Nat : B = t + 1 + e
    <3>1. B - t - 1 \in Nat /\ B = t + 1 + (B - t - 1) BY <1>1, <1>3
    <3> QED BY <3>1
  <2>2. A * B = A * t + A + A * e BY <2>1, <1>1, <1>3
  <2>3. A * t \in Nat /\ A * e \in Nat /\ A * B \in Nat BY <1>1, <1>3, <2>1
  <2> QED BY <2>2, <2>3, <1>1, <1>2
<1>6. PICK C \in Nat : C = A * B /\ C > 0
  <2>1. A * B \in Nat /\ A * B # 0 BY <1>1
  <2> QED BY <2>1
<1>7. PICK u \in Nat : u = A * t + r /\ u \in 0..(C - 1) BY <1>5, <1>6
<1>8. x = C * s + u BY <1>4, <1>6, <1>7
<1>9. x \div C = s BY <1>3, <1>6, <1>7, <1>8, DivUnique
<1> QED BY <1>1, <1>6, <1>9 DEF A, B, q, s

\* A shift leaves nothing of exactly the small words.
LEMMA DivSmall ==
    ASSUME NEW x \in Nat, NEW k \in Nat
    PROVE  x \div Pow2[k] = 0 <=> x < Pow2[k]
<1>1. PICK D \in Nat : D = Pow2[k] /\ D > 0 BY Pow2Facts
<1>2. ASSUME x < D PROVE x \div D = 0
  <2>1. x \in 0..(D - 1) /\ x = D * 0 + x BY <1>1, <1>2
  <2> QED BY <1>1, <2>1, DivUnique
<1>3. ASSUME x \div D = 0 PROVE x < D
  <2>1. x \div D \in Nat /\ x % D \in 0..(D - 1) /\ x = D * (x \div D) + (x % D) BY <1>1, DivFacts
  <2>2. x = D * 0 + (x % D) BY <2>1, <1>3
  <2>3. D * 0 = 0 BY <1>1
  <2> QED BY <2>1, <2>2, <2>3, <1>1
<1> QED BY <1>1, <1>2, <1>3

\* Words that agree above bit k agree above each higher bit.
LEMMA DivAgreeAbove ==
    ASSUME NEW x \in Nat, NEW y \in Nat, NEW k \in Nat, NEW j \in Nat, k <= j,
           x \div Pow2[k] = y \div Pow2[k]
    PROVE  x \div Pow2[j] = y \div Pow2[j]
<1>1. j - k \in Nat /\ k + (j - k) = j OBVIOUS
<1>2. (x \div Pow2[k]) \div Pow2[j - k] = x \div Pow2[k + (j - k)] BY <1>1, DivTwice
<1>3. (y \div Pow2[k]) \div Pow2[j - k] = y \div Pow2[k + (j - k)] BY <1>1, DivTwice
<1> QED BY <1>1, <1>2, <1>3

\* Adding a power of two leaves what is below it alone.
LEMMA DivOffset ==
    ASSUME NEW x \in Nat, NEW p \in Nat, NEW j \in Nat, j <= p
    PROVE  /\ (x + Pow2[p]) \div Pow2[j] = (x \div Pow2[j]) + Pow2[p - j]
           /\ (x + Pow2[p]) % Pow2[j] = x % Pow2[j]
<1>1. p - j \in Nat /\ j + (p - j) = p OBVIOUS
<1>2. Pow2[p] = Pow2[j] * Pow2[p - j] BY <1>1, Pow2Add
<1>3. PICK D \in Nat : D = Pow2[j] /\ D > 0 BY Pow2Facts
<1>4. PICK E \in Nat : E = Pow2[p - j] BY <1>1, Pow2Facts
<1>5. PICK q \in Nat : q = x \div D BY <1>3, DivFacts
<1>6. PICK r \in 0..(D - 1) : r = x % D BY <1>3, DivFacts
<1>7. x = D * q + r BY <1>3, <1>5, <1>6, DivFacts
<1>8. x + D * E = D * (q + E) + r
  <2>1. D * (q + E) = D * q + D * E OBVIOUS
  <2>2. D * q \in Nat /\ D * E \in Nat OBVIOUS
  <2> QED BY <2>1, <2>2, <1>7
<1>9. PICK y \in Nat : y = x + D * E
  <2>1. D * E \in Nat OBVIOUS
  <2> QED BY <2>1
<1>10. q + E \in Nat OBVIOUS
<1>11. y \div D = q + E /\ y % D = r BY <1>3, <1>8, <1>9, <1>10, DivUnique
<1> QED BY <1>2, <1>3, <1>4, <1>5, <1>9, <1>11, <1>6

\* The words.
LEMMA WidthFacts ==
    /\ Width \in Nat /\ Width > 0 /\ Width - 1 \in Nat
    /\ \A x : x \in Words <=> x \in Nat /\ x < Pow2[Width]
    /\ Pow2[Width] = 2 * Pow2[Width - 1]
<1>1. Width \in Nat /\ Width > 0 /\ Width - 1 \in Nat /\ Width = (Width - 1) + 1 BY WidthAssumption
<1>2. Pow2[Width] \in Nat BY <1>1, Pow2Facts
<1>3. \A x : x \in Words <=> x \in Nat /\ x < Pow2[Width] BY <1>2 DEF Words
<1> QED BY <1>1, <1>3, Pow2Facts

\* The choice in BitLenXor exists.
LEMMA BitLenFacts ==
    ASSUME NEW x \in Words, NEW y \in Words
    PROVE  /\ BitLenXor[x][y] \in 0..Width
           /\ x \div Pow2[BitLenXor[x][y]] = y \div Pow2[BitLenXor[x][y]]
           /\ \A j \in 0..(BitLenXor[x][y] - 1) : x \div Pow2[j] # y \div Pow2[j]
<1> DEFINE T == {k \in Nat : x \div Pow2[k] = y \div Pow2[k]}
           Is(k) == /\ x \div Pow2[k] = y \div Pow2[k]
                    /\ \A j \in 0..(k - 1) : x \div Pow2[j] # y \div Pow2[j]
<1>1. Width \in T
  <2>1. x \div Pow2[Width] = 0 BY WidthFacts, DivSmall
  <2>2. y \div Pow2[Width] = 0 BY WidthFacts, DivSmall
  <2> QED BY <2>1, <2>2, WidthFacts
<1>2. \E k \in T : \A j \in T : k <= j
  <2>1. T \subseteq Nat OBVIOUS
  <2> HIDE DEF T
  <2> QED BY <1>1, <2>1, LeastNumber
<1>3. \E k \in 0..Width : Is(k)
  <2>1. PICK k \in T : \A j \in T : k <= j BY <1>2
  <2>2. k \in 0..Width BY <1>1, <2>1, WidthFacts
  <2>3. ASSUME NEW j \in 0..(k - 1) PROVE j \notin T BY <2>1, <2>2
  <2> QED BY <2>1, <2>2, <2>3
<1>4. BitLenXor[x][y] = CHOOSE k \in 0..Width : Is(k) BY DEF BitLenXor
<1> HIDE DEF Is
<1>5. BitLenXor[x][y] \in 0..Width /\ Is(BitLenXor[x][y]) BY <1>3, <1>4
<1> QED BY <1>5 DEF Is

\* It is determined by the highest bit that differs.
LEMMA BitLenUnique ==
    ASSUME NEW x \in Words, NEW y \in Words, NEW k \in Nat,
           x \div Pow2[k] = y \div Pow2[k],
           k = 0 \/ x \div Pow2[k - 1] # y \div Pow2[k - 1]
    PROVE  BitLenXor[x][y] = k
<1>1. PICK b \in Nat : b = BitLenXor[x][y] BY BitLenFacts, WidthFacts
<1>2. x \in Nat /\ y \in Nat BY WidthFacts
<1>3. /\ x \div Pow2[b] = y \div Pow2[b]
      /\ \A j \in 0..(b - 1) : x \div Pow2[j] # y \div Pow2[j]
  BY <1>1, BitLenFacts
<1>4. ~(k < b) BY <1>3
<1>5. ~(b < k)
  <2>1. SUFFICES ASSUME b < k PROVE FALSE OBVIOUS
  <2>2. k - 1 \in Nat /\ b <= k - 1 BY <2>1
  <2>3. x \div Pow2[k - 1] = y \div Pow2[k - 1] BY <1>2, <1>3, <2>2, DivAgreeAbove
  <2> QED BY <2>1, <2>3
<1> QED BY <1>1, <1>4, <1>5

\* A word has some number of ones.
LEMMA CountOnesNat ==
    ASSUME NEW x \in Words
    PROVE  CountOnes[x] \in Nat
<1>1. IsFiniteSet(0..(Width - 1)) BY WidthFacts, FS_Interval
<1>2. IsFiniteSet({i \in 0..(Width - 1) : Bit(x, i) = 1}) BY <1>1, FS_Subset
<1>3. Cardinality({i \in 0..(Width - 1) : Bit(x, i) = 1}) \in Nat BY <1>2, FS_CardinalityType
<1> QED BY <1>3 DEF CountOnes

\* A shift by less than the width divides.
LEMMA ShrFacts ==
    ASSUME NEW x \in Words, NEW k \in Nat
    PROVE  /\ Shr(x, k) \in Words
           /\ k < Width => Shr(x, k) = x \div Pow2[k]
<1>1. k % Width \in Nat /\ (k < Width => k % Width = k) BY WidthFacts
<1>2. PICK D \in Nat : D = Pow2[k % Width] /\ D > 0 BY <1>1, Pow2Facts
<1>3. x \div D \in Nat /\ x \div D <= x
  <2>1. x \in Nat BY WidthFacts
  <2>2. PICK q \in Nat, r \in Nat : q = x \div D /\ x = D * q + r
    <3>1. x \div D \in Nat /\ x % D \in 0..(D - 1) /\ x = D * (x \div D) + (x % D)
      BY <1>2, <2>1, DivFacts
    <3> QED BY <3>1
  <2>3. PICK e \in Nat : D = e + 1
    <3>1. D - 1 \in Nat /\ D = (D - 1) + 1 BY <1>2
    <3> QED BY <3>1
  <2>4. D * q = e * q + q /\ e * q \in Nat
    <3>1. (e + 1) * q = e * q + q /\ e * q \in Nat OBVIOUS
    <3> QED BY <3>1, <2>3
  <2> QED BY <2>1, <2>2, <2>4
<1>4. x \div D < Pow2[Width] BY <1>3, WidthFacts, Pow2Facts
<1>5. Shr(x, k) = x \div D BY <1>2 DEF Shr
<1> QED BY <1>1, <1>2, <1>3, <1>4, <1>5, WidthFacts

\* The choice in TrailingZeros exists: a word that is not zero has a lowest one.
LEMMA TrailingZerosFacts ==
    ASSUME NEW x \in Words, x # 0
    PROVE  /\ TrailingZeros[x] \in 0..(Width - 1)
           /\ x % Pow2[TrailingZeros[x]] = 0
           /\ x % Pow2[TrailingZeros[x] + 1] # 0
<1> DEFINE T == {k \in Nat : x % Pow2[k + 1] # 0}
           Is(k) == x % Pow2[k] = 0 /\ x % Pow2[k + 1] # 0
<1>1. Width - 1 \in T
  <2>1. PICK D \in Nat : D = Pow2[Width] /\ D > 0 BY WidthFacts, Pow2Facts
  <2>2. x \in 0..(D - 1) /\ x = D * 0 + x BY <2>1, WidthFacts
  <2>3. x % D = x BY <2>1, <2>2, WidthFacts, DivUnique
  <2>4. (Width - 1) + 1 = Width BY WidthFacts
  <2> QED BY <2>1, <2>3, <2>4, WidthFacts
<1>2. \E k \in T : \A j \in T : k <= j
  <2>1. T \subseteq Nat OBVIOUS
  <2> HIDE DEF T
  <2> QED BY <1>1, <2>1, LeastNumber
<1>3. \E k \in 0..(Width - 1) : Is(k)
  <2>1. PICK k \in T : \A j \in T : k <= j BY <1>2
  <2>2. k \in 0..(Width - 1) /\ k \in Nat BY <1>1, <2>1, WidthFacts
  <2>3. x % Pow2[k] = 0
    <3>1. CASE k = 0
      <4>1. x = 1 * x + 0 /\ x \in Nat BY WidthFacts
      <4>2. x % 1 = 0 BY <4>1, DivUnique
      <4> QED BY <3>1, <4>2, Pow2Facts
    <3>2. CASE k # 0
      <4>1. k - 1 \in Nat /\ (k - 1) + 1 = k /\ ~(k <= k - 1) BY <2>2, <3>2
      <4>2. k - 1 \notin T BY <2>1, <4>1
      <4> QED BY <4>1, <4>2
    <3> QED BY <3>1, <3>2
  <2> QED BY <2>1, <2>2, <2>3
<1>4. TrailingZeros[x] = CHOOSE k \in 0..(Width - 1) : Is(k) BY DEF TrailingZeros
<1> HIDE DEF Is
<1>5. TrailingZeros[x] \in 0..(Width - 1) /\ Is(TrailingZeros[x]) BY <1>3, <1>4
<1> QED BY <1>5 DEF Is

\* Division is monotone.
LEMMA DivMonotone ==
    ASSUME NEW x \in Nat, NEW y \in Nat, NEW D \in Nat, D > 0, x <= y
    PROVE  x \div D <= y \div D
<1>1. PICK a \in Nat, r \in 0..(D - 1) : a = x \div D /\ x = D * a + r
  <2>1. x \div D \in Nat /\ x % D \in 0..(D - 1) /\ x = D * (x \div D) + (x % D) BY DivFacts
  <2> QED BY <2>1
<1>2. PICK b \in Nat, s \in 0..(D - 1) : b = y \div D /\ y = D * b + s
  <2>1. y \div D \in Nat /\ y % D \in 0..(D - 1) /\ y = D * (y \div D) + (y % D) BY DivFacts
  <2> QED BY <2>1
<1>3. SUFFICES ASSUME b < a PROVE FALSE BY <1>1, <1>2
<1>4. PICK e \in Nat : a = b + 1 + e
  <2>1. a - b - 1 \in Nat /\ a = b + 1 + (a - b - 1) BY <1>3
  <2> QED BY <2>1
<1>5. D * a = D * b + D + D * e
  <2>1. D * (b + 1 + e) = D * b + D + D * e OBVIOUS
  <2> QED BY <2>1, <1>4
<1>6. D * a \in Nat /\ D * b \in Nat /\ D * e \in Nat OBVIOUS
<1> QED BY <1>1, <1>2, <1>5, <1>6

\* The quotient just below a multiple of D.
LEMMA DivBelow ==
    ASSUME NEW x \in Nat, NEW D \in Nat, D > 0, x > 0, x % D = 0
    PROVE  /\ x \div D \in Nat /\ x \div D > 0
           /\ (x - 1) \div D = (x \div D) - 1
           /\ (x - 1) % D = D - 1
<1>1. PICK q \in Nat : q = x \div D /\ x = D * q
  <2>1. x \div D \in Nat /\ x % D \in 0..(D - 1) /\ x = D * (x \div D) + (x % D) BY DivFacts
  <2>2. x = D * (x \div D) BY <2>1
  <2> QED BY <2>1, <2>2
<1>2. q > 0
  <2>1. D * 0 = 0 OBVIOUS
  <2> QED BY <2>1, <1>1
<1>3. PICK e \in Nat : q = e + 1
  <2>1. q - 1 \in Nat /\ q = (q - 1) + 1 BY <1>2
  <2> QED BY <2>1
<1>4. x - 1 = D * e + (D - 1)
  <2>1. D * (e + 1) = D * e + D /\ D * e \in Nat OBVIOUS
  <2> QED BY <2>1, <1>1, <1>3
<1>5. x - 1 \in Nat /\ D - 1 \in 0..(D - 1) OBVIOUS
<1>6. (x - 1) \div D = e /\ (x - 1) % D = D - 1 BY <1>4, <1>5, DivUnique
<1> QED BY <1>1, <1>2, <1>3, <1>6

\* Climbing the same proof twice, the old root with the left siblings alone and
\* the new root with all of them, keeps two hashes joined; one right sibling
\* joins them strictly.
LEMMA ClimbJoins ==
    ASSUME NEW M, NEW x, NEW y, NEW P, NEW a, NEW b, Len(P) \in Nat, Joins(M, x, y),
           \A i \in 1..Len(P) : \/ a[i] = "left" /\ b[i] = "left"
                                \/ a[i] = "none" /\ b[i] = "right"
    PROVE  /\ Joins(M, Climb(x, P, a), Climb(y, P, b))
           /\ JoinsStrictly(M, x, y) \/ (\E i \in 1..Len(P) : b[i] = "right")
                  => JoinsStrictly(M, Climb(x, P, a), Climb(y, P, b))
<1> DEFINE A(n) == Acc(x, P, a)[n]
           B(n) == Acc(y, P, b)[n]
           Grown(n) == JoinsStrictly(M, x, y) \/ \E i \in 1..n : b[i] = "right"
           T == {n \in Nat : n <= Len(P) =>
                    /\ Joins(M, A(n), B(n))
                    /\ Grown(n) => JoinsStrictly(M, A(n), B(n))}
<1>1. /\ \A n \in Nat : A(n) = ClimbStep(x, P, a, Acc(x, P, a), n)
      /\ \A n \in Nat : B(n) = ClimbStep(y, P, b, Acc(y, P, b), n)
  BY ClimbDef
<1>2. 0 \in T
  <2>1. A(0) = x /\ B(0) = y BY <1>1 DEF ClimbStep
  <2>2. Grown(0) => JoinsStrictly(M, x, y) OBVIOUS
  <2> QED BY <2>1, <2>2
<1>3. ASSUME NEW n \in Nat, n \in T PROVE n + 1 \in T
  <2> SUFFICES ASSUME n + 1 <= Len(P)
               PROVE  /\ Joins(M, A(n + 1), B(n + 1))
                      /\ Grown(n + 1) => JoinsStrictly(M, A(n + 1), B(n + 1))
    OBVIOUS
  <2>1. Joins(M, A(n), B(n)) /\ (Grown(n) => JoinsStrictly(M, A(n), B(n))) BY <1>3
  <2>2. n + 1 \in 1..Len(P) /\ n + 1 \in Nat /\ n + 1 # 0 /\ (n + 1) - 1 = n OBVIOUS
  <2>3. CASE a[n + 1] = "left" /\ b[n + 1] = "left"
    <3>1. A(n + 1) = NodeHash(P[n + 1], A(n)) BY <1>1, <2>2, <2>3 DEF ClimbStep
    <3>2. B(n + 1) = NodeHash(P[n + 1], B(n)) BY <1>1, <2>2, <2>3 DEF ClimbStep
    <3>3. Grown(n + 1) => Grown(n) BY <2>3
    <3> HIDE DEF A, B, Grown
    <3> QED BY <2>1, <3>1, <3>2, <3>3, LeftJoins
  <2>4. CASE a[n + 1] = "none" /\ b[n + 1] = "right"
    <3>1. A(n + 1) = A(n) BY <1>1, <2>2, <2>4 DEF ClimbStep
    <3>2. B(n + 1) = NodeHash(B(n), P[n + 1]) BY <1>1, <2>2, <2>4 DEF ClimbStep
    <3> HIDE DEF A, B, Grown
    <3>3. JoinsStrictly(M, A(n + 1), B(n + 1)) BY <2>1, <3>1, <3>2, RightJoins
    <3> QED BY <3>3, StrictJoins
  <2> QED BY <2>2, <2>3, <2>4
<1>4. Climb(x, P, a) = A(Len(P)) /\ Climb(y, P, b) = B(Len(P)) BY ClimbDef
<1> HIDE DEF T, A, B
<1>5. \A n \in Nat : n \in T BY <1>2, <1>3, Induction
<1> QED BY <1>4, <1>5 DEF T

\* The last inner bit of m - 1 is zero: the verifier hashes at least one sibling
\* in on the right, into the new root alone, whenever it gets to replay at all.
LEMMA LastInnerBit ==
    ASSUME NEW m \in Words, NEW n \in Words, 0 < m, m < n,
           NEW inner0, inner0 = BitLenXor[m - 1][n - 1],
           NEW shift, shift = TrailingZeros[m], inner0 >= shift
    PROVE  /\ inner0 > shift
           /\ ((m - 1) \div Pow2[inner0 - 1]) % 2 = 0
<1>1. m \in Nat /\ n \in Nat /\ m - 1 \in Words /\ n - 1 \in Words /\ m - 1 \in Nat /\ n - 1 \in Nat
  <2>1. m \in Nat /\ n \in Nat BY WidthFacts
  <2>2. Pow2[Width] \in Nat BY WidthFacts, Pow2Facts
  <2> QED BY <2>1, <2>2, WidthFacts
<1>2. inner0 \in 0..Width /\ inner0 \in Nat
      /\ (m - 1) \div Pow2[inner0] = (n - 1) \div Pow2[inner0]
      /\ \A j \in 0..(inner0 - 1) : (m - 1) \div Pow2[j] # (n - 1) \div Pow2[j]
  BY <1>1, BitLenFacts, WidthFacts
<1>3. shift \in Nat /\ m % Pow2[shift] = 0
  <2>1. shift \in 0..(Width - 1) /\ m % Pow2[shift] = 0 BY TrailingZerosFacts
  <2> QED BY <2>1
<1>4. inner0 # shift
  <2>1. SUFFICES ASSUME inner0 = shift PROVE FALSE OBVIOUS
  <2>2. PICK D \in Nat : D = Pow2[shift] /\ D > 0 BY <1>3, Pow2Facts
  <2>3. m \div D \in Nat /\ (m - 1) \div D = (m \div D) - 1 BY <1>1, <1>3, <2>2, DivBelow
  <2>4. m <= n - 1 BY <1>1
  <2>5. m \div D <= (n - 1) \div D BY <1>1, <2>2, <2>4, DivMonotone
  <2>6. (m - 1) \div D = (n - 1) \div D BY <1>2, <2>1, <2>2
  <2> QED BY <2>3, <2>5, <2>6
<1>5. inner0 > shift BY <1>2, <1>3, <1>4
<1>6. ((m - 1) \div Pow2[inner0 - 1]) % 2 = 0
  <2>1. PICK j \in Nat : j = inner0 - 1 /\ inner0 = j + 1
    <3>1. inner0 - 1 \in Nat /\ inner0 = (inner0 - 1) + 1 BY <1>2, <1>3, <1>5
    <3> QED BY <3>1
  <2>2. PICK a \in Nat : a = (m - 1) \div Pow2[j] BY <1>1, DivNat
  <2>3. PICK b \in Nat : b = (n - 1) \div Pow2[j] BY <1>1, DivNat
  <2>4. Pow2[1] = 2
    <3>1. Pow2[0 + 1] = 2 * Pow2[0] BY Pow2Facts
    <3> QED BY <3>1, Pow2Facts
  <2>5. a \div Pow2[1] = (m - 1) \div Pow2[j + 1]
    <3>1. PICK x \in Nat : x = m - 1 BY <1>1
    <3>2. (x \div Pow2[j]) \div Pow2[1] = x \div Pow2[j + 1] BY DivTwice
    <3> QED BY <2>2, <3>1, <3>2
  <2>6. b \div Pow2[1] = (n - 1) \div Pow2[j + 1]
    <3>1. PICK x \in Nat : x = n - 1 BY <1>1
    <3>2. (x \div Pow2[j]) \div Pow2[1] = x \div Pow2[j + 1] BY DivTwice
    <3> QED BY <2>3, <3>1, <3>2
  <2>7. a \div 2 = b \div 2 BY <1>2, <2>1, <2>4, <2>5, <2>6
  <2>8. a # b
    <3>1. j \in 0..(inner0 - 1) BY <2>1
    <3> QED BY <3>1, <1>2, <2>2, <2>3
  <2>9. a <= b
    <3>1. Pow2[j] \in Nat /\ Pow2[j] > 0 BY Pow2Facts
    <3>2. m - 1 <= n - 1 BY <1>1
    <3> QED BY <3>1, <3>2, <1>1, <2>2, <2>3, DivMonotone
  <2>10. a % 2 = 0 BY <2>7, <2>8, <2>9
  <2> QED BY <2>1, <2>2, <2>10
<1> QED BY <1>5, <1>6

\* A bit is zero or one.
LEMMA BitFacts ==
    ASSUME NEW x \in Words, NEW i \in Nat
    PROVE  /\ Bit(x, i) \in 0..1
           /\ i < Width => Bit(x, i) = (x \div Pow2[i]) % 2
<1>1. Shr(x, i) \in Nat /\ (i < Width => Shr(x, i) = x \div Pow2[i]) BY ShrFacts, WidthFacts
<1> QED BY <1>1 DEF Bit

\* The word before a word that is not zero.
LEMMA WordPred ==
    ASSUME NEW m \in Words, m # 0
    PROVE  m \in Nat /\ m > 0 /\ m - 1 \in Words /\ m - 1 \in Nat
<1>1. m \in Nat /\ m < Pow2[Width] /\ Pow2[Width] \in Nat BY WidthFacts, Pow2Facts
<1>2. m > 0 /\ m - 1 \in Nat /\ m - 1 < Pow2[Width] BY <1>1
<1> QED BY <1>1, <1>2, WidthFacts

\* Any path that replays to both roots joins them strictly, whatever sizes are
\* claimed for it and whoever made it (the case 0 < m < n of verify_consistency).
THEOREM ReplayJoins ==
    ASSUME NEW M, NEW m \in Words, NEW n \in Words, 0 < m, m < n,
           NEW H, NEW path \in Seq(H), NEW first_root, NEW second_root,
           ReplaysBothRoots(m, n, path, first_root, second_root)
    PROVE  JoinsStrictly(M, first_root, second_root)
<1> DEFINE inner0 == BitLenXor[m - 1][n - 1]
           border == CountOnes[Shr(m - 1, inner0)]
           shift == TrailingZeros[m]
           inner == inner0 - shift
           full == m = Pow2[shift]
           start == IF full THEN 0 ELSE 1
           seed == IF full THEN first_root ELSE path[1]
           rest == SecondPart(path, start)
           mask == Shr(m - 1, shift)
           low == FirstPart(rest, inner)
           high == SecondPart(rest, inner)
           a == [i \in 1..Len(low) |-> IF Bit(mask, i - 1) = 1 THEN "left" ELSE "none"]
           b == [i \in 1..Len(low) |-> IF Bit(mask, i - 1) = 0 THEN "right" ELSE "left"]
<1>1. /\ inner0 >= shift
      /\ Len(path) = start + inner + border
      /\ first_root = Climb(Climb(seed, low, a), high, AllLeft(high))
      /\ second_root = Climb(Climb(seed, low, b), high, AllLeft(high))
  BY DEF ReplaysBothRoots, ChainInner, ChainInnerRight, ChainBorderRight
<1>2. m - 1 \in Words /\ n - 1 \in Words /\ m \in Nat /\ n \in Nat
  <2>1. m \in Nat /\ n \in Nat /\ n # 0 /\ m # 0 BY WidthFacts
  <2> QED BY <2>1, WordPred
<1>3. inner0 \in Nat /\ inner0 <= Width
  <2>1. inner0 \in 0..Width BY <1>2, BitLenFacts
  <2> QED BY <2>1, WidthFacts
<1>4. shift \in 0..(Width - 1) /\ shift \in Nat
  <2>1. shift \in 0..(Width - 1) BY TrailingZerosFacts
  <2> QED BY <2>1
<1>5. border \in Nat BY <1>2, <1>3, ShrFacts, CountOnesNat
<1>6. inner0 > shift /\ ((m - 1) \div Pow2[inner0 - 1]) % 2 = 0 BY <1>1, LastInnerBit
<1>7. mask \in Words /\ mask = (m - 1) \div Pow2[shift]
  <2>1. shift < Width BY <1>4, WidthFacts
  <2> QED BY <1>2, <1>4, <2>1, ShrFacts
<1>8. Len(low) = inner /\ inner \in Nat /\ inner > 0 /\ Len(high) \in Nat
  <2>1. start \in 0..1 OBVIOUS
  <2>2. PICK k \in Nat : k = inner /\ k > 0 BY <1>1, <1>3, <1>4, <1>6
  <2> HIDE DEF inner, start, border
  <2>3. start \in 0..Len(path) /\ start \in Nat BY <1>1, <1>5, <2>1, <2>2
  <2>4. rest \in Seq(H) /\ Len(rest) = Len(path) - start BY <2>3, Parts
  <2>5. k \in 0..Len(rest) BY <1>1, <1>5, <2>1, <2>2, <2>4
  <2>6. Len(FirstPart(rest, k)) = k /\ Len(SecondPart(rest, k)) = Len(rest) - k BY <2>4, <2>5, Parts
  <2>7. Len(rest) - k \in Nat BY <2>4, <2>5
  <2> QED BY <2>2, <2>6, <2>7
<1>9. ASSUME NEW i \in 1..inner
      PROVE  /\ \/ a[i] = "left" /\ b[i] = "left"
                \/ a[i] = "none" /\ b[i] = "right"
             /\ i = inner => b[i] = "right"
  <2>1. i - 1 \in Nat /\ i - 1 < Width
    <3>1. PICK u \in Nat : u = inner0 /\ u <= Width BY <1>3
    <3>2. PICK v \in Nat : v = shift BY <1>4
    <3>3. inner = u - v BY <3>1, <3>2
    <3> HIDE DEF inner
    <3>4. PICK k \in Nat : k = inner /\ k <= Width BY <1>8, <3>1, <3>2, <3>3, WidthFacts
    <3> QED BY <3>4, WidthFacts
  <2>2. Bit(mask, i - 1) \in 0..1 BY <1>7, <2>1, BitFacts
  <2>3. ASSUME i = inner PROVE Bit(mask, i - 1) = 0
    <3>1. Bit(mask, i - 1) = (mask \div Pow2[i - 1]) % 2 BY <1>7, <2>1, BitFacts
    <3>2. mask \div Pow2[i - 1] = (m - 1) \div Pow2[shift + (i - 1)]
      <4>1. PICK x \in Nat : x = m - 1 BY <1>2, WidthFacts
      <4>2. PICK j \in Nat : j = i - 1 BY <2>1
      <4> HIDE DEF mask, shift
      <4>3. (x \div Pow2[shift]) \div Pow2[j] = x \div Pow2[shift + j] BY <1>4, DivTwice
      <4> QED BY <1>7, <4>1, <4>2, <4>3
    <3>3. shift + (i - 1) = inner0 - 1 BY <2>3, <1>3, <1>4
    <3> QED BY <3>1, <3>2, <3>3, <1>6
  <2>4. i \in 1..Len(low) BY <1>8
  <2> HIDE DEF mask, low, inner
  <2> QED BY <2>2, <2>3, <2>4
<1> HIDE DEF a, b, low, high, inner, seed
<1>10. Joins(M, seed, seed) BY SameJoins
<1>11. JoinsStrictly(M, Climb(seed, low, a), Climb(seed, low, b))
  <2>1. inner \in 1..Len(low) BY <1>8
  <2>2. \E i \in 1..Len(low) : b[i] = "right" BY <1>8, <1>9, <2>1
  <2> QED BY <1>8, <1>9, <1>10, <2>2, ClimbJoins
<1>12. \A i \in 1..Len(high) : AllLeft(high)[i] = "left" BY DEF AllLeft
<1>13. JoinsStrictly(M, first_root, second_root)
  BY <1>1, <1>8, <1>11, <1>12, StrictJoins, ClimbJoins
<1> QED BY <1>13

\* verify_consistency is sound: if it accepts any proof at all between the roots
\* of two logs, of any sizes, under any claimed sizes and with any path, then the
\* old log is a prefix of the new one; equal sizes mean equal logs, and a path
\* from a positive size means that the old log is neither empty nor the new one.
THEOREM ConsistencyMeansPrefix ==
    ASSUME NEW M, NEW old \in Seq(Leaves(M)), NEW new \in Seq(Leaves(M)),
           NEW m \in Words, NEW n \in Words, NEW H, NEW path \in Seq(H),
           VerifyConsistency([first_size |-> m, second_size |-> n, path |-> path], Mth(old), Mth(new))
    PROVE  /\ S!IsPrefix(old, new)
           /\ m = n => old = new
           /\ 0 < m /\ m < n => old # <<>> /\ old # new
<1>1. m \in Nat /\ n \in Nat BY WidthFacts
<1>2. \/ m = n /\ Mth(old) = Mth(new)
      \/ m = 0 /\ m < n /\ Mth(old) = EmptyRoot
      \/ 0 < m /\ m < n /\ ReplaysBothRoots(m, n, path, Mth(old), Mth(new))
  BY DEF VerifyConsistency
<1>3. CASE m = n /\ Mth(old) = Mth(new)
  <2>1. old = new BY <1>3, MthInjective
  <2>2. Joins(M, Mth(old), Mth(old)) BY SameJoins
  <2>3. S!IsPrefix(old, old) BY <2>2 DEF Joins
  <2> QED BY <1>1, <1>3, <2>1, <2>3
<1>4. CASE m = 0 /\ m < n /\ Mth(old) = EmptyRoot
  <2>1. Len(old) = 0 BY <1>4, MthForms
  <2>2. Len(old) <= Len(new) /\ \A i \in 1..Len(old) : old[i] = new[i]
    <3>1. Len(new) \in Nat OBVIOUS
    <3> QED BY <2>1, <3>1
  <2>3. S!IsPrefix(old, new) BY <2>2, PrefixDef
  <2> QED BY <1>1, <1>4, <2>3
<1>5. CASE 0 < m /\ m < n /\ ReplaysBothRoots(m, n, path, Mth(old), Mth(new))
  <2>1. JoinsStrictly(M, Mth(old), Mth(new)) BY <1>5, ReplayJoins
  <2>2. S!IsPrefix(old, new) /\ Len(old) > 0 /\ old # new BY <2>1 DEF JoinsStrictly
  <2>3. old # <<>> BY <2>2
  <2> QED BY <1>1, <1>5, <2>2, <2>3
<1> QED BY <1>2, <1>3, <1>4, <1>5

-----------------------------------------------------------------------------
(* The bits of an index, told along the recursion of the tree: the siblings on    *)
(* the way from leaf m up a tree of n leaves are Height(m, n), and the one number *)
(* j stands on Side(m, n)[j].  Both follow the split of the tree at its largest   *)
(* power of two, for sizes up to half the range of the integers.                  *)

\* Powers are ordered as their exponents.
LEMMA Pow2Order ==
    ASSUME NEW a \in Nat, NEW b \in Nat
    PROVE  /\ a <= b => Pow2[a] <= Pow2[b]
           /\ Pow2[a] < Pow2[b] => a < b
           /\ a > 0 => Pow2[a] % 2 = 0
<1>1. Pow2[a] \in Nat /\ Pow2[b] \in Nat BY Pow2Facts
<1>2. ASSUME a <= b PROVE Pow2[a] <= Pow2[b]
  <2>1. CASE a < b BY <2>1, <1>1, Pow2Monotone
  <2>2. CASE a = b BY <2>2, <1>1
  <2> QED BY <1>2, <2>1, <2>2
<1>3. ASSUME Pow2[a] < Pow2[b], ~(a < b) PROVE FALSE
  <2>1. CASE b < a
    <3>1. 2 * Pow2[b] <= Pow2[a] BY <2>1, Pow2Monotone
    <3> QED BY <3>1, <1>1, <1>3
  <2>2. CASE a = b BY <2>2, <1>1, <1>3
  <2> QED BY <2>1, <2>2, <1>3
<1>4. ASSUME a > 0 PROVE Pow2[a] % 2 = 0
  <2>1. a - 1 \in Nat /\ (a - 1) + 1 = a BY <1>4
  <2>2. Pow2[a] = 2 * Pow2[a - 1] /\ Pow2[a - 1] \in Nat BY <2>1, Pow2Facts
  <2> QED BY <2>2
<1> QED BY <1>2, <1>3, <1>4

\* Quotients of powers.
LEMMA Pow2Quotient ==
    ASSUME NEW p \in Nat, NEW j \in Nat, j <= p
    PROVE  /\ Pow2[p] % Pow2[j] = 0
           /\ (Pow2[p] - 1) \div Pow2[j] = Pow2[p - j] - 1
<1>1. p - j \in Nat /\ j + (p - j) = p OBVIOUS
<1>2. PICK D \in Nat : D = Pow2[j] /\ D > 0 BY Pow2Facts
<1>3. PICK E \in Nat : E = Pow2[p - j] /\ E > 0 BY <1>1, Pow2Facts
<1>4. PICK x \in Nat : x = Pow2[p] /\ x > 0 BY Pow2Facts
<1>5. x = D * E + 0
  <2>1. Pow2[j + (p - j)] = Pow2[j] * Pow2[p - j] BY <1>1, Pow2Add
  <2>2. x = D * E BY <2>1, <1>1, <1>2, <1>3, <1>4
  <2>3. D * E \in Nat BY <1>2, <1>3
  <2>4. (D * E) + 0 = D * E BY <2>3
  <2> QED BY <2>2, <2>4
<1>6. x \div D = E /\ x % D = 0 BY <1>2, <1>3, <1>4, <1>5, DivUnique
<1>7. (x - 1) \div D = E - 1 BY <1>2, <1>4, <1>6, DivBelow
<1> QED BY <1>2, <1>3, <1>4, <1>6, <1>7

\* No ones in zero.
LEMMA CountOnesZero == CountOnes[0] = 0
<1>1. 0 \in Words BY WidthFacts, Pow2Facts
<1>2. ASSUME NEW i \in 0..(Width - 1) PROVE Bit(0, i) # 1
  <2>1. i \in Nat /\ i < Width BY WidthFacts
  <2>2. 0 \div Pow2[i] = 0
    <3>1. 0 < Pow2[i] BY <2>1, Pow2Facts
    <3> QED BY <2>1, <3>1, DivSmall
  <2>3. Bit(0, i) = 0 % 2 BY <1>1, <2>1, <2>2, BitFacts
  <2> QED BY <2>3
<1>3. {i \in 0..(Width - 1) : Bit(0, i) = 1} = {} BY <1>2
<1>4. CountOnes[0] = Cardinality({}) BY <1>1, <1>3 DEF CountOnes
<1> QED BY <1>4, FS_EmptySet

\* A power above all bits of x adds one.
LEMMA CountOnesAdd ==
    ASSUME NEW x \in Nat, NEW q \in Nat, q < Width, x < Pow2[q]
    PROVE  /\ x \in Words /\ x + Pow2[q] \in Words
           /\ CountOnes[x + Pow2[q]] = CountOnes[x] + 1
<1>1. PICK y \in Nat : y = x + Pow2[q] BY Pow2Facts
<1>2. x \in Words /\ y \in Words
  <2>1. Pow2[q] \in Nat /\ Pow2[q + 1] = 2 * Pow2[q] BY Pow2Facts
  <2>2. Pow2[q + 1] <= Pow2[Width] /\ Pow2[Width] \in Nat BY WidthFacts, Pow2Order, Pow2Facts
  <2> QED BY <1>1, <2>1, <2>2, WidthFacts
<1>3. ASSUME NEW i \in 0..(Width - 1)
      PROVE  Bit(y, i) = 1 <=> Bit(x, i) = 1 \/ i = q
  <2>1. i \in Nat /\ i < Width BY WidthFacts
  <2>2. Bit(x, i) = (x \div Pow2[i]) % 2 /\ Bit(y, i) = (y \div Pow2[i]) % 2
    BY <1>2, <2>1, BitFacts
  <2>3. PICK a \in Nat : a = x \div Pow2[i] BY <2>1, DivNat
  <2>4. CASE i < q
    <3>1. y \div Pow2[i] = a + Pow2[q - i] BY <1>1, <2>1, <2>3, <2>4, DivOffset
    <3>2. q - i \in Nat /\ q - i > 0 BY <2>1, <2>4
    <3>3. Pow2[q - i] \in Nat /\ Pow2[q - i] % 2 = 0 BY <3>2, Pow2Facts, Pow2Order
    <3>4. (a + Pow2[q - i]) % 2 = a % 2 BY <3>3
    <3> QED BY <2>2, <2>3, <2>4, <3>1, <3>4
  <2>5. CASE i = q
    <3>1. y \div Pow2[i] = a + Pow2[q - i] BY <1>1, <2>1, <2>3, <2>5, DivOffset
    <3>2. q - i = 0 /\ Pow2[0] = 1 BY <2>5, Pow2Facts
    <3>3. a = 0 BY <2>3, <2>5, DivSmall
    <3>4. y \div Pow2[i] = 1 BY <3>1, <3>2, <3>3
    <3> QED BY <2>2, <2>5, <3>4
  <2>6. CASE i > q
    <3>1. 2 * Pow2[q] <= Pow2[i] /\ Pow2[q] \in Nat /\ Pow2[i] \in Nat
      BY <2>1, <2>6, Pow2Monotone, Pow2Facts
    <3>2. x < Pow2[i] /\ y < Pow2[i] BY <1>1, <3>1
    <3>3. x \div Pow2[i] = 0 /\ y \div Pow2[i] = 0 BY <2>1, <3>2, DivSmall
    <3> QED BY <2>2, <2>6, <3>3
  <2> QED BY <2>1, <2>4, <2>5, <2>6
<1> DEFINE X == {i \in 0..(Width - 1) : Bit(x, i) = 1}
           Y == {i \in 0..(Width - 1) : Bit(y, i) = 1}
<1>4. q \in 0..(Width - 1) BY WidthFacts
<1>5. q \notin X
  <2>1. x \div Pow2[q] = 0 BY DivSmall
  <2>2. Bit(x, q) = 0 % 2 BY <1>2, <2>1, BitFacts
  <2> QED BY <2>2
<1>6. Y = X \cup {q} BY <1>3, <1>4
<1>7. IsFiniteSet(X)
  <2>1. IsFiniteSet(0..(Width - 1)) BY WidthFacts, FS_Interval
  <2> QED BY <2>1, FS_Subset
<1>8. CountOnes[x] = Cardinality(X) /\ CountOnes[y] = Cardinality(Y) BY <1>2 DEF CountOnes
<1> HIDE DEF X, Y
<1>9. Cardinality(X \cup {q}) = Cardinality(X) + 1 BY <1>5, <1>7, FS_AddElement
<1> QED BY <1>1, <1>2, <1>6, <1>8, <1>9

\* The word below a power is all ones.
LEMMA CountOnesFull ==
    ASSUME NEW e \in Nat, e <= Width
    PROVE  CountOnes[Pow2[e] - 1] = e
<1> DEFINE T == {k \in Nat : k <= Width => CountOnes[Pow2[k] - 1] = k}
<1>1. 0 \in T
  <2>1. Pow2[0] - 1 = 0 BY Pow2Facts
  <2> QED BY <2>1, CountOnesZero
<1>2. ASSUME NEW k \in Nat, k \in T PROVE k + 1 \in T
  <2> SUFFICES ASSUME k + 1 <= Width PROVE CountOnes[Pow2[k + 1] - 1] = k + 1 OBVIOUS
  <2>1. Pow2[k] \in Nat /\ Pow2[k] > 0 /\ Pow2[k + 1] = 2 * Pow2[k] BY Pow2Facts
  <2>2. PICK x \in Nat : x = Pow2[k] - 1 /\ x < Pow2[k] BY <2>1
  <2>3. k < Width BY WidthFacts
  <2>4. CountOnes[x + Pow2[k]] = CountOnes[x] + 1 BY <2>2, <2>3, CountOnesAdd
  <2>5. x + Pow2[k] = Pow2[k + 1] - 1 BY <2>1, <2>2
  <2>6. CountOnes[Pow2[k] - 1] = k
    <3>1. k <= Width => CountOnes[Pow2[k] - 1] = k BY <1>2
    <3>2. k <= Width BY <2>3, WidthFacts
    <3> QED BY <3>1, <3>2
  <2>7. CountOnes[x] = k BY <2>2, <2>6
  <2> QED BY <2>4, <2>5, <2>7
<1> HIDE DEF T
<1>3. \A k \in Nat : k \in T BY <1>1, <1>2, Induction
<1> QED BY <1>3 DEF T

\* Half the range of the integers: up to this size no shift of a verifier wraps.
Half == Pow2[Width - 1]

\* The siblings up to the level where the path of m joins the right border of the
\* tree; above it, one sibling on the left for each one bit that is left of m.
Inner(m, n) == BitLenXor[m][n - 1]

\* The length of the path of leaf m in a tree of n leaves.
Height(m, n) == Inner(m, n) + CountOnes[m \div Pow2[Inner(m, n)]]

\* On which side of the accumulator sibling j of that path is hashed in.
Side(m, n) ==
    [j \in Nat |-> IF j <= Inner(m, n) /\ (m \div Pow2[j - 1]) % 2 = 0 THEN "right" ELSE "left"]

\* Below half the range the verifiers' arithmetic is exact.
LEMMA HalfFacts ==
    ASSUME NEW m \in Nat, NEW n \in Nat, m < n, n <= Half
    PROVE  /\ m \in Words /\ n - 1 \in Words /\ n \in Words /\ n - 1 \in Nat
           /\ Inner(m, n) \in Nat /\ Inner(m, n) < Width
           /\ m \div Pow2[Inner(m, n)] = (n - 1) \div Pow2[Inner(m, n)]
           /\ \A j \in 0..(Inner(m, n) - 1) : m \div Pow2[j] # (n - 1) \div Pow2[j]
           /\ CountOnes[m \div Pow2[Inner(m, n)]] \in Nat
           /\ Height(m, n) \in Nat
<1>1. Width - 1 \in Nat /\ Half \in Nat /\ Half > 0 /\ Pow2[Width] = 2 * Half
  BY WidthFacts, Pow2Facts DEF Half
<1>2. m \in Words /\ n - 1 \in Words /\ n \in Words /\ n - 1 \in Nat BY <1>1, WidthFacts
<1>3. PICK e \in Nat : e = Inner(m, n) /\ e <= Width
  <2>1. Inner(m, n) \in 0..Width BY <1>2, BitLenFacts DEF Inner
  <2> QED BY <2>1, WidthFacts
<1>4. /\ m \div Pow2[e] = (n - 1) \div Pow2[e]
      /\ \A j \in 0..(e - 1) : m \div Pow2[j] # (n - 1) \div Pow2[j]
  BY <1>2, <1>3, BitLenFacts DEF Inner
<1>5. e < Width
  <2>1. SUFFICES ASSUME e = Width PROVE FALSE BY <1>3, WidthFacts
  <2>2. Width - 1 \in 0..(e - 1) BY <2>1, WidthFacts
  <2>3. m \div Pow2[Width - 1] = 0 BY <1>1, DivSmall DEF Half
  <2>4. n - 1 < Pow2[Width - 1] BY <1>1 DEF Half
  <2>5. (n - 1) \div Pow2[Width - 1] = 0 BY <1>1, <1>2, <2>4, DivSmall
  <2> QED BY <1>4, <2>2, <2>3, <2>5
<1>6. m \div Pow2[e] \in Words
  <2>1. Shr(m, e) \in Words /\ Shr(m, e) = m \div Pow2[e] BY <1>2, <1>5, ShrFacts
  <2> QED BY <2>1
<1>7. CountOnes[m \div Pow2[e]] \in Nat BY <1>6, CountOnesNat
<1> QED BY <1>2, <1>3, <1>4, <1>5, <1>7 DEF Height

\* The border is no higher than the tree.
LEMMA InnerAtMost ==
    ASSUME NEW m \in Nat, NEW n \in Nat, m < n, n <= Half, NEW p \in Nat, n <= Pow2[p]
    PROVE  Inner(m, n) <= p
<1>1. PICK e \in Nat : e = Inner(m, n) BY HalfFacts
<1>2. SUFFICES ASSUME e > p PROVE FALSE BY <1>1
<1>3. p \in 0..(e - 1) BY <1>2
<1>4. Pow2[p] \in Nat /\ n - 1 \in Nat BY Pow2Facts, HalfFacts
<1>5. m < Pow2[p] /\ n - 1 < Pow2[p] BY <1>4
<1>6. m \div Pow2[p] = 0 /\ (n - 1) \div Pow2[p] = 0 BY <1>4, <1>5, DivSmall
<1>7. \A j \in 0..(e - 1) : m \div Pow2[j] # (n - 1) \div Pow2[j] BY <1>1, HalfFacts
<1> QED BY <1>3, <1>6, <1>7

\* In a complete tree the bits of the index say it all.
LEMMA PerfectSides ==
    ASSUME NEW m \in Nat, NEW p \in Nat, m < Pow2[p], Pow2[p] <= Half
    PROVE  /\ Height(m, Pow2[p]) = p
           /\ \A j \in 1..p : Side(m, Pow2[p])[j] =
                 IF (m \div Pow2[j - 1]) % 2 = 0 THEN "right" ELSE "left"
<1>1. PICK N \in Nat : N = Pow2[p] /\ N > 0 BY Pow2Facts
<1>2. PICK e \in Nat : e = Inner(m, N) /\ e <= p
  <2>1. Inner(m, N) \in Nat BY <1>1, HalfFacts
  <2>2. Inner(m, N) <= p BY <1>1, InnerAtMost
  <2> QED BY <2>1, <2>2
<1>3. e < Width /\ m \div Pow2[e] = (N - 1) \div Pow2[e] /\ N - 1 \in Nat
  BY <1>1, <1>2, HalfFacts
<1>4. Height(m, N) = p
  <2>1. (N - 1) \div Pow2[e] = Pow2[p - e] - 1 BY <1>1, <1>2, Pow2Quotient
  <2>2. p - e \in Nat /\ p - e <= Width
    <3>1. ~(Pow2[Width - 1] < Pow2[p]) \/ p = Width
      <4>1. Half \in Nat BY WidthFacts, Pow2Facts DEF Half
      <4> QED BY <1>1, <4>1 DEF Half
    <3>2. p <= Width
      <4>1. CASE p > Width - 1
        <5>1. 2 * Pow2[Width - 1] <= Pow2[p] BY <4>1, WidthFacts, Pow2Monotone
        <5>2. Pow2[Width - 1] \in Nat /\ Pow2[Width - 1] > 0 BY WidthFacts, Pow2Facts
        <5> QED BY <5>1, <5>2, <3>1, <1>1
      <4> QED BY <4>1, WidthFacts
    <3> QED BY <3>2, <1>2, WidthFacts
  <2>3. CountOnes[Pow2[p - e] - 1] = p - e BY <2>2, CountOnesFull
  <2>4. Height(m, N) = e + (p - e) BY <1>2, <1>3, <2>1, <2>3 DEF Height
  <2> QED BY <2>4
<1>5. ASSUME NEW j \in 1..p
      PROVE  Side(m, N)[j] = IF (m \div Pow2[j - 1]) % 2 = 0 THEN "right" ELSE "left"
  <2>1. j \in Nat /\ j - 1 \in Nat OBVIOUS
  <2>2. Side(m, N)[j] = IF j <= e /\ (m \div Pow2[j - 1]) % 2 = 0 THEN "right" ELSE "left"
    BY <2>1, <1>2 DEF Side
  <2>3. CASE j <= e BY <2>2, <2>3
  <2>4. CASE j > e
    <3>1. m \div Pow2[j - 1] = (N - 1) \div Pow2[j - 1]
      BY <2>1, <2>4, <1>2, <1>3, DivAgreeAbove
    <3>2. (N - 1) \div Pow2[j - 1] = Pow2[p - (j - 1)] - 1 BY <1>1, <2>1, Pow2Quotient
    <3>3. PICK q \in Nat : q = p - (j - 1) /\ q > 0
      <4>1. p - (j - 1) \in Nat /\ p - (j - 1) > 0 BY <2>1
      <4> QED BY <4>1
    <3>4. PICK E \in Nat : E = Pow2[p - (j - 1)] /\ E > 0 /\ E % 2 = 0
      <4>1. Pow2[q] \in Nat /\ Pow2[q] > q BY Pow2Facts
      <4>2. Pow2[q] % 2 = 0 BY <3>3, Pow2Order
      <4> QED BY <3>3, <4>1, <4>2
    <3>5. (E - 1) % 2 # 0 BY <3>4
    <3>6. (m \div Pow2[j - 1]) % 2 # 0 BY <3>1, <3>2, <3>4, <3>5
    <3> QED BY <2>2, <2>4, <3>6, <1>2
  <2> QED BY <2>1, <2>3, <2>4, <1>2
<1> QED BY <1>1, <1>4, <1>5

\* A leaf of the first part goes up that part's complete tree, then once more.
LEMMA FirstHalf ==
    ASSUME NEW m \in Nat, NEW n \in Nat, NEW p \in Nat, n <= Half,
           Pow2[p] < n, n <= 2 * Pow2[p], m < Pow2[p]
    PROVE  /\ Height(m, Pow2[p]) = p
           /\ Height(m, n) = p + 1
           /\ \A j \in 1..p : Side(m, n)[j] = Side(m, Pow2[p])[j]
           /\ Side(m, n)[p + 1] = "right"
<1>1. PICK k \in Nat : k = Pow2[p] /\ k > 0 /\ Pow2[p + 1] = 2 * k BY Pow2Facts
<1>2. Half \in Nat /\ m < n /\ k <= Half
  <2>1. Half \in Nat BY WidthFacts, Pow2Facts DEF Half
  <2> QED BY <1>1, <2>1
<1>3. m \in Words /\ n - 1 \in Words /\ n - 1 \in Nat BY <1>2, HalfFacts
<1>4. m \div Pow2[p] = 0 /\ m \div Pow2[p + 1] = 0
  <2>1. m < Pow2[p + 1] BY <1>1
  <2> QED BY <2>1, DivSmall
<1>5. (n - 1) \div Pow2[p + 1] = 0 /\ (n - 1) \div Pow2[p] # 0
  <2>1. n - 1 < Pow2[p + 1] /\ ~(n - 1 < Pow2[p]) BY <1>1, <1>3
  <2> QED BY <1>3, <2>1, DivSmall
<1>6. Inner(m, n) = p + 1
  <2>1. (p + 1) - 1 = p /\ p + 1 \in Nat OBVIOUS
  <2> QED BY <1>3, <1>4, <1>5, <2>1, BitLenUnique DEF Inner
<1>7. Height(m, n) = p + 1
  <2>1. Height(m, n) = (p + 1) + 0 BY <1>4, <1>6, CountOnesZero DEF Height
  <2> QED BY <2>1
<1>8. /\ Height(m, k) = p
      /\ \A j \in 1..p : Side(m, k)[j] = IF (m \div Pow2[j - 1]) % 2 = 0 THEN "right" ELSE "left"
  BY <1>1, <1>2, PerfectSides
<1>9. \A j \in 1..(p + 1) :
          Side(m, n)[j] = IF (m \div Pow2[j - 1]) % 2 = 0 THEN "right" ELSE "left"
  BY <1>6 DEF Side
<1>10. Side(m, n)[p + 1] = "right"
  <2>1. (p + 1) - 1 = p /\ p + 1 \in 1..(p + 1) /\ 0 % 2 = 0 OBVIOUS
  <2> QED BY <1>4, <1>9, <2>1
<1>11. \A j \in 1..p : j \in 1..(p + 1) OBVIOUS
<1> QED BY <1>1, <1>7, <1>8, <1>9, <1>10, <1>11

\* A leaf of the second part goes up that part, then the first part comes left.
LEMMA SecondHalf ==
    ASSUME NEW m \in Nat, NEW n \in Nat, NEW p \in Nat, n <= Half,
           Pow2[p] < n, n <= 2 * Pow2[p], Pow2[p] <= m, m < n
    PROVE  LET m1 == m - Pow2[p]
               n1 == n - Pow2[p]
           IN  /\ Height(m, n) = Height(m1, n1) + 1
               /\ \A j \in 1..Height(m1, n1) : Side(m, n)[j] = Side(m1, n1)[j]
               /\ Side(m, n)[Height(m1, n1) + 1] = "left"
<1>1. PICK k \in Nat : k = Pow2[p] /\ k > 0 BY Pow2Facts
<1> DEFINE m1 == m - k
           n1 == n - k
<1>2. /\ m1 \in Nat /\ n1 \in Nat /\ n1 - 1 \in Nat /\ m1 < n1
      /\ n1 <= k /\ m1 < k /\ n1 - 1 < k
      /\ m = m1 + k /\ n - 1 = (n1 - 1) + k
  BY <1>1
<1> HIDE DEF m1, n1
<1>3. Half \in Nat BY WidthFacts, Pow2Facts DEF Half
<1>4. n1 <= Half BY <1>1, <1>2, <1>3
<1>5. PICK e \in Nat : e = Inner(m1, n1) /\ e <= p /\ e < Width
  <2>1. Inner(m1, n1) \in Nat /\ Inner(m1, n1) < Width BY <1>2, <1>4, HalfFacts
  <2>2. Inner(m1, n1) <= p BY <1>1, <1>2, <1>4, InnerAtMost
  <2> QED BY <2>1, <2>2
<1>6. /\ m1 \div Pow2[e] = (n1 - 1) \div Pow2[e]
      /\ \A j \in 0..(e - 1) : m1 \div Pow2[j] # (n1 - 1) \div Pow2[j]
  BY <1>2, <1>4, <1>5, HalfFacts
<1>7. ASSUME NEW j \in 0..p
      PROVE  /\ m \div Pow2[j] = (m1 \div Pow2[j]) + Pow2[p - j]
             /\ (n - 1) \div Pow2[j] = ((n1 - 1) \div Pow2[j]) + Pow2[p - j]
  <2>1. j \in Nat /\ j <= p OBVIOUS
  <2>2. (m1 + Pow2[p]) \div Pow2[j] = (m1 \div Pow2[j]) + Pow2[p - j]
    BY <1>2, <2>1, DivOffset
  <2>3. ((n1 - 1) + Pow2[p]) \div Pow2[j] = ((n1 - 1) \div Pow2[j]) + Pow2[p - j]
    BY <1>2, <2>1, DivOffset
  <2> QED BY <1>1, <1>2, <2>2, <2>3
<1>8. ASSUME NEW j \in 0..p
      PROVE  m1 \div Pow2[j] \in Nat /\ (n1 - 1) \div Pow2[j] \in Nat /\ Pow2[p - j] \in Nat
  <2>1. j \in Nat /\ p - j \in Nat OBVIOUS
  <2> QED BY <1>2, <2>1, DivNat, Pow2Facts
<1>9. Inner(m, n) = e
  <2>1. m \in Words /\ n - 1 \in Words BY HalfFacts
  <2>2. m \div Pow2[e] = (n - 1) \div Pow2[e] BY <1>5, <1>6, <1>7
  <2>3. e = 0 \/ m \div Pow2[e - 1] # (n - 1) \div Pow2[e - 1]
    <3>1. SUFFICES ASSUME e > 0 PROVE m \div Pow2[e - 1] # (n - 1) \div Pow2[e - 1] OBVIOUS
    <3>2. e - 1 \in 0..(e - 1) /\ e - 1 \in 0..p BY <1>5, <3>1
    <3>3. PICK a \in Nat : a = m1 \div Pow2[e - 1] BY <3>2, <1>8
    <3>4. PICK b \in Nat : b = (n1 - 1) \div Pow2[e - 1] BY <3>2, <1>8
    <3>5. PICK c \in Nat : c = Pow2[p - (e - 1)] BY <3>2, <1>8
    <3>6. a # b BY <3>2, <3>3, <3>4, <1>6
    <3>7. m \div Pow2[e - 1] = a + c /\ (n - 1) \div Pow2[e - 1] = b + c
      BY <3>2, <3>3, <3>4, <3>5, <1>7
    <3> QED BY <3>6, <3>7
  <2>4. PICK w \in Words : w = n - 1 BY <2>1
  <2>5. m \div Pow2[e] = w \div Pow2[e] /\ (e = 0 \/ m \div Pow2[e - 1] # w \div Pow2[e - 1])
    BY <2>2, <2>3, <2>4
  <2>6. BitLenXor[m][w] = e BY <2>1, <2>5, BitLenUnique
  <2> QED BY <2>4, <2>6 DEF Inner
<1>10. PICK x \in Nat : x = m1 \div Pow2[e] BY <1>2, DivNat
<1>11. CountOnes[m \div Pow2[e]] = CountOnes[x] + 1
  <2>1. p - e \in Nat /\ e + (p - e) = p /\ e \in 0..p BY <1>5
  <2>2. m \div Pow2[e] = x + Pow2[p - e] BY <1>7, <1>10, <2>1
  <2>3. x \div Pow2[p - e] = m1 \div Pow2[p] BY <1>2, <1>10, <2>1, DivTwice
  <2>4. m1 \div Pow2[p] = 0 BY <1>1, <1>2, DivSmall
  <2>5. x < Pow2[p - e] BY <2>1, <2>3, <2>4, DivSmall
  <2>6. p - e < Width
    <3>1. k < Half BY <1>1, <1>3
    <3>2. p < Width - 1 BY <1>1, <3>1, WidthFacts, Pow2Order DEF Half
    <3> QED BY <1>5, <3>2, WidthFacts
  <2> QED BY <2>1, <2>2, <2>5, <2>6, CountOnesAdd
<1>12. PICK h \in Nat : h = Height(m1, n1) BY <1>2, <1>4, HalfFacts
<1>13. h = e + CountOnes[x] /\ CountOnes[x] \in Nat
  BY <1>2, <1>4, <1>5, <1>10, <1>12, HalfFacts DEF Height
<1>14. Height(m, n) = h + 1
  <2>1. Height(m, n) = e + (CountOnes[x] + 1) BY <1>9, <1>11 DEF Height
  <2> QED BY <1>13, <2>1
<1>15. ASSUME NEW j \in 1..h PROVE Side(m, n)[j] = Side(m1, n1)[j]
  <2>1. j \in Nat /\ j - 1 \in Nat OBVIOUS
  <2>2. Side(m, n)[j] = IF j <= e /\ (m \div Pow2[j - 1]) % 2 = 0 THEN "right" ELSE "left"
    BY <1>9, <2>1 DEF Side
  <2>3. Side(m1, n1)[j] = IF j <= e /\ (m1 \div Pow2[j - 1]) % 2 = 0 THEN "right" ELSE "left"
    BY <1>5, <2>1 DEF Side
  <2>4. ASSUME j <= e PROVE (m \div Pow2[j - 1]) % 2 = (m1 \div Pow2[j - 1]) % 2
    <3>1. j - 1 \in 0..p /\ p - (j - 1) \in Nat /\ p - (j - 1) > 0 BY <2>1, <2>4, <1>5
    <3>2. PICK E \in Nat : E = Pow2[p - (j - 1)] /\ E % 2 = 0 BY <3>1, Pow2Facts, Pow2Order
    <3>3. PICK a \in Nat : a = m1 \div Pow2[j - 1] BY <3>1, <1>8
    <3>4. m \div Pow2[j - 1] = a + E BY <3>1, <3>2, <3>3, <1>7
    <3>5. (a + E) % 2 = a % 2 BY <3>2, <3>3
    <3> QED BY <3>3, <3>4, <3>5
  <2> QED BY <2>2, <2>3, <2>4
<1>16. Side(m, n)[h + 1] = "left"
  <2>1. h + 1 \in Nat /\ ~(h + 1 <= e) BY <1>13
  <2> QED BY <1>9, <2>1 DEF Side
<1>17. m1 = m - Pow2[p] /\ n1 = n - Pow2[p] BY <1>1 DEF m1, n1
<1> QED BY <1>12, <1>14, <1>15, <1>16, <1>17

-----------------------------------------------------------------------------
(* Replaying an audit path, and the soundness of verify_inclusion. *)

\* One step of the climb.
LEMMA AccSteps ==
    ASSUME NEW seed, NEW P, NEW s
    PROVE  /\ Acc(seed, P, s)[0] = seed
           /\ \A n \in Nat :
                 /\ s[n + 1] = "left" =>
                        Acc(seed, P, s)[n + 1] = NodeHash(P[n + 1], Acc(seed, P, s)[n])
                 /\ s[n + 1] = "right" =>
                        Acc(seed, P, s)[n + 1] = NodeHash(Acc(seed, P, s)[n], P[n + 1])
                 /\ s[n + 1] # "left" /\ s[n + 1] # "right" =>
                        Acc(seed, P, s)[n + 1] = Acc(seed, P, s)[n]
<1>1. \A n \in Nat : Acc(seed, P, s)[n] = ClimbStep(seed, P, s, Acc(seed, P, s), n) BY ClimbDef
<1>2. ASSUME NEW n \in Nat
      PROVE  Acc(seed, P, s)[n + 1] =
                 IF s[n + 1] = "left" THEN NodeHash(P[n + 1], Acc(seed, P, s)[n])
                 ELSE IF s[n + 1] = "right" THEN NodeHash(Acc(seed, P, s)[n], P[n + 1])
                 ELSE Acc(seed, P, s)[n]
  <2>1. n + 1 \in Nat /\ n + 1 # 0 /\ (n + 1) - 1 = n OBVIOUS
  <2> QED BY <1>1, <2>1 DEF ClimbStep
<1>3. Acc(seed, P, s)[0] = seed BY <1>1 DEF ClimbStep
<1>4. "left" # "right" OBVIOUS
<1> QED BY <1>2, <1>3, <1>4

\* s and t name the same sides up to h.
Agree(h, s, t) == \A j \in 1..h : s[j] = t[j]

\* P and Q hold the same hashes as well.
Alike(h, P, s, Q, t) == \A j \in 1..h : P[j] = Q[j] /\ s[j] = t[j]

\* P with s is what comes after the first k of Q with t.
Follows(k, h, P, s, Q, t) == \A j \in 1..h : P[j] = Q[k + j] /\ s[j] = t[k + j]

\* Alike climbs reach the same hash.
LEMMA AccSame ==
    ASSUME NEW seed, NEW P, NEW Q, NEW s, NEW t, NEW h \in Nat, Alike(h, P, s, Q, t)
    PROVE  Acc(seed, P, s)[h] = Acc(seed, Q, t)[h]
<1> DEFINE X == Acc(seed, P, s)
           Y == Acc(seed, Q, t)
           T == {n \in Nat : n <= h => X[n] = Y[n]}
<1>1. 0 \in T BY AccSteps
<1>2. ASSUME NEW n \in Nat, n \in T PROVE n + 1 \in T
  <2> SUFFICES ASSUME n + 1 <= h PROVE X[n + 1] = Y[n + 1] OBVIOUS
  <2>1. X[n] = Y[n] BY <1>2
  <2>2. n + 1 \in 1..h OBVIOUS
  <2>3. P[n + 1] = Q[n + 1] /\ s[n + 1] = t[n + 1] BY <2>2 DEF Alike
  <2>4. CASE s[n + 1] = "left"
    <3>1. X[n + 1] = NodeHash(P[n + 1], X[n]) BY <2>4, AccSteps
    <3>2. Y[n + 1] = NodeHash(Q[n + 1], Y[n])
      <4>1. t[n + 1] = "left" BY <2>3, <2>4
      <4> QED BY <4>1, AccSteps
    <3> QED BY <2>1, <2>3, <3>1, <3>2
  <2>5. CASE s[n + 1] = "right"
    <3>1. X[n + 1] = NodeHash(X[n], P[n + 1]) BY <2>5, AccSteps
    <3>2. Y[n + 1] = NodeHash(Y[n], Q[n + 1])
      <4>1. t[n + 1] = "right" BY <2>3, <2>5
      <4> QED BY <4>1, AccSteps
    <3> QED BY <2>1, <2>3, <3>1, <3>2
  <2>6. CASE s[n + 1] # "left" /\ s[n + 1] # "right"
    <3>1. X[n + 1] = X[n] BY <2>6, AccSteps
    <3>2. Y[n + 1] = Y[n] BY <2>3, <2>6, AccSteps
    <3> QED BY <2>1, <3>1, <3>2
  <2> QED BY <2>4, <2>5, <2>6
<1> HIDE DEF T
<1>3. \A n \in Nat : n \in T BY <1>1, <1>2, Induction
<1> QED BY <1>3 DEF T

\* A climb may be cut in two.
LEMMA AccOn ==
    ASSUME NEW k \in Nat, NEW q \in Nat, NEW seed, NEW P, NEW u, NEW B, NEW t,
           Follows(k, q, B, t, P, u)
    PROVE  Acc(Acc(seed, P, u)[k], B, t)[q] = Acc(seed, P, u)[k + q]
<1> DEFINE X == Acc(Acc(seed, P, u)[k], B, t)
           Y == Acc(seed, P, u)
           T == {n \in Nat : n <= q => X[n] = Y[k + n]}
<1>1. 0 \in T
  <2>1. k + 0 = k OBVIOUS
  <2>2. X[0] = Y[k] BY AccSteps
  <2> QED BY <2>1, <2>2
<1>2. ASSUME NEW n \in Nat, n \in T PROVE n + 1 \in T
  <2> SUFFICES ASSUME n + 1 <= q PROVE X[n + 1] = Y[k + (n + 1)] OBVIOUS
  <2>1. X[n] = Y[k + n] BY <1>2
  <2>2. PICK i \in Nat : i = k + n /\ k + (n + 1) = i + 1 OBVIOUS
  <2>3. B[n + 1] = P[i + 1] /\ t[n + 1] = u[i + 1]
    <3>1. n + 1 \in 1..q OBVIOUS
    <3>2. B[n + 1] = P[k + (n + 1)] /\ t[n + 1] = u[k + (n + 1)] BY <3>1 DEF Follows
    <3> QED BY <2>2, <3>2
  <2>4. CASE t[n + 1] = "left"
    <3>1. X[n + 1] = NodeHash(B[n + 1], X[n]) BY <2>4, AccSteps
    <3>2. Y[i + 1] = NodeHash(P[i + 1], Y[i])
      <4>1. u[i + 1] = "left" BY <2>3, <2>4
      <4> QED BY <4>1, AccSteps
    <3> QED BY <2>1, <2>2, <2>3, <3>1, <3>2
  <2>5. CASE t[n + 1] = "right"
    <3>1. X[n + 1] = NodeHash(X[n], B[n + 1]) BY <2>5, AccSteps
    <3>2. Y[i + 1] = NodeHash(Y[i], P[i + 1])
      <4>1. u[i + 1] = "right" BY <2>3, <2>5
      <4> QED BY <4>1, AccSteps
    <3> QED BY <2>1, <2>2, <2>3, <3>1, <3>2
  <2>6. CASE t[n + 1] # "left" /\ t[n + 1] # "right"
    <3>1. X[n + 1] = X[n] BY <2>6, AccSteps
    <3>2. Y[i + 1] = Y[i] BY <2>3, <2>6, AccSteps
    <3> QED BY <2>1, <2>2, <3>1, <3>2
  <2> QED BY <2>4, <2>5, <2>6
<1> HIDE DEF T
<1>3. \A n \in Nat : n \in T BY <1>1, <1>2, Induction
<1> QED BY <1>3 DEF T

\* The verifiers' two calls, inner and border, are one climb.
LEMMA ClimbOn ==
    ASSUME NEW k \in Nat, NEW q \in Nat, NEW seed, NEW P, NEW u, NEW A, NEW s, NEW B, NEW t,
           Len(A) = k, Alike(k, A, s, P, u), Len(B) = q, Follows(k, q, B, t, P, u)
    PROVE  Climb(Climb(seed, A, s), B, t) = Acc(seed, P, u)[k + q]
<1>1. Climb(seed, A, s) = Acc(seed, P, u)[k]
  <2>1. Climb(seed, A, s) = Acc(seed, A, s)[k] BY ClimbDef
  <2>2. Acc(seed, A, s)[k] = Acc(seed, P, u)[k] BY AccSame
  <2> QED BY <2>1, <2>2
<1>2. Climb(Acc(seed, P, u)[k], B, t) = Acc(Acc(seed, P, u)[k], B, t)[q] BY ClimbDef
<1> QED BY <1>1, <1>2, AccOn

\* What climbs from a leaf hash to a root climbs from a leaf of the tree.
LEMMA MembershipClimb ==
    ASSUME NEW M, NEW x, NEW P, NEW side, NEW h \in Nat, NEW d \in Seq(Leaves(M)),
           Acc(LeafHash(x), P, side)[h] = Mth(d)
    PROVE  S!Contains(d, LeafHash(x))
<1> DEFINE X == Acc(LeafHash(x), P, side)
           In(e) == \E j \in 1..Len(e) : e[j] = LeafHash(x)
           T == {n \in Nat : \A e \in Seq(Leaves(M)) : X[n] = Mth(e) => In(e)}
<1>1. 0 \in T
  <2> SUFFICES ASSUME NEW e \in Seq(Leaves(M)), X[0] = Mth(e) PROVE In(e) OBVIOUS
  <2>1. Mth(e) = LeafHash(x) BY AccSteps
  <2>2. e = <<LeafHash(x)>> BY <2>1, MthForms
  <2>3. Len(e) = 1 /\ e[1] = LeafHash(x) BY <2>2
  <2> QED BY <2>3
<1>2. ASSUME NEW n \in Nat, n \in T PROVE n + 1 \in T
  <2> SUFFICES ASSUME NEW e \in Seq(Leaves(M)), X[n + 1] = Mth(e) PROVE In(e) OBVIOUS
  <2>1. CASE side[n + 1] # "left" /\ side[n + 1] # "right"
    <3>1. X[n + 1] = X[n] BY <2>1, AccSteps
    <3> QED BY <1>2, <3>1
  <2>2. CASE side[n + 1] = "left" \/ side[n + 1] = "right"
    <3> DEFINE e1 == FirstPart(e, Split(Len(e)))
               e2 == SecondPart(e, Split(Len(e)))
    <3>1. X[n + 1] = NodeHash(P[n + 1], X[n]) \/ X[n + 1] = NodeHash(X[n], P[n + 1])
      BY <2>2, AccSteps
    <3>2. PICK a, b : Mth(e) = NodeHash(a, b) /\ (a = X[n] \/ b = X[n]) BY <3>1
    <3>3. Len(e) >= 2 /\ Mth(e1) = a /\ Mth(e2) = b BY <3>2, MthForms
    <3>4. /\ e1 \in Seq(Leaves(M)) /\ e2 \in Seq(Leaves(M)) /\ e = e1 \o e2
      BY <3>3, MthSplit
    <3> HIDE DEF e1, e2
    <3>5. In(e1) \/ In(e2)
      <4>1. \A f \in Seq(Leaves(M)) : X[n] = Mth(f) => In(f) BY <1>2
      <4> QED BY <3>2, <3>3, <3>4, <4>1
    <3>6. CASE In(e1)
      <4>1. PICK j \in 1..Len(e1) : e1[j] = LeafHash(x) BY <3>6
      <4>2. j \in 1..Len(e) /\ e[j] = e1[j] BY <3>4, <4>1
      <4> QED BY <4>1, <4>2
    <3>7. CASE In(e2)
      <4>1. PICK j \in 1..Len(e2) : e2[j] = LeafHash(x) BY <3>7
      <4>2. Len(e1) + j \in 1..Len(e) /\ e[Len(e1) + j] = e2[j] BY <3>4, <4>1
      <4> QED BY <4>1, <4>2
    <3> QED BY <3>5, <3>6, <3>7
  <2> QED BY <2>1, <2>2
<1> HIDE DEF T
<1>3. \A n \in Nat : n \in T BY <1>1, <1>2, Induction
<1> QED BY <1>3 DEF T, S!Contains

\* What climbs on the sides of index m comes from the leaf at index m.
LEMMA IndexClimb ==
    ASSUME NEW M, NEW x, NEW P
    PROVE  \A d \in Seq(Leaves(M)) : \A m \in 0..(Len(d) - 1) :
               Len(d) <= Half /\ Acc(LeafHash(x), P, Side(m, Len(d)))[Height(m, Len(d))] = Mth(d)
                   => d[m + 1] = LeafHash(x)
<1> DEFINE X(m, n) == Acc(LeafHash(x), P, Side(m, n))
           At(d, m, n) == Len(d) = n /\ n <= Half /\ X(m, n)[Height(m, n)] = Mth(d)
           T == {n \in Nat : \A d \in Seq(Leaves(M)) : \A m \in 0..(n - 1) :
                                 At(d, m, n) => d[m + 1] = LeafHash(x)}
<1>1. ASSUME NEW n \in Nat, \A k \in 0..(n - 1) : k \in T PROVE n \in T
  <2> SUFFICES ASSUME NEW d \in Seq(Leaves(M)), NEW m \in 0..(n - 1), At(d, m, n)
               PROVE  d[m + 1] = LeafHash(x)
    OBVIOUS
  <2> HIDE DEF T
  <2>1. CASE n = 1
    <3>1. m = 0 BY <2>1
    <3>2. Height(0, 1) = 0
      <4>1. Pow2[0] = 1 /\ 0 \in Nat BY Pow2Facts
      <4>2. 1 <= Half
        <5>1. Half \in Nat /\ Half > Width - 1 BY WidthFacts, Pow2Facts DEF Half
        <5> QED BY <5>1, WidthFacts
      <4>3. 0 < Pow2[0] /\ Pow2[0] <= Half BY <4>1, <4>2
      <4>4. Height(0, Pow2[0]) = 0 BY <4>1, <4>3, PerfectSides
      <4> QED BY <4>1, <4>4
    <3>3. X(m, n)[0] = LeafHash(x) BY AccSteps
    <3>4. Mth(d) = d[1] BY <2>1, MthFacts
    <3> QED BY <2>1, <3>1, <3>2, <3>3, <3>4
  <2>2. CASE n >= 2
    <3>1. PICK p \in Nat : Split(n) = Pow2[p] /\ Pow2[p] < n /\ n <= 2 * Pow2[p]
      BY <2>2, SplitIsPow2
    <3>2. PICK k \in Nat : k = Pow2[p] /\ k > 0
      <4>1. Pow2[p] \in Nat /\ Pow2[p] > p BY <3>1, Pow2Facts
      <4> QED BY <3>1, <4>1
    <3> DEFINE d1 == FirstPart(d, k)
               d2 == SecondPart(d, k)
    <3>3. /\ d1 \in Seq(Leaves(M)) /\ Len(d1) = k
          /\ \A j \in 1..k : d1[j] = d[j]
          /\ d2 \in Seq(Leaves(M)) /\ Len(d2) = n - k
          /\ \A j \in 1..(n - k) : d2[j] = d[k + j]
      <4>1. k \in 0..Len(d) BY <3>1, <3>2
      <4> QED BY <4>1, Parts
    <3>4. Mth(d) = NodeHash(Mth(d1), Mth(d2)) BY <2>2, <3>1, <3>2, MthFacts
    <3>5. m \in Nat /\ m < n /\ n <= Half OBVIOUS
    <3>6. Half \in Nat BY WidthFacts, Pow2Facts DEF Half
    <3> HIDE DEF d1, d2
    <3>7. CASE m < k
      <4>1. /\ Height(m, k) = p /\ Height(m, n) = p + 1
            /\ \A j \in 1..p : Side(m, n)[j] = Side(m, k)[j]
            /\ Side(m, n)[p + 1] = "right"
        BY <3>1, <3>2, <3>5, <3>7, FirstHalf
      <4>2. X(m, n)[p + 1] = NodeHash(X(m, n)[p], P[p + 1]) BY <4>1, AccSteps
      <4>3. X(m, n)[p] = Mth(d1)
        <5>1. NodeHash(X(m, n)[p], P[p + 1]) = NodeHash(Mth(d1), Mth(d2)) BY <3>4, <4>1, <4>2
        <5> QED BY <5>1, HashFacts
      <4>4. X(m, n)[p] = X(m, k)[p]
        <5>1. Alike(p, P, Side(m, n), P, Side(m, k)) BY <4>1 DEF Alike
        <5> QED BY <3>1, <5>1, AccSame
      <4>5. k \in T /\ k <= Half /\ m \in 0..(k - 1) BY <1>1, <3>1, <3>2, <3>5, <3>6, <3>7
      <4>6. At(d1, m, k) BY <3>3, <4>1, <4>3, <4>4, <4>5
      <4>7. d1[m + 1] = LeafHash(x) BY <3>3, <4>5, <4>6 DEF T
      <4>8. m + 1 \in 1..k BY <3>2, <3>5, <3>7
      <4> QED BY <3>3, <4>7, <4>8
    <3>8. CASE m >= k
      <4> DEFINE m1 == m - k
                 n1 == n - k
      <4>1. m1 \in Nat /\ n1 \in Nat /\ m1 < n1 /\ n1 <= Half /\ n1 \in 0..(n - 1)
        BY <3>1, <3>2, <3>5, <3>6, <3>8
      <4>2. /\ Height(m, n) = Height(m1, n1) + 1
            /\ \A j \in 1..Height(m1, n1) : Side(m, n)[j] = Side(m1, n1)[j]
            /\ Side(m, n)[Height(m1, n1) + 1] = "left"
        BY <3>1, <3>2, <3>5, <3>8, SecondHalf
      <4>3. PICK h \in Nat : h = Height(m1, n1) BY <4>1, HalfFacts
      <4>4. X(m, n)[h + 1] = NodeHash(P[h + 1], X(m, n)[h]) BY <4>2, <4>3, AccSteps
      <4>5. X(m, n)[h] = Mth(d2)
        <5>1. NodeHash(P[h + 1], X(m, n)[h]) = NodeHash(Mth(d1), Mth(d2)) BY <3>4, <4>2, <4>3, <4>4
        <5> QED BY <5>1, HashFacts
      <4>6. X(m, n)[h] = X(m1, n1)[h]
        <5>1. Alike(h, P, Side(m, n), P, Side(m1, n1)) BY <4>2, <4>3 DEF Alike
        <5> QED BY <4>3, <5>1, AccSame
      <4> HIDE DEF m1, n1
      <4>7. n1 \in T /\ m1 \in 0..(n1 - 1) BY <1>1, <4>1
      <4>8. At(d2, m1, n1) BY <3>3, <4>1, <4>3, <4>5, <4>6 DEF n1
      <4>9. d2[m1 + 1] = LeafHash(x) BY <3>3, <4>7, <4>8 DEF T
      <4>10. m1 + 1 \in 1..(n - k) /\ k + (m1 + 1) = m + 1 BY <3>2, <3>5, <3>8 DEF m1
      <4> QED BY <3>3, <4>9, <4>10
    <3> QED BY <3>2, <3>5, <3>7, <3>8
  <2>3. n = 1 \/ n >= 2 OBVIOUS
  <2> QED BY <2>1, <2>2, <2>3
<1> HIDE DEF T
<1>2. \A n \in Nat : n \in T BY <1>1, StrongInduction
<1>3. \A d \in Seq(Leaves(M)) : Len(d) \in Nat OBVIOUS
<1> QED BY <1>2, <1>3 DEF T

\* The sides that verify_inclusion derives from the claimed index.
IndexSide(inner, index) ==
    [j \in Nat |-> IF j <= inner /\ Bit(index, j - 1) = 0 THEN "right" ELSE "left"]

\* verify_inclusion, for a claimed index and size.
Accepts(leaf, path, root, index, size) ==
    VerifyInclusion(leaf, [leaf_index |-> index, tree_size |-> size, audit_path |-> path], root)

\* The part of it that replays the path.
Rebuilds(leaf, path, root, index, inner, border) ==
    /\ Len(path) = inner + border
    /\ root = Acc(LeafHash(leaf), path, IndexSide(inner, index))[Len(path)]

\* verify_inclusion accepts when the index is below the size and the path rebuilds
\* the root in one climb.
LEMMA InclusionReplay ==
    ASSUME NEW H, NEW path \in Seq(H), NEW leaf, NEW root,
           NEW index \in Words, NEW size \in Words,
           NEW inner \in Nat, inner = BitLenXor[index][size - 1],
           NEW border \in Nat, border = CountOnes[Shr(index, inner)]
    PROVE  Accepts(leaf, path, root, index, size)
               <=> index < size /\ Rebuilds(leaf, path, root, index, inner, border)
<1>1. ASSUME NEW k \in Nat, k \in 0..Len(path)
      PROVE  /\ Len(FirstPart(path, k)) = k
             /\ \A j \in 1..k : FirstPart(path, k)[j] = path[j]
             /\ Len(SecondPart(path, k)) = Len(path) - k
             /\ \A j \in 1..(Len(path) - k) : SecondPart(path, k)[j] = path[k + j]
  BY <1>1, Parts
<1> DEFINE A == FirstPart(path, inner)
           B == SecondPart(path, inner)
           s == [i \in 1..Len(A) |-> IF Bit(index, i - 1) = 0 THEN "right" ELSE "left"]
           t == AllLeft(B)
           u == IndexSide(inner, index)
<1>2. Accepts(leaf, path, root, index, size)
          <=> /\ index < size
              /\ Len(path) = inner + border
              /\ root = Climb(Climb(LeafHash(leaf), A, s), B, t)
  BY DEF Accepts, VerifyInclusion, ChainInner, ChainBorderRight
<1>3. ASSUME Len(path) = inner + border
      PROVE  Climb(Climb(LeafHash(leaf), A, s), B, t) = Acc(LeafHash(leaf), path, u)[Len(path)]
  <2>1. inner \in 0..Len(path) BY <1>3
  <2>2. /\ Len(A) = inner /\ \A j \in 1..inner : A[j] = path[j]
        /\ Len(B) = Len(path) - inner /\ \A j \in 1..(Len(path) - inner) : B[j] = path[inner + j]
    BY <2>1, <1>1
  <2>3. Len(path) - inner = border BY <1>3
  <2> HIDE DEF A, B
  <2>4. Alike(inner, A, s, path, u) BY <2>2 DEF Alike, IndexSide
  <2>5. ASSUME NEW j \in 1..border PROVE B[j] = path[inner + j] /\ t[j] = u[inner + j]
    <3>1. t[j] = "left" BY <2>2, <2>3 DEF AllLeft
    <3>2. inner + j \in Nat /\ ~(inner + j <= inner) OBVIOUS
    <3>3. u[inner + j] = "left" BY <3>2 DEF IndexSide
    <3> QED BY <2>2, <2>3, <3>1, <3>3
  <2>6. Follows(inner, border, B, t, path, u) BY <2>5 DEF Follows
  <2> HIDE DEF s, t, u
  <2>7. Climb(Climb(LeafHash(leaf), A, s), B, t) = Acc(LeafHash(leaf), path, u)[inner + border]
    BY <2>2, <2>3, <2>4, <2>6, ClimbOn
  <2> QED BY <1>3, <2>7
<1> QED BY <1>2, <1>3 DEF Rebuilds

\* Claims within half the range are replayed on the sides of the tree's recursion.
LEMMA TrueSides ==
    ASSUME NEW index \in Nat, NEW size \in Nat, index < size, size <= Half
    PROVE  \E inner, border \in Nat :
               /\ inner = BitLenXor[index][size - 1]
               /\ border = CountOnes[Shr(index, inner)]
               /\ Height(index, size) = inner + border
               /\ Agree(inner + border, IndexSide(inner, index), Side(index, size))
<1>1. PICK inner \in Nat : inner = Inner(index, size) /\ inner < Width BY HalfFacts
<1>2. index \in Words BY HalfFacts
<1>3. PICK border \in Nat : border = CountOnes[Shr(index, inner)] BY <1>2, ShrFacts, CountOnesNat
<1>4. border = CountOnes[index \div Pow2[inner]] BY <1>1, <1>2, <1>3, ShrFacts
<1>5. Height(index, size) = inner + border BY <1>1, <1>4 DEF Height
<1>6. ASSUME NEW j \in 1..(inner + border) PROVE IndexSide(inner, index)[j] = Side(index, size)[j]
  <2>1. j \in Nat /\ j - 1 \in Nat OBVIOUS
  <2>2. j <= inner => Bit(index, j - 1) = (index \div Pow2[j - 1]) % 2
    <3>1. j <= inner => j - 1 < Width BY <1>1, <2>1, WidthFacts
    <3> QED BY <1>2, <2>1, <3>1, BitFacts
  <2> QED BY <1>1, <2>1, <2>2 DEF IndexSide, Side
<1>7. Agree(inner + border, IndexSide(inner, index), Side(index, size)) BY <1>6 DEF Agree
<1> QED BY <1>1, <1>3, <1>5, <1>7 DEF Inner

\* verify_inclusion is sound: if it accepts any path, under any claimed index and
\* size, below the root of a log, then the leaf is one of the log's; and when the
\* claimed size is the true one, it is the leaf at the claimed index.
THEOREM InclusionMeansMembership ==
    ASSUME NEW M, NEW d \in Seq(Leaves(M)), NEW x, NEW H, NEW path \in Seq(H),
           NEW index \in Words, NEW size \in Words,
           Accepts(x, path, Mth(d), index, size)
    PROVE  /\ S!Contains(d, LeafHash(x))
           /\ size = Len(d) /\ size <= Half => index < size /\ d[index + 1] = LeafHash(x)
<1>1. index \in Nat /\ size \in Nat /\ index < size BY WidthFacts DEF Accepts, VerifyInclusion
<1>2. size # 0 /\ size - 1 \in Words BY <1>1, WordPred
<1>3. PICK inner \in Nat : inner = BitLenXor[index][size - 1]
  <2>1. BitLenXor[index][size - 1] \in 0..Width BY <1>2, BitLenFacts
  <2> QED BY <2>1, WidthFacts
<1>4. PICK border \in Nat : border = CountOnes[Shr(index, inner)] BY <1>3, ShrFacts, CountOnesNat
<1>5. /\ Len(path) = inner + border
      /\ Mth(d) = Acc(LeafHash(x), path, IndexSide(inner, index))[Len(path)]
  <2>1. Rebuilds(x, path, Mth(d), index, inner, border) BY <1>3, <1>4, InclusionReplay
  <2> QED BY <2>1 DEF Rebuilds
<1>6. S!Contains(d, LeafHash(x))
  <2>1. PICK h \in Nat : h = Len(path) OBVIOUS
  <2>2. Acc(LeafHash(x), path, IndexSide(inner, index))[h] = Mth(d) BY <1>5, <2>1
  <2> QED BY <2>2, MembershipClimb
<1>7. ASSUME size = Len(d), size <= Half
      PROVE  d[index + 1] = LeafHash(x)
  <2>1. /\ Height(index, size) = inner + border
        /\ Agree(inner + border, IndexSide(inner, index), Side(index, size))
    <3>1. \E a, b \in Nat :
              /\ a = BitLenXor[index][size - 1]
              /\ b = CountOnes[Shr(index, a)]
              /\ Height(index, size) = a + b
              /\ Agree(a + b, IndexSide(a, index), Side(index, size))
      BY <1>1, <1>7, TrueSides
    <3> QED BY <1>3, <1>4, <3>1, Zenon
  <2>2. PICK h \in Nat : h = inner + border OBVIOUS
  <2>3. Alike(h, path, IndexSide(inner, index), path, Side(index, size))
    BY <2>1, <2>2 DEF Alike, Agree
  <2>4. Acc(LeafHash(x), path, Side(index, size))[h] = Mth(d)
    BY <1>5, <2>2, <2>3, AccSame
  <2>5. index \in 0..(Len(d) - 1) BY <1>1, <1>7
  <2>6. Acc(LeafHash(x), path, Side(index, Len(d)))[Height(index, Len(d))] = Mth(d)
    BY <1>7, <2>1, <2>2, <2>4
  <2> QED BY <1>7, <2>5, <2>6, IndexClimb
<1> QED BY <1>1, <1>6, <1>7

-----------------------------------------------------------------------------
(* The proofs that a log issues are sequences of hashes. *)

\* The hashes of the subtrees of d.
Hashes(d) == UNION {{Tree(d)[n][i] : i \in Nat} : n \in Nat}

\* A consistency proof lists hashes of subtrees.
LEMMA ConsTyped ==
    ASSUME NEW m, NEW d
    PROVE  \A n, i \in Nat : \A b \in BOOLEAN : ConsSubproofIn(m, d)[n][i][b] \in Seq(Hashes(d))
<1> DEFINE C == ConsSubproofIn(m, d)
           T == {n \in Nat : \A i \in Nat : \A b \in BOOLEAN : C[n][i][b] \in Seq(Hashes(d))}
<1>1. \A n, i \in Nat : Tree(d)[n][i] \in Hashes(d) BY DEF Hashes
<1>2. ASSUME NEW n \in Nat, \A k \in 0..(n - 1) : k \in T PROVE n \in T
  <2> SUFFICES ASSUME NEW i \in Nat, NEW b \in BOOLEAN PROVE C[n][i][b] \in Seq(Hashes(d)) OBVIOUS
  <2> HIDE DEF T
  <2>1. C[n] = ConsStep(m, d, C, n) BY ConsDef
  <2>2. CASE m = i + n \/ n <= 1
    <3>1. ConsStep(m, d, C, n)[i][b] = IF b THEN <<>> ELSE <<Tree(d)[n][i]>>
      BY <2>2, Zenon DEF ConsStep
    <3>2. <<>> \in Seq(Hashes(d)) /\ <<Tree(d)[n][i]>> \in Seq(Hashes(d)) BY <1>1
    <3> QED BY <2>1, <3>1, <3>2, Zenon
  <2>3. CASE ~(m = i + n \/ n <= 1)
    <3>1. PICK k \in Nat : k = Split(n) /\ k \in 1..(n - 1) /\ n - k \in 1..(n - 1)
      BY <2>3, SplitBounds
    <3>2. C[n][i][b] = IF m <= i + k THEN Append(C[k][i][b], Tree(d)[n - k][i + k])
                       ELSE Append(C[n - k][i + k][FALSE], Tree(d)[k][i])
      BY <2>1, <2>3, <3>1 DEF ConsStep
    <3>3. k \in 0..(n - 1) /\ n - k \in 0..(n - 1) /\ n - k \in Nat /\ i + k \in Nat BY <3>1
    <3>4. C[k][i][b] \in Seq(Hashes(d)) /\ C[n - k][i + k][FALSE] \in Seq(Hashes(d))
      BY <1>2, <3>1, <3>3 DEF T
    <3>5. Tree(d)[n - k][i + k] \in Hashes(d) /\ Tree(d)[k][i] \in Hashes(d) BY <1>1, <3>1, <3>3
    <3>6. \A c \in Seq(Hashes(d)), h \in Hashes(d) : Append(c, h) \in Seq(Hashes(d)) OBVIOUS
    <3>7. /\ Append(C[k][i][b], Tree(d)[n - k][i + k]) \in Seq(Hashes(d))
          /\ Append(C[n - k][i + k][FALSE], Tree(d)[k][i]) \in Seq(Hashes(d))
      BY <3>4, <3>5, <3>6, Zenon
    <3> QED BY <3>2, <3>7, Zenon
  <2> QED BY <2>2, <2>3
<1> HIDE DEF T
<1>3. \A n \in Nat : n \in T BY <1>2, StrongInduction
<1> QED BY <1>3 DEF T

\* An audit path lists hashes of subtrees.
LEMMA PathTyped ==
    ASSUME NEW m \in Nat, NEW d
    PROVE  \A n, i \in Nat : PathIn(m, d)[n][i] \in Seq(Hashes(d))
<1> DEFINE C == PathIn(m, d)
           T == {n \in Nat : \A i \in Nat : C[n][i] \in Seq(Hashes(d))}
<1>1. \A n, i \in Nat : Tree(d)[n][i] \in Hashes(d) BY DEF Hashes
<1>2. ASSUME NEW n \in Nat, \A k \in 0..(n - 1) : k \in T PROVE n \in T
  <2> SUFFICES ASSUME NEW i \in Nat PROVE C[n][i] \in Seq(Hashes(d)) OBVIOUS
  <2> HIDE DEF T
  <2>1. C[n] = PathStep(m, d, C, n) BY PathDef
  <2>2. CASE n <= 1
    <3>1. C[n][i] = <<>> BY <2>1, <2>2 DEF PathStep
    <3> QED BY <3>1
  <2>3. CASE ~(n <= 1)
    <3>1. PICK k \in Nat : k = Split(n) /\ k \in 1..(n - 1) /\ n - k \in 1..(n - 1)
      BY <2>3, SplitBounds
    <3>2. C[n][i] = IF m < i + k THEN Append(C[k][i], Tree(d)[n - k][i + k])
                    ELSE Append(C[n - k][i + k], Tree(d)[k][i])
      BY <2>1, <2>3, <3>1 DEF PathStep
    <3>3. k \in 0..(n - 1) /\ n - k \in 0..(n - 1) /\ n - k \in Nat /\ i + k \in Nat BY <3>1
    <3>4. C[k][i] \in Seq(Hashes(d)) /\ C[n - k][i + k] \in Seq(Hashes(d))
      BY <1>2, <3>1, <3>3 DEF T
    <3>5. Tree(d)[n - k][i + k] \in Hashes(d) /\ Tree(d)[k][i] \in Hashes(d) BY <1>1, <3>1, <3>3
    <3> QED BY <3>2, <3>4, <3>5
  <2> QED BY <2>2, <2>3
<1> HIDE DEF T
<1>3. \A n \in Nat : n \in T BY <1>2, StrongInduction
<1> QED BY <1>3 DEF T

-----------------------------------------------------------------------------
(* The safety invariants of the log. *)

\* The leaf hashes that a log can hold.
L == Leaves(Measurements)

\* The leaves of a log, in terms of sequences.
LEMMA TypeFacts ==
    ASSUME TypeOK, NEW l \in Logs
    PROVE  /\ leaves[l] \in Seq(L)
           /\ Len(leaves[l]) \in 0..MaxSize
           /\ Len(leaves[l]) <= Half
<1>1. PICK n \in 0..MaxSize : leaves[l] \in [1..n -> L] BY DEF TypeOK, L, Leaves
<1>2. n \in Nat BY LogAssumption
<1>3. leaves[l] \in Seq(L) /\ Len(leaves[l]) = n BY <1>1, <1>2
<1>4. n <= Half
  <2>1. Half \in Nat /\ MaxSize <= Half /\ MaxSize \in Nat
    BY LogAssumption, WidthFacts, Pow2Facts DEF Half
  <2> QED BY <1>2, <2>1
<1> QED BY <1>3, <1>4

\* Each log is a bounded vector of leaf hashes of measurements (append is the only
\* operation that writes it).
THEOREM TypeCorrect == Spec => []TypeOK
<1>1. Init => TypeOK
  <2> SUFFICES ASSUME Init PROVE TypeOK OBVIOUS
  <2>1. 0 \in 0..MaxSize BY LogAssumption
  <2>2. <<>> \in [1..0 -> {LeafHash(m) : m \in Measurements}] OBVIOUS
  <2> QED BY <2>1, <2>2 DEF Init, TypeOK
<1>2. TypeOK /\ [Next]_vars => TypeOK'
  <2> SUFFICES ASSUME TypeOK, [Next]_vars PROVE TypeOK' OBVIOUS
  <2> DEFINE Bounded == UNION {[1..n -> L] : n \in 0..MaxSize}
  <2>1. TypeOK <=> leaves \in [Logs -> Bounded] BY DEF TypeOK, L, Leaves
  <2>2. CASE UNCHANGED vars BY <2>1, <2>2 DEF vars, TypeOK
  <2>3. ASSUME NEW l \in Logs, NEW m \in Measurements, AppendLeaf(l, m) PROVE TypeOK'
    <3>1. PICK d : d = leaves[l] /\ d \in Seq(L) /\ Len(d) \in 0..MaxSize BY TypeFacts
    <3>2. Len(d) < MaxSize /\ leaves' = [leaves EXCEPT ![l] = Append(d, LeafHash(m))]
      BY <2>3, <3>1 DEF AppendLeaf
    <3>3. LeafHash(m) \in L BY DEF L, Leaves
    <3>4. Append(d, LeafHash(m)) \in Bounded
      <4>1. Len(d) + 1 \in 0..MaxSize BY <3>1, <3>2, LogAssumption
      <4>2. Append(d, LeafHash(m)) \in Seq(L) /\ Len(Append(d, LeafHash(m))) = Len(d) + 1
        BY <3>1, <3>3
      <4>3. \A e \in Seq(L) : e \in [1..Len(e) -> L] BY LenProperties
      <4>4. Append(d, LeafHash(m)) \in [1..(Len(d) + 1) -> L] BY <4>2, <4>3, Zenon
      <4> QED BY <4>1, <4>4
    <3> HIDE DEF Bounded
    <3>5. leaves' \in [Logs -> Bounded] BY <2>1, <3>2, <3>4
    <3> QED BY <3>5 DEF Bounded, TypeOK, L, Leaves
  <2> QED BY <2>2, <2>3 DEF Next
<1> QED BY <1>1, <1>2, PTL DEF Spec

\* An earlier state of a log is a prefix of the current one.
LEMMA SnapshotFacts ==
    ASSUME TypeOK, NEW l \in Logs, NEW old \in Snapshots(l)
    PROVE  /\ old \in Seq(L)
           /\ Len(old) \in 0..Len(leaves[l])
           /\ old = FirstPart(leaves[l], Len(old))
           /\ S!IsPrefix(old, leaves[l])
<1>1. leaves[l] \in Seq(L) BY TypeFacts
<1>2. PICK k \in 0..Len(leaves[l]) : old = FirstPart(leaves[l], k)
  BY DEF Snapshots, S!Prefixes, FirstPart
<1>3. /\ old \in Seq(L) /\ Len(old) = k
      /\ \A x \in 1..k : old[x] = leaves[l][x]
  BY <1>1, <1>2, Parts
<1>4. Len(leaves[l]) \in Nat BY <1>1
<1>5. Len(old) <= Len(leaves[l]) /\ \A x \in 1..Len(old) : old[x] = leaves[l][x]
  BY <1>3, <1>4
<1>6. S!IsPrefix(old, leaves[l]) BY <1>1, <1>3, <1>5, PrefixDef
<1> QED BY <1>2, <1>3, <1>6

\* What a log issues is a sequence of hashes.
LEMMA IssuedPathTyped ==
    ASSUME TypeOK, NEW path \in IssuedPaths
    PROVE  \E H : path \in Seq(H)
<1>1. PICK l \in Logs, k \in 0..MaxSize :
          \E proof \in ConsistencyProof(leaves[l], k) : path = proof.path
  BY DEF IssuedPaths
<1>2. PICK d : d = leaves[l] /\ Len(d) \in Nat BY TypeFacts
<1>3. path = <<>> \/ path = ConsSubproof(k, d, TRUE)
  <2>1. PICK proof \in ConsistencyProof(d, k) : path = proof.path BY <1>1, <1>2
  <2>2. proof = [first_size |-> k, second_size |-> Len(d),
                 path |-> IF k = Len(d) THEN <<>> ELSE ConsSubproof(k, d, TRUE)]
    BY DEF ConsistencyProof
  <2>3. proof.path = IF k = Len(d) THEN <<>> ELSE ConsSubproof(k, d, TRUE) BY <2>2
  <2> QED BY <2>1, <2>3
<1>4. ConsSubproof(k, d, TRUE) \in Seq(Hashes(d)) BY <1>2, ConsTyped DEF ConsSubproof
<1>5. <<>> \in Seq(Hashes(d)) OBVIOUS
<1> QED BY <1>3, <1>4, <1>5

\* Soundness, in every state of the right type.
LEMMA ConsistencySoundState == TypeOK => ConsistencySound
<1> SUFFICES ASSUME TypeOK, NEW path \in IssuedPaths, NEW to \in Logs, NEW from \in Logs,
                    NEW old \in Snapshots(from), NEW m \in Words, NEW n \in Words,
                    VerifyConsistency([first_size |-> m, second_size |-> n, path |-> path],
                                      Root(old), Root(leaves[to]))
             PROVE  S!IsPrefix(old, leaves[to])
  BY DEF ConsistencySound
<1>1. old \in Seq(L) /\ leaves[to] \in Seq(L) BY TypeFacts, SnapshotFacts
<1>2. PICK H : path \in Seq(H) BY IssuedPathTyped
<1>3. VerifyConsistency([first_size |-> m, second_size |-> n, path |-> path],
                        Mth(old), Mth(leaves[to])) BY DEF Root
<1> QED BY <1>1, <1>2, <1>3, ConsistencyMeansPrefix DEF L

\* Forged paths are covered by the same theorem as issued ones.
LEMMA ForgedPathsState == TypeOK => ForgedPathsExtend
<1> SUFFICES ASSUME TypeOK, NEW f \in Logs, NEW old \in Snapshots(f),
                    NEW t \in Logs, NEW new \in Snapshots(t),
                    NEW m \in Words, NEW n \in Words, NEW path \in ForgedPaths,
                    VerifyConsistency([first_size |-> m, second_size |-> n, path |-> path],
                                      Root(old), Root(new))
             PROVE  MayJoin(m, n, old, new)
  BY DEF ForgedPathsExtend
<1>1. old \in Seq(L) /\ new \in Seq(L) BY SnapshotFacts
<1>2. path \in Seq(KnownHashes)
  <2>1. PICK k \in 0..3 : path \in [1..k -> KnownHashes] BY DEF ForgedPaths
  <2>2. k \in Nat OBVIOUS
  <2> QED BY <2>1, <2>2
<1>3. VerifyConsistency([first_size |-> m, second_size |-> n, path |-> path],
                        Mth(old), Mth(new)) BY DEF Root
<1> QED BY <1>1, <1>2, <1>3, ConsistencyMeansPrefix DEF L, MayJoin

\* Soundness of audit paths, in every state of the right type.
LEMMA InclusionSoundState == TypeOK => InclusionSound
<1> SUFFICES ASSUME TypeOK, NEW l \in Logs, NEW of \in Logs, NEW m \in Measurements,
                    NEW i \in 0..MaxSize, NEW proof \in InclusionProof(leaves[l], i),
                    NEW d \in Snapshots(of), NEW index \in Words, NEW size \in Words,
                    Accepts(m, proof.audit_path, Root(d), index, size)
             PROVE  /\ S!Contains(d, LeafHash(m))
                    /\ size = Len(d) => index < size /\ d[index + 1] = LeafHash(m)
  BY DEF InclusionSound, Accepts
<1>1. PICK e : e = leaves[l] /\ Len(e) \in Nat BY TypeFacts
<1>2. i \in Nat OBVIOUS
<1>3. proof.audit_path = PathIn(i, e)[Len(e)][0] BY <1>1 DEF InclusionProof, Path
<1>4. PICK path \in Seq(Hashes(e)) : path = proof.audit_path BY <1>1, <1>2, <1>3, PathTyped
<1>5. d \in Seq(Leaves(Measurements)) BY SnapshotFacts DEF L
<1>6. Accepts(m, path, Mth(d), index, size) BY <1>4 DEF Root
<1>7. /\ S!Contains(d, LeafHash(m))
      /\ size = Len(d) /\ size <= Half => index < size /\ d[index + 1] = LeafHash(m)
  BY <1>5, <1>6, InclusionMeansMembership
<1>8. Len(d) <= Half
  <2>1. Len(d) \in 0..Len(leaves[of]) /\ Len(leaves[of]) <= Half /\ Len(leaves[of]) \in 0..MaxSize
    BY TypeFacts, SnapshotFacts
  <2>2. Half \in Nat BY WidthFacts, Pow2Facts DEF Half
  <2> QED BY <2>1, <2>2, LogAssumption
<1> QED BY <1>7, <1>8

\* No consistency proof of any log ever joins two histories (verify_consistency).
THEOREM ConsistencyIsSound == Spec => []ConsistencySound
  BY TypeCorrect, ConsistencySoundState, PTL

\* Forged proofs join nothing that genuine ones do not (verify_consistency).
THEOREM ForgedPathsProveNoMore == Spec => []ForgedPathsExtend
  BY TypeCorrect, ForgedPathsState, PTL

\* An audit path never proves a measurement that the log does not hold, nor one at
\* an index where it is not (verify_inclusion).
THEOREM InclusionIsSound == Spec => []InclusionSound
  BY TypeCorrect, InclusionSoundState, PTL

-----------------------------------------------------------------------------
(* Every leaf can be proved: path and verify_inclusion agree. *)

\* Q is P with g added at h + 1.
Extends(h, P, g, Q) == Q[h + 1] = g /\ \A j \in 1..h : Q[j] = P[j]

\* Append does that.
LEMMA AppendFacts ==
    ASSUME NEW H, NEW P \in Seq(H), NEW g \in H
    PROVE  /\ Append(P, g) \in Seq(H) /\ Len(Append(P, g)) = Len(P) + 1
           /\ Extends(Len(P), P, g, Append(P, g))
  BY DEF Extends

\* The climb along a longer path is one step more.
LEMMA AccAppend ==
    ASSUME NEW P, NEW g, NEW Q, NEW seed, NEW s, NEW t, NEW h \in Nat,
           Extends(h, P, g, Q), Agree(h, s, t)
    PROVE  /\ s[h + 1] = "right" => Acc(seed, Q, s)[h + 1] = NodeHash(Acc(seed, P, t)[h], g)
           /\ s[h + 1] = "left" => Acc(seed, Q, s)[h + 1] = NodeHash(g, Acc(seed, P, t)[h])
           /\ s[h + 1] # "left" /\ s[h + 1] # "right" =>
                  Acc(seed, Q, s)[h + 1] = Acc(seed, P, t)[h]
<1>1. Q[h + 1] = g BY DEF Extends
<1>2. Alike(h, Q, s, P, t) BY DEF Extends, Alike, Agree
<1>3. Acc(seed, Q, s)[h] = Acc(seed, P, t)[h] BY <1>2, AccSame
<1>4. ASSUME s[h + 1] = "right" PROVE Acc(seed, Q, s)[h + 1] = NodeHash(Acc(seed, P, t)[h], g)
  <2>1. Acc(seed, Q, s)[h + 1] = NodeHash(Acc(seed, Q, s)[h], Q[h + 1]) BY <1>4, AccSteps
  <2> QED BY <1>1, <1>3, <2>1
<1>5. ASSUME s[h + 1] = "left" PROVE Acc(seed, Q, s)[h + 1] = NodeHash(g, Acc(seed, P, t)[h])
  <2>1. Acc(seed, Q, s)[h + 1] = NodeHash(Q[h + 1], Acc(seed, Q, s)[h]) BY <1>5, AccSteps
  <2> QED BY <1>1, <1>3, <2>1
<1>6. ASSUME s[h + 1] # "left", s[h + 1] # "right"
      PROVE  Acc(seed, Q, s)[h + 1] = Acc(seed, P, t)[h]
  <2>1. s[h + 1] # "left" /\ s[h + 1] # "right" BY <1>6
  <2>2. Acc(seed, Q, s)[h + 1] = Acc(seed, Q, s)[h] BY <2>1, AccSteps
  <2> QED BY <1>3, <2>2
<1> QED BY <1>4, <1>5, <1>6

\* The hash of a subtree is one of Hashes.
LEMMA TreeInHashes == ASSUME NEW d PROVE \A n, i \in Nat : Tree(d)[n][i] \in Hashes(d)
  BY DEF Hashes

\* P climbs from the leaf at m to the subtree of n leaves after the first i.
Climbs(d, m, P, i, n) ==
    /\ Len(P) = Height(m - i, n)
    /\ Acc(d[m + 1], P, Side(m - i, n))[Height(m - i, n)] = Tree(d)[n][i]

\* The audit path that path builds does.
LEMMA PathClimbs ==
    ASSUME NEW d, NEW m \in Nat
    PROVE  \A n, i \in Nat : i <= m /\ m < i + n /\ n <= Half => Climbs(d, m, PathIn(m, d)[n][i], i, n)
<1> DEFINE C == PathIn(m, d)
           In(i, n) == i <= m /\ m < i + n /\ n <= Half
           T == {n \in Nat : \A i \in Nat : In(i, n) => Climbs(d, m, C[n][i], i, n)}
<1>1. ASSUME NEW n \in Nat, \A k \in 0..(n - 1) : k \in T PROVE n \in T
  <2> SUFFICES ASSUME NEW i \in Nat, In(i, n) PROVE Climbs(d, m, C[n][i], i, n) OBVIOUS
  <2> HIDE DEF T
  <2>1. C[n] = PathStep(m, d, C, n) BY PathDef
  <2>2. Half \in Nat /\ Half > 0
    <3>1. Half \in Nat /\ Half > Width - 1 BY WidthFacts, Pow2Facts DEF Half
    <3> QED BY <3>1, WidthFacts
  <2>3. CASE n = 1
    <3>1. C[n][i] = <<>> BY <2>1, <2>3 DEF PathStep
    <3>2. m - i = 0 /\ m = i BY <2>3
    <3>3. Height(0, 1) = 0
      <4>1. Pow2[0] = 1 /\ 0 \in Nat BY Pow2Facts
      <4>2. 0 < Pow2[0] /\ Pow2[0] <= Half BY <2>2, <4>1
      <4>3. Height(0, Pow2[0]) = 0 BY <4>1, <4>2, PerfectSides
      <4> QED BY <4>1, <4>3
    <3>4. Acc(d[m + 1], <<>>, Side(m - i, n))[0] = d[m + 1] BY AccSteps
    <3>5. Tree(d)[n][i] = d[i + 1] BY <2>3, TreeFacts
    <3>6. Len(<<>>) = 0 OBVIOUS
    <3> QED BY <2>3, <3>1, <3>2, <3>3, <3>4, <3>5, <3>6 DEF Climbs
  <2>4. CASE n >= 2
    <3>1. PICK p \in Nat : Split(n) = Pow2[p] /\ Pow2[p] < n /\ n <= 2 * Pow2[p]
      BY <2>4, SplitIsPow2
    <3>2. PICK k \in Nat : k = Split(n) /\ k = Pow2[p] /\ k > 0
      <4>1. Pow2[p] \in Nat /\ Pow2[p] > p BY <3>1, Pow2Facts
      <4> QED BY <3>1, <4>1
    <3>3. C[n][i] = IF m < i + k THEN Append(C[k][i], Tree(d)[n - k][i + k])
                    ELSE Append(C[n - k][i + k], Tree(d)[k][i])
      BY <2>1, <2>4, <3>2 DEF PathStep
    <3>4. Tree(d)[n][i] = NodeHash(Tree(d)[k][i], Tree(d)[n - k][i + k])
      <4>1. Tree(d)[n][i] = NodeHash(Tree(d)[Split(n)][i], Tree(d)[n - Split(n)][i + Split(n)])
        BY <2>4, TreeFacts
      <4> QED BY <4>1, <3>2
    <3>5. n - k \in Nat /\ i + k \in Nat /\ k \in 0..(n - 1) /\ n - k \in 0..(n - 1) BY <3>1, <3>2
    <3>6. /\ C[k][i] \in Seq(Hashes(d)) /\ C[n - k][i + k] \in Seq(Hashes(d))
          /\ Tree(d)[n - k][i + k] \in Hashes(d) /\ Tree(d)[k][i] \in Hashes(d)
      <4>1. \A a, b \in Nat : C[a][b] \in Seq(Hashes(d)) BY PathTyped
      <4>2. \A a, b \in Nat : Tree(d)[a][b] \in Hashes(d) BY TreeInHashes
      <4> QED BY <3>5, <4>1, <4>2
    <3>7. PICK x \in Nat : x = m - i /\ x < n OBVIOUS
    <3>8. CASE m < i + k
      <4>1. PICK P \in Seq(Hashes(d)) : P = C[k][i] BY <3>6
      <4>2. PICK g \in Hashes(d) : g = Tree(d)[n - k][i + k] BY <3>6
      <4>3. x < k /\ k <= Half /\ n <= Half BY <2>2, <3>1, <3>2, <3>7, <3>8
      <4>4. /\ Height(x, k) = p /\ Height(x, n) = p + 1
            /\ \A j \in 1..p : Side(x, n)[j] = Side(x, k)[j]
            /\ Side(x, n)[p + 1] = "right"
        BY <3>1, <3>2, <4>3, FirstHalf
      <4>5. Climbs(d, m, P, i, k)
        <5>1. k \in T BY <1>1, <3>5
        <5>2. In(i, k) BY <3>8, <4>3
        <5> QED BY <4>1, <5>1, <5>2 DEF T
      <4>6. p = Len(P) /\ Acc(d[m + 1], P, Side(x, k))[p] = Tree(d)[k][i]
        BY <3>7, <4>4, <4>5 DEF Climbs
      <4>7. Agree(p, Side(x, n), Side(x, k)) BY <4>4 DEF Agree
      <4>8. PICK Q : Q = Append(P, g) /\ Len(Q) = p + 1 /\ Extends(p, P, g, Q)
        BY <4>6, AppendFacts
      <4>9. Acc(d[m + 1], Q, Side(x, n))[p + 1]
                = NodeHash(Acc(d[m + 1], P, Side(x, k))[p], g)
        <5>1. Extends(p, P, g, Q) /\ Side(x, n)[p + 1] = "right" BY <4>4, <4>8
        <5> HIDE DEF C
        <5> QED BY <4>7, <5>1, AccAppend
      <4> QED BY <3>3, <3>4, <3>7, <3>8, <4>1, <4>2, <4>4, <4>6, <4>9, <4>8 DEF Climbs
    <3>9. CASE m >= i + k
      <4>1. PICK P \in Seq(Hashes(d)) : P = C[n - k][i + k] BY <3>6
      <4>2. PICK g \in Hashes(d) : g = Tree(d)[k][i] BY <3>6
      <4>3. PICK x1 \in Nat : x1 = x - k /\ x1 = m - (i + k) BY <3>2, <3>7, <3>9
      <4>4. PICK n1 \in Nat : n1 = n - k /\ x1 < n1 /\ n1 <= Half
        <5>1. n - k <= Half BY <2>2, <3>2, <3>5
        <5>2. x1 < n - k BY <3>2, <3>7, <4>3
        <5> QED BY <3>5, <5>1, <5>2
      <4>5. k <= x /\ n <= Half BY <3>2, <3>7, <3>9
      <4>6. PICK h \in Nat : h = Height(x1, n1) BY <4>4, HalfFacts
      <4>7. /\ Height(x, n) = h + 1
            /\ \A j \in 1..h : Side(x, n)[j] = Side(x1, n1)[j]
            /\ Side(x, n)[h + 1] = "left"
        <5>1. x1 = x - Pow2[p] /\ n1 = n - Pow2[p] BY <3>2, <4>3, <4>4
        <5>2. /\ Height(x, n) = Height(x - Pow2[p], n - Pow2[p]) + 1
              /\ \A j \in 1..Height(x - Pow2[p], n - Pow2[p]) :
                     Side(x, n)[j] = Side(x - Pow2[p], n - Pow2[p])[j]
              /\ Side(x, n)[Height(x - Pow2[p], n - Pow2[p]) + 1] = "left"
          BY <3>1, <3>2, <3>7, <4>5, SecondHalf
        <5> QED BY <4>6, <5>1, <5>2
      <4>8. Climbs(d, m, P, i + k, n1)
        <5>1. n1 \in T BY <1>1, <3>5, <4>4
        <5>2. In(i + k, n1) BY <3>5, <3>9, <4>4
        <5> QED BY <3>5, <4>1, <4>4, <5>1, <5>2 DEF T
      <4>9. h = Len(P) /\ Acc(d[m + 1], P, Side(x1, n1))[h] = Tree(d)[n1][i + k]
        BY <4>3, <4>6, <4>8 DEF Climbs
      <4>10. Agree(h, Side(x, n), Side(x1, n1)) BY <4>7 DEF Agree
      <4>11. PICK Q : Q = Append(P, g) /\ Len(Q) = h + 1 /\ Extends(h, P, g, Q)
        BY <4>9, AppendFacts
      <4>12. Acc(d[m + 1], Q, Side(x, n))[h + 1]
                 = NodeHash(g, Acc(d[m + 1], P, Side(x1, n1))[h])
        <5>1. Extends(h, P, g, Q) /\ Side(x, n)[h + 1] = "left" BY <4>7, <4>11
        <5> QED BY <4>10, <5>1, AccAppend
      <4>13. C[n][i] = Q BY <3>3, <3>5, <3>9, <4>1, <4>2, <4>11
      <4> QED BY <3>4, <3>7, <4>2, <4>4, <4>7, <4>9, <4>12, <4>11, <4>13 DEF Climbs
    <3>10. m < i + k \/ m >= i + k BY <3>5
    <3> QED BY <3>8, <3>9, <3>10
  <2>5. n = 1 \/ n >= 2 OBVIOUS
  <2> QED BY <2>3, <2>4, <2>5
<1> HIDE DEF T
<1>2. \A n \in Nat : n \in T BY <1>1, StrongInduction
<1> QED BY <1>2 DEF T

\* The audit path of every leaf of every log up to half the range of the integers
\* is accepted: the recursion of path puts each sibling where the bits that
\* verify_inclusion looks at say it is.
THEOREM InclusionWorks ==
    ASSUME NEW E, NEW d \in Seq(E), Len(d) <= Half, NEW i \in 0..(Len(d) - 1), NEW m,
           d[i + 1] = LeafHash(m)
    PROVE  \E proof \in InclusionProof(d, i) : VerifyInclusion(m, proof, Root(d))
<1>1. PICK n \in Nat : n = Len(d) /\ i \in Nat /\ i < n /\ n <= Half OBVIOUS
<1>2. PICK P \in Seq(Hashes(d)) : P = Path(i, d) BY <1>1, PathTyped DEF Path
<1>3. Len(P) = Height(i, n) /\ Acc(LeafHash(m), P, Side(i, n))[Height(i, n)] = Mth(d)
  <2>1. 0 <= i /\ i < 0 + n /\ i - 0 = i BY <1>1
  <2>2. Climbs(d, i, PathIn(i, d)[n][0], 0, n) BY <1>1, <2>1, PathClimbs
  <2> QED BY <1>1, <1>2, <2>1, <2>2 DEF Climbs, Path, Mth
<1>4. PICK inner \in Nat : \E border \in Nat :
          /\ inner = BitLenXor[i][n - 1]
          /\ border = CountOnes[Shr(i, inner)]
          /\ Height(i, n) = inner + border
          /\ Agree(inner + border, IndexSide(inner, i), Side(i, n))
  BY <1>1, TrueSides
<1>5. PICK border \in Nat :
          /\ inner = BitLenXor[i][n - 1]
          /\ border = CountOnes[Shr(i, inner)]
          /\ Height(i, n) = inner + border
          /\ Agree(inner + border, IndexSide(inner, i), Side(i, n))
  BY <1>4
<1>6. Rebuilds(m, P, Mth(d), i, inner, border)
  <2>1. PICK h \in Nat : h = inner + border OBVIOUS
  <2>2. Alike(h, P, IndexSide(inner, i), P, Side(i, n)) BY <1>5, <2>1 DEF Alike, Agree
  <2>3. Acc(LeafHash(m), P, IndexSide(inner, i))[h] = Acc(LeafHash(m), P, Side(i, n))[h]
    BY <2>2, AccSame
  <2> QED BY <1>3, <1>5, <2>1, <2>3 DEF Rebuilds
<1>7. i \in Words /\ n \in Words BY <1>1, HalfFacts
<1>8. Accepts(m, P, Mth(d), i, n) BY <1>1, <1>5, <1>6, <1>7, InclusionReplay
<1>9. [leaf_index |-> i, tree_size |-> n, audit_path |-> P] \in InclusionProof(d, i)
  BY <1>1, <1>2 DEF InclusionProof
<1> QED BY <1>8, <1>9 DEF Accepts, Root

\* find gives the first place, and the proof for it is accepted.
LEMMA InclusionCompleteState == TypeOK => InclusionComplete
<1> SUFFICES ASSUME TypeOK, NEW l \in Logs, NEW m \in Measurements
             PROVE  LET d == leaves[l]
                        at == {i \in 0..(Len(d) - 1) : d[i + 1] = LeafHash(m)}
                    IN  /\ IF at = {} THEN Find(d, m) = {}
                           ELSE \E first \in at : Find(d, m) = {first} /\ \A i \in at : first <= i
                        /\ \A i \in at : \E proof \in InclusionProof(d, i) :
                               VerifyInclusion(m, proof, Root(d))
  BY DEF InclusionComplete
<1>1. PICK d \in Seq(L) : d = leaves[l] /\ Len(d) <= Half BY TypeFacts
<1> DEFINE at == {i \in 0..(Len(d) - 1) : d[i + 1] = LeafHash(m)}
<1>2. Find(d, m) = {i \in at : \A j \in at : i <= j} BY DEF Find, Places
<1>3. at \subseteq Nat OBVIOUS
<1>4. ASSUME NEW i \in at
      PROVE  \E proof \in InclusionProof(d, i) : VerifyInclusion(m, proof, Root(d))
  BY <1>1, InclusionWorks
<1> HIDE DEF at
<1>5. ASSUME at # {}
      PROVE  \E first \in at : Find(d, m) = {first} /\ \A i \in at : first <= i
  <2>1. PICK first \in at : \A i \in at : first <= i BY <1>3, <1>5, LeastNumber
  <2>2. \A i \in at : (\A j \in at : i <= j) => i = first BY <1>3, <2>1
  <2>3. Find(d, m) = {first} BY <1>2, <2>1, <2>2
  <2> QED BY <2>1, <2>3
<1>6. at = {} => Find(d, m) = {} BY <1>2
<1> QED BY <1>1, <1>4, <1>5, <1>6 DEF at

\* A log can always prove every leaf it holds (find, inclusion_proof and
\* verify_inclusion).
THEOREM InclusionIsComplete == Spec => []InclusionComplete
  BY TypeCorrect, InclusionCompleteState, PTL

-----------------------------------------------------------------------------
(* Trailing zeros. *)

\* A multiple has no remainder.
LEMMA NoRemainder ==
    ASSUME NEW A \in Nat, A > 0, NEW e \in Nat, NEW y \in Nat, y = A * e
    PROVE  y % A = 0
<1>1. 0 \in 0..(A - 1) /\ y = A * e + 0 OBVIOUS
<1> QED BY <1>1, DivUnique

\* A multiple of a power is a multiple of each lower one.
LEMMA ModDown ==
    ASSUME NEW x \in Nat, NEW j \in Nat, NEW k \in Nat, j <= k, x % Pow2[k] = 0
    PROVE  x % Pow2[j] = 0
<1>1. k - j \in Nat /\ j + (k - j) = k OBVIOUS
<1>2. PICK A \in Nat : A = Pow2[j] /\ A > 0 BY Pow2Facts
<1>3. PICK B \in Nat : B = Pow2[k - j] /\ B > 0 BY <1>1, Pow2Facts
<1>4. PICK C \in Nat : C = Pow2[k] /\ C > 0 BY Pow2Facts
<1>5. C = A * B
  <2>1. Pow2[j + (k - j)] = Pow2[j] * Pow2[k - j] BY <1>1, Pow2Add
  <2> QED BY <2>1, <1>1, <1>2, <1>3, <1>4
<1>6. PICK q \in Nat : x = C * q
  <2>1. x \div C \in Nat /\ x = C * (x \div C) + (x % C) BY <1>4, DivFacts
  <2>2. x = C * (x \div C) BY <2>1, <1>4
  <2> QED BY <2>1, <2>2
<1>7. PICK e \in Nat : e = B * q BY <1>3
<1>8. x = A * e
  <2>1. (A * B) * q = A * (B * q) OBVIOUS
  <2> QED BY <2>1, <1>5, <1>6, <1>7
<1>9. x % A = 0 BY <1>2, <1>8, NoRemainder
<1> QED BY <1>2, <1>9

\* A number below the power is its own remainder.
LEMMA SmallRemainder ==
    ASSUME NEW x \in Nat, NEW k \in Nat, x < Pow2[k]
    PROVE  x % Pow2[k] = x
<1>1. PICK D \in Nat : D = Pow2[k] /\ D > 0 BY Pow2Facts
<1>2. x \in 0..(D - 1) /\ x = D * 0 + x BY <1>1
<1> QED BY <1>1, <1>2, DivUnique

\* The trailing zeros, by what they divide.
LEMMA ZerosFacts ==
    ASSUME NEW x \in Words, x # 0
    PROVE  /\ TrailingZeros[x] \in Nat /\ TrailingZeros[x] < Width
           /\ x \in Nat /\ x > 0
           /\ \A j \in Nat : j <= TrailingZeros[x] => x % Pow2[j] = 0
           /\ \A k \in Nat : x % Pow2[k] = 0 /\ x % Pow2[k + 1] # 0 => TrailingZeros[x] = k
           /\ \A p \in Nat : x <= Pow2[p] => TrailingZeros[x] <= p
           /\ \A p \in Nat : x < Pow2[p] => TrailingZeros[x] < p
<1>1. PICK s \in Nat : s = TrailingZeros[x] /\ s < Width /\ x % Pow2[s] = 0 /\ x % Pow2[s + 1] # 0
  <2>1. TrailingZeros[x] \in 0..(Width - 1) BY TrailingZerosFacts
  <2>2. TrailingZeros[x] \in Nat /\ TrailingZeros[x] < Width BY <2>1, WidthFacts
  <2> QED BY <2>2, TrailingZerosFacts
<1>2. x \in Nat /\ x > 0 BY WidthFacts
<1>3. ASSUME NEW j \in Nat, j <= s PROVE x % Pow2[j] = 0 BY <1>1, <1>2, <1>3, ModDown
<1>4. ASSUME NEW k \in Nat, x % Pow2[k] = 0, x % Pow2[k + 1] # 0 PROVE s = k
  <2>1. ~(s < k)
    <3>1. SUFFICES ASSUME s < k PROVE FALSE OBVIOUS
    <3>2. s + 1 \in Nat /\ s + 1 <= k BY <3>1
    <3> QED BY <1>1, <1>2, <1>4, <3>2, ModDown
  <2>2. ~(k < s)
    <3>1. SUFFICES ASSUME k < s PROVE FALSE OBVIOUS
    <3>2. k + 1 \in Nat /\ k + 1 <= s BY <3>1
    <3> QED BY <1>1, <1>2, <1>4, <3>2, ModDown
  <2> QED BY <2>1, <2>2
<1>5. ASSUME NEW p \in Nat, x < Pow2[p] PROVE s < p
  <2>1. SUFFICES ASSUME p <= s PROVE FALSE OBVIOUS
  <2>2. Pow2[p] <= Pow2[s] /\ Pow2[p] \in Nat /\ Pow2[s] \in Nat BY <2>1, Pow2Order, Pow2Facts
  <2>3. x < Pow2[s] BY <1>2, <1>5, <2>2
  <2>4. x % Pow2[s] = x BY <1>2, <2>3, SmallRemainder
  <2> QED BY <1>1, <1>2, <2>4
<1>6. ASSUME NEW p \in Nat, x <= Pow2[p] PROVE s <= p
  <2>1. Pow2[p] \in Nat /\ Pow2[p] > 0 /\ Pow2[p + 1] = 2 * Pow2[p] BY Pow2Facts
  <2>2. x < Pow2[p + 1] BY <1>2, <1>6, <2>1
  <2>3. s < p + 1 BY <1>5, <2>2
  <2> QED BY <2>3
<1> QED BY <1>1, <1>2, <1>3, <1>4, <1>5, <1>6

\* Of a power of two.
LEMMA ZerosOfPower ==
    ASSUME NEW p \in Nat, Pow2[p] \in Words
    PROVE  TrailingZeros[Pow2[p]] = p
<1>1. Pow2[p] \in Nat /\ Pow2[p] > 0 /\ Pow2[p + 1] = 2 * Pow2[p] BY Pow2Facts
<1>2. Pow2[p] % Pow2[p] = 0 BY Pow2Quotient
<1>3. Pow2[p] % Pow2[p + 1] # 0
  <2>1. Pow2[p] < Pow2[p + 1] BY <1>1
  <2>2. Pow2[p] % Pow2[p + 1] = Pow2[p] BY <1>1, <2>1, SmallRemainder
  <2> QED BY <1>1, <2>2
<1>4. Pow2[p] # 0 BY <1>1
<1> QED BY <1>2, <1>3, <1>4, ZerosFacts

\* A power above all bits changes none of them.
LEMMA ZerosOffset ==
    ASSUME NEW x \in Words, x # 0, NEW p \in Nat, x < Pow2[p], x + Pow2[p] \in Words
    PROVE  /\ TrailingZeros[x + Pow2[p]] = TrailingZeros[x]
           /\ x + Pow2[p] # Pow2[TrailingZeros[x]]
<1>1. PICK s \in Nat : s = TrailingZeros[x] /\ s < p BY ZerosFacts
<1>2. x \in Nat /\ x % Pow2[s] = 0 /\ x % Pow2[s + 1] # 0 BY <1>1, WidthFacts, TrailingZerosFacts
<1>3. s + 1 \in Nat /\ s + 1 <= p /\ s <= p BY <1>1
<1>4. (x + Pow2[p]) % Pow2[s] = 0 BY <1>2, <1>3, DivOffset
<1>5. (x + Pow2[p]) % Pow2[s + 1] # 0
  <2>1. (x + Pow2[p]) % Pow2[s + 1] = x % Pow2[s + 1] BY <1>2, <1>3, DivOffset
  <2> QED BY <2>1, <1>2
<1>6. x + Pow2[p] # 0 /\ x + Pow2[p] # Pow2[s]
  <2>1. Pow2[p] \in Nat /\ Pow2[s] \in Nat /\ 2 * Pow2[s] <= Pow2[p] /\ Pow2[p] > 0
    BY <1>1, Pow2Monotone, Pow2Facts
  <2> QED BY <2>1, <1>2
<1> QED BY <1>1, <1>4, <1>5, <1>6, ZerosFacts

\* verify_consistency never rejects a genuine proof for inner being too small.
LEMMA InnerAboveZeros ==
    ASSUME NEW m \in Nat, NEW n \in Nat, 0 < m, m < n, n <= Half
    PROVE  /\ m \in Words /\ m # 0
           /\ Inner(m - 1, n) >= TrailingZeros[m]
<1>1. m \in Words /\ m # 0 /\ m - 1 \in Nat /\ m - 1 < n BY HalfFacts
<1>2. PICK e \in Nat : e = Inner(m - 1, n) BY <1>1, HalfFacts
<1>3. PICK s \in Nat : s = TrailingZeros[m] BY <1>1, ZerosFacts
<1>4. SUFFICES ASSUME e < s PROVE FALSE BY <1>1, <1>2, <1>3
<1>5. m % Pow2[e] = 0 BY <1>1, <1>3, <1>4, ZerosFacts
<1>6. PICK D \in Nat : D = Pow2[e] /\ D > 0 BY Pow2Facts
<1>7. m \div D \in Nat /\ (m - 1) \div D = (m \div D) - 1 BY <1>5, <1>6, DivBelow
<1>8. n - 1 \in Nat /\ m <= n - 1 BY HalfFacts
<1>9. m \div D <= (n - 1) \div D BY <1>6, <1>8, DivMonotone
<1>10. (m - 1) \div D = (n - 1) \div D BY <1>1, <1>2, <1>6, HalfFacts
<1> QED BY <1>7, <1>9, <1>10

-----------------------------------------------------------------------------
(* Every earlier head can be proved: cons_subproof and verify_consistency agree. *)
(* A proof for the first m of n leaves starts at the largest complete subtree    *)
(* that ends at leaf m, of 2^s leaves, s the trailing zeros of m.  Above it the  *)
(* verifier climbs along the path of leaf m - 1, hashing in all siblings for the *)
(* new root and the left ones alone for the old.                                 *)

\* The sides above the first s levels, on the path of leaf x - 1 of n.
NewSide(x, n, s) == [j \in Nat |-> Side(x - 1, n)[j + s]]

\* The same for the old root, which has nothing on the right.
OldSide(x, n, s) == [j \in Nat |-> IF Side(x - 1, n)[j + s] = "left" THEN "left" ELSE "none"]

\* From seed, R climbs to the hash of the n leaves after i, and, by its left
\* siblings alone, to the hash of the first x of them.
Lifts(d, x, i, n, seed, R) ==
    /\ R \in Seq(Hashes(d))
    /\ Len(R) + TrailingZeros[x] = Height(x - 1, n)
    /\ Acc(seed, R, NewSide(x, n, TrailingZeros[x]))[Len(R)] = Tree(d)[n][i]
    /\ Acc(seed, R, OldSide(x, n, TrailingZeros[x]))[Len(R)] = Tree(d)[x][i]

\* P is a proof for the first x of the n leaves after i: with the seed in front,
\* unless the verifier holds it (b) because the x leaves are one complete subtree.
Proves(d, x, i, n, b, P) ==
    IF b /\ x = Pow2[TrailingZeros[x]]
    THEN Lifts(d, x, i, n, Tree(d)[x][i], P)
    ELSE \E seed \in Hashes(d) : \E R \in Seq(Hashes(d)) :
             P = <<seed>> \o R /\ Lifts(d, x, i, n, seed, R)

\* A complete subtree is its own seed.
LEMMA LiftBase ==
    ASSUME NEW d, NEW i \in Nat, NEW p \in Nat, Pow2[p] <= Half
    PROVE  Lifts(d, Pow2[p], i, Pow2[p], Tree(d)[Pow2[p]][i], <<>>)
<1>1. PICK x \in Nat : x = Pow2[p] /\ x > 0 BY Pow2Facts
<1>2. x - 1 \in Nat /\ x - 1 < x BY <1>1
<1>3. x \in Words
  <2>1. x <= Half BY <1>1
  <2>2. x - 1 < x /\ x - 1 \in Nat BY <1>2
  <2> QED BY <2>1, <2>2, HalfFacts
<1>4. TrailingZeros[x] = p BY <1>1, <1>3, ZerosOfPower
<1>5. Height(x - 1, x) = p BY <1>1, <1>2, PerfectSides
<1>6. <<>> \in Seq(Hashes(d)) /\ Len(<<>>) = 0 OBVIOUS
<1>7. \A s : Acc(Tree(d)[x][i], <<>>, s)[0] = Tree(d)[x][i] BY AccSteps
<1> QED BY <1>1, <1>4, <1>5, <1>6, <1>7 DEF Lifts

\* Old leaves in the first part: the second part is a sibling on the right.
LEMMA LiftLeft ==
    ASSUME NEW d, NEW i \in Nat, NEW n \in Nat, NEW p \in Nat, n <= Half,
           Pow2[p] < n, n <= 2 * Pow2[p], NEW x \in Nat, 0 < x, x <= Pow2[p],
           NEW seed, NEW R, Lifts(d, x, i, Pow2[p], seed, R)
    PROVE  Lifts(d, x, i, n, seed, Append(R, Tree(d)[n - Pow2[p]][i + Pow2[p]]))
<1>1. PICK k \in Nat : k = Pow2[p] /\ k > 0 BY Pow2Facts
<1>2. x - 1 \in Nat /\ x - 1 < k /\ x - 1 < n /\ x < n BY <1>1
<1>3. x \in Words /\ x # 0
  <2>1. x < n /\ n <= Half BY <1>2
  <2> QED BY <2>1, HalfFacts
<1>4. PICK s \in Nat : s = TrailingZeros[x] /\ s <= p BY <1>3, ZerosFacts
<1>5. /\ Height(x - 1, k) = p /\ Height(x - 1, n) = p + 1
      /\ \A j \in 1..p : Side(x - 1, n)[j] = Side(x - 1, k)[j]
      /\ Side(x - 1, n)[p + 1] = "right"
  BY <1>1, <1>2, FirstHalf
<1>6. PICK r \in Nat : r = p - s BY <1>4
<1>7. /\ R \in Seq(Hashes(d)) /\ Len(R) = r
      /\ Acc(seed, R, NewSide(x, k, s))[r] = Tree(d)[k][i]
      /\ Acc(seed, R, OldSide(x, k, s))[r] = Tree(d)[x][i]
  <2>1. R \in Seq(Hashes(d)) /\ Len(R) + s = p BY <1>1, <1>4, <1>5 DEF Lifts
  <2>2. Len(R) = r BY <1>6, <2>1
  <2> QED BY <1>1, <1>4, <2>1, <2>2 DEF Lifts
<1>8. ASSUME NEW j \in 1..r
      PROVE  /\ NewSide(x, n, s)[j] = NewSide(x, k, s)[j]
             /\ OldSide(x, n, s)[j] = OldSide(x, k, s)[j]
  <2>1. j + s \in 1..p /\ j \in Nat BY <1>6
  <2>2. Side(x - 1, n)[j + s] = Side(x - 1, k)[j + s] BY <1>5, <2>1
  <2> QED BY <2>1, <2>2 DEF NewSide, OldSide
<1>9. Agree(r, NewSide(x, n, s), NewSide(x, k, s)) /\ Agree(r, OldSide(x, n, s), OldSide(x, k, s))
  BY <1>8 DEF Agree
<1>10. NewSide(x, n, s)[r + 1] = "right" /\ OldSide(x, n, s)[r + 1] = "none"
  <2>1. r + 1 \in Nat /\ (r + 1) + s = p + 1 BY <1>6
  <2> QED BY <1>5, <2>1 DEF NewSide, OldSide
<1>11. PICK g \in Hashes(d) : g = Tree(d)[n - k][i + k]
  <2>1. n - k \in Nat /\ i + k \in Nat BY <1>1
  <2> QED BY <2>1, TreeInHashes
<1>12. PICK Q \in Seq(Hashes(d)) : Q = Append(R, g) /\ Len(Q) = r + 1 /\ Extends(r, R, g, Q)
  BY <1>7, AppendFacts
<1>13. Acc(seed, Q, NewSide(x, n, s))[r + 1] = NodeHash(Tree(d)[k][i], g)
  <2>1. Extends(r, R, g, Q) /\ Agree(r, NewSide(x, n, s), NewSide(x, k, s)) BY <1>9, <1>12
  <2>2. Acc(seed, Q, NewSide(x, n, s))[r + 1] = NodeHash(Acc(seed, R, NewSide(x, k, s))[r], g)
    BY <1>10, <2>1, AccAppend
  <2> QED BY <1>7, <2>2
<1>14. Acc(seed, Q, OldSide(x, n, s))[r + 1] = Tree(d)[x][i]
  <2>1. Extends(r, R, g, Q) /\ Agree(r, OldSide(x, n, s), OldSide(x, k, s)) BY <1>9, <1>12
  <2>2. OldSide(x, n, s)[r + 1] # "left" /\ OldSide(x, n, s)[r + 1] # "right" BY <1>10
  <2>3. Acc(seed, Q, OldSide(x, n, s))[r + 1] = Acc(seed, R, OldSide(x, k, s))[r]
    BY <2>1, <2>2, AccAppend
  <2> QED BY <1>7, <2>3
<1>15. Tree(d)[n][i] = NodeHash(Tree(d)[k][i], g)
  <2>1. Split(n) = k BY <1>1, SplitUnique
  <2>2. n >= 2 BY <1>1
  <2> QED BY <1>11, <2>1, <2>2, TreeFacts
<1>16. (r + 1) + s = p + 1 BY <1>6
<1> QED BY <1>1, <1>4, <1>5, <1>11, <1>12, <1>13, <1>14, <1>15, <1>16 DEF Lifts

\* Old leaves in both: the first part is a sibling on the left, for both roots.
LEMMA LiftRight ==
    ASSUME NEW d, NEW i \in Nat, NEW n \in Nat, NEW p \in Nat, n <= Half,
           Pow2[p] < n, n <= 2 * Pow2[p], NEW x \in Nat, Pow2[p] < x, x < n,
           NEW seed, NEW R, Lifts(d, x - Pow2[p], i + Pow2[p], n - Pow2[p], seed, R)
    PROVE  /\ Lifts(d, x, i, n, seed, Append(R, Tree(d)[Pow2[p]][i]))
           /\ x # Pow2[TrailingZeros[x]]
<1>1. PICK k \in Nat : k = Pow2[p] /\ k > 0 BY Pow2Facts
<1>2. PICK y \in Nat : y = x - k /\ y > 0 /\ y < k BY <1>1
<1>3. PICK n1 \in Nat : n1 = n - k /\ y < n1 /\ n1 <= Half
  <2>1. Half \in Nat BY WidthFacts, Pow2Facts DEF Half
  <2> QED BY <1>1, <1>2, <2>1
<1>4. PICK z \in Nat : z = x - 1 /\ k <= z /\ z < n BY <1>1
<1>5. PICK w \in Nat : w = y - 1 /\ w = z - k /\ w < n1 BY <1>2, <1>3, <1>4
<1>6. x \in Words /\ x # 0 /\ y \in Words /\ y # 0
  <2>1. x < n /\ n <= Half /\ y < n1 /\ n1 <= Half BY <1>3
  <2> QED BY <1>1, <1>2, <2>1, HalfFacts
<1>7. PICK s \in Nat : s = TrailingZeros[y] BY <1>6, ZerosFacts
<1>8. TrailingZeros[x] = s /\ x # Pow2[s]
  <2>1. y + Pow2[p] = x /\ y < Pow2[p] BY <1>1, <1>2
  <2>2. y + Pow2[p] \in Words BY <1>6, <2>1
  <2>3. /\ TrailingZeros[y + Pow2[p]] = TrailingZeros[y]
        /\ y + Pow2[p] # Pow2[TrailingZeros[y]]
    BY <1>6, <2>1, <2>2, ZerosOffset
  <2> QED BY <1>7, <2>1, <2>3
<1>9. PICK h \in Nat : h = Height(w, n1) BY <1>3, <1>5, HalfFacts
<1>10. /\ Height(z, n) = h + 1
       /\ \A j \in 1..h : Side(z, n)[j] = Side(w, n1)[j]
       /\ Side(z, n)[h + 1] = "left"
  <2>1. w = z - Pow2[p] /\ n1 = n - Pow2[p] BY <1>1, <1>3, <1>5
  <2>2. /\ Height(z, n) = Height(z - Pow2[p], n - Pow2[p]) + 1
        /\ \A j \in 1..Height(z - Pow2[p], n - Pow2[p]) :
               Side(z, n)[j] = Side(z - Pow2[p], n - Pow2[p])[j]
        /\ Side(z, n)[Height(z - Pow2[p], n - Pow2[p]) + 1] = "left"
    BY <1>1, <1>4, SecondHalf
  <2> QED BY <1>9, <2>1, <2>2
<1>11. Lifts(d, y, i + k, n1, seed, R) BY <1>1, <1>2, <1>3
<1>12. PICK r \in Nat : r = Len(R) /\ r + s = h
  <2>1. R \in Seq(Hashes(d)) /\ Len(R) + s = h BY <1>5, <1>7, <1>9, <1>11 DEF Lifts
  <2> QED BY <2>1
<1>13. /\ R \in Seq(Hashes(d))
       /\ Acc(seed, R, NewSide(y, n1, s))[r] = Tree(d)[n1][i + k]
       /\ Acc(seed, R, OldSide(y, n1, s))[r] = Tree(d)[y][i + k]
  BY <1>7, <1>11, <1>12 DEF Lifts
<1>14. ASSUME NEW j \in 1..r
       PROVE  /\ NewSide(x, n, s)[j] = NewSide(y, n1, s)[j]
              /\ OldSide(x, n, s)[j] = OldSide(y, n1, s)[j]
  <2>1. j + s \in 1..h /\ j \in Nat BY <1>12
  <2>2. Side(x - 1, n)[j + s] = Side(y - 1, n1)[j + s] BY <1>4, <1>5, <1>10, <2>1
  <2> QED BY <2>1, <2>2 DEF NewSide, OldSide
<1>15. Agree(r, NewSide(x, n, s), NewSide(y, n1, s)) /\ Agree(r, OldSide(x, n, s), OldSide(y, n1, s))
  BY <1>14 DEF Agree
<1>16. NewSide(x, n, s)[r + 1] = "left" /\ OldSide(x, n, s)[r + 1] = "left"
  <2>1. r + 1 \in Nat /\ (r + 1) + s = h + 1 BY <1>12
  <2> QED BY <1>4, <1>10, <2>1 DEF NewSide, OldSide
<1>17. PICK g \in Hashes(d) : g = Tree(d)[k][i] BY TreeInHashes
<1>18. PICK Q \in Seq(Hashes(d)) : Q = Append(R, g) /\ Len(Q) = r + 1 /\ Extends(r, R, g, Q)
  BY <1>12, <1>13, AppendFacts
<1>19. Acc(seed, Q, NewSide(x, n, s))[r + 1] = NodeHash(g, Tree(d)[n1][i + k])
  <2>1. Extends(r, R, g, Q) /\ Agree(r, NewSide(x, n, s), NewSide(y, n1, s)) BY <1>15, <1>18
  <2>2. Acc(seed, Q, NewSide(x, n, s))[r + 1] = NodeHash(g, Acc(seed, R, NewSide(y, n1, s))[r])
    BY <1>16, <2>1, AccAppend
  <2> QED BY <1>13, <2>2
<1>20. Acc(seed, Q, OldSide(x, n, s))[r + 1] = NodeHash(g, Tree(d)[y][i + k])
  <2>1. Extends(r, R, g, Q) /\ Agree(r, OldSide(x, n, s), OldSide(y, n1, s)) BY <1>15, <1>18
  <2>2. Acc(seed, Q, OldSide(x, n, s))[r + 1] = NodeHash(g, Acc(seed, R, OldSide(y, n1, s))[r])
    BY <1>16, <2>1, AccAppend
  <2> QED BY <1>13, <2>2
<1>21. /\ Tree(d)[n][i] = NodeHash(g, Tree(d)[n1][i + k])
       /\ Tree(d)[x][i] = NodeHash(g, Tree(d)[y][i + k])
  <2>1. Split(n) = k BY <1>1, SplitUnique
  <2>2. x <= 2 * Pow2[p] BY <1>1
  <2>3. Split(x) = k BY <1>1, <2>2, SplitUnique
  <2>4. n >= 2 /\ x >= 2 BY <1>1
  <2>5. Tree(d)[n][i] = NodeHash(Tree(d)[Split(n)][i], Tree(d)[n - Split(n)][i + Split(n)])
    BY <2>4, TreeFacts
  <2>6. Tree(d)[x][i] = NodeHash(Tree(d)[Split(x)][i], Tree(d)[x - Split(x)][i + Split(x)])
    BY <2>4, TreeFacts
  <2> QED BY <1>2, <1>3, <1>17, <2>1, <2>3, <2>5, <2>6
<1>22. (r + 1) + s = h + 1 BY <1>12
<1>23. Lifts(d, x, i, n, seed, Q)
  BY <1>4, <1>8, <1>10, <1>18, <1>19, <1>20, <1>21, <1>22 DEF Lifts
<1> QED BY <1>1, <1>8, <1>17, <1>18, <1>23

\* An index is the first, the last, or the successor of one between.
LEMMA FirstLastOrBetween ==
    ASSUME NEW r \in Nat, NEW j \in 1..(r + 2)
    PROVE  j = 1 \/ j = r + 2 \/ (j - 1 \in 1..r /\ (j - 1) + 1 = j)
  OBVIOUS

\* A sequence with an element put in front, and taken off again.
LEMMA PutFirst ==
    ASSUME NEW H, NEW seed \in H, NEW R \in Seq(H), NEW g \in H
    PROVE  /\ <<seed>> \o R \in Seq(H)
           /\ Append(<<seed>> \o R, g) = <<seed>> \o Append(R, g)
           /\ SecondPart(R, 0) = R
           /\ SecondPart(<<seed>> \o R, 1) = R
           /\ Len(<<seed>> \o R) = Len(R) + 1
           /\ (<<seed>> \o R)[1] = seed
           /\ <<seed>> \o R # <<>>
<1>1. PICK r \in Nat : r = Len(R) OBVIOUS
<1>2. PICK P \in Seq(H) : P = <<seed>> \o R
  <2>1. <<seed>> \o R \in Seq(H) OBVIOUS
  <2> QED BY <2>1
<1>3. Len(P) = r + 1 /\ P[1] = seed /\ \A j \in 1..r : P[j + 1] = R[j] BY <1>1, <1>2
<1>4. SecondPart(P, 1) = R
  <2>1. 1 \in 0..Len(P) BY <1>1, <1>3
  <2>2. /\ SecondPart(P, 1) \in Seq(H) /\ Len(SecondPart(P, 1)) = Len(P) - 1
        /\ \A j \in 1..(Len(P) - 1) : SecondPart(P, 1)[j] = P[1 + j]
    BY <2>1, Parts
  <2>3. Len(P) - 1 = r BY <1>3
  <2>4. \A j \in 1..r : SecondPart(P, 1)[j] = R[j] BY <1>3, <2>2, <2>3
  <2> QED BY <1>1, <2>2, <2>3, <2>4, SeqEqual
<1>5. SecondPart(R, 0) = R
  <2>1. 0 \in 0..Len(R) BY <1>1
  <2>2. /\ SecondPart(R, 0) \in Seq(H) /\ Len(SecondPart(R, 0)) = Len(R) - 0
        /\ \A j \in 1..(Len(R) - 0) : SecondPart(R, 0)[j] = R[0 + j]
    BY <2>1, Parts
  <2>3. Len(SecondPart(R, 0)) = r /\ \A j \in 1..r : SecondPart(R, 0)[j] = R[j] BY <1>1, <2>2
  <2> QED BY <1>1, <2>2, <2>3, SeqEqual
<1>6. Append(P, g) = <<seed>> \o Append(R, g)
  <2>1. \A c \in Seq(H) : Append(c, g) \in Seq(H) /\ <<seed>> \o c \in Seq(H) OBVIOUS
  <2>2. PICK Q \in Seq(H) : Q = Append(R, g) BY <2>1
  <2>3. Len(Q) = r + 1 /\ Q[r + 1] = g /\ \A j \in 1..r : Q[j] = R[j] BY <1>1, <2>2
  <2>4. PICK A \in Seq(H) : A = Append(P, g) BY <2>1
  <2>5. Len(A) = r + 2 /\ A[r + 2] = g /\ \A j \in 1..(r + 1) : A[j] = P[j] BY <1>1, <1>3, <2>4
  <2>6. PICK B \in Seq(H) : B = <<seed>> \o Q BY <2>1
  <2>7. Len(B) = r + 2 /\ B[1] = seed /\ \A j \in 1..(r + 1) : B[j + 1] = Q[j] BY <2>3, <2>6
  <2>8. ASSUME NEW j \in 1..(r + 2) PROVE A[j] = B[j]
    <3>1. j = 1 \/ j = r + 2 \/ (j - 1 \in 1..r /\ (j - 1) + 1 = j) BY FirstLastOrBetween
    <3>2. CASE j = 1 BY <3>2, <1>1, <1>3, <2>5, <2>7
    <3>3. CASE j = r + 2
      <4>1. r + 1 \in 1..(r + 1) /\ (r + 1) + 1 = r + 2 BY <1>1
      <4>2. B[(r + 1) + 1] = Q[r + 1] BY <4>1, <2>7
      <4> QED BY <3>3, <4>1, <4>2, <2>3, <2>5
    <3>4. CASE j - 1 \in 1..r /\ (j - 1) + 1 = j
      <4>1. PICK y \in 1..r : y + 1 = j BY <3>4
      <4>2. y \in 1..(r + 1) /\ y + 1 \in 1..(r + 1) BY <1>1
      <4>3. A[y + 1] = P[y + 1] /\ P[y + 1] = R[y] BY <4>2, <1>3, <2>5
      <4>4. B[y + 1] = Q[y] /\ Q[y] = R[y] BY <4>2, <2>3, <2>7
      <4> QED BY <4>1, <4>3, <4>4
    <3> QED BY <3>1, <3>2, <3>3, <3>4
  <2>9. A = B
    <3>1. PICK c \in Nat : c = r + 2 BY <1>1
    <3>2. Len(A) = c /\ Len(B) = c /\ \A j \in 1..c : A[j] = B[j] BY <3>1, <2>5, <2>7, <2>8
    <3> QED BY <3>2, SeqEqual
  <2> QED BY <2>2, <2>4, <2>6, <2>9
<1>7. P # <<>> BY <1>1, <1>3
<1> QED BY <1>1, <1>2, <1>3, <1>4, <1>5, <1>6, <1>7

\* The first recursive call of cons_subproof extends a proof to a proof.
LEMMA ProvesLeft ==
    ASSUME NEW d, NEW i \in Nat, NEW n \in Nat, NEW p \in Nat, n <= Half,
           Pow2[p] < n, n <= 2 * Pow2[p], NEW x \in Nat, 0 < x, x <= Pow2[p],
           NEW b, NEW P, Proves(d, x, i, Pow2[p], b, P)
    PROVE  Proves(d, x, i, n, b, Append(P, Tree(d)[n - Pow2[p]][i + Pow2[p]]))
<1>1. Pow2[p] \in Nat BY Pow2Facts
<1>2. n - Pow2[p] \in Nat /\ i + Pow2[p] \in Nat BY <1>1
<1>3. PICK g \in Hashes(d) : g = Tree(d)[n - Pow2[p]][i + Pow2[p]] BY <1>2, TreeInHashes
<1>4. CASE b /\ x = Pow2[TrailingZeros[x]]
  <2>1. Lifts(d, x, i, Pow2[p], Tree(d)[x][i], P) BY <1>4 DEF Proves
  <2>2. Lifts(d, x, i, n, Tree(d)[x][i], Append(P, g)) BY <1>3, <2>1, LiftLeft
  <2> QED BY <1>3, <1>4, <2>2 DEF Proves
<1>5. CASE ~(b /\ x = Pow2[TrailingZeros[x]])
  <2>1. PICK seed \in Hashes(d) : \E R \in Seq(Hashes(d)) :
            P = <<seed>> \o R /\ Lifts(d, x, i, Pow2[p], seed, R)
    BY <1>5 DEF Proves
  <2>2. PICK R \in Seq(Hashes(d)) : P = <<seed>> \o R /\ Lifts(d, x, i, Pow2[p], seed, R) BY <2>1
  <2>3. Lifts(d, x, i, n, seed, Append(R, g)) BY <1>3, <2>2, LiftLeft
  <2>4. Append(P, g) = <<seed>> \o Append(R, g) /\ Append(R, g) \in Seq(Hashes(d))
    BY <2>2, PutFirst
  <2> QED BY <1>3, <1>5, <2>3, <2>4 DEF Proves
<1> QED BY <1>4, <1>5

\* So does the second, which always has a seed in front.
LEMMA ProvesRight ==
    ASSUME NEW d, NEW i \in Nat, NEW n \in Nat, NEW p \in Nat, n <= Half,
           Pow2[p] < n, n <= 2 * Pow2[p], NEW x \in Nat, Pow2[p] < x, x < n,
           NEW b, NEW P, Proves(d, x - Pow2[p], i + Pow2[p], n - Pow2[p], FALSE, P)
    PROVE  Proves(d, x, i, n, b, Append(P, Tree(d)[Pow2[p]][i]))
<1>1. Pow2[p] \in Nat BY Pow2Facts
<1>2. PICK g \in Hashes(d) : g = Tree(d)[Pow2[p]][i] BY <1>1, TreeInHashes
<1>3. PICK seed \in Hashes(d) : \E R \in Seq(Hashes(d)) :
          P = <<seed>> \o R /\ Lifts(d, x - Pow2[p], i + Pow2[p], n - Pow2[p], seed, R)
  BY DEF Proves
<1>4. PICK R \in Seq(Hashes(d)) :
          P = <<seed>> \o R /\ Lifts(d, x - Pow2[p], i + Pow2[p], n - Pow2[p], seed, R)
  BY <1>3
<1>5. Lifts(d, x, i, n, seed, Append(R, g)) /\ x # Pow2[TrailingZeros[x]]
  BY <1>2, <1>4, LiftRight
<1>6. Append(P, g) = <<seed>> \o Append(R, g) /\ Append(R, g) \in Seq(Hashes(d))
  BY <1>4, PutFirst
<1> QED BY <1>2, <1>5, <1>6 DEF Proves

\* What cons_subproof builds is a proof.
LEMMA SubproofProves ==
    ASSUME NEW d, NEW m \in Nat
    PROVE  \A n, i \in Nat : \A b \in BOOLEAN :
               i < m /\ m <= i + n /\ n <= Half /\ (m = i + n => \E p \in Nat : n = Pow2[p])
                   => Proves(d, m - i, i, n, b, ConsSubproofIn(m, d)[n][i][b])
<1> DEFINE C == ConsSubproofIn(m, d)
           In(i, n) == i < m /\ m <= i + n /\ n <= Half /\ (m = i + n => \E p \in Nat : n = Pow2[p])
           T == {n \in Nat : \A i \in Nat : \A b \in BOOLEAN :
                                 In(i, n) => Proves(d, m - i, i, n, b, C[n][i][b])}
<1>1. ASSUME NEW n \in Nat, \A k \in 0..(n - 1) : k \in T PROVE n \in T
  <2> SUFFICES ASSUME NEW i \in Nat, NEW b \in BOOLEAN, In(i, n)
               PROVE  Proves(d, m - i, i, n, b, C[n][i][b])
    OBVIOUS
  <2> HIDE DEF T
  <2>1. C[n] = ConsStep(m, d, C, n) BY ConsDef
  <2>2. Half \in Nat BY WidthFacts, Pow2Facts DEF Half
  <2>3. PICK x \in Nat : x = m - i /\ x > 0 /\ x <= n OBVIOUS
  <2>4. CASE m = i + n
    <3>1. PICK p \in Nat : n = Pow2[p] BY <2>4
    <3>2. x = n /\ m - i = n BY <2>3, <2>4
    <3>3. n \in Words
      <4>1. n - 1 \in Nat /\ n - 1 < n BY <2>3
      <4> QED BY <4>1, HalfFacts
    <3>4. TrailingZeros[n] = p BY <3>1, <3>3, ZerosOfPower
    <3>5. Lifts(d, n, i, n, Tree(d)[n][i], <<>>) BY <3>1, LiftBase
    <3>6. C[n][i][b] = IF b THEN <<>> ELSE <<Tree(d)[n][i]>>
      <4>1. ConsStep(m, d, C, n)[i][b] = IF b THEN <<>> ELSE <<Tree(d)[n][i]>>
        BY <2>4, Zenon DEF ConsStep
      <4> QED BY <2>1, <4>1, Zenon
    <3>7. CASE b
      <4>1. C[n][i][b] = <<>> BY <3>6, <3>7
      <4> QED BY <3>1, <3>2, <3>4, <3>5, <3>7, <4>1 DEF Proves
    <3>8. CASE ~b
      <4>1. PICK seed \in Hashes(d) : seed = Tree(d)[n][i] BY TreeInHashes
      <4>2. C[n][i][b] = <<seed>> \o <<>> /\ <<>> \in Seq(Hashes(d)) BY <3>6, <3>8, <4>1
      <4> QED BY <3>2, <3>5, <3>8, <4>1, <4>2 DEF Proves
    <3> QED BY <3>7, <3>8
  <2>5. CASE m < i + n
    <3>1. n >= 2 BY <2>5
    <3>2. PICK p \in Nat : Split(n) = Pow2[p] /\ Pow2[p] < n /\ n <= 2 * Pow2[p]
      BY <3>1, SplitIsPow2
    <3>3. PICK k \in Nat : k = Split(n) /\ k = Pow2[p] /\ k > 0
      <4>1. Pow2[p] \in Nat /\ Pow2[p] > p BY <3>2, Pow2Facts
      <4> QED BY <3>2, <4>1
    <3>4. n - k \in Nat /\ i + k \in Nat /\ k \in 0..(n - 1) /\ n - k \in 0..(n - 1)
          /\ k <= Half /\ n - k <= Half
      BY <2>2, <3>2, <3>3
    <3>5. C[n][i][b] = IF m <= i + k THEN Append(C[k][i][b], Tree(d)[n - k][i + k])
                       ELSE Append(C[n - k][i + k][FALSE], Tree(d)[k][i])
      <4>1. ~(m = i + n \/ n <= 1) BY <2>5, <3>1
      <4> QED BY <2>1, <3>3, <4>1 DEF ConsStep
    <3>6. CASE m <= i + k
      <4>1. In(i, k) BY <3>2, <3>3, <3>4, <3>6
      <4>2. Proves(d, x, i, k, b, C[k][i][b]) BY <1>1, <2>3, <3>4, <4>1 DEF T
      <4>3. x <= Pow2[p] BY <2>3, <3>3, <3>6
      <4>4. Proves(d, x, i, n, b, Append(C[k][i][b], Tree(d)[n - k][i + k]))
        BY <2>3, <3>2, <3>3, <4>2, <4>3, ProvesLeft
      <4> QED BY <2>3, <3>5, <3>6, <4>4
    <3>7. CASE m > i + k
      <4>1. i + k < m /\ m < (i + k) + (n - k) /\ FALSE \in BOOLEAN BY <2>5, <3>3, <3>4, <3>7
      <4>2. In(i + k, n - k) BY <3>4, <4>1
      <4>3. m - (i + k) = x - k BY <2>3, <3>3, <3>7
      <4>4. Proves(d, x - k, i + k, n - k, FALSE, C[n - k][i + k][FALSE])
        BY <1>1, <3>4, <4>1, <4>2, <4>3 DEF T
      <4>5. Pow2[p] < x /\ x < n BY <2>3, <2>5, <3>3, <3>7
      <4>6. Proves(d, x, i, n, b, Append(C[n - k][i + k][FALSE], Tree(d)[k][i]))
        BY <3>2, <3>3, <4>4, <4>5, ProvesRight
      <4>7. ~(m <= i + k) BY <3>3, <3>7
      <4> QED BY <2>3, <3>5, <4>6, <4>7
    <3> QED BY <3>3, <3>6, <3>7
  <2> QED BY <2>4, <2>5
<1> HIDE DEF T
<1>2. \A n \in Nat : n \in T BY <1>1, StrongInduction
<1> QED BY <1>2 DEF T

\* The case 0 < m < n of verify_consistency, unexpanded.
Replays(m, n, path, first_root, second_root) ==
    ReplaysBothRoots(m, n, path, first_root, second_root)

\* What verify_consistency computes from the sizes and the path is that climb.
LEMMA LiftReplays ==
    ASSUME NEW d, NEW m \in Nat, NEW n \in Nat, 0 < m, m < n, n <= Half,
           NEW seed \in Hashes(d), NEW R \in Seq(Hashes(d)), Lifts(d, m, 0, n, seed, R),
           NEW path,
           IF m = Pow2[TrailingZeros[m]] THEN seed = Tree(d)[m][0] /\ path = R
           ELSE path = <<seed>> \o R
    PROVE  Replays(m, n, path, Tree(d)[m][0], Tree(d)[n][0])
<1> DEFINE inner0 == BitLenXor[m - 1][n - 1]
           border == CountOnes[Shr(m - 1, inner0)]
           shift == TrailingZeros[m]
           inner == inner0 - shift
           full == m = Pow2[shift]
           start == IF full THEN 0 ELSE 1
           sd == IF full THEN Tree(d)[m][0] ELSE path[1]
           rest == SecondPart(path, start)
           mask == Shr(m - 1, shift)
           low == FirstPart(rest, inner)
           high == SecondPart(rest, inner)
           a == [i \in 1..Len(low) |-> IF Bit(mask, i - 1) = 1 THEN "left" ELSE "none"]
           b == [i \in 1..Len(low) |-> IF Bit(mask, i - 1) = 0 THEN "right" ELSE "left"]
<1>1. m \in Words /\ m # 0 /\ inner0 >= shift BY InnerAboveZeros DEF Inner
<1>2. m - 1 \in Nat /\ m - 1 < n /\ n - 1 \in Nat BY HalfFacts
<1>3. PICK u \in Nat : u = inner0 /\ u < Width /\ u = Inner(m - 1, n) BY <1>2, HalfFacts DEF Inner
<1>4. PICK s \in Nat : s = shift BY <1>1, ZerosFacts
<1>5. m - 1 \in Words BY <1>2, HalfFacts
<1>6. PICK c \in Nat : c = border BY <1>3, <1>5, ShrFacts, CountOnesNat
<1>7. Height(m - 1, n) = u + c
  <2>1. Shr(m - 1, u) = (m - 1) \div Pow2[u] BY <1>3, <1>5, ShrFacts
  <2> QED BY <1>3, <1>6, <2>1 DEF Height
<1>8. PICK k \in Nat : k = inner /\ k + s = u
  <2>1. inner0 >= shift /\ inner0 = u /\ shift = s BY <1>1, <1>3, <1>4
  <2>2. inner = u - s BY <2>1
  <2> HIDE DEF inner, inner0, shift
  <2>3. u - s \in Nat /\ (u - s) + s = u BY <2>1
  <2> QED BY <2>2, <2>3
<1>9. sd = seed /\ rest = R /\ (full \/ path # <<>>) /\ Len(path) = start + Len(R)
  <2>1. Len(R) \in Nat /\ 0 + Len(R) = Len(R) /\ 1 + Len(R) = Len(R) + 1 OBVIOUS
  <2>2. /\ SecondPart(R, 0) = R /\ SecondPart(<<seed>> \o R, 1) = R
        /\ Len(<<seed>> \o R) = Len(R) + 1
        /\ (<<seed>> \o R)[1] = seed
        /\ <<seed>> \o R # <<>>
    BY PutFirst
  <2>3. CASE full
    <3>1. seed = Tree(d)[m][0] /\ path = R BY <2>3
    <3>2. start = 0 /\ sd = Tree(d)[m][0] BY <2>3
    <3> HIDE DEF full, start, sd
    <3> QED BY <2>1, <2>2, <2>3, <3>1, <3>2
  <2>4. CASE ~full
    <3>1. path = <<seed>> \o R BY <2>4
    <3>2. start = 1 /\ sd = path[1] BY <2>4
    <3> HIDE DEF full, start, sd
    <3> QED BY <2>1, <2>2, <2>4, <3>1, <3>2
  <2> QED BY <2>3, <2>4
<1>10. /\ Len(R) = k + c
       /\ Acc(seed, R, NewSide(m, n, s))[k + c] = Tree(d)[n][0]
       /\ Acc(seed, R, OldSide(m, n, s))[k + c] = Tree(d)[m][0]
  <2>1. Len(R) \in Nat /\ Len(R) + s = u + c BY <1>4, <1>7 DEF Lifts
  <2>2. Len(R) = k + c BY <1>8, <2>1
  <2> QED BY <1>4, <2>2 DEF Lifts
<1>11. /\ Len(low) = k /\ \A j \in 1..k : low[j] = R[j]
       /\ Len(high) = c /\ \A j \in 1..c : high[j] = R[k + j]
  <2> HIDE DEF rest, inner
  <2>1. k \in 0..Len(R) /\ Len(R) - k = c BY <1>10
  <2>2. /\ Len(FirstPart(R, k)) = k /\ \A j \in 1..k : FirstPart(R, k)[j] = R[j]
        /\ Len(SecondPart(R, k)) = Len(R) - k
        /\ \A j \in 1..(Len(R) - k) : SecondPart(R, k)[j] = R[k + j]
    BY <2>1, Parts
  <2> QED BY <1>8, <1>9, <2>1, <2>2
<1>12. ASSUME NEW j \in 1..k
       PROVE  a[j] = OldSide(m, n, s)[j] /\ b[j] = NewSide(m, n, s)[j]
  <2>1. j \in Nat /\ j - 1 \in Nat /\ j + s <= u /\ j - 1 < Width /\ (j + s) - 1 = s + (j - 1)
    BY <1>3, <1>8, WidthFacts
  <2>2. mask \in Words /\ mask = (m - 1) \div Pow2[s]
    <3>1. s < Width BY <1>3, <1>8, WidthFacts
    <3> QED BY <1>4, <1>5, <3>1, ShrFacts
  <2>3. mask \div Pow2[j - 1] = (m - 1) \div Pow2[(j + s) - 1]
    <3>1. PICK v \in Nat : v = j - 1 BY <2>1
    <3>2. PICK x \in Nat : x = m - 1 BY <1>2
    <3>3. (x \div Pow2[s]) \div Pow2[v] = x \div Pow2[s + v] BY DivTwice
    <3>4. (j + s) - 1 = s + v BY <2>1, <3>1
    <3> HIDE DEF mask
    <3> QED BY <2>2, <3>1, <3>2, <3>3, <3>4
  <2>4. Bit(mask, j - 1) \in 0..1 /\ Bit(mask, j - 1) = (mask \div Pow2[j - 1]) % 2
    BY <2>1, <2>2, BitFacts
  <2>5. Side(m - 1, n)[j + s] = IF Bit(mask, j - 1) = 0 THEN "right" ELSE "left"
    <3>1. j + s \in Nat BY <2>1
    <3> HIDE DEF mask
    <3> QED BY <1>3, <2>1, <2>3, <2>4, <3>1 DEF Side
  <2>6. j \in 1..Len(low) BY <1>11
  <2> HIDE DEF mask, low
  <2>7. NewSide(m, n, s)[j] = Side(m - 1, n)[j + s]
        /\ OldSide(m, n, s)[j] = IF Side(m - 1, n)[j + s] = "left" THEN "left" ELSE "none"
    BY <2>1 DEF NewSide, OldSide
  <2> QED BY <2>4, <2>5, <2>6, <2>7
<1>13. ASSUME NEW j \in 1..c
       PROVE  /\ AllLeft(high)[j] = OldSide(m, n, s)[k + j]
              /\ AllLeft(high)[j] = NewSide(m, n, s)[k + j]
  <2>1. j \in Nat /\ k + j \in Nat /\ (k + j) + s \in Nat /\ ~((k + j) + s <= u) BY <1>8
  <2>2. Side(m - 1, n)[(k + j) + s] = "left" BY <1>3, <2>1 DEF Side
  <2>3. AllLeft(high)[j] = "left" BY <1>11 DEF AllLeft
  <2> QED BY <2>1, <2>2, <2>3 DEF NewSide, OldSide
<1> HIDE DEF a, b, low, high
<1>14. /\ Alike(k, low, a, R, OldSide(m, n, s)) /\ Follows(k, c, high, AllLeft(high), R, OldSide(m, n, s))
       /\ Alike(k, low, b, R, NewSide(m, n, s)) /\ Follows(k, c, high, AllLeft(high), R, NewSide(m, n, s))
  BY <1>11, <1>12, <1>13 DEF Alike, Follows
<1>15. Climb(Climb(seed, low, a), high, AllLeft(high)) = Tree(d)[m][0]
  <2>1. Climb(Climb(seed, low, a), high, AllLeft(high)) = Acc(seed, R, OldSide(m, n, s))[k + c]
    BY <1>11, <1>14, ClimbOn
  <2> QED BY <1>10, <2>1
<1>16. Climb(Climb(seed, low, b), high, AllLeft(high)) = Tree(d)[n][0]
  <2>1. Climb(Climb(seed, low, b), high, AllLeft(high)) = Acc(seed, R, NewSide(m, n, s))[k + c]
    BY <1>11, <1>14, ClimbOn
  <2> QED BY <1>10, <2>1
<1>17. Len(path) = start + inner + border
  <2>1. Len(path) = start + (k + c) /\ start \in Nat BY <1>9, <1>10
  <2>2. k = inner /\ c = border BY <1>6, <1>8
  <2> HIDE DEF inner, border, start
  <2>3. start + (k + c) = start + k + c BY <2>1
  <2> QED BY <2>1, <2>2, <2>3
<1>18. /\ ChainInnerRight(sd, low, mask) = Climb(seed, low, a)
       /\ ChainInner(sd, low, mask) = Climb(seed, low, b)
  BY <1>9 DEF ChainInner, ChainInnerRight, a, b
<1>19. /\ Tree(d)[m][0] = ChainBorderRight(ChainInnerRight(sd, low, mask), high)
       /\ Tree(d)[n][0] = ChainBorderRight(ChainInner(sd, low, mask), high)
  BY <1>15, <1>16, <1>18 DEF ChainBorderRight
<1> QED BY <1>1, <1>9, <1>17, <1>19 DEF Replays, ReplaysBothRoots, low, high

\* For every log up to half the range of the integers and every size from one to
\* its own, consistency_proof gives a proof that verify_consistency accepts
\* between the root of that many first leaves and the root of all of them.
THEOREM ConsistencyWorks ==
    ASSUME NEW E, NEW d \in Seq(E), Len(d) <= Half, NEW m \in Nat, 0 < m, m <= Len(d)
    PROVE  \E proof \in ConsistencyProof(d, m) :
               /\ proof.second_size = Len(d)
               /\ VerifyConsistency(proof, Root(FirstPart(d, m)), Root(d))
<1>1. PICK n \in Nat : n = Len(d) OBVIOUS
<1>2. PICK f \in Seq(E) : f = FirstPart(d, m) /\ Len(f) = m /\ \A x \in 1..m : f[x] = d[x]
  <2>1. m \in 0..Len(d) BY <1>1
  <2> QED BY <2>1, Parts
<1>3. Root(d) = Tree(d)[n][0] BY <1>1 DEF Root, Mth
<1>4. Root(FirstPart(d, m)) = Tree(d)[m][0]
  <2>1. m \in 0..Len(d) BY <1>1
  <2>2. Mth(FirstPart(d, m)) = Tree(d)[m][0] BY <2>1, PartRoots
  <2> QED BY <2>2 DEF Root
<1>5. PICK P : P = IF m = n THEN <<>> ELSE ConsSubproof(m, d, TRUE) OBVIOUS
<1>6. PICK proof : proof = [first_size |-> m, second_size |-> n, path |-> P] OBVIOUS
<1>7. proof \in ConsistencyProof(d, m)
  <2>1. ~(m = 0 \/ m > n) BY <1>1
  <2> QED BY <1>1, <1>5, <1>6, <2>1 DEF ConsistencyProof
<1>8. CASE m = n
  <2>1. VerifyConsistency(proof, Tree(d)[m][0], Tree(d)[n][0])
    BY <1>5, <1>6, <1>8 DEF VerifyConsistency
  <2> QED BY <1>1, <1>3, <1>4, <1>6, <1>7, <2>1
<1>9. CASE m < n
  <2>1. m # n BY <1>9
  <2>2. P = ConsSubproofIn(m, d)[n][0][TRUE]
    <3>1. P = ConsSubproof(m, d, TRUE) BY <1>5, <2>1, Zenon
    <3> QED BY <1>1, <3>1, Zenon DEF ConsSubproof
  <2>3. Proves(d, m, 0, n, TRUE, P)
    <3>1. TRUE \in BOOLEAN /\ 0 \in Nat /\ 0 < m /\ m <= 0 + n /\ n <= Half /\ m # 0 + n /\ m - 0 = m
      BY <1>1, <1>9
    <3>2. Proves(d, m - 0, 0, n, TRUE, ConsSubproofIn(m, d)[n][0][TRUE])
      BY <3>1, SubproofProves
    <3> QED BY <2>2, <3>1, <3>2
  <2>4. \E seed \in Hashes(d), R \in Seq(Hashes(d)) :
            /\ Lifts(d, m, 0, n, seed, R)
            /\ IF m = Pow2[TrailingZeros[m]] THEN seed = Tree(d)[m][0] /\ P = R
               ELSE P = <<seed>> \o R
    <3>1. CASE m = Pow2[TrailingZeros[m]]
      <4>1. Lifts(d, m, 0, n, Tree(d)[m][0], P) BY <2>3, <3>1 DEF Proves
      <4>2. P \in Seq(Hashes(d)) BY <4>1 DEF Lifts
      <4>3. Tree(d)[m][0] \in Hashes(d) BY TreeInHashes
      <4> QED BY <3>1, <4>1, <4>2, <4>3
    <3>2. CASE m # Pow2[TrailingZeros[m]] BY <2>3, <3>2 DEF Proves
    <3> QED BY <3>1, <3>2
  <2>5. Replays(m, n, P, Tree(d)[m][0], Tree(d)[n][0])
    <3>1. n <= Half /\ 0 < m BY <1>1
    <3>2. PICK seed \in Hashes(d), R \in Seq(Hashes(d)) :
              /\ Lifts(d, m, 0, n, seed, R)
              /\ IF m = Pow2[TrailingZeros[m]] THEN seed = Tree(d)[m][0] /\ P = R
                 ELSE P = <<seed>> \o R
      BY <2>4
    <3> QED BY <1>9, <3>1, <3>2, LiftReplays
  <2>6. VerifyConsistency(proof, Tree(d)[m][0], Tree(d)[n][0])
    BY <1>6, <1>9, <2>5 DEF VerifyConsistency, Replays
  <2> QED BY <1>1, <1>3, <1>4, <1>6, <1>7, <2>6
<1> QED BY <1>1, <1>8, <1>9

\* Every snapshot is such a first part.
LEMMA ConsistencyCompleteState == TypeOK => ConsistencyComplete
<1> SUFFICES ASSUME TypeOK, NEW l \in Logs, NEW old \in Snapshots(l) \ {<<>>}
             PROVE  \E proof \in ConsistencyProof(leaves[l], Len(old)) :
                        VerifyConsistency(proof, Root(old), Root(leaves[l]))
  BY DEF ConsistencyComplete
<1>1. PICK d \in Seq(L) : d = leaves[l] /\ Len(d) <= Half BY TypeFacts
<1>2. old \in Seq(L) /\ Len(old) \in 0..Len(d) /\ old = FirstPart(d, Len(old))
  BY <1>1, SnapshotFacts
<1>3. PICK m \in Nat : m = Len(old) /\ 0 < m /\ m <= Len(d)
  <2>1. Len(old) # 0 BY <1>2
  <2> QED BY <1>2, <2>1
<1> QED BY <1>1, <1>2, <1>3, ConsistencyWorks

\* A log can always prove to the holder of an earlier head of its own that it has
\* only grown (consistency_proof and verify_consistency).
THEOREM ConsistencyIsComplete == Spec => []ConsistencyComplete
  BY TypeCorrect, ConsistencyCompleteState, PTL

\* Soundness one way, completeness the other.
LEMMA ProofsAreExtensionState == TypeOK => ProofsAreExtension
<1> SUFFICES ASSUME TypeOK, NEW from \in Logs, NEW to \in Logs,
                    NEW old \in Snapshots(from) \ {<<>>}
             PROVE  LET new == leaves[to] IN
                    (\E l \in Logs : \E proof \in ConsistencyProof(leaves[l], Len(old)) :
                         /\ proof.second_size = Len(new)
                         /\ VerifyConsistency(proof, Root(old), Root(new)))
                    <=> S!IsPrefix(old, new)
  BY DEF ProofsAreExtension
<1>1. PICK d \in Seq(L) : d = leaves[to] /\ Len(d) <= Half BY TypeFacts
<1>2. old \in Seq(L) /\ Len(old) \in 0..Len(leaves[from]) BY SnapshotFacts
<1>3. PICK m \in Nat : m = Len(old) /\ 0 < m
  <2>1. Len(old) # 0 BY <1>2
  <2> QED BY <1>2, <2>1
<1>4. ASSUME NEW l \in Logs, NEW proof \in ConsistencyProof(leaves[l], m),
             proof.second_size = Len(d), VerifyConsistency(proof, Root(old), Root(d))
      PROVE  S!IsPrefix(old, d)
  <2>1. PICK e \in Seq(L) : e = leaves[l] /\ Len(e) <= Half BY TypeFacts
  <2>2. PICK n \in Nat : n = Len(e) BY <2>1
  <2>3. PICK P : P = IF m = n THEN <<>> ELSE ConsSubproof(m, e, TRUE) OBVIOUS
  <2>4. ~(m = 0 \/ m > n) /\ proof = [first_size |-> m, second_size |-> n, path |-> P]
    BY <1>4, <2>1, <2>2, <2>3 DEF ConsistencyProof
  <2>5. m \in Words /\ n \in Words
    <3>1. n > 0 /\ n - 1 \in Nat /\ n - 1 < n /\ n <= Half BY <1>3, <2>1, <2>2, <2>4
    <3>2. n \in Words BY <3>1, HalfFacts
    <3>3. m = n \/ (m < n /\ n <= Half) BY <2>4, <3>1
    <3>4. m < n => m \in Words BY <3>1, HalfFacts
    <3> QED BY <3>2, <3>3, <3>4
  <2>6. P \in Seq(Hashes(e))
    <3>1. ConsSubproof(m, e, TRUE) \in Seq(Hashes(e)) BY <2>2, ConsTyped DEF ConsSubproof
    <3>2. <<>> \in Seq(Hashes(e)) OBVIOUS
    <3> QED BY <2>3, <3>1, <3>2
  <2>7. VerifyConsistency([first_size |-> m, second_size |-> n, path |-> P], Mth(old), Mth(d))
    BY <1>4, <2>4 DEF Root
  <2> QED BY <1>1, <1>2, <2>5, <2>6, <2>7, ConsistencyMeansPrefix DEF L
<1>5. ASSUME S!IsPrefix(old, d)
      PROVE  \E proof \in ConsistencyProof(leaves[to], m) :
                 proof.second_size = Len(d) /\ VerifyConsistency(proof, Root(old), Root(d))
  <2>1. m <= Len(d) /\ \A x \in 1..m : old[x] = d[x] BY <1>1, <1>2, <1>3, <1>5, PrefixDef
  <2>2. old = FirstPart(d, m)
    <3>1. m \in 0..Len(d) BY <1>1, <2>1
    <3>2. /\ FirstPart(d, m) \in Seq(L) /\ Len(FirstPart(d, m)) = m
          /\ \A x \in 1..m : FirstPart(d, m)[x] = d[x]
      BY <1>1, <3>1, Parts
    <3>3. \A x \in 1..m : old[x] = FirstPart(d, m)[x] BY <2>1, <3>2
    <3> QED BY <1>2, <1>3, <3>2, <3>3, SeqEqual
  <2> QED BY <1>1, <1>3, <2>1, <2>2, ConsistencyWorks
<1> QED BY <1>1, <1>3, <1>4, <1>5

\* Between genuine heads some proof in circulation is accepted exactly when the
\* old log is a non-empty prefix of the new one: what the models of the witnesses
\* and of the sessions take verify_consistency to be (VerifyConsistency of
\* TreeHeads) is what the code computes, for logs of any size.
THEOREM ProofsMeanExtension == Spec => []ProofsAreExtension
  BY TypeCorrect, ProofsAreExtensionState, PTL

\* Appending three leaves more stays within half the range.
LEMMA EveryShapeState ==
    ASSUME MaxSize + 3 <= Pow2[Width - 1]
    PROVE  TypeOK => EveryShapeVerifies
<1> SUFFICES ASSUME TypeOK, NEW l \in Logs, NEW c \in 0..3
             PROVE  LET d == Continued(l, c)
                        root == Root(d)
                    IN  /\ \A i \in Len(leaves[l])..(Len(d) - 1) :
                               \E proof \in InclusionProof(d, i) :
                                   VerifyInclusion(i - Len(leaves[l]) + 1, proof, root)
                        /\ \A k \in 1..Len(d) :
                               \E proof \in ConsistencyProof(d, k) :
                                   VerifyConsistency(proof, Root(FirstPart(d, k)), root)
  BY DEF EveryShapeVerifies
<1> DEFINE E == L \cup {LeafHash(i) : i \in 1..c}
           more == [i \in 1..c |-> LeafHash(i)]
<1>1. PICK q \in Nat : q = Len(leaves[l]) /\ q <= MaxSize BY TypeFacts, LogAssumption
<1>2. leaves[l] \in Seq(E)
  <2>1. leaves[l] \in Seq(L) BY TypeFacts
  <2> QED BY <2>1
<1>3. c \in Nat /\ more \in Seq(E) /\ Len(more) = c /\ \A i \in 1..c : more[i] = LeafHash(i)
  OBVIOUS
<1> HIDE DEF more, E
<1>4. PICK d \in Seq(E) : d = Continued(l, c) /\ d = leaves[l] \o more
  <2>1. leaves[l] \o more \in Seq(E) BY <1>2, <1>3
  <2> QED BY <2>1 DEF Continued, more
<1>5. Len(d) = q + c /\ \A i \in 1..c : d[q + i] = LeafHash(i) BY <1>1, <1>2, <1>3, <1>4
<1>6. Len(d) <= Half
  <2>1. Half \in Nat /\ MaxSize + 3 <= Half /\ MaxSize \in Nat
    BY LogAssumption, WidthFacts, Pow2Facts DEF Half
  <2> QED BY <1>1, <1>5, <2>1
<1>7. ASSUME NEW i \in q..(Len(d) - 1)
      PROVE  \E proof \in InclusionProof(d, i) : VerifyInclusion(i - q + 1, proof, Root(d))
  <2>1. PICK m \in 1..c : m = i - q + 1 /\ q + m = i + 1 BY <1>5
  <2>2. d[i + 1] = LeafHash(m) BY <1>5, <2>1
  <2>3. i \in 0..(Len(d) - 1) BY <1>1, <1>5
  <2> QED BY <1>6, <2>1, <2>2, <2>3, InclusionWorks
<1>8. ASSUME NEW k \in 1..Len(d)
      PROVE  \E proof \in ConsistencyProof(d, k) :
                 VerifyConsistency(proof, Root(FirstPart(d, k)), Root(d))
  <2>1. k \in Nat /\ 0 < k /\ k <= Len(d) BY <1>5
  <2> QED BY <1>6, <2>1, ConsistencyWorks
<1> QED BY <1>1, <1>4, <1>7, <1>8

\* Every shape of tree has proofs that are accepted, while three leaves more than
\* the bound still fit in half the range of the integers.
THEOREM EveryShapeIsVerified ==
    ASSUME MaxSize + 3 <= Pow2[Width - 1]
    PROVE  Spec => []EveryShapeVerifies
<1>1. TypeOK => EveryShapeVerifies BY EveryShapeState
<1> QED BY <1>1, TypeCorrect, PTL
=============================================================================
