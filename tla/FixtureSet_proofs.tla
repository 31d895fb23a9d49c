-------------------------- MODULE FixtureSet_proofs -------------------------
(***************************************************************************)
(* What the fixtures promise, for any archives, manifests and versions.     *)
(***************************************************************************)
EXTENDS FixtureSet, WellFoundedInduction, FiniteSetTheorems, TLAPS

\* Induction, for a set of numbers.
LEMMA NumbersInduction ==
    ASSUME NEW S, 0 \in S, \A n \in Nat : n \in S => n + 1 \in S
    PROVE  Nat \subseteq S
<1> DEFINE R == OpToRel(<, Nat)
           T == Nat \ S
<1> SUFFICES ASSUME T # {} PROVE FALSE
    OBVIOUS
<1>1. IsWellFoundedOn(R, Nat)
    BY NatLessThanWellFounded
<1>2. \A x, y \in Nat : x < y => <<x, y>> \in R
    BY DEF OpToRel
<1> HIDE DEF R
<1>3. PICK m \in T : \A k \in T : <<k, m>> \notin R
    BY <1>1, WFMin
<1>4. m # 0 /\ m \in Nat
    BY <1>3
<1>5. m - 1 \in Nat /\ m - 1 < m
    BY <1>4
<1>6. m - 1 \in S
    BY <1>2, <1>3, <1>5
<1>7. (m - 1) + 1 = m
    BY <1>4
<1> QED BY <1>3, <1>5, <1>6, <1>7

-----------------------------------------------------------------------------
(***************************************************************************)
(* Where a queue ends.                                                     *)
(***************************************************************************)
More(X, next) == X \cup UNION {next[x] : x \in X}

\* The first n turns of the queue.
Turns(f, n, from, next) ==
    f = [k \in 0..n |-> IF k = 0 THEN from
                        ELSE f[k - 1] \cup UNION {next[x] : x \in f[k - 1]}]

LEMMA TurnsExist ==
    ASSUME NEW from, NEW next, NEW n \in Nat PROVE \E f : Turns(f, n, from, next)
<1> DEFINE S == {k \in Nat : \E f : Turns(f, k, from, next)}
<1>1. 0 \in S
    <2>1. PICK f : f = [m \in 0..0 |-> from]
        OBVIOUS
    <2>2. \A m \in 0..0 : m = 0
        OBVIOUS
    <2>3. f = [m \in 0..0 |-> IF m = 0 THEN from
                              ELSE f[m - 1] \cup UNION {next[x] : x \in f[m - 1]}]
        BY <2>1, <2>2
    <2> QED BY <2>3 DEF Turns
<1>2. ASSUME NEW k \in Nat, k \in S PROVE k + 1 \in S
    <2>1. PICK f : Turns(f, k, from, next)
        BY <1>2
    <2>2. PICK last : last = More(f[k], next)
        OBVIOUS
    <2>3. PICK g : g = [m \in 0..(k + 1) |-> IF m = k + 1 THEN last ELSE f[m]]
        OBVIOUS
    <2>4. ASSUME NEW m \in 0..(k + 1)
          PROVE  g[m] = IF m = 0 THEN from ELSE More(g[m - 1], next)
        <3>1. CASE m = k + 1
            <4>1. m # 0 /\ m - 1 = k /\ k \in 0..(k + 1) /\ k # k + 1
                BY <3>1
            <4>2. g[m] = last /\ g[k] = f[k]
                BY <2>3, <3>1, <4>1
            <4> QED BY <2>2, <4>1, <4>2
        <3>2. CASE m # k + 1
            <4>1. m \in 0..k
                BY <2>4, <3>2
            <4>2. m # 0 => m - 1 \in 0..(k + 1) /\ m - 1 # k + 1
                BY <4>1
            <4>3. g[m] = f[m] /\ (m # 0 => g[m - 1] = f[m - 1])
                BY <2>3, <3>2, <4>2
            <4>4. f[m] = IF m = 0 THEN from ELSE More(f[m - 1], next)
                BY <2>1, <4>1 DEF Turns, More
            <4> QED BY <4>3, <4>4
        <3> QED BY <3>1, <3>2
    <2>5. g = [m \in 0..(k + 1) |-> IF m = 0 THEN from ELSE More(g[m - 1], next)]
        BY <2>3, <2>4
    <2> QED BY <2>5 DEF Turns, More
<1>3. Nat \subseteq S
    <2> HIDE DEF S
    <2> QED BY <1>1, <1>2, NumbersInduction
<1> QED BY <1>3

\* X has what its members add.
Closed(X, next) == \A x \in X : next[x] \subseteq X

\* X, the k-th turn, stays in S and in whatever is closed; and unless it is closed
\* itself, every turn had one more.
Grown(X, k, S, from, next) ==
    /\ from \subseteq X /\ X \subseteq S
    /\ Closed(X, next) \/ Cardinality(X) >= k
    /\ \A C \in SUBSET S : from \subseteq C /\ Closed(C, next) => X \subseteq C

LEMMA TurnsGrow ==
    ASSUME NEW S, IsFiniteSet(S), NEW from \in SUBSET S, NEW next \in [S -> SUBSET S],
           NEW N \in Nat, NEW f, Turns(f, N, from, next), NEW n \in 0..N
    PROVE  Grown(f[n], n, S, from, next)
<1> DEFINE T == {k \in Nat : k <= N => Grown(f[k], k, S, from, next)}
<1>1. 0 \in T
    <2>1. f[0] = from
        BY DEF Turns
    <2>2. Cardinality(from) >= 0
        BY FS_Subset, FS_CardinalityType
    <2>3. Grown(from, 0, S, from, next)
        BY <2>2 DEF Grown
    <2> QED BY <2>1, <2>3
<1>2. ASSUME NEW k \in Nat, k \in T PROVE k + 1 \in T
    <2> SUFFICES ASSUME k + 1 <= N PROVE Grown(f[k + 1], k + 1, S, from, next)
        OBVIOUS
    <2>1. PICK X : X = f[k]
        OBVIOUS
    <2>2. PICK Y : Y = More(X, next)
        OBVIOUS
    <2>3. f[k + 1] = Y
        <3>1. k + 1 \in 0..N /\ k + 1 # 0 /\ (k + 1) - 1 = k
            OBVIOUS
        <3>2. f[k + 1] = More(f[k], next)
            BY <3>1 DEF Turns, More
        <3> QED BY <2>1, <2>2, <3>2
    <2>4. Grown(X, k, S, from, next)
        BY <1>2, <2>1
    <2>5. from \subseteq Y /\ Y \subseteq S /\ X \subseteq Y
        BY <2>2, <2>4 DEF More, Grown
    <2>6. ASSUME NEW C \in SUBSET S, from \subseteq C, Closed(C, next) PROVE Y \subseteq C
        BY <2>2, <2>4, <2>6 DEF More, Closed, Grown
    <2>7. Closed(Y, next) \/ Cardinality(Y) >= k + 1
        <3>1. CASE Closed(X, next)
            <4>1. Y = X
                BY <2>2, <3>1 DEF More, Closed
            <4> QED BY <3>1, <4>1
        <3>2. CASE ~Closed(X, next)
            <4>1. X # Y
                BY <2>2, <3>2 DEF More, Closed
            <4>2. IsFiniteSet(Y)
                BY <2>5, FS_Subset
            <4>3. Cardinality(X) <= Cardinality(Y) /\ Cardinality(X) # Cardinality(Y)
                BY <2>5, <4>1, <4>2, FS_Subset
            <4>4. Cardinality(X) \in Nat /\ Cardinality(Y) \in Nat
                BY <2>5, <4>2, FS_Subset, FS_CardinalityType
            <4>5. Cardinality(X) >= k
                BY <2>4, <3>2 DEF Grown
            <4> QED BY <4>3, <4>4, <4>5
        <3> QED BY <3>1, <3>2
    <2>8. Grown(Y, k + 1, S, from, next)
        BY <2>5, <2>6, <2>7 DEF Grown
    <2> QED BY <2>3, <2>8
<1>3. Nat \subseteq T
    <2> HIDE DEF T
    <2> QED BY <1>1, <1>2, NumbersInduction
<1>4. n \in T /\ n <= N
    BY <1>3
<1> QED BY <1>4

\* A queue ends with the least set that has what it begins with and what the
\* members of the set add; each of them was there first or was added by another.
LEMMA ReachedIsLeast ==
    ASSUME NEW S, IsFiniteSet(S), NEW from \in SUBSET S, NEW next \in [S -> SUBSET S],
           NEW R, R = Reached(S, from, next)
    PROVE  /\ from \subseteq R /\ R \subseteq S /\ Closed(R, next)
           /\ \A C \in SUBSET S : from \subseteq C /\ Closed(C, next) => R \subseteq C
           /\ \A y \in R : y \in from \/ \E x \in R : y \in next[x]
<1>1. PICK N \in Nat : N = Cardinality(S)
    BY FS_CardinalityType
<1>2. PICK f : Turns(f, N, from, next) /\ R = f[N]
    <2> DEFINE g == CHOOSE h : Turns(h, N, from, next)
    <2>1. Turns(g, N, from, next)
        BY TurnsExist
    <2>2. R = g[N]
        BY <1>1 DEF Reached, Turns
    <2> HIDE DEF g
    <2> QED BY <2>1, <2>2
<1>4. N \in 0..N
    OBVIOUS
<1>5. /\ from \subseteq R /\ R \subseteq S
      /\ Closed(R, next) \/ Cardinality(R) >= N
      /\ \A C \in SUBSET S : from \subseteq C /\ Closed(C, next) => R \subseteq C
    <2>1. Grown(f[N], N, S, from, next)
        BY <1>2, <1>4, TurnsGrow
    <2> QED BY <1>2, <2>1 DEF Grown
<1>6. Closed(R, next)
    <2>1. Cardinality(R) <= N /\ Cardinality(R) \in Nat /\ (N = Cardinality(R) => S = R)
        BY <1>1, <1>5, FS_Subset, FS_CardinalityType
    <2>2. S = R => Closed(R, next)
        BY DEF Closed
    <2> QED BY <1>5, <2>1, <2>2
<1>7. PICK C : C = {y \in R : y \in from \/ \E x \in R : y \in next[x]}
    OBVIOUS
<1>8. C \in SUBSET S /\ from \subseteq C /\ Closed(C, next)
    BY <1>5, <1>6, <1>7 DEF Closed
<1> QED BY <1>5, <1>6, <1>7, <1>8

\* Of finitely many things one has the greatest rank.
LEMMA GreatestExists ==
    ASSUME NEW T, IsFiniteSet(T), T # {}, NEW rank \in [T -> Nat]
    PROVE  \E p \in T : \A q \in T : rank[q] <= rank[p]
<1>1. PICK n \in Nat : n = Cardinality(T)
    BY FS_CardinalityType
<1>2. PICK b \in Bijection(1..n, T) : TRUE
    BY <1>1, FS_CardinalityType DEF ExistsBijection
<1>3. b \in [1..n -> T] /\ \A q \in T : \E k \in 1..n : b[k] = q
    BY DEF Bijection, Injection, Surjection
<1> DEFINE Best(k) == \E m \in 1..k : \A j \in 1..k : rank[b[j]] <= rank[b[m]]
           K == {k \in Nat : k + 1 <= n => Best(k + 1)}
<1>4. 0 \in K
    <2> SUFFICES ASSUME 1 <= n PROVE Best(1)
        OBVIOUS
    <2>1. rank[b[1]] \in Nat
        BY <1>3
    <2>2. \A j \in 1..1 : j = 1
        OBVIOUS
    <2> QED BY <2>1, <2>2
<1>5. ASSUME NEW k \in Nat, k \in K PROVE k + 1 \in K
    <2> SUFFICES ASSUME (k + 1) + 1 <= n PROVE Best((k + 1) + 1)
        OBVIOUS
    <2>1. PICK m \in 1..(k + 1) : \A j \in 1..(k + 1) : rank[b[j]] <= rank[b[m]]
        BY <1>5
    <2>2. \A j \in 1..((k + 1) + 1) : /\ rank[b[j]] \in Nat
                                      /\ j \in 1..(k + 1) \/ j = (k + 1) + 1
        BY <1>3
    <2>3. m \in 1..((k + 1) + 1) /\ (k + 1) + 1 \in 1..((k + 1) + 1)
        OBVIOUS
    <2>4. CASE rank[b[(k + 1) + 1]] <= rank[b[m]]
        BY <2>1, <2>2, <2>3, <2>4
    <2>5. CASE ~(rank[b[(k + 1) + 1]] <= rank[b[m]])
        <3>1. \A j \in 1..((k + 1) + 1) : rank[b[j]] <= rank[b[(k + 1) + 1]]
            BY <2>1, <2>2, <2>3, <2>5
        <3> QED BY <2>3, <3>1
    <2> QED BY <2>4, <2>5
<1>6. Nat \subseteq K
    <2> HIDE DEF K
    <2> QED BY <1>4, <1>5, NumbersInduction
<1>7. n # 0
    BY <1>3
<1>8. n - 1 \in Nat /\ (n - 1) + 1 = n
    BY <1>7
<1>9. Best((n - 1) + 1)
    <2>1. n - 1 \in K
        <3> HIDE DEF K
        <3> QED BY <1>6, <1>8
    <2>2. (n - 1) + 1 <= n
        BY <1>8
    <2> QED BY <2>1, <2>2
<1>10. Best(n)
    BY <1>8, <1>9
<1> QED BY <1>3, <1>10

-----------------------------------------------------------------------------
(***************************************************************************)
(* Packages and what is chosen of them.                                    *)
(***************************************************************************)
\* What the archives at hand are, and any choice of them.
Archives(S) ==
    /\ IsFiniteSet(S) /\ S \subseteq Package
    /\ \A p, q \in S : Id(p) = Id(q) => p = q

LEMMA SomeArchives == ASSUME NEW S, Archives(S), NEW R \in SUBSET S PROVE Archives(R)
BY FS_Subset DEF Archives

LEMMA PackageParts ==
    ASSUME NEW S, Archives(S), NEW p \in S
    PROVE  /\ p.name \in Names /\ p.version \in Versions /\ p.version \in Nat
           /\ p.deps \subseteq Entry
           /\ Id(p) \in Names \X Versions /\ Id(p) # Root /\ Id(p) # Any
           /\ Id(p)[1] = p.name /\ Id(p)[2] = p.version
<1>1. p \in Package
    BY DEF Archives
<1>2. p.name \in Names /\ p.version \in Versions /\ p.deps \subseteq Entry
    BY <1>1 DEF Package
<1>3. p.version \in Nat
    BY <1>2, ClosureAssumption
<1>4. Id(p) \in Names \X Versions /\ Id(p)[1] = p.name /\ Id(p)[2] = p.version
    BY <1>2 DEF Id
<1>5. Id(p) # Root /\ Id(p) # Any
    BY <1>4, ClosureAssumption
<1> QED BY <1>2, <1>3, <1>4, <1>5

\* A line selects one package at most, and one if any satisfies it.
LEMMA ChosenOnce ==
    ASSUME NEW S, Archives(S), NEW e
    PROVE  /\ Choose(S, e) \subseteq Satisfying(S, e) /\ Satisfying(S, e) \subseteq S
           /\ \A p, q \in Choose(S, e) : p = q
           /\ Satisfying(S, e) # {} => Choose(S, e) # {}
<1>1. Choose(S, e) \subseteq Satisfying(S, e) /\ Satisfying(S, e) \subseteq S
    BY DEF Choose, Satisfying
<1>2. \A p \in S : p.version \in Nat
    BY PackageParts
<1>3. ASSUME NEW p \in Choose(S, e), NEW q \in Choose(S, e) PROVE p = q
    <2>1. p.name = q.name /\ p.version >= q.version /\ q.version >= p.version
        BY <1>3 DEF Choose, Satisfying
    <2>2. p.version = q.version
        BY <1>1, <1>2, <2>1
    <2> QED BY <1>1, <2>1, <2>2 DEF Archives, Id
<1>4. ASSUME Satisfying(S, e) # {} PROVE Choose(S, e) # {}
    <2>1. PICK T : T = Satisfying(S, e)
        OBVIOUS
    <2>2. IsFiniteSet(T) /\ T \subseteq S
        BY <1>1, <2>1, FS_Subset DEF Archives
    <2>3. PICK rank : rank = [p \in T |-> p.version]
        OBVIOUS
    <2>4. rank \in [T -> Nat]
        BY <1>2, <2>2, <2>3
    <2>5. PICK p \in T : \A q \in T : rank[q] <= rank[p]
        BY <1>4, <2>1, <2>2, <2>4, GreatestExists
    <2>6. \A q \in T : p.version >= q.version
        BY <1>2, <2>2, <2>3, <2>5
    <2> QED BY <2>1, <2>6 DEF Choose
<1> QED BY <1>1, <1>3, <1>4

\* Of fewer packages the same one is selected, if it is among them.
LEMMA ChosenAgain ==
    ASSUME NEW S, Archives(S), NEW R \in SUBSET S, NEW e, Choose(S, e) \subseteq R
    PROVE  Choose(R, e) = Choose(S, e)
<1>1. \A p \in S : p.version \in Nat
    BY PackageParts
<1>2. ASSUME NEW p \in Choose(S, e) PROVE p \in Choose(R, e)
    BY <1>2 DEF Choose, Satisfying
<1>3. ASSUME NEW p \in Choose(R, e) PROVE p \in Choose(S, e)
    <2>1. p \in Satisfying(S, e)
        BY <1>3 DEF Choose, Satisfying
    <2>2. PICK q : q \in Choose(S, e)
        BY <2>1, ChosenOnce
    <2>3. q \in Choose(R, e) /\ Archives(R)
        BY <1>2, <2>2, SomeArchives
    <2>4. p = q
        BY <1>3, <2>3, ChosenOnce
    <2> QED BY <2>2, <2>4
<1> QED BY <1>2, <1>3

-----------------------------------------------------------------------------
(***************************************************************************)
(* The closure of a preparation.                                           *)
(***************************************************************************)
\* R is the closure: what the lines of the root select and the lines of what is
\* in it, and no more.
IsClosure(R, S, ds) ==
    /\ R \subseteq S
    /\ \A e \in ds : Choose(S, e) \subseteq R
    /\ \A p \in R : \A e \in p.deps : Choose(S, e) \subseteq R
    /\ \A p \in R : \/ \E e \in ds : p \in Choose(S, e)
                    \/ \E q \in R : \E e \in q.deps : p \in Choose(S, e)
    /\ \A C \in SUBSET S :
          /\ \A e \in ds : Choose(S, e) \subseteq C
          /\ \A p \in C : \A e \in p.deps : Choose(S, e) \subseteq C
          => R \subseteq C

LEMMA ClosureIsClosure ==
    ASSUME NEW S, Archives(S), NEW ds PROVE IsClosure(Closure(S, ds), S, ds)
<1>1. PICK R, from, next :
         /\ R = Closure(S, ds) /\ from = Chosen(S, ds)
         /\ next = [p \in S |-> Chosen(S, p.deps)]
    OBVIOUS
<1>2. from \in SUBSET S /\ next \in [S -> SUBSET S]
    BY <1>1, ChosenOnce DEF Chosen
<1>3. R = Reached(S, from, next)
    BY <1>1 DEF Closure
<1>4. /\ from \subseteq R /\ R \subseteq S /\ Closed(R, next)
      /\ \A C \in SUBSET S : from \subseteq C /\ Closed(C, next) => R \subseteq C
      /\ \A y \in R : y \in from \/ \E x \in R : y \in next[x]
    BY <1>2, <1>3, ReachedIsLeast DEF Archives
<1>5. \A p \in S : next[p] = UNION {Choose(S, e) : e \in p.deps}
    BY <1>1 DEF Chosen
<1>6. from = UNION {Choose(S, e) : e \in ds}
    BY <1>1 DEF Chosen
<1>7. \A e \in ds : Choose(S, e) \subseteq R
    BY <1>4, <1>6
<1>8. \A p \in R : \A e \in p.deps : Choose(S, e) \subseteq R
    BY <1>4, <1>5 DEF Closed
<1>9. \A p \in R : \/ \E e \in ds : p \in Choose(S, e)
                   \/ \E q \in R : \E e \in q.deps : p \in Choose(S, e)
    BY <1>4, <1>5, <1>6
<1>10. ASSUME NEW C \in SUBSET S,
              \A e \in ds : Choose(S, e) \subseteq C,
              \A p \in C : \A e \in p.deps : Choose(S, e) \subseteq C
       PROVE  R \subseteq C
    <2>1. from \subseteq C
        BY <1>6, <1>10
    <2>2. Closed(C, next)
        BY <1>5, <1>10 DEF Closed
    <2> QED BY <1>4, <2>1, <2>2
<1> QED BY <1>1, <1>4, <1>7, <1>8, <1>9, <1>10 DEF IsClosure

\* The edges, which are chosen anew, select what the closure did; and a closure
\* that was complete is so without the archives that it left aside.
LEMMA ChosenInClosure ==
    ASSUME NEW S, Archives(S), NEW ds, NEW R, R = Closure(S, ds)
    PROVE  /\ \A e \in ds : Choose(R, e) = Choose(S, e)
           /\ \A p \in R : \A e \in p.deps : Choose(R, e) = Choose(S, e)
BY ClosureIsClosure, ChosenAgain DEF IsClosure

LEMMA StillComplete ==
    ASSUME NEW S, Archives(S), NEW ds, NEW R, R = Closure(S, ds), Complete(S, ds)
    PROVE  Complete(R, ds)
<1>1. IsClosure(R, S, ds) /\ Archives(R)
    BY ClosureIsClosure, SomeArchives DEF IsClosure
<1>2. Closure(R, ds) \subseteq R
    BY <1>1, ClosureIsClosure DEF IsClosure
<1>3. ~Lacks(R, ds)
    BY ChosenInClosure DEF Complete, Lacks
<1>4. \A p \in R : ~Lacks(R, p.deps)
    BY ChosenInClosure DEF Complete, Lacks
<1> QED BY <1>2, <1>3, <1>4 DEF Complete
\* The selection is its own closure, and nothing that it needs is missing.
Standing(R, ds) ==
    /\ Archives(R) /\ IsClosure(R, R, ds)
    /\ ~Lacks(R, ds) /\ \A p \in R : ~Lacks(R, p.deps)

LEMMA ClosureStands ==
    ASSUME NEW S, Archives(S), NEW ds, NEW R, R = Closure(S, ds), Complete(S, ds)
    PROVE  Standing(R, ds)
<1>1. IsClosure(R, S, ds) /\ Archives(R)
    BY ClosureIsClosure, SomeArchives DEF IsClosure
<1>2. /\ \A e \in ds : Choose(R, e) = Choose(S, e)
      /\ \A p \in R : \A e \in p.deps : Choose(R, e) = Choose(S, e)
    BY ChosenInClosure
<1>3. ~Lacks(R, ds) /\ \A p \in R : ~Lacks(R, p.deps)
    BY <1>2 DEF Complete, Lacks
<1>4. IsClosure(R, R, ds)
    <2>1. ASSUME NEW C \in SUBSET R, \A e \in ds : Choose(R, e) \subseteq C,
                 \A p \in C : \A e \in p.deps : Choose(R, e) \subseteq C
          PROVE  R \subseteq C
        <3>1. C \in SUBSET S
            BY <1>1 DEF IsClosure
        <3>2. \A e \in ds : Choose(S, e) \subseteq C
            BY <1>2, <2>1
        <3>3. \A p \in C : \A e \in p.deps : Choose(S, e) \subseteq C
            BY <1>2, <2>1
        <3> QED BY <1>1, <3>1, <3>2, <3>3 DEF IsClosure
    <2>2. /\ \A e \in ds : Choose(R, e) \subseteq R
          /\ \A p \in R : \A e \in p.deps : Choose(R, e) \subseteq R
        BY <1>1, <1>2 DEF IsClosure
    <2>3. \A p \in R : \/ \E e \in ds : p \in Choose(R, e)
                       \/ \E q \in R : \E e \in q.deps : p \in Choose(R, e)
        BY <1>1, <1>2 DEF IsClosure
    <2> QED BY <2>1, <2>2, <2>3 DEF IsClosure
<1> QED BY <1>1, <1>3, <1>4 DEF Standing

-----------------------------------------------------------------------------
(***************************************************************************)
(* The edges.                                                              *)
(***************************************************************************)
Ids(R) == {Id(p) : p \in R}

\* The lines of a package of the selection are its own.
LEMMA DepsOfPackage ==
    ASSUME NEW R, Archives(R), NEW ds
    PROVE  DepsOf(R, Root, ds) = ds /\ \A p \in R : DepsOf(R, Id(p), ds) = p.deps
<1>1. ASSUME NEW p \in R PROVE DepsOf(R, Id(p), ds) = p.deps
    <2>1. {q \in R : Id(q) = Id(p)} = {p}
        BY DEF Archives
    <2>2. UNION {q.deps : q \in {p}} = p.deps
        OBVIOUS
    <2> QED BY <2>1, <2>2, PackageParts DEF DepsOf
<1> QED BY <1>1 DEF DepsOf

\* The line e of the parent selects p.
Leads(R, ds, d, parent, e, p) ==
    /\ parent \in {Root} \cup Ids(R) /\ e \in DepsOf(R, parent, ds) /\ p \in Choose(R, e)
    /\ d.parent = parent /\ d.entry = e /\ d.child = Id(p)

LEMMA EdgesLead ==
    ASSUME NEW R, Archives(R), NEW ds
    PROVE  /\ \A d \in Edges(R, ds) : \E parent, e, p :
                 /\ Leads(R, ds, d, parent, e, p)
                 /\ d = [parent |-> parent, entry |-> e, child |-> Id(p)]
           /\ \A parent \in {Root} \cup Ids(R) : \A e \in DepsOf(R, parent, ds) :
              \A p \in Choose(R, e) :
                 /\ [parent |-> parent, entry |-> e, child |-> Id(p)] \in Edges(R, ds)
                 /\ Leads(R, ds, [parent |-> parent, entry |-> e, child |-> Id(p)], parent, e, p)
<1> DEFINE From(parent, entries) ==
        UNION {{[parent |-> parent, entry |-> e, child |-> Id(p)] :
                    p \in Choose(R, e)} : e \in entries}
<1>1. Edges(R, ds) = From(Root, ds) \cup UNION {From(Id(q), q.deps) : q \in R}
    BY DEF Edges
<1>2. \A parent, entries, d : d \in From(parent, entries) <=>
        \E e \in entries : \E p \in Choose(R, e) :
            d = [parent |-> parent, entry |-> e, child |-> Id(p)]
    OBVIOUS
<1> HIDE DEF From
<1>3. \A d : d \in Edges(R, ds) <=>
            \/ d \in From(Root, ds)
            \/ \E q \in R : d \in From(Id(q), q.deps)
    BY <1>1
<1>4. ASSUME NEW d \in Edges(R, ds)
      PROVE  \E parent \in {Root} \cup Ids(R) : \E e \in DepsOf(R, parent, ds) :
             \E p \in Choose(R, e) : d = [parent |-> parent, entry |-> e, child |-> Id(p)]
    BY <1>2, <1>3, DepsOfPackage DEF Ids
<1>5. ASSUME NEW parent \in {Root} \cup Ids(R), NEW e \in DepsOf(R, parent, ds),
             NEW p \in Choose(R, e)
      PROVE  [parent |-> parent, entry |-> e, child |-> Id(p)] \in Edges(R, ds)
    <2>1. PICK d : d = [parent |-> parent, entry |-> e, child |-> Id(p)]
        OBVIOUS
    <2>2. \/ parent = Root /\ e \in ds
          \/ \E q \in R : parent = Id(q) /\ e \in q.deps
        BY DepsOfPackage DEF Ids
    <2>3. d \in Edges(R, ds)
        BY <1>2, <1>3, <2>1, <2>2
    <2> QED BY <2>1, <2>3
<1> QED BY <1>4, <1>5 DEF Leads

\* Every package of the selection is the child of an edge.
LEMMA EveryoneIsLedTo ==
    ASSUME NEW R, NEW ds, Standing(R, ds), NEW p \in R
    PROVE  \E d \in Edges(R, ds) : \E parent, e : Leads(R, ds, d, parent, e, p)
<1>1. Archives(R) /\ IsClosure(R, R, ds)
    BY DEF Standing
<1>2. \E parent \in {Root} \cup Ids(R) : \E e \in DepsOf(R, parent, ds) : p \in Choose(R, e)
    BY <1>1, DepsOfPackage DEF IsClosure, Ids
<1> QED BY <1>1, <1>2, EdgesLead

\* No line has two edges: a manifest names a package twice, or each edge is the
\* only one from its parent to that name.
LEMMA OneEdge ==
    ASSUME NEW R, Archives(R), NEW ds
    PROVE  (\A c, d \in Edges(R, ds) :
                c.parent = d.parent /\ c.entry.dep = d.entry.dep => c = d)
           <=> ~\E parent \in {Root} \cup Ids(R) : \E d, e \in DepsOf(R, parent, ds) :
                   d # e /\ d.dep = e.dep /\ Choose(R, d) # {} /\ Choose(R, e) # {}
<1>1. ASSUME NEW parent \in {Root} \cup Ids(R),
             NEW d \in DepsOf(R, parent, ds), NEW e \in DepsOf(R, parent, ds),
             d # e, d.dep = e.dep, Choose(R, d) # {}, Choose(R, e) # {}
      PROVE  \E x, y \in Edges(R, ds) :
                x.parent = y.parent /\ x.entry.dep = y.entry.dep /\ x # y
    <2>1. PICK p, q : p \in Choose(R, d) /\ q \in Choose(R, e)
        BY <1>1
    <2>2. PICK x, y : /\ x \in Edges(R, ds) /\ y \in Edges(R, ds)
                      /\ Leads(R, ds, x, parent, d, p) /\ Leads(R, ds, y, parent, e, q)
        BY <2>1, EdgesLead
    <2> QED BY <1>1, <2>2 DEF Leads
<1>2. ASSUME NEW c \in Edges(R, ds), NEW d \in Edges(R, ds),
             c.parent = d.parent, c.entry.dep = d.entry.dep, c # d
      PROVE  \E parent \in {Root} \cup Ids(R) : \E x, y \in DepsOf(R, parent, ds) :
                x # y /\ x.dep = y.dep /\ Choose(R, x) # {} /\ Choose(R, y) # {}
    <2>1. PICK parent, x, p : /\ Leads(R, ds, c, parent, x, p)
                              /\ c = [parent |-> parent, entry |-> x, child |-> Id(p)]
        BY EdgesLead
    <2>2. PICK other, y, q : /\ Leads(R, ds, d, other, y, q)
                             /\ d = [parent |-> other, entry |-> y, child |-> Id(q)]
        BY EdgesLead
    <2>3. parent = other /\ x.dep = y.dep
        BY <1>2, <2>1, <2>2 DEF Leads
    <2>4. x # y
        <3>1. x = y => p = q
            BY <2>1, <2>2, ChosenOnce DEF Leads
        <3> QED BY <1>2, <2>1, <2>2, <2>3, <3>1
    <2> QED BY <2>1, <2>2, <2>3, <2>4 DEF Leads
<1> QED BY <1>1, <1>2

LEMMA IdsFinite == ASSUME NEW R, IsFiniteSet(R) PROVE IsFiniteSet({Root} \cup Ids(R))
<1>1. PICK f : f = [p \in R |-> Id(p)]
    OBVIOUS
<1>2. f \in Surjection(R, Ids(R))
    BY <1>1 DEF Ids, Surjection
<1>3. IsFiniteSet(Ids(R))
    BY <1>2, FS_Surjection
<1> QED BY <1>3, FS_Union, FS_Singleton

\* From the root the edges lead to every package.
LEMMA AllAreReached == ASSUME NEW R, NEW ds, Standing(R, ds) PROVE AllReached(R, Edges(R, ds))
<1>1. Archives(R) /\ IsClosure(R, R, ds)
    BY DEF Standing
<1>2. PICK ids, E, next, X :
         /\ ids = {Root} \cup Ids(R) /\ E = Edges(R, ds)
         /\ next = [id \in ids |-> {d.child : d \in {x \in E : x.parent = id}}]
         /\ X = Reached(ids, {Root}, next)
    OBVIOUS
<1>3. \A id \in ids : \A c : c \in next[id] <=> \E d \in E : d.parent = id /\ d.child = c
    BY <1>2
<1>4. next \in [ids -> SUBSET ids]
    <2>1. \A d \in E : d.child \in ids
        BY <1>1, <1>2, EdgesLead, ChosenOnce DEF Leads, Ids
    <2> QED BY <1>2, <2>1
<1>5. {Root} \subseteq X /\ X \subseteq ids /\ Closed(X, next)
    <2>1. IsFiniteSet(ids) /\ {Root} \in SUBSET ids
        BY <1>1, <1>2, IdsFinite DEF Archives
    <2> QED BY <1>2, <1>4, <2>1, ReachedIsLeast
<1>6. PICK C : C = {p \in R : Id(p) \in X}
    OBVIOUS
<1>7. ASSUME NEW parent \in X, NEW e \in DepsOf(R, parent, ds) PROVE Choose(R, e) \subseteq C
    <2> SUFFICES ASSUME NEW p \in Choose(R, e) PROVE p \in C
        OBVIOUS
    <2>1. PICK d \in E : Leads(R, ds, d, parent, e, p)
        BY <1>1, <1>2, <1>5, EdgesLead
    <2>2. Id(p) \in next[parent]
        BY <1>3, <1>5, <2>1 DEF Leads
    <2>3. Id(p) \in X /\ p \in R
        BY <1>1, <1>5, <2>2, ChosenOnce DEF Closed
    <2> QED BY <1>6, <2>3
<1>8. \A e \in ds : Choose(R, e) \subseteq C
    BY <1>1, <1>5, <1>7, DepsOfPackage
<1>9. \A p \in C : \A e \in p.deps : Choose(R, e) \subseteq C
    BY <1>1, <1>6, <1>7, DepsOfPackage
<1>10. R \subseteq C
    <2>1. C \in SUBSET R
        BY <1>6
    <2> QED BY <1>1, <1>8, <1>9, <2>1 DEF IsClosure
<1>11. ids = X
    BY <1>2, <1>5, <1>6, <1>10 DEF Ids
<1> QED BY <1>2, <1>11 DEF AllReached, Ids

\* What a complete preparation writes is accepted, unless a manifest names a
\* package twice or there is another tunnel.
LEMMA GraphIsAccepted ==
    ASSUME NEW R, NEW ds, Standing(R, ds)
    PROVE  GraphAccepted(R, Edges(R, ds), ds) <=>
              /\ ~\E parent \in {Root} \cup Ids(R) : \E d, e \in DepsOf(R, parent, ds) :
                     d # e /\ d.dep = e.dep /\ Choose(R, d) # {} /\ Choose(R, e) # {}
              /\ ~\E p \in R : p.name = Tunnel /\ p.version # TunnelVersion
<1>1. Archives(R) /\ IsClosure(R, R, ds)
    BY DEF Standing
<1>2. PICK E : E = Edges(R, ds)
    OBVIOUS
<1>3. ASSUME NEW d \in E
      PROVE  \E parent, e, p : /\ Leads(R, ds, d, parent, e, p) /\ p \in R
                               /\ p.name = e.dep /\ p.version \in e.range
                               /\ Id(p)[1] = p.name /\ Id(p)[2] = p.version
    <2>1. PICK parent, e, p : Leads(R, ds, d, parent, e, p)
        BY <1>1, <1>2, EdgesLead
    <2>2. p \in Satisfying(R, e)
        BY <1>1, <2>1, ChosenOnce DEF Leads
    <2>3. p \in R /\ p.name = e.dep /\ p.version \in e.range
        BY <2>2 DEF Satisfying
    <2> QED BY <1>1, <2>1, <2>3, PackageParts
<1>4. \A d \in E : /\ d.entry \in DepsOf(R, d.parent, ds) /\ d.child \in Ids(R)
                   /\ d.child[1] = d.entry.dep /\ d.child[2] \in d.entry.range
    BY <1>3 DEF Leads, Ids
<1>5. (\A d \in E : d.entry.dep = Tunnel => d.child[2] = TunnelVersion)
         <=> ~\E p \in R : p.name = Tunnel /\ p.version # TunnelVersion
    <2>1. ASSUME NEW p \in R, p.name = Tunnel, p.version # TunnelVersion
          PROVE  \E d \in E : d.entry.dep = Tunnel /\ d.child[2] # TunnelVersion
        <3>1. PICK d \in E : \E parent, e : Leads(R, ds, d, parent, e, p)
            BY <1>2, EveryoneIsLedTo
        <3>2. d.child[1] = p.name /\ d.child[2] = p.version
            BY <1>1, <3>1, PackageParts DEF Leads
        <3> QED BY <1>4, <2>1, <3>2
    <2>2. ASSUME NEW d \in E, d.entry.dep = Tunnel, d.child[2] # TunnelVersion
          PROVE  \E p \in R : p.name = Tunnel /\ p.version # TunnelVersion
        BY <1>3, <2>2 DEF Leads
    <2> QED BY <2>1, <2>2
<1>6. \A parent \in {Root} \cup Ids(R) : \A e \in DepsOf(R, parent, ds) :
         Optional(e) \/ \E d \in E : d.parent = parent /\ d.entry.dep = e.dep
    <2> SUFFICES ASSUME NEW parent \in {Root} \cup Ids(R), NEW e \in DepsOf(R, parent, ds),
                        ~Optional(e)
                 PROVE  \E d \in E : d.parent = parent /\ d.entry.dep = e.dep
        OBVIOUS
    <2>1. ~Lacks(R, DepsOf(R, parent, ds))
        BY <1>1, DepsOfPackage DEF Standing, Ids
    <2>2. PICK p : p \in Choose(R, e)
        BY <2>1 DEF Lacks
    <2>3. PICK d \in E : Leads(R, ds, d, parent, e, p)
        BY <1>1, <1>2, <2>2, EdgesLead
    <2> QED BY <2>3 DEF Leads
<1>7. (\A c, d \in E : c.parent = d.parent /\ c.entry.dep = d.entry.dep => c = d)
         <=> ~\E parent \in {Root} \cup Ids(R) : \E d, e \in DepsOf(R, parent, ds) :
                 d # e /\ d.dep = e.dep /\ Choose(R, d) # {} /\ Choose(R, e) # {}
    BY <1>1, <1>2, OneEdge
<1>8. AllReached(R, E)
    BY <1>2, AllAreReached
<1>9. GraphAccepted(R, E, ds) <=>
         /\ \A c, d \in E : c.parent = d.parent /\ c.entry.dep = d.entry.dep => c = d
         /\ \A d \in E : d.entry.dep = Tunnel => d.child[2] = TunnelVersion
    BY <1>4, <1>6, <1>8 DEF GraphAccepted, SatisfiesChild, Ids
<1> QED BY <1>2, <1>5, <1>7, <1>9

-----------------------------------------------------------------------------
(***************************************************************************)
(* The consumer.                                                           *)
(***************************************************************************)
\* The overrides lead pnpm along every edge.
LEMMA OverridesFollow ==
    ASSUME NEW S, Archives(S), NEW E, NEW d \in E, NEW q \in S,
           d.child = Id(q), q.name = d.entry.dep
    PROVE  q \in Overridden(S, E, d.parent, d.entry)
<1>1. q \in OfName(S, q.name) /\ IsFiniteSet(OfName(S, q.name))
    BY FS_Subset DEF OfName, Archives
<1>2. Cardinality(OfName(S, q.name)) \in Nat /\ Cardinality(OfName(S, q.name)) # 0
    BY <1>1, FS_CardinalityType, FS_EmptySet
<1>3. CASE Cardinality(OfName(S, q.name)) = 1
    <2>1. PICK o : o = [parent |-> Any, dep |-> q.name, child |-> Id(q)]
        OBVIOUS
    <2>2. o \in Overrides(S, E)
        BY <1>3, <2>1 DEF Overrides
    <2> QED BY <2>1, <2>2 DEF Overridden
<1>4. CASE Cardinality(OfName(S, q.name)) > 1
    <2>1. PICK o : o = [parent |-> d.parent, dep |-> d.entry.dep, child |-> d.child]
        OBVIOUS
    <2>2. o \in Overrides(S, E)
        BY <1>4, <2>1 DEF Overrides
    <2> QED BY <2>1, <2>2 DEF Overridden
<1> QED BY <1>2, <1>3, <1>4

\* Along edges that are accepted pnpm installs to the last package.
LEMMA AcceptedInstalls ==
    ASSUME NEW S, Archives(S), NEW ds, NEW E, GraphAccepted(S, E, ds)
    PROVE  Installed(S, E, ds) = S
<1> DEFINE Of(parent) == UNION {Overridden(S, E, parent, e) : e \in DepsOf(S, parent, ds)}
<1>1. PICK from, next, I :
         /\ from = Direct(S, E) \cup Of(Root) /\ next = [p \in S |-> Of(Id(p))]
         /\ I = Reached(S, from, next)
    OBVIOUS
<1>2. Installed(S, E, ds) = I
    BY <1>1 DEF Installed
<1>3. \A parent, q : q \in Of(parent) <=>
          \E e \in DepsOf(S, parent, ds) : q \in Overridden(S, E, parent, e)
    OBVIOUS
<1>4. \A parent : Of(parent) \subseteq S
    BY DEF Overridden
<1> HIDE DEF Of
<1>5. from \subseteq I /\ I \subseteq S /\ Closed(I, next)
    <2>1. from \in SUBSET S /\ next \in [S -> SUBSET S]
        BY <1>1, <1>4 DEF Direct
    <2> QED BY <1>1, <2>1, ReachedIsLeast DEF Archives
<1>6. PICK ids, step, X :
         /\ ids = {Root} \cup Ids(S)
         /\ step = [id \in ids |-> {d.child : d \in {x \in E : x.parent = id}}]
         /\ X = {Root} \cup Ids(I)
    OBVIOUS
<1>7. \A d \in E : /\ d.entry \in DepsOf(S, d.parent, ds)
                   /\ \E q \in S : d.child = Id(q) /\ q.name = d.entry.dep
    <2> SUFFICES ASSUME NEW d \in E
                 PROVE  /\ d.entry \in DepsOf(S, d.parent, ds)
                        /\ \E q \in S : d.child = Id(q) /\ q.name = d.entry.dep
        OBVIOUS
    <2>1. d.entry \in DepsOf(S, d.parent, ds) /\ d.child[1] = d.entry.dep
        BY DEF GraphAccepted, SatisfiesChild
    <2>2. PICK q \in S : d.child = Id(q)
        BY DEF GraphAccepted
    <2> QED BY <2>1, <2>2, PackageParts
<1>8. Closed(X, step)
    <2> SUFFICES ASSUME NEW d \in E, d.parent \in X PROVE d.child \in X
        BY <1>5, <1>6 DEF Closed, Ids
    <2>1. PICK q \in S : d.child = Id(q) /\ q.name = d.entry.dep
        BY <1>7
    <2>2. q \in Of(d.parent)
        BY <1>3, <1>7, <2>1, OverridesFollow
    <2>3. CASE d.parent = Root
        <3>1. q \in I
            BY <1>1, <1>5, <2>2, <2>3
        <3> QED BY <1>6, <2>1, <3>1 DEF Ids
    <2>4. CASE d.parent # Root
        <3>1. PICK p \in I : d.parent = Id(p)
            BY <1>6, <2>4 DEF Ids
        <3>2. q \in next[p]
            BY <1>1, <1>5, <2>2, <3>1
        <3>3. q \in I
            BY <1>5, <3>2 DEF Closed
        <3> QED BY <1>6, <2>1, <3>3 DEF Ids
    <2> QED BY <2>3, <2>4
<1>9. ids \subseteq X
    <2>1. ids = Reached(ids, {Root}, step)
        BY <1>6 DEF GraphAccepted, AllReached, Ids
    <2>2. IsFiniteSet(ids) /\ {Root} \in SUBSET ids
        BY <1>6, IdsFinite DEF Archives
    <2>3. step \in [ids -> SUBSET ids]
        <3>1. \A d \in E : d.child \in ids
            BY <1>6, <1>7 DEF Ids
        <3> QED BY <1>6, <3>1
    <2>4. X \in SUBSET ids /\ {Root} \subseteq X
        BY <1>5, <1>6 DEF Ids
    <2> QED BY <1>8, <2>1, <2>2, <2>3, <2>4, ReachedIsLeast
<1>10. ASSUME NEW p \in S PROVE p \in I
    <2>1. Id(p) \in X /\ Id(p) # Root
        BY <1>6, <1>9, PackageParts DEF Ids
    <2>2. PICK q \in I : Id(p) = Id(q)
        BY <1>6, <2>1 DEF Ids
    <2> QED BY <1>5, <2>2 DEF Archives
<1> QED BY <1>2, <1>5, <1>10

\* The lock is written for what is installed for the root, unless a name has two
\* versions of which the last by its text is another than the root's.
LEMMA LockedIsDirect ==
    ASSUME NEW R, Archives(R), NEW ds,
           \A c, d \in Edges(R, ds) :
                c.parent = d.parent /\ c.entry.dep = d.entry.dep => c = d
    PROVE  LockedDirect(R) = Direct(R, Edges(R, ds)) <=>
              ~\E p \in LockedDirect(R) :
                  LET asked == UNION {Choose(R, e) : e \in {d \in ds : d.dep = p.name}}
                  IN  /\ p \notin asked
                      /\ asked # {} \/ \E q \in OfName(R, p.name) : q.version > p.version
<1> DEFINE Asked(name) == UNION {Choose(R, e) : e \in {d \in ds : d.dep = name}}
           Roots(name) == {d.child : d \in {x \in Edges(R, ds) :
                                               x.parent = Root /\ x.entry.dep = name}}
           L == LockedDirect(R)
           D == Direct(R, Edges(R, ds))
<1>1. \A name : Asked(name) \subseteq R
    BY ChosenOnce
<1>2. \A name : Roots(name) = {Id(q) : q \in Asked(name)}
    <2> SUFFICES ASSUME NEW name PROVE Roots(name) = {Id(q) : q \in Asked(name)}
        OBVIOUS
    <2>1. ASSUME NEW d \in Edges(R, ds), d.parent = Root, d.entry.dep = name
          PROVE  \E q \in Asked(name) : d.child = Id(q)
        <3>1. PICK parent, e, q : Leads(R, ds, d, parent, e, q)
            BY EdgesLead
        <3>2. e \in ds /\ e.dep = name /\ q \in Choose(R, e) /\ d.child = Id(q)
            BY <2>1, <3>1, DepsOfPackage DEF Leads
        <3> QED BY <3>2
    <2>2. ASSUME NEW e \in ds, e.dep = name, NEW q \in Choose(R, e)
          PROVE  \E d \in Edges(R, ds) : d.parent = Root /\ d.entry.dep = name /\ d.child = Id(q)
        <3>1. e \in DepsOf(R, Root, ds) /\ Root \in {Root} \cup Ids(R)
            BY DepsOfPackage
        <3>2. PICK d : d \in Edges(R, ds) /\ Leads(R, ds, d, Root, e, q)
            BY <3>1, EdgesLead
        <3> QED BY <2>2, <3>2 DEF Leads
    <2> QED BY <2>1, <2>2
<1>3. \A name : \A p, q \in Asked(name) : p = q
    <2> SUFFICES ASSUME NEW name, NEW e \in ds, NEW f \in ds, e.dep = name, f.dep = name,
                        NEW p \in Choose(R, e), NEW q \in Choose(R, f)
                 PROVE  p = q
        OBVIOUS
    <2>1. e \in DepsOf(R, Root, ds) /\ f \in DepsOf(R, Root, ds) /\ Root \in {Root} \cup Ids(R)
        BY DepsOfPackage
    <2>2. PICK c : c \in Edges(R, ds) /\ Leads(R, ds, c, Root, e, p)
        BY <2>1, EdgesLead
    <2>3. PICK d : d \in Edges(R, ds) /\ Leads(R, ds, d, Root, f, q)
        BY <2>1, EdgesLead
    <2>4. c = d
        BY <2>2, <2>3 DEF Leads
    <2> QED BY <2>2, <2>3, <2>4, ChosenOnce DEF Leads
<1>4. \A p : p \in D <=>
          /\ p \in R
          /\ IF Asked(p.name) # {} THEN p \in Asked(p.name)
             ELSE \A q \in OfName(R, p.name) : q.version <= p.version
    <2> SUFFICES ASSUME NEW p \in R
                 PROVE  p \in D <=> IF Asked(p.name) # {} THEN p \in Asked(p.name)
                                    ELSE \A q \in OfName(R, p.name) : q.version <= p.version
        BY DEF Direct
    <2>1. p \in D <=> IF Roots(p.name) # {} THEN Id(p) \in Roots(p.name)
                      ELSE \A q \in OfName(R, p.name) : q.version <= p.version
        BY DEF Direct
    <2>2. /\ Roots(p.name) # {} <=> Asked(p.name) # {}
          /\ Id(p) \in Roots(p.name) <=> p \in Asked(p.name)
        <3> HIDE DEF Asked, Roots
        <3> QED BY <1>1, <1>2 DEF Archives
    <2> HIDE DEF Asked, Roots, D
    <2> QED BY <2>1, <2>2
<1> HIDE DEF Asked, Roots, D
<1>5. \A p, q \in R : p.name = q.name /\ p.version = q.version => p = q
    BY DEF Archives, Id
<1>6. \A p \in R : p.version \in Nat /\ p.version \in Versions
    BY PackageParts
<1>7. ASSUME NEW p \in L, p \notin Asked(p.name),
             Asked(p.name) # {} \/ \E q \in OfName(R, p.name) : q.version > p.version
      PROVE  L # D
    <2>1. \A q \in OfName(R, p.name) : q \in R
        BY DEF OfName
    <2>2. p \notin D
        BY <1>4, <1>6, <1>7, <2>1 DEF LockedDirect
    <2> QED BY <1>7, <2>2
<1>8. ASSUME \A p \in L : \/ p \in Asked(p.name)
                          \/ /\ Asked(p.name) = {}
                             /\ ~\E q \in OfName(R, p.name) : q.version > p.version
      PROVE  L = D
    <2>1. ASSUME NEW p \in L PROVE p \in D
        <3>1. p \in R /\ \A q \in OfName(R, p.name) : q \in R
            BY DEF LockedDirect, OfName
        <3>2. ~(\E q \in OfName(R, p.name) : q.version > p.version)
                 => \A q \in OfName(R, p.name) : q.version <= p.version
            BY <1>6, <3>1
        <3> QED BY <1>4, <1>8, <3>1, <3>2
    <2>2. ASSUME NEW p \in D PROVE p \in L
        <3>1. p \in R
            BY <1>4
        <3>2. PICK T : T = OfName(R, p.name)
            OBVIOUS
        <3>3. p \in T /\ T \subseteq R /\ IsFiniteSet(T) /\ \A q \in T : q.name = p.name
            BY <3>1, <3>2, FS_Subset DEF OfName, Archives
        <3>4. PICK rank : rank = [q \in T |-> Text[q.version]]
            OBVIOUS
        <3>5. rank \in [T -> Nat]
            BY <1>6, <3>3, <3>4, ClosureAssumption
        <3>6. PICK l \in T : \A q \in T : rank[q] <= rank[l]
            BY <3>3, <3>5, GreatestExists
        <3>7. l \in L /\ l.name = p.name /\ l \in R
            BY <3>2, <3>3, <3>4, <3>6 DEF LockedDirect
        <3>8. l \in D
            BY <2>1, <3>7
        <3>9. l = p
            <4>1. CASE Asked(p.name) # {}
                BY <1>3, <1>4, <3>7, <3>8, <4>1
            <4>2. CASE Asked(p.name) = {}
                <5>1. p.version <= l.version /\ l.version <= p.version
                    BY <1>4, <3>2, <3>3, <3>7, <3>8, <4>2
                <5> QED BY <1>5, <1>6, <3>1, <3>7, <5>1
            <4> QED BY <4>1, <4>2
        <3> QED BY <3>7, <3>9
    <2> QED BY <2>1, <2>2
<1>9. L = D <=> ~\E p \in L : /\ p \notin Asked(p.name)
                              /\ \/ Asked(p.name) # {}
                                 \/ \E q \in OfName(R, p.name) : q.version > p.version
    <2> HIDE DEF L
    <2> QED BY <1>7, <1>8
<1> QED BY <1>9 DEF Asked, D

-----------------------------------------------------------------------------
(***************************************************************************)
(* The inductive invariant.                                                *)
(***************************************************************************)
\* What every variable is made of.
Typed ==
    /\ offer \in Offers
    /\ source \in [rev : 1..MaxEdits, locked : BOOLEAN]
    /\ fixtures = [made |-> fixtures.made, ignored |-> fixtures.ignored,
                   hidden |-> fixtures.hidden,
                   tarballs |-> fixtures.tarballs, artifact |-> fixtures.artifact,
                   lock |-> fixtures.lock, provenance |-> fixtures.provenance]
    /\ \A f \in fixtures.tarballs : f = [id |-> f.id, bytes |-> f.bytes]
    /\ prep = [at |-> prep.at, left |-> prep.left, artifact |-> prep.artifact]
    /\ verify = [at |-> verify.at, of |-> verify.of, packed |-> verify.packed,
                 failed |-> verify.failed]
    /\ worker \in [at : {"none", "alive", "gone"}, outcome : {"pending", "done", "failed"},
                   timer : {"off", "armed", "fired"}]
    /\ TypeOK

\* A provenance is that of a complete preparation, but for an edge or a source
\* that was struck out; the archives are files, each of another package.
Recorded ==
    /\ \A f, g \in fixtures.tarballs : f.id = g.id => f = g
    /\ fixtures.provenance # Nothing =>
          /\ Complete(offer.packages, deps)
          /\ fixtures.provenance =
                [packages |-> Selected, edges |-> fixtures.provenance.edges,
                 sources |-> fixtures.provenance.sources,
                 artifact |-> fixtures.provenance.artifact, lock |-> LockFor(Selected)]

\* What a preparation has written so far, of a closure that is complete.
Preparing ==
    prep.at \in {"copying", "packed", "locked"} =>
        /\ Complete(offer.packages, deps)
        /\ fixtures.made /\ fixtures.provenance = Nothing
        /\ fixtures.tarballs = {File(p, "recorded") : p \in Selected \ prep.left}
        /\ prep.at # "copying" => prep.left = {} /\ fixtures.artifact = prep.artifact
        /\ prep.at = "locked" => fixtures.lock = LockFor(Selected)

\* A verification has the fixtures to itself, and they are those it has accepted.
Trusting ==
    ~Resting =>
        /\ prep.at = "idle" /\ verify.of = fixtures.provenance /\ Intact
        /\ GraphAccepted(verify.of.packages, verify.of.edges, deps)

\* What a verification knows at each of its steps, and the directories it has.
Verifying ==
    /\ verify.at = "packed" => temps = {"pack"}
    /\ verify.at = "checked" =>
          temps \in {{"pack"}, {"pack", "consumer"}, {"pack", "consumer", "store"}}
    /\ verify.at \in {"checked", "made", "smoking"} =>
          verify.packed = verify.of.artifact
    /\ ~verify.failed =>
          /\ verify.at \in {"cleaning", "cleaningPack", "ended"} =>
                verify.packed = verify.of.artifact /\ worker.outcome = "done"
          /\ verify.at = "cleaningPack" => temps \subseteq {"pack"}
          /\ verify.at = "ended" => temps = {}

IInv == Typed /\ Recorded /\ Preparing /\ Trusting /\ Verifying

LEMMA OfferKept ==
    ASSUME UNCHANGED offer
    PROVE  /\ deps' = deps /\ Selected' = Selected /\ LockFor(Selected)' = LockFor(Selected)
           /\ Complete(offer.packages, deps)' <=> Complete(offer.packages, deps)
BY DEF deps, Selected, LockFor

LEMMA SelectedArchives ==
    ASSUME Typed
    PROVE  /\ Archives(offer.packages) /\ IsClosure(Selected, offer.packages, deps)
           /\ Archives(Selected)
<1>1. Archives(offer.packages)
    BY SetAssumption DEF Typed, Archives
<1>2. IsClosure(Selected, offer.packages, deps)
    BY <1>1, ClosureIsClosure DEF Selected
<1> QED BY <1>1, <1>2, SomeArchives DEF IsClosure

\* What depends on the fixtures stays with them.
LEMMA RecordedStays ==
    ASSUME Recorded, UNCHANGED <<offer, fixtures>> PROVE Recorded'
BY OfferKept DEF Recorded

LEMMA PreparingStays ==
    ASSUME Preparing, UNCHANGED <<offer, fixtures, prep>> PROVE Preparing'
BY OfferKept DEF Preparing, File

LEMMA TrustingStays ==
    ASSUME Trusting, UNCHANGED <<offer, fixtures, prep>>, ~Resting, verify'.of = verify.of
    PROVE  Trusting'
BY DEF Trusting, Intact, deps, File

\* Nobody verifies after a step of the preparation or of the developer.
LEMMA Fresher == ASSUME Fresh PROVE Trusting' /\ Verifying'
BY DEF Fresh, Trusting, Verifying, Resting, Unverified, NoWorker

LEMMA RestingStays ==
    ASSUME Verifying, UNCHANGED <<verify, temps, worker>>, Resting PROVE Trusting' /\ Verifying'
BY DEF Trusting, Verifying, Resting

-----------------------------------------------------------------------------
(***************************************************************************)
(* The preparation.                                                        *)
(***************************************************************************)
\* A step of the preparation that writes keeps the types.
LEMMA WritingTyped ==
    ASSUME Typed, UNCHANGED <<offer, source, verify, temps, worker>>, fixtures'.made,
           fixtures' = [made |-> fixtures'.made, ignored |-> fixtures'.ignored,
                        hidden |-> fixtures'.hidden,
                        tarballs |-> fixtures'.tarballs, artifact |-> fixtures'.artifact,
                        lock |-> fixtures'.lock, provenance |-> fixtures'.provenance],
           \A f \in fixtures'.tarballs :
               f = [id |-> f.id, bytes |-> f.bytes] /\ f.bytes \in {"recorded", "other"},
           prep' = [at |-> prep'.at, left |-> prep'.left, artifact |-> prep'.artifact],
           prep'.at \in {"idle", "copying", "packed", "locked"}, prep'.left \subseteq Selected
    PROVE  Typed'
<1>1. TypeOK'
    BY OfferKept DEF Typed, TypeOK
<1> QED BY <1>1 DEF Typed

LEMMA FilesTyped ==
    ASSUME Typed
    PROVE  \A f \in fixtures.tarballs :
               f = [id |-> f.id, bytes |-> f.bytes] /\ f.bytes \in {"recorded", "other"}
BY DEF Typed, TypeOK

LEMMA PackTunnelKeeps == ASSUME IInv, PackTunnel PROVE IInv'
<1> USE DEF IInv, PackTunnel
<1>1. Typed'
    BY OfferKept DEF Typed, TypeOK, Fresh, Unverified, NoWorker
<1>2. Recorded'
    BY RecordedStays
<1>3. Preparing'
    BY DEF Preparing, Typed
<1> QED BY <1>1, <1>2, <1>3, Fresher

LEMMA PrepareFailsKeeps == ASSUME IInv, PrepareFails PROVE IInv'
<1> USE DEF IInv, PrepareFails
<1>1. Typed'
    BY OfferKept DEF Typed, TypeOK, Unprepared
<1>2. Recorded'
    BY RecordedStays
<1>3. Preparing'
    BY DEF Preparing, Unprepared
<1>4. Resting
    BY DEF Trusting
<1> QED BY <1>1, <1>2, <1>3, <1>4, RestingStays

LEMMA SelectKeeps == ASSUME IInv, Select PROVE IInv'
<1> USE DEF IInv, Select
<1>1. fixtures = NoFixtures /\ fixtures' = [NoFixtures EXCEPT !.made = TRUE]
    BY DEF Typed, TypeOK
<1>2. /\ prep'.at = "copying" /\ prep'.left = Selected
      /\ prep' = [prep EXCEPT !.at = "copying", !.left = Selected]
    BY DEF Typed
<1>3. Typed'
    <2>1. fixtures' = [made |-> fixtures'.made, ignored |-> fixtures'.ignored,
                       hidden |-> fixtures'.hidden,
                       tarballs |-> fixtures'.tarballs, artifact |-> fixtures'.artifact,
                       lock |-> fixtures'.lock, provenance |-> fixtures'.provenance]
        BY <1>1 DEF NoFixtures
    <2>2. prep' = [at |-> prep'.at, left |-> prep'.left, artifact |-> prep'.artifact]
        BY <1>2 DEF Typed
    <2>3. fixtures'.made /\ fixtures'.tarballs = {}
        BY <1>1 DEF NoFixtures
    <2> QED BY <1>2, <2>1, <2>2, <2>3, WritingTyped
<1>4. Recorded'
    BY <1>1 DEF Recorded, NoFixtures
<1>5. Preparing'
    <2>1. fixtures'.tarballs = {File(p, "recorded") : p \in Selected \ prep'.left}
        BY <1>1, <1>2 DEF NoFixtures
    <2> QED BY <1>1, <1>2, <2>1, OfferKept DEF Preparing, NoFixtures, File
<1>6. Resting
    BY DEF Trusting
<1> QED BY <1>3, <1>4, <1>5, <1>6, RestingStays

LEMMA CopyKeeps == ASSUME IInv, NEW p \in prep.left, Copy(p) PROVE IInv'
<1> USE DEF IInv, Copy
<1>1. /\ fixtures'.tarballs = fixtures.tarballs \cup {File(p, "recorded")}
      /\ fixtures' = [fixtures EXCEPT !.tarballs = fixtures'.tarballs]
    BY DEF Typed
<1>2. prep' = [prep EXCEPT !.left = prep'.left] /\ prep'.left = prep.left \ {p}
    BY DEF Typed
<1>3. p \in Selected /\ prep.left \subseteq Selected /\ File(p, "recorded").bytes = "recorded"
    BY DEF Typed, TypeOK, File
<1>4. fixtures.made /\ fixtures.provenance = Nothing /\ Complete(offer.packages, deps)
      /\ fixtures.tarballs = {File(q, "recorded") : q \in Selected \ prep.left}
    BY DEF Preparing
<1>5. fixtures'.tarballs = {File(q, "recorded") : q \in Selected \ prep'.left}
    BY <1>1, <1>2, <1>3, <1>4
<1>6. Typed'
    <2>1. \A f \in fixtures'.tarballs :
             f = [id |-> f.id, bytes |-> f.bytes] /\ f.bytes \in {"recorded", "other"}
        BY <1>5 DEF File
    <2>2. fixtures'.made /\ prep'.left \subseteq Selected /\ prep'.at = "copying"
        BY <1>1, <1>2, <1>3, <1>4 DEF Typed
    <2>3. fixtures' = [made |-> fixtures'.made, ignored |-> fixtures'.ignored,
                       hidden |-> fixtures'.hidden,
                       tarballs |-> fixtures'.tarballs, artifact |-> fixtures'.artifact,
                       lock |-> fixtures'.lock, provenance |-> fixtures'.provenance]
        BY <1>1 DEF Typed
    <2>4. prep' = [at |-> prep'.at, left |-> prep'.left, artifact |-> prep'.artifact]
        BY <1>2 DEF Typed
    <2> QED BY <2>1, <2>2, <2>3, <2>4, WritingTyped
<1>7. Recorded'
    <2>1. ASSUME NEW f \in fixtures'.tarballs, NEW g \in fixtures'.tarballs, f.id = g.id PROVE f = g
        <3>1. PICK q \in Selected : f = File(q, "recorded")
            BY <1>5
        <3>2. PICK r \in Selected : g = File(r, "recorded")
            BY <1>5
        <3> QED BY <2>1, <3>1, <3>2 DEF File
    <2>2. fixtures'.provenance = Nothing
        BY <1>1, <1>4 DEF Typed
    <2> QED BY <2>1, <2>2 DEF Recorded
<1>8. Preparing'
    <2>1. /\ fixtures'.made /\ fixtures'.provenance = Nothing
          /\ prep'.at = "copying"
        BY <1>1, <1>2, <1>4 DEF Preparing, Typed
    <2> QED BY <1>4, <1>5, <2>1, OfferKept DEF Preparing, File
<1>9. Resting
    BY DEF Trusting
<1> QED BY <1>6, <1>7, <1>8, <1>9, RestingStays

LEMMA PackKeeps == ASSUME IInv, Pack PROVE IInv'
<1> USE DEF IInv, Pack
<1>1. /\ fixtures' = [fixtures EXCEPT !.artifact = Packed]
      /\ prep' = [prep EXCEPT !.at = "packed", !.artifact = Packed]
    OBVIOUS
<1>2. /\ Complete(offer.packages, deps)
      /\ fixtures.made /\ fixtures.provenance = Nothing
      /\ fixtures.tarballs = {File(p, "recorded") : p \in Selected \ prep.left}
    BY DEF Preparing
<1>3. Typed'
    <2>1. fixtures' = [made |-> fixtures'.made, ignored |-> fixtures'.ignored,
                       hidden |-> fixtures'.hidden,
                       tarballs |-> fixtures'.tarballs, artifact |-> fixtures'.artifact,
                       lock |-> fixtures'.lock, provenance |-> fixtures'.provenance]
        BY <1>1 DEF Typed
    <2>2. prep' = [at |-> prep'.at, left |-> prep'.left, artifact |-> prep'.artifact]
        BY <1>1 DEF Typed
    <2>3. /\ fixtures'.made /\ fixtures'.tarballs = fixtures.tarballs
          /\ prep'.at = "packed" /\ prep'.left = {}
        BY <1>1, <1>2 DEF Typed
    <2> QED BY <2>1, <2>2, <2>3, FilesTyped, WritingTyped
<1>4. fixtures'.tarballs = fixtures.tarballs /\ fixtures'.provenance = Nothing
    BY <1>1, <1>2 DEF Typed
<1>5. Recorded'
    BY <1>4 DEF Recorded
<1>6. Preparing'
    <2>1. /\ fixtures'.made /\ fixtures'.artifact = Packed
          /\ prep'.at = "packed" /\ prep'.left = {} /\ prep'.artifact = Packed
        BY <1>1, <1>2 DEF Typed
    <2> QED BY <1>2, <1>4, <2>1, OfferKept DEF Preparing, File
<1>7. Resting
    BY DEF Trusting
<1> QED BY <1>3, <1>5, <1>6, <1>7, RestingStays

LEMMA LockKeeps == ASSUME IInv, Lock PROVE IInv'
<1> USE DEF IInv, Lock
<1>1. /\ fixtures' = [fixtures EXCEPT !.lock = LockFor(Selected)]
      /\ prep' = [prep EXCEPT !.at = "locked"]
    OBVIOUS
<1>2. /\ Complete(offer.packages, deps)
      /\ fixtures.made /\ fixtures.provenance = Nothing
      /\ fixtures.tarballs = {File(p, "recorded") : p \in Selected \ prep.left}
      /\ prep.left = {} /\ fixtures.artifact = prep.artifact
    BY DEF Preparing
<1>3. Typed'
    <2>1. fixtures' = [made |-> fixtures'.made, ignored |-> fixtures'.ignored,
                       hidden |-> fixtures'.hidden,
                       tarballs |-> fixtures'.tarballs, artifact |-> fixtures'.artifact,
                       lock |-> fixtures'.lock, provenance |-> fixtures'.provenance]
        BY <1>1 DEF Typed
    <2>2. prep' = [at |-> prep'.at, left |-> prep'.left, artifact |-> prep'.artifact]
        BY <1>1 DEF Typed
    <2>3. /\ fixtures'.made /\ fixtures'.tarballs = fixtures.tarballs
          /\ prep'.at = "locked" /\ prep'.left = {}
        BY <1>1, <1>2 DEF Typed
    <2> QED BY <2>1, <2>2, <2>3, FilesTyped, WritingTyped
<1>4. fixtures'.tarballs = fixtures.tarballs /\ fixtures'.provenance = Nothing
    BY <1>1, <1>2 DEF Typed
<1>5. Recorded'
    BY <1>4 DEF Recorded
<1>6. Preparing'
    <2>1. /\ fixtures'.made /\ fixtures'.artifact = prep'.artifact
          /\ prep'.at = "locked" /\ prep'.left = {} /\ prep.left = {}
          /\ fixtures'.lock = LockFor(Selected)
        BY <1>1, <1>2 DEF Typed
    <2> QED BY <1>2, <1>4, <2>1, OfferKept DEF Preparing, File
<1>7. Resting
    BY DEF Trusting
<1> QED BY <1>3, <1>5, <1>6, <1>7, RestingStays

LEMMA RecordKeeps == ASSUME IInv, Record PROVE IInv'
<1> USE DEF IInv, Record
<1>1. PICK P : P = [packages |-> Selected, edges |-> Edges(Selected, deps),
                    sources |-> {Id(p) : p \in Selected}, artifact |-> prep.artifact,
                    lock |-> fixtures.lock]
    OBVIOUS
<1>2. fixtures' = [fixtures EXCEPT !.provenance = P] /\ prep' = Unprepared
    BY <1>1
<1>3. Complete(offer.packages, deps) /\ fixtures.made /\ fixtures.lock = LockFor(Selected)
    BY DEF Preparing
<1>4. fixtures'.provenance = P /\ fixtures'.tarballs = fixtures.tarballs
    BY <1>2 DEF Typed
<1>5. Typed'
    <2>1. fixtures' = [made |-> TRUE, ignored |-> fixtures'.ignored,
                       hidden |-> fixtures'.hidden,
                       tarballs |-> fixtures'.tarballs, artifact |-> fixtures'.artifact,
                       lock |-> fixtures'.lock, provenance |-> fixtures'.provenance]
        BY <1>2, <1>3 DEF Typed
    <2>2. prep' = [at |-> "idle", left |-> {}, artifact |-> Nothing]
        BY <1>2 DEF Unprepared
    <2>3. fixtures'.made
        BY <1>2, <1>3 DEF Typed
    <2>4. prep'.at = "idle" /\ prep'.left = {} /\ prep' = [at |-> prep'.at, left |-> prep'.left,
                                                          artifact |-> prep'.artifact]
        BY <2>2
    <2>5. UNCHANGED <<offer, source, verify, temps, worker>>
        OBVIOUS
    <2> HIDE DEF Record
    <2> QED BY <1>4, <2>1, <2>3, <2>4, <2>5, FilesTyped, WritingTyped
<1>6. P = [packages |-> Selected, edges |-> P.edges, sources |-> P.sources,
           artifact |-> P.artifact, lock |-> LockFor(Selected)]
    BY <1>1, <1>3
<1>7. Recorded'
    BY <1>3, <1>4, <1>6, OfferKept DEF Recorded
<1>8. Preparing'
    BY <1>2 DEF Preparing, Unprepared
<1>9. Resting
    BY DEF Trusting
<1> QED BY <1>5, <1>7, <1>8, <1>9, RestingStays

-----------------------------------------------------------------------------
(***************************************************************************)
(* The developer.                                                          *)
(***************************************************************************)
LEMMA EditKeeps == ASSUME IInv, Edit PROVE IInv'
<1> USE DEF IInv, Edit
<1>1. source' \in [rev : 1..MaxEdits, locked : BOOLEAN]
    BY SetAssumption DEF Typed
<1>2. Typed'
    BY <1>1, OfferKept DEF Typed, TypeOK
<1>3. Trusting' /\ Verifying'
    BY DEF Trusting, Verifying, Resting, Intact, deps, File
<1> QED BY <1>2, <1>3, RecordedStays, PreparingStays

LEMMA RemoveKeeps == ASSUME IInv, Remove PROVE IInv'
<1> USE DEF IInv, Remove
<1>1. Typed'
    BY OfferKept DEF Typed, TypeOK, NoFixtures, Fresh, Unverified, NoWorker
<1>2. Recorded'
    BY DEF Recorded, NoFixtures
<1>3. Preparing'
    BY DEF Preparing
<1> QED BY <1>1, <1>2, <1>3, Fresher

\* The archives are files, each of another package.
Apart(T) ==
    /\ \A f \in T : f = [id |-> f.id, bytes |-> f.bytes] /\ f.bytes \in {"recorded", "other"}
    /\ \A f, g \in T : f.id = g.id => f = g

\* Whatever the damage is, the files are of different packages, and the provenance
\* differs from what was written in an edge or a source.
LEMMA DamageKeeps == ASSUME IInv, Damage PROVE IInv'
<1> USE DEF IInv
<1>1. prep.at = "idle" /\ Intact /\ Fresh /\ UNCHANGED <<offer, source, prep>> /\ fixtures.made
    <2>1. prep.at = "idle" /\ Intact /\ Fresh /\ UNCHANGED <<offer, source, prep>>
        BY DEF Damage
    <2>2. NoFixtures.provenance = Nothing
        BY DEF NoFixtures
    <2> QED BY <2>1, <2>2 DEF Intact, Typed, TypeOK
<1>2. PICK T, P, fx : T = fixtures.tarballs /\ P = fixtures.provenance /\ fx = fixtures
    OBVIOUS
<1>3. fx = [made |-> fx.made, ignored |-> fx.ignored, hidden |-> fx.hidden,
            tarballs |-> T, artifact |-> fx.artifact, lock |-> fx.lock, provenance |-> P]
    BY <1>1, <1>2 DEF Typed, TypeOK
<1> PICK m, i, h, a, l :
        /\ m = fx.made /\ i = fx.ignored /\ h = fx.hidden
        /\ a = fx.artifact /\ l = fx.lock
    OBVIOUS
<1>4. fx = [made |-> m, ignored |-> i, hidden |-> h, tarballs |-> T, artifact |-> a, lock |-> l,
             provenance |-> P]
    BY <1>3
<1>5. m
    BY <1>1, <1>2
<1>6. /\ Apart(T)
      /\ Complete(offer.packages, deps) /\ P.packages = Selected
      /\ P = [packages |-> Selected, edges |-> P.edges, sources |-> P.sources,
              artifact |-> P.artifact, lock |-> LockFor(Selected)]
    BY <1>1, <1>2 DEF Typed, TypeOK, Recorded, Apart, Intact
<1> DEFINE Made == /\ fixtures' = [made |-> fixtures'.made, ignored |-> fixtures'.ignored,
                                   hidden |-> fixtures'.hidden,
                                   tarballs |-> fixtures'.tarballs,
                                   artifact |-> fixtures'.artifact,
                                   lock |-> fixtures'.lock,
                                   provenance |-> fixtures'.provenance]
                   /\ fixtures'.made
           Written(Q) == Q = [packages |-> Selected, edges |-> Q.edges,
                              sources |-> Q.sources, artifact |-> Q.artifact,
                              lock |-> LockFor(Selected)]
<1>7. Made /\ Apart(fixtures'.tarballs) /\ Written(fixtures'.provenance)
    <2>1. ASSUME NEW U, Apart(U), fixtures' = [fx EXCEPT !.tarballs = U]
          PROVE  Made /\ Apart(fixtures'.tarballs) /\ Written(fixtures'.provenance)
        <3>1. fixtures' = [made |-> m, ignored |-> i, hidden |-> h, tarballs |-> U,
                           artifact |-> a, lock |-> l, provenance |-> P]
            BY <1>4, <2>1
        <3>2. Written(P)
            BY <1>6
        <3>3. fixtures'.provenance = P /\ fixtures'.tarballs = U
            BY <3>1
        <3>4. Made
            BY <1>5, <3>1
        <3> HIDE DEF Made, Written
        <3> QED BY <2>1, <3>2, <3>3, <3>4
    <2>2. ASSUME NEW Q, Written(Q), fixtures' = [fx EXCEPT !.provenance = Q]
          PROVE  Made /\ Apart(fixtures'.tarballs) /\ Written(fixtures'.provenance)
        <3>1. fixtures' = [made |-> m, ignored |-> i, hidden |-> h, tarballs |-> T,
                           artifact |-> a, lock |-> l, provenance |-> Q]
            BY <1>4, <2>2
        <3>2. fixtures'.provenance = Q /\ fixtures'.tarballs = T
            BY <3>1
        <3>3. Made
            BY <1>5, <3>1
        <3> HIDE DEF Made, Written
        <3> QED BY <1>6, <2>2, <3>2, <3>3
    <2>3. CASE \E f \in fixtures.tarballs :
                 \/ fixtures' = [fixtures EXCEPT !.tarballs = @ \ {f}]
                 \/ fixtures' = [fixtures EXCEPT !.tarballs =
                                    (@ \ {f}) \cup {[f EXCEPT !.bytes = "other"]}]
        <3>1. PICK f \in T :
                 \/ fixtures' = [fx EXCEPT !.tarballs = T \ {f}]
                 \/ fixtures' = [fx EXCEPT !.tarballs =
                                    (T \ {f}) \cup {[f EXCEPT !.bytes = "other"]}]
            BY <1>2, <2>3
        <3>2. Apart(T \ {f})
            BY <1>6 DEF Apart
        <3>3. PICK g : g = [f EXCEPT !.bytes = "other"]
            OBVIOUS
        <3>4. f = [id |-> f.id, bytes |-> f.bytes]
            BY <1>6 DEF Apart
        <3>5. g = [id |-> f.id, bytes |-> "other"]
            BY <3>3, <3>4
        <3>6. g.id = f.id /\ g.bytes = "other" /\ g = [id |-> g.id, bytes |-> g.bytes]
            BY <3>5
        <3>7. Apart((T \ {f}) \cup {g})
            BY <1>6, <3>6 DEF Apart
        <3>8. \/ fixtures' = [fx EXCEPT !.tarballs = T \ {f}]
              \/ fixtures' = [fx EXCEPT !.tarballs = (T \ {f}) \cup {g}]
            BY <3>1, <3>3
        <3> HIDE DEF Made, Written
        <3> QED BY <2>1, <3>2, <3>7, <3>8
    <2>4. CASE \E p \in offer.packages \ Selected :
                 fixtures' = [fixtures EXCEPT !.tarballs = @ \cup {File(p, "other")}]
        <3>1. PICK p \in offer.packages \ Selected :
                 fixtures' = [fx EXCEPT !.tarballs = T \cup {File(p, "other")}]
            BY <1>2, <2>4
        <3>2. T = {File(q, "recorded") : q \in Selected}
            BY <1>1, <1>2, <1>6 DEF Intact
        <3>3. \A q \in Selected : q \in offer.packages /\ Id(q) # Id(p)
            BY SelectedArchives DEF IsClosure, Archives
        <3>4. \A f \in T : f.id # Id(p)
            BY <3>2, <3>3 DEF File
        <3>5. PICK g : g = File(p, "other")
            OBVIOUS
        <3>6. g.id = Id(p) /\ g.bytes = "other" /\ g = [id |-> g.id, bytes |-> g.bytes]
            BY <3>5 DEF File
        <3>7. Apart(T \cup {g})
            BY <1>6, <3>4, <3>6 DEF Apart
        <3> HIDE DEF Made, Written
        <3> QED BY <2>1, <3>1, <3>5, <3>7
    <2>5. CASE \/ fixtures' = [fixtures EXCEPT !.artifact = 0]
               \/ fixtures' = [fixtures EXCEPT !.lock = Nothing]
               \/ fixtures' = [fixtures EXCEPT !.ignored = TRUE]
               \/ \E rule \in {{id} : id \in Present} \cup {Present} :
                     fixtures' = [fixtures EXCEPT !.hidden = rule]
        <3>1. \E j, g, b, k :
                 fixtures' = [made |-> m, ignored |-> j, hidden |-> g, tarballs |-> T,
                              artifact |-> b, lock |-> k, provenance |-> P]
            BY <1>2, <1>4, <2>5
        <3>2. Made /\ fixtures'.tarballs = T /\ fixtures'.provenance = P
            BY <1>5, <3>1
        <3>3. Written(P)
            BY <1>6
        <3> HIDE DEF Made, Written
        <3> QED BY <1>6, <3>2, <3>3
    <2>6. CASE \E d \in fixtures.provenance.edges :
                 fixtures' = [fixtures EXCEPT !.provenance.edges = @ \ {d}]
        <3>1. PICK d : fixtures' = [fx EXCEPT !.provenance.edges = @ \ {d}]
            BY <1>2, <2>6
        <3>2. PICK Q : Q = [P EXCEPT !.edges = P.edges \ {d}]
            OBVIOUS
        <3>3. fixtures' = [fx EXCEPT !.provenance = Q]
            BY <1>4, <3>1, <3>2
        <3>4. Written(Q)
            BY <1>6, <3>2
        <3> HIDE DEF Made, Written
        <3> QED BY <2>2, <3>3, <3>4
    <2>7. CASE \E id \in fixtures.provenance.sources :
                 fixtures' = [fixtures EXCEPT !.provenance.sources = @ \ {id}]
        <3>1. PICK id : fixtures' = [fx EXCEPT !.provenance.sources = @ \ {id}]
            BY <1>2, <2>7
        <3>2. PICK Q : Q = [P EXCEPT !.sources = P.sources \ {id}]
            OBVIOUS
        <3>3. fixtures' = [fx EXCEPT !.provenance = Q]
            BY <1>4, <3>1, <3>2
        <3>4. Written(Q)
            BY <1>6, <3>2
        <3> HIDE DEF Made, Written
        <3> QED BY <2>2, <3>3, <3>4
    <2> HIDE DEF Made, Written
    <2> QED BY <2>3, <2>4, <2>5, <2>6, <2>7 DEF Damage
<1>8. Typed'
    BY <1>1, <1>7, OfferKept DEF Typed, TypeOK, Fresh, Unverified, NoWorker, Apart
<1>9. Recorded'
    BY <1>1, <1>6, <1>7, OfferKept DEF Recorded, Apart
<1>10. Preparing'
    BY <1>1 DEF Preparing
<1> QED BY <1>1, <1>8, <1>9, <1>10, Fresher

-----------------------------------------------------------------------------
(***************************************************************************)
(* The verification.                                                       *)
(***************************************************************************)
\* What the verification accepts is intact: every archive of the provenance is
\* there as recorded, and no other.  What of it Git ignores is another matter.
LEMMA AcceptedIsIntact == ASSUME IInv, Accepted PROVE Intact
<1> PICK S, T : S = fixtures.provenance.packages /\ T = fixtures.tarballs
    OBVIOUS
<1>1. /\ fixtures.provenance # Nothing /\ fixtures.artifact = fixtures.provenance.artifact
      /\ fixtures.lock = fixtures.provenance.lock
    BY DEF Accepted, RootArtifactValid, ConsumerLockValid
<1>2. \A p \in S : File(p, "recorded") \in T
    BY DEF Accepted, VerifyArchive
<1>3. {f.id : f \in T} = {Id(p) : p \in S}
    BY DEF Accepted, DirectoryMatches, Present
<1>4. ASSUME NEW f \in T PROVE \E p \in S : f = File(p, "recorded")
    <2>1. PICK p \in S : f.id = Id(p)
        BY <1>3
    <2>2. File(p, "recorded").id = Id(p)
        BY DEF File
    <2> QED BY <1>2, <2>1, <2>2 DEF IInv, Recorded
<1>5. T = {File(p, "recorded") : p \in S}
    BY <1>2, <1>4
<1> QED BY <1>1, <1>5 DEF Intact

LEMMA LoadKeeps == ASSUME IInv, Load PROVE IInv'
<1> USE DEF IInv, Load
<1>1. verify' = [at |-> IF Accepted THEN "loaded" ELSE "ended",
                 of |-> fixtures.provenance, packed |-> 0, failed |-> ~Accepted]
      /\ temps' = {} /\ worker' = NoWorker
    OBVIOUS
<1>2. Typed'
    BY OfferKept DEF Typed, TypeOK, NoWorker
<1>3. Trusting'
    <2>1. CASE Accepted
        <3>1. verify'.of = fixtures.provenance
            BY <1>1
        <3>2. Intact /\ GraphAccepted(fixtures.provenance.packages, fixtures.provenance.edges, deps)
            BY <2>1, AcceptedIsIntact DEF Accepted
        <3> QED BY <3>1, <3>2 DEF Trusting, Intact, deps, File
    <2>2. CASE ~Accepted
        BY <1>1, <2>2 DEF Trusting, Resting
    <2> QED BY <2>1, <2>2
<1>4. Verifying'
    <2>1. CASE Accepted
        <3>1. verify'.at = "loaded"
            BY <1>1, <2>1
        <3> QED BY <3>1 DEF Verifying
    <2>2. CASE ~Accepted
        <3>1. verify'.at = "ended"
            BY <1>1, <2>2
        <3>2. PICK failed : failed = ~Accepted
            OBVIOUS
        <3>3. verify' = [at |-> "ended", of |-> fixtures.provenance, packed |-> 0,
                         failed |-> failed]
            BY <1>1, <2>2, <3>2
        <3>4. verify'.failed = failed
            BY <3>3
        <3> QED BY <2>2, <3>1, <3>2, <3>4 DEF Verifying
    <2> QED BY <2>1, <2>2
<1> QED BY <1>2, <1>3, <1>4, RecordedStays, PreparingStays

\* Every other step of the verification leaves the fixtures alone.
LEMMA VerificationKeeps ==
    ASSUME IInv, ~Resting, UNCHANGED <<offer, source, fixtures, prep>>,
           verify' = [verify EXCEPT !.at = verify'.at, !.packed = verify'.packed,
                                    !.failed = verify'.failed],
           TypeOK', Verifying',
           worker' \in [at : {"none", "alive", "gone"},
                        outcome : {"pending", "done", "failed"},
                        timer : {"off", "armed", "fired"}]
    PROVE  IInv'
<1>1. verify' = [at |-> verify'.at, of |-> verify'.of, packed |-> verify'.packed,
                 failed |-> verify'.failed] /\ verify'.of = verify.of
    BY DEF IInv, Typed
<1>2. Typed'
    BY <1>1 DEF IInv, Typed
<1> QED BY <1>1, <1>2, RecordedStays, PreparingStays, TrustingStays DEF IInv

LEMMA TypeStays ==
    ASSUME TypeOK, UNCHANGED <<offer, source, fixtures, prep>>,
           verify'.at \in {"idle", "loaded", "packed", "checked", "made", "smoking",
                           "cleaning", "cleaningPack", "ended"},
           temps' \subseteq {"pack", "consumer", "store", "cache"},
           worker'.at = "alive" => verify'.at = "smoking"
    PROVE  TypeOK'
BY OfferKept DEF TypeOK

LEMMA PackProjectKeeps == ASSUME IInv, PackProject PROVE IInv'
<1> USE DEF IInv, PackProject
<1>1. verify.at = "loaded" /\ ~Resting
    BY DEF Resting
<1>2. verify' = [verify EXCEPT !.at = verify'.at, !.packed = verify'.packed,
                               !.failed = verify'.failed]
    BY DEF Typed
<1>3. TypeOK'
    BY TypeStays DEF Typed, TypeOK
<1>4. Verifying'
    BY DEF Verifying, Typed
<1> QED BY <1>1, <1>2, <1>3, <1>4, VerificationKeeps DEF Typed

LEMMA VerifyPackedKeeps == ASSUME IInv, VerifyPacked PROVE IInv'
<1> USE DEF IInv, VerifyPacked, At
<1>1. verify.at = "packed" /\ ~Resting
    BY DEF Resting
<1>2. verify' = [verify EXCEPT !.at = verify'.at, !.packed = verify'.packed,
                               !.failed = verify'.failed]
    BY DEF Typed
<1>3. TypeOK'
    BY TypeStays DEF Typed, TypeOK
<1>4. Verifying'
    BY DEF Verifying, Typed
<1> QED BY <1>1, <1>2, <1>3, <1>4, VerificationKeeps DEF Typed

LEMMA MakeTemporaryKeeps == ASSUME IInv, MakeTemporary PROVE IInv'
<1> USE DEF IInv, MakeTemporary
<1>1. verify.at = "checked" /\ ~Resting
    BY DEF Resting
<1>2. verify' = [verify EXCEPT !.at = verify'.at, !.packed = verify'.packed,
                               !.failed = verify'.failed]
    BY DEF Typed
<1>3. IsFiniteSet({}) /\ Cardinality({}) = 0
    BY FS_EmptySet
<1>4. IsFiniteSet({"pack"}) /\ Cardinality({"pack"}) = 1
    BY FS_Singleton
<1>5. IsFiniteSet({"pack", "consumer"}) /\ Cardinality({"pack", "consumer"}) = 2
    <2>1. {"pack"} \cup {"consumer"} = {"pack", "consumer"} /\ "consumer" \notin {"pack"}
        OBVIOUS
    <2>2. /\ IsFiniteSet({"pack"} \cup {"consumer"})
          /\ Cardinality({"pack"} \cup {"consumer"}) = Cardinality({"pack"}) + 1
        BY <1>4, <2>1, FS_AddElement
    <2> QED BY <1>4, <2>1, <2>2
<1>6. Cardinality({"pack", "consumer", "store"}) = 3
    <2>1. {"pack", "consumer"} \cup {"store"} = {"pack", "consumer", "store"}
          /\ "store" \notin {"pack", "consumer"}
        OBVIOUS
    <2>2. Cardinality({"pack", "consumer"} \cup {"store"}) = Cardinality({"pack", "consumer"}) + 1
        BY <1>5, <2>1, FS_AddElement
    <2> QED BY <1>5, <2>1, <2>2
<1>7. \/ temps = {"pack"} /\ temps' = {"pack", "consumer"} /\ verify'.at = "checked"
      \/ temps = {"pack", "consumer"} /\ temps' = {"pack", "consumer", "store"}
            /\ verify'.at = "checked"
      \/ verify'.at = "made" /\ temps' \subseteq {"pack", "consumer", "store", "cache"}
    <2>1. PICK i : /\ i = Cardinality(temps)
                   /\ temps' = temps \cup {<<"consumer", "store", "cache">>[i]}
                   /\ verify'.at = IF i = 3 THEN "made" ELSE "checked"
        BY DEF Typed
    <2>2. CASE temps = {"pack"}
        BY <1>4, <2>1, <2>2
    <2>3. CASE temps = {"pack", "consumer"}
        BY <1>5, <2>1, <2>3
    <2>4. CASE temps = {"pack", "consumer", "store"}
        BY <1>6, <2>1, <2>4
    <2> QED BY <1>1, <2>2, <2>3, <2>4 DEF Verifying
<1>8. TypeOK'
    BY <1>7, TypeStays DEF Typed, TypeOK
<1>9. verify'.packed = verify.packed /\ verify'.of = verify.of /\ verify'.failed = verify.failed
    BY DEF Typed
<1>10. Verifying'
    BY <1>1, <1>7, <1>9 DEF Verifying
<1> QED BY <1>1, <1>2, <1>8, <1>10, VerificationKeeps DEF Typed

LEMMA InstallKeeps == ASSUME IInv, Install PROVE IInv'
<1> USE DEF IInv, Install, At
<1>1. verify.at = "made" /\ ~Resting
    BY DEF Resting
<1>2. verify' = [verify EXCEPT !.at = verify'.at, !.packed = verify'.packed,
                               !.failed = verify'.failed]
    BY DEF Typed
<1>3. TypeOK'
    BY TypeStays DEF Typed, TypeOK
<1>4. Verifying'
    BY DEF Verifying, Typed
<1> QED BY <1>1, <1>2, <1>3, <1>4, VerificationKeeps DEF Typed

LEMMA VerifyFailsKeeps == ASSUME IInv, VerifyFails PROVE IInv'
<1> USE DEF IInv, VerifyFails
<1>1. ~Resting
    BY DEF Resting
<1>2. verify' = [verify EXCEPT !.at = verify'.at, !.packed = verify'.packed,
                               !.failed = verify'.failed]
    BY DEF Typed
<1>3. TypeOK'
    BY TypeStays DEF Typed, TypeOK
<1>4. Verifying'
    BY DEF Verifying, Typed
<1> QED BY <1>1, <1>2, <1>3, <1>4, VerificationKeeps DEF Typed

LEMMA WorkerSaysKeeps ==
    ASSUME IInv, NEW result \in {"done", "failed"}, WorkerSays(result) PROVE IInv'
<1> USE DEF IInv, WorkerSays
<1>1. verify.at = "smoking" /\ ~Resting
    BY DEF Resting
<1>2. verify' = [verify EXCEPT !.at = verify'.at, !.packed = verify'.packed,
                               !.failed = verify'.failed]
    BY DEF Typed
<1>3. TypeOK'
    BY TypeStays DEF Typed, TypeOK
<1>4. Verifying'
    BY DEF Verifying, Typed
<1> QED BY <1>1, <1>2, <1>3, <1>4, VerificationKeeps DEF Typed, Settled

LEMMA WorkerExitsKeeps == ASSUME IInv, WorkerExits PROVE IInv'
<1> USE DEF IInv, WorkerExits
<1>1. verify.at = "smoking" /\ ~Resting
    BY DEF Resting
<1>2. verify' = [verify EXCEPT !.at = verify'.at, !.packed = verify'.packed,
                               !.failed = verify'.failed]
    BY DEF Typed
<1>3. TypeOK'
    BY TypeStays DEF Typed, TypeOK
<1>4. Verifying'
    BY DEF Verifying, Typed
<1> QED BY <1>1, <1>2, <1>3, <1>4, VerificationKeeps DEF Typed, Settled

LEMMA TimeoutKeeps == ASSUME IInv, Timeout PROVE IInv'
<1> USE DEF IInv, Timeout
<1>1. verify.at = "smoking" /\ ~Resting
    BY DEF Resting
<1>2. verify' = [verify EXCEPT !.at = verify'.at, !.packed = verify'.packed,
                               !.failed = verify'.failed]
    BY DEF Typed
<1>3. TypeOK'
    BY TypeStays DEF Typed, TypeOK
<1>4. Verifying'
    BY DEF Verifying, Typed
<1> QED BY <1>1, <1>2, <1>3, <1>4, VerificationKeeps DEF Typed

LEMMA SmokeEndsKeeps == ASSUME IInv, SmokeEnds PROVE IInv'
<1> USE DEF IInv, SmokeEnds
<1>1. verify.at = "smoking" /\ ~Resting
    BY DEF Resting
<1>2. verify' = [verify EXCEPT !.at = verify'.at, !.packed = verify'.packed,
                               !.failed = verify'.failed]
    BY DEF Typed
<1>3. worker'.at = "gone" /\ worker'.outcome = worker.outcome
    BY DEF Typed
<1>4. verify'.at = "cleaning" /\ verify'.packed = verify.packed /\ verify'.of = verify.of
      /\ (verify'.failed <=> worker.outcome = "failed")
    BY DEF Typed
<1>5. TypeOK'
    BY <1>3, <1>4, TypeStays DEF Typed, TypeOK
<1>6. Verifying'
    BY <1>1, <1>3, <1>4 DEF Verifying, Typed
<1> QED BY <1>1, <1>2, <1>5, <1>6, VerificationKeeps DEF Typed

LEMMA CleanKeeps == ASSUME IInv, Clean PROVE IInv'
<1> USE DEF IInv, Clean, CleanupTemporaryTrees
<1>1. verify.at \in {"cleaning", "cleaningPack"} /\ ~Resting
    BY DEF Resting
<1>2. verify' = [verify EXCEPT !.at = verify'.at, !.packed = verify'.packed,
                               !.failed = verify'.failed]
    BY DEF Typed
<1>3. temps' \subseteq temps /\ temps \subseteq {"pack", "consumer", "store", "cache"}
    BY DEF Typed, TypeOK
<1>4. /\ verify'.at = IF verify.at = "cleaning" THEN "cleaningPack" ELSE "ended"
      /\ verify'.packed = verify.packed /\ verify'.of = verify.of
    BY DEF Typed
<1>5. ~verify'.failed =>
          /\ ~verify.failed
          /\ verify.at = "cleaning" => temps' \subseteq {"pack"}
          /\ verify.at = "cleaningPack" => "pack" \notin temps'
    BY <1>3 DEF Typed
<1>6. TypeOK'
    BY <1>1, <1>3, <1>4, TypeStays DEF Typed, TypeOK
<1>7. Verifying'
    BY <1>1, <1>3, <1>4, <1>5 DEF Verifying
<1> QED BY <1>1, <1>2, <1>6, <1>7, VerificationKeeps DEF Typed

LEMMA KilledKeeps == ASSUME IInv, Killed PROVE IInv'
<1> USE DEF IInv, Killed
<1>1. verify' = [verify EXCEPT !.at = verify'.at, !.packed = verify'.packed,
                               !.failed = verify'.failed]
    BY DEF Typed
<1>2. TypeOK'
    BY TypeStays DEF Typed, TypeOK, NoWorker
<1>3. Verifying'
    BY DEF Verifying, Typed
<1> QED BY <1>1, <1>2, <1>3, VerificationKeeps DEF Typed, NoWorker

-----------------------------------------------------------------------------
LEMMA InitHolds == ASSUME Init PROVE IInv
<1> USE DEF Init
<1>1. Typed
    BY SetAssumption DEF Typed, TypeOK, NoFixtures, Unprepared, Unverified, NoWorker
<1> QED BY <1>1 DEF IInv, Recorded, Preparing, Trusting, Verifying, Resting, NoFixtures,
                    Unprepared, Unverified

LEMMA StepHolds == ASSUME IInv, [Next]_vars PROVE IInv'
<1>1. CASE Prepare
    BY <1>1, PackTunnelKeeps, SelectKeeps, CopyKeeps, PackKeeps, LockKeeps, RecordKeeps,
       PrepareFailsKeeps DEF Prepare
<1>2. CASE Developer
    BY <1>2, EditKeeps, DamageKeeps, RemoveKeeps DEF Developer
<1>3. CASE Verification
    BY <1>3, LoadKeeps, PackProjectKeeps, VerifyPackedKeeps, MakeTemporaryKeeps,
       InstallKeeps, VerifyFailsKeeps, SmokeEndsKeeps, CleanKeeps, KilledKeeps,
       WorkerSaysKeeps, WorkerExitsKeeps, TimeoutKeeps DEF Verification
<1>4. CASE UNCHANGED vars
    <2>1. Typed' /\ Trusting' /\ Verifying'
        BY <1>4, OfferKept DEF vars, IInv, Typed, TypeOK, Trusting, Verifying, Resting,
                               Intact, deps, File
    <2> QED BY <1>4, <2>1, RecordedStays, PreparingStays DEF IInv, vars
<1> QED BY <1>1, <1>2, <1>3, <1>4 DEF Next

LEMMA FixtureInvariant == Spec => []IInv
<1>1. Init => IInv
    BY InitHolds
<1>2. IInv /\ [Next]_vars => IInv'
    BY StepHolds
<1> QED BY <1>1, <1>2, PTL DEF Spec

\* A release that passes is the artifact of the fixtures, was tried with an intact
\* and complete closure, and has left nothing behind.
THEOREM FixturePassIsEarned == Spec => []PassIsEarned
<1>1. ASSUME IInv PROVE PassIsEarned
    <2>1. ASSUME ~Resting PROVE Intact /\ Complete(verify.of.packages, deps)
        <3>1. Intact /\ verify.of = fixtures.provenance
            BY <1>1, <2>1 DEF IInv, Trusting
        <3>2. Complete(offer.packages, deps) /\ verify.of.packages = Selected
            BY <1>1, <3>1 DEF IInv, Recorded, Intact
        <3> QED BY <1>1, <3>1, <3>2, StillComplete, SelectedArchives DEF IInv, Selected
    <2> QED BY <1>1, <2>1 DEF PassIsEarned, IInv, Typed, Verifying, Resting
<1> QED BY <1>1, FixtureInvariant, PTL

\* What the preparation wrote, as long as nobody has changed a line of it.
LEMMA PreparedIs ==
    ASSUME IInv, Intact
    PROVE  /\ fixtures.provenance.packages = Selected /\ Standing(Selected, deps)
           /\ fixtures.provenance.lock = LockFor(Selected)
<1>1. /\ fixtures.provenance = [packages |-> Selected, edges |-> fixtures.provenance.edges,
                                sources |-> fixtures.provenance.sources,
                                artifact |-> fixtures.provenance.artifact,
                                lock |-> LockFor(Selected)]
      /\ Complete(offer.packages, deps)
    BY DEF IInv, Recorded, Intact
<1>2. Standing(Selected, deps)
    BY <1>1, SelectedArchives, ClosureStands DEF IInv, Selected
<1> QED BY <1>1, <1>2

LEMMA ScriptsAgree == ASSUME IInv PROVE PreparedIsAccepted
<1>1. ASSUME Intact, AsWritten, Visible
      PROVE  Accepted <=> /\ PackageLockValid
                          /\ ~Twice /\ ~OtherTunnel /\ PinnedRecorded(Selected)
    <2>1. /\ fixtures.provenance.packages = Selected /\ Standing(Selected, deps)
          /\ fixtures.provenance.edges = Edges(Selected, deps)
        BY <1>1, PreparedIs DEF AsWritten
    <2>2. /\ fixtures.provenance # Nothing /\ RootArtifactValid /\ ConsumerLockValid
          /\ \A p \in Selected : SourceValid(p)
        BY <1>1, <2>1 DEF Intact, AsWritten, RootArtifactValid, ConsumerLockValid, SourceValid
    <2>3. (\A p \in Selected : VerifyArchive(p)) /\ DirectoryMatches(Selected)
        <3>1. fixtures.tarballs = {File(p, "recorded") : p \in Selected}
            BY <1>1, <2>1 DEF Intact
        <3>2. \A p \in Selected : File(p, "recorded").id = Id(p)
            BY DEF File
        <3> QED BY <3>1, <3>2 DEF VerifyArchive, DirectoryMatches, Present
    <2>4. GraphAccepted(Selected, Edges(Selected, deps), deps) <=> ~Twice /\ ~OtherTunnel
        BY <2>1, GraphIsAccepted DEF Twice, OtherTunnel, Ids
    <2>5. ASSUME PinnedRecorded(Selected) PROVE NotIgnored
        <3>1. Present # {}
            BY <2>3, <2>5 DEF DirectoryMatches, PinnedRecorded
        <3> QED BY <1>1, <3>1 DEF NotIgnored, Visible
    <2> QED BY <2>1, <2>2, <2>3, <2>4, <2>5 DEF Accepted
<1>2. ASSUME verify.at = "made", AsWritten PROVE LockFits <=> ~OtherLocked
    <2>1. /\ verify.of = fixtures.provenance /\ Intact
          /\ GraphAccepted(verify.of.packages, verify.of.edges, deps)
        BY <1>2 DEF IInv, Trusting, Resting
    <2>2. PICK R, E : R = Selected /\ E = Edges(Selected, deps)
        OBVIOUS
    <2>3. /\ verify.of.packages = R /\ verify.of.edges = E
          /\ verify.of.lock = [direct |-> LockedDirect(R), overrides |-> Overrides(R, E)]
        BY <1>2, <2>1, <2>2, PreparedIs DEF AsWritten, LockFor
    <2>4. LockFits <=> LockedDirect(R) = Direct(R, E)
        BY <2>3 DEF LockFits
    <2>5. \A c, d \in E : c.parent = d.parent /\ c.entry.dep = d.entry.dep => c = d
        BY <2>1, <2>3 DEF GraphAccepted
    <2>6. Archives(R)
        BY <2>2, SelectedArchives DEF IInv
    <2> QED BY <2>2, <2>4, <2>5, <2>6, LockedIsDirect DEF OtherLocked
<1>3. ASSUME Accepted
      PROVE  LET S == fixtures.provenance.packages IN
                /\ Intact /\ Complete(S, deps)
                /\ ~fixtures.ignored /\ ~(Present \subseteq fixtures.hidden)
                /\ Installed(S, fixtures.provenance.edges, deps) = S
    <2>1. Intact
        BY <1>3, AcceptedIsIntact
    <2>2. PICK S, E : S = Selected /\ E = fixtures.provenance.edges
        OBVIOUS
    <2>3. S = fixtures.provenance.packages /\ Archives(S)
        BY <2>1, <2>2, PreparedIs, SelectedArchives DEF IInv
    <2>4. Complete(S, deps)
        <3>1. Complete(offer.packages, deps)
            BY <2>1 DEF IInv, Recorded, Intact
        <3> QED BY <2>2, <3>1, SelectedArchives, StillComplete DEF IInv, Selected
    <2>5. Installed(S, E, deps) = S
        BY <1>3, <2>2, <2>3, AcceptedInstalls DEF Accepted
    <2>6. ~fixtures.ignored /\ FirstArchive \in Present /\ FirstArchive \notin fixtures.hidden
        BY <1>3 DEF Accepted, NotIgnored, FirstArchive
    <2> QED BY <2>1, <2>2, <2>3, <2>4, <2>5, <2>6
<1> QED BY <1>1, <1>2, <1>3 DEF PreparedIsAccepted

\* What one script writes the other accepts, and nothing else: a complete closure
\* is refused for the reasons named and no other, and whatever is accepted is
\* intact, complete, installs to the last package, and has neither one of its
\* three named files nor all of its archives ignored by Git.
THEOREM FixturePreparedIsAccepted == Spec => []PreparedIsAccepted
BY ScriptsAgree, FixtureInvariant, PTL
=============================================================================
