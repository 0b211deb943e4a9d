---------------------------- MODULE NumberLemmas ----------------------------
(***************************************************************************)
(* Facts about quotients and remainders by a divisor that is a constant of *)
(* the model (bytes of a block or of a page, groups of the cache, words of *)
(* a sector).  The SMT solver has no decision procedure for them, so the   *)
(* proofs about addresses cite these lemmas instead.  And the least        *)
(* element of a set of numbers, where Min models a loop.                   *)
(***************************************************************************)
EXTENDS Integers, FiniteSetsExt, TLAPS, WellFoundedInduction

\* A product with one factor more, which the provers do not expand by themselves.
LEMMA SuccTimes ==
    ASSUME NEW n \in Nat, NEW b \in Nat
    PROVE  (n + 1) * b = n * b + b
OBVIOUS

\* Multiples of b are at least b apart: what starts in an earlier block ends there.
LEMMA LessTimes ==
    ASSUME NEW b \in Nat \ {0}, NEW q \in Nat, NEW t \in Nat, q < t
    PROVE  q * b + b <= t * b
<1>1. t * b = q * b + b + (t - q - 1) * b
    OBVIOUS
<1>2. (t - q - 1) * b >= 0
    OBVIOUS
<1> QED BY <1>1, <1>2

\* Quotient and remainder are natural numbers and give the number back.
LEMMA DivMod ==
    ASSUME NEW b \in Nat \ {0}, NEW n \in Nat
    PROVE  n \div b \in Nat /\ n % b \in 0 .. b - 1 /\ n = (n \div b) * b + (n % b)
OBVIOUS

\* They are the only ones that do: a block number and an offset that are put
\* together can be taken apart again.
LEMMA DivModUnique ==
    ASSUME NEW b \in Nat \ {0}, NEW q \in Nat, NEW r \in 0 .. b - 1
    PROVE  (q * b + r) \div b = q /\ (q * b + r) % b = r
<1> DEFINE n == q * b + r
           t == n \div b
           s == n % b
<1>1. q * b \in Nat /\ n \in Nat
    <2>1. q * b \in Nat
        OBVIOUS
    <2> QED BY <2>1
<1>2. t \in Nat /\ s \in 0 .. b - 1 /\ n = t * b + s
    <2> HIDE DEF n
    <2> QED BY <1>1, DivMod
<1>3. t = q /\ s = r
    <2> HIDE DEF t, s
    <2>1. t * b \in Nat
        BY <1>2
    <2>2. ~(q < t)
        <3> SUFFICES ASSUME q < t PROVE FALSE
            OBVIOUS
        <3>1. q * b + b <= t * b
            BY LessTimes, <1>2
        <3> QED BY <3>1, <1>2, <1>1, <2>1
    <2>3. ~(t < q)
        <3> SUFFICES ASSUME t < q PROVE FALSE
            OBVIOUS
        <3>1. t * b + b <= q * b
            BY LessTimes, <1>2
        <3> QED BY <3>1, <1>2, <1>1, <2>1
    <2>4. t = q
        BY <2>2, <2>3, <1>2
    <2> QED BY <2>4, <1>2, <1>1
<1> QED BY <1>3

\* A non-empty set of naturals has a least element: a loop that stops at the
\* first entry of a table that fits stops at one that fits.
LEMMA MinIsElement ==
    ASSUME NEW S, S \subseteq Nat, S # {}
    PROVE  Min(S) \in S /\ \A y \in S : Min(S) <= y
<1>1. PICK x \in S : \A y \in S : ~ (<<y, x>> \in OpToRel(<, Nat))
    BY NatLessThanWellFounded, WFMin
<1>2. \A y \in S : x =< y
    <2>1. SUFFICES ASSUME NEW y \in S, ~(x =< y) PROVE FALSE
        OBVIOUS
    <2>2. <<y, x>> \in OpToRel(<, Nat)
        BY <2>1 DEF OpToRel
    <2> QED BY <1>1, <2>2
<1> QED BY <1>2 DEF Min

\* A number below the modulus is its own remainder: arithmetic that does not wrap.
LEMMA SmallMod ==
    ASSUME NEW b \in Nat \ {0}, NEW n \in 0 .. b - 1
    PROVE  n % b = n
<1>1. (0 * b + n) % b = n
    BY DivModUnique
<1> QED BY <1>1

\* The remainder of a number that is out of range by less than the modulus.
LEMMA NearMod ==
    ASSUME NEW b \in Nat \ {0}, NEW n \in Int
    PROVE  /\ n \in 0 .. b - 1 => n % b = n
           /\ n - b \in 0 .. b - 1 => n % b = n - b
           /\ n + b \in 0 .. b - 1 => n % b = n + b
<1>1. n \in 0 .. b - 1 => n % b = n
    BY SmallMod
<1>2. n - b \in 0 .. b - 1 => n % b = n - b
    <2> SUFFICES ASSUME n - b \in 0 .. b - 1 PROVE n % b = n - b
        OBVIOUS
    <2> DEFINE r == n - b
    <2>1. (1 * b + r) % b = r
        BY DivModUnique
    <2>2. 1 * b + r = n
        OBVIOUS
    <2> QED BY <2>1, <2>2
<1>3. n + b \in 0 .. b - 1 => n % b = n + b
    <2> SUFFICES ASSUME n + b \in 0 .. b - 1 PROVE n % b = n + b
        OBVIOUS
    <2>1. n = (n \div b) * b + (n % b) /\ n \div b \in Int /\ n % b \in 0 .. b - 1
        OBVIOUS
    <2>2. n \div b = -1
        <3> DEFINE q == n \div b
        <3>1. q * b > -b - b /\ q * b < 0
            BY <2>1
        <3> HIDE DEF q
        <3>2. q \in Int
            BY <2>1 DEF q
        <3>3. ~(q >= 0)
            <4> SUFFICES ASSUME q >= 0 PROVE FALSE
                OBVIOUS
            <4>1. q \in Nat
                BY <3>2
            <4>2. q * b >= 0
                BY <4>1
            <4> QED BY <3>1, <3>2, <4>2
        <3>4. ~(q <= -2)
            <4> SUFFICES ASSUME q <= -2 PROVE FALSE
                OBVIOUS
            <4> DEFINE t == -q
            <4>1. t \in Nat /\ 1 < t
                BY <3>2
            <4>2. t * b = -(q * b)
                BY <3>2
            <4> HIDE DEF t
            <4>3. 1 * b + b <= t * b
                BY <4>1, LessTimes
            <4> QED BY <3>1, <3>2, <4>1, <4>2, <4>3
        <3> QED BY <3>2, <3>3, <3>4 DEF q
    <2> QED BY <2>1, <2>2
<1> QED BY <1>1, <1>2, <1>3

\* The smaller and the larger of two numbers.
LEMMA MinMaxOfTwo ==
    ASSUME NEW x \in Int, NEW y \in Int
    PROVE  /\ Min({x, y}) = IF x <= y THEN x ELSE y
           /\ Max({x, y}) = IF x >= y THEN x ELSE y
<1>1. Min({x, y}) = IF x <= y THEN x ELSE y
    <2> DEFINE P(m) == m \in {x, y} /\ \A z \in {x, y} : m <= z
    <2>1. P(IF x <= y THEN x ELSE y)
        OBVIOUS
    <2>2. P(Min({x, y}))
        BY <2>1 DEF Min
    <2> QED BY <2>2
<1>2. Max({x, y}) = IF x >= y THEN x ELSE y
    <2> DEFINE P(m) == m \in {x, y} /\ \A z \in {x, y} : m >= z
    <2>1. P(IF x >= y THEN x ELSE y)
        OBVIOUS
    <2>2. P(Max({x, y}))
        BY <2>1 DEF Max
    <2> QED BY <2>2
<1> QED BY <1>1, <1>2

\* Quotients are ordered like the numbers, and those below k blocks are below k.
LEMMA DivMonotone ==
    ASSUME NEW b \in Nat \ {0}, NEW m \in Nat, NEW n \in Nat
    PROVE  /\ m <= n => m \div b <= n \div b
           /\ \A k \in Nat : m < k * b => m \div b < k
<1> DEFINE q == m \div b
           t == n \div b
<1>1. /\ q \in Nat /\ q * b <= m /\ m < q * b + b
      /\ t \in Nat /\ t * b <= n /\ n < t * b + b
    BY DivMod
<1> HIDE DEF q, t
<1>2. ASSUME m <= n PROVE q <= t
    <2> SUFFICES ASSUME t < q PROVE FALSE
        BY <1>1
    <2>1. t * b + b <= q * b
        BY <1>1, LessTimes
    <2>2. t * b \in Nat /\ q * b \in Nat
        BY <1>1
    <2> QED BY <1>1, <1>2, <2>1, <2>2
<1>3. ASSUME NEW k \in Nat, m < k * b PROVE q < k
    <2> SUFFICES ASSUME k <= q PROVE FALSE
        BY <1>1
    <2>1. k * b <= q * b
        <3>1. CASE k = q
            BY <3>1, <1>1
        <3>2. CASE k < q
            <4>1. k * b + b <= q * b
                BY <1>1, <3>2, LessTimes
            <4>2. k * b \in Nat /\ q * b \in Nat
                BY <1>1
            <4> QED BY <4>1, <4>2
        <3> QED BY <1>1, <3>1, <3>2
    <2>2. k * b \in Nat /\ q * b \in Nat
        BY <1>1
    <2> QED BY <1>1, <1>3, <2>1, <2>2
<1> QED BY <1>2, <1>3 DEF q, t

\* A recursive function over the first N numbers exists: there is one for the first
\* few, and one step more can always be added.
LEMMA Recursion ==
    ASSUME NEW N \in Nat, NEW S, NEW first \in S, NEW G \in [1 .. N -> [S -> S]]
    PROVE  \E f \in [0 .. N -> S] : f[0] = first /\ \A n \in 1 .. N : f[n] = G[n][f[n - 1]]
<1> DEFINE Fits(f, m) == f[0] = first /\ \A n \in 1 .. m : f[n] = G[n][f[n - 1]]
           Bad == {m \in 0 .. N : \A f \in [0 .. m -> S] : ~Fits(f, m)}
<1>1. Bad = {}
    <2> SUFFICES ASSUME Bad # {} PROVE FALSE
        OBVIOUS
    <2> DEFINE m == Min(Bad)
    <2>1. m \in Bad /\ \A k \in Bad : m <= k
        <3>1. Bad \subseteq Nat
            OBVIOUS
        <3> HIDE DEF Bad
        <3> QED BY <3>1, MinIsElement
    <2>2. m \in 0 .. N /\ \A f \in [0 .. m -> S] : ~Fits(f, m)
        BY <2>1
    <2>3. m # 0
        <3> DEFINE f == [n \in 0 .. 0 |-> first]
        <3>1. f \in [0 .. 0 -> S] /\ Fits(f, 0)
            OBVIOUS
        <3> QED BY <2>2, <3>1
    <2> HIDE DEF m
    <2>4. m - 1 \in 0 .. N /\ ~(m <= m - 1) /\ m \in 1 .. N /\ m - 1 \in 0 .. m - 1
        BY <2>2, <2>3
    <2>5. PICK g \in [0 .. m - 1 -> S] : Fits(g, m - 1)
        <3>1. m - 1 \notin Bad
            <4> HIDE DEF Bad
            <4> QED BY <2>1, <2>4
        <3> QED BY <2>4, <3>1
    <2> DEFINE f == [n \in 0 .. m |-> IF n = m THEN G[m][g[m - 1]] ELSE g[n]]
    <2>6. \A n \in 0 .. m - 1 : n \in 0 .. m /\ n # m
        BY <2>4
    <2>7. \A n \in 0 .. m : n = m \/ n \in 0 .. m - 1
        BY <2>4
    <2>8. \A n \in 0 .. m - 1 : f[n] = g[n]
        BY <2>6
    <2>9. f[m] = G[m][g[m - 1]]
        BY <2>4
    <2>10. f \in [0 .. m -> S]
        <3>1. G[m] \in [S -> S] /\ g[m - 1] \in S
            BY <2>4, <2>5
        <3>2. G[m][g[m - 1]] \in S
            BY <3>1
        <3> QED BY <2>5, <2>7, <3>2
    <2> HIDE DEF f
    <2>11. ASSUME NEW n \in 1 .. m PROVE f[n] = G[n][f[n - 1]]
        <3>1. n - 1 \in 0 .. m - 1
            BY <2>4
        <3>2. CASE n = m
            BY <2>8, <2>9, <3>1, <3>2
        <3>3. CASE n # m
            <4>1. n \in 1 .. m - 1 /\ n \in 0 .. m - 1
                BY <2>4, <3>3
            <4> QED BY <2>5, <2>8, <3>1, <4>1
        <3> QED BY <3>2, <3>3
    <2>12. f[0] = first
        <3>1. 0 \in 0 .. m - 1
            BY <2>4
        <3> QED BY <2>5, <2>8, <3>1
    <2> QED BY <2>2, <2>10, <2>11, <2>12
<1>2. N \in 0 .. N
    OBVIOUS
<1>3. ~(\A f \in [0 .. N -> S] : ~Fits(f, N))
    <2> HIDE DEF Fits
    <2> QED BY <1>1, <1>2
<1> QED BY <1>3
=============================================================================
