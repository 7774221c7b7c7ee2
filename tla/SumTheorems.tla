------------------------------ MODULE SumTheorems ------------------------------
(***************************************************************************)
(* Facts about sums over finite sets (SumFunctionOnSet) and greatest       *)
(* elements. They go by induction on finite sets, stated for a set Q in    *)
(* place of a predicate: a set of subsets without Q's has a smallest       *)
(* member, since strict inclusion is well-founded on the subsets of a      *)
(* finite set. The sum, a recursive function on the subsets, is first      *)
(* shown to exist (SumsExist) and to be the same whatever set it is        *)
(* defined on (SumsUnique); SumUnfold is then its recursion, and the rest  *)
(* follows from that.                                                      *)
(***************************************************************************)
EXTENDS Integers, FiniteSetsExt, FiniteSetTheorems, TLAPS

(* Induction on the subsets of a finite set: if a subset is in Q whenever  *)
(* its proper subsets are, all are.                                        *)
LEMMA SubsetInduction ==
    ASSUME NEW S, IsFiniteSet(S), NEW Q,
           \A T \in SUBSET S : (\A U \in SUBSET T : U # T => U \in Q) => T \in Q
    PROVE  SUBSET S \subseteq Q
<1> DEFINE R == StrictSubsetOrdering(S)
           Z == {T \in SUBSET S : T \notin Q}
<1>1. IsWellFoundedOn(R, SUBSET S)
    BY FS_StrictSubsetOrderingWellFounded, FS_FiniteSubsetsOfFinite
<1>2. Z \subseteq SUBSET S
    OBVIOUS
<1>3. SUFFICES ASSUME Z # {} PROVE FALSE
    OBVIOUS
<1> HIDE DEF R, Z
<1>4. PICK T \in Z : \A U \in Z : ~(<<U, T>> \in R)
    BY <1>1, <1>2, <1>3, WFMin
<1>5. ASSUME NEW U \in SUBSET T, U # T PROVE U \in Q
    <2>1. T \in SUBSET S /\ U \in SUBSET S
        BY <1>2
    <2>2. <<U, T>> \in R
        BY <2>1, <1>5 DEF R, StrictSubsetOrdering
    <2> QED BY <1>4, <2>1, <2>2 DEF Z
<1> QED BY <1>2, <1>4, <1>5 DEF Z

(* Induction on the natural numbers, for a set of them. *)
LEMMA NatSetInduction ==
    ASSUME NEW P, 0 \in P, \A n \in Nat : n \in P => n + 1 \in P
    PROVE  \A n \in Nat : n \in P
<1> SUFFICES ASSUME NEW m \in Nat PROVE m \in P
    OBVIOUS
<1> DEFINE S == 0 .. m
           Q == {T \in SUBSET S : \A n \in Nat : T = 0 .. n => n \in P}
<1>1. ASSUME NEW T \in SUBSET S, \A U \in SUBSET T : U # T => U \in Q PROVE T \in Q
    <2> SUFFICES ASSUME NEW n \in Nat, T = 0 .. n PROVE n \in P
        OBVIOUS
    <2>1. CASE n = 0
        BY <2>1
    <2>2. CASE n # 0
        <3>1. n - 1 \in Nat /\ (n - 1) + 1 = n
            BY <2>2
        <3>2. n \in T /\ n \notin 0 .. n - 1
            BY <2>2
        <3>3. 0 .. n - 1 \subseteq T
            BY <3>1
        <3>4. 0 .. n - 1 \in Q
            BY <1>1, <3>2, <3>3
        <3>5. n - 1 \in P
            BY <3>1, <3>4
        <3> QED BY <3>1, <3>5
    <2> QED BY <2>1, <2>2
<1>2. IsFiniteSet(S)
    BY FS_Interval
<1>3. S \in SUBSET S /\ S = 0 .. m
    OBVIOUS
<1> HIDE DEF Q, S
<1>4. SUBSET S \subseteq Q
    BY <1>1, <1>2, SubsetInduction
<1> QED BY <1>3, <1>4 DEF Q

(* The element that a sum takes first. *)
Any(s) == CHOOSE x \in s : TRUE

(* One step of the recursion of a sum: an element, and the sum over the    *)
(* others.                                                                 *)
Partial(f, it, s) == IF s = {} THEN 0 ELSE f[Any(s)] + it[s \ {Any(s)}]

(* it is the function on the subsets of S that the recursion defines. *)
Sums(f, S, it) == it = [s \in SUBSET S |-> Partial(f, it, s)]

(* The sum of the community modules is that function's value for the whole *)
(* set.                                                                    *)
LEMMA SumDef ==
    ASSUME NEW f, NEW S
    PROVE  SumFunctionOnSet(f, S) = (CHOOSE it : Sums(f, S, it))[S]
    BY DEF SumFunctionOnSet, FoldFunctionOnSet, MapThenFoldSet, Partial, Any, Sums

(* A non-empty set has the element that its sum takes first. *)
LEMMA AnyIn == \A s : s # {} => Any(s) \in s
    BY DEF Any

(* The function obeys the recursion on every subset. *)
LEMMA SumsAt ==
    ASSUME NEW f, NEW S, NEW it, Sums(f, S, it), NEW T \in SUBSET S
    PROVE  it[T] = Partial(f, it, T)
<1> DEFINE E(s) == Partial(f, it, s)
<1>1. it = [s \in SUBSET S |-> E(s)]
    BY DEF Sums
<1> HIDE DEF E
<1>2. it[T] = E(T)
    BY <1>1
<1> QED BY <1>2 DEF E

(* Whatever larger set the recursion starts from, it computes the same     *)
(* sum.                                                                    *)
LEMMA SumsUnique ==
    ASSUME NEW f, NEW S, NEW T, NEW it, NEW ju, Sums(f, S, it), Sums(f, T, ju),
           IsFiniteSet(S), S \subseteq T
    PROVE  it[S] = ju[S]
<1> DEFINE Q == {U \in SUBSET S : it[U] = ju[U]}
<1>1. ASSUME NEW U \in SUBSET S, \A V \in SUBSET U : V # U => V \in Q PROVE U \in Q
    <2>1. it[U] = Partial(f, it, U) /\ ju[U] = Partial(f, ju, U)
        BY SumsAt
    <2>2. U # {} => it[U \ {Any(U)}] = ju[U \ {Any(U)}]
        BY <1>1, AnyIn
    <2> QED BY <2>1, <2>2 DEF Partial
<1> HIDE DEF Q
<1>2. SUBSET S \subseteq Q
    BY <1>1, SubsetInduction
<1> QED BY <1>2 DEF Q

(* The recursion defines a function on the subsets of any finite set. *)
LEMMA SumsExist ==
    ASSUME NEW f, NEW S, IsFiniteSet(S)
    PROVE  \E it : Sums(f, S, it)
<1> DEFINE Q == {T \in SUBSET S : \E it : Sums(f, T, it)}
<1>1. ASSUME NEW T \in SUBSET S, \A U \in SUBSET T : U # T => U \in Q PROVE T \in Q
    <2> DEFINE sum(U) == (CHOOSE it : Sums(f, U, it))
               old == [s \in SUBSET T |-> sum(s)[s]]
               new == [s \in SUBSET T |-> Partial(f, old, s)]
    <2>1. ASSUME NEW U \in SUBSET T, U # T PROVE Sums(f, U, sum(U)) /\ IsFiniteSet(U)
        BY <1>1, <2>1, FS_Subset
    <2> HIDE DEF sum
    <2>2. ASSUME NEW U \in SUBSET T, U # T PROVE old[U] = Partial(f, old, U)
        <3>1. old[U] = sum(U)[U] /\ sum(U)[U] = Partial(f, sum(U), U)
            BY <2>1, <2>2, SumsAt
        <3>2. CASE U = {}
            BY <3>1, <3>2 DEF Partial
        <3>3. CASE U # {}
            <4> DEFINE V == U \ {Any(U)}
            <4>1. V \in SUBSET T /\ V # T /\ V \subseteq U
                BY <2>2
            <4>2. sum(V)[V] = sum(U)[V]
                BY <2>1, <2>2, <4>1, SumsUnique
            <4>3. old[V] = sum(U)[V]
                BY <4>1, <4>2
            <4> HIDE DEF old
            <4> QED BY <3>1, <3>3, <4>3 DEF Partial
        <3> QED BY <3>2, <3>3
    <2>3. ASSUME NEW s \in SUBSET T PROVE new[s] = Partial(f, new, s)
        <3>1. new[s] = Partial(f, old, s)
            OBVIOUS
        <3>2. CASE s = {}
            BY <3>1, <3>2 DEF Partial
        <3>3. CASE s # {}
            <4> DEFINE V == s \ {Any(s)}
            <4>1. V \in SUBSET T /\ V # T
                BY <3>3, AnyIn
            <4>2. new[V] = old[V]
                BY <2>2, <4>1
            <4> HIDE DEF new, old
            <4> QED BY <3>1, <3>3, <4>2 DEF Partial
        <3> QED BY <3>2, <3>3
    <2>4. new = [s \in SUBSET T |-> new[s]]
        OBVIOUS
    <2> HIDE DEF new
    <2>5. Sums(f, T, new)
        <3> DEFINE E(s) == Partial(f, new, s)
        <3>1. \A s \in SUBSET T : new[s] = E(s)
            BY <2>3
        <3> HIDE DEF E
        <3>2. new = [s \in SUBSET T |-> E(s)]
            BY <2>4, <3>1
        <3> QED BY <3>2 DEF Sums, E
    <2> QED BY <2>5
<1> HIDE DEF Q
<1>2. SUBSET S \subseteq Q
    BY <1>1, SubsetInduction
<1> QED BY <1>2 DEF Q

(* The recursion of a sum over a finite set. *)
LEMMA SumUnfold ==
    ASSUME NEW f, NEW S, IsFiniteSet(S)
    PROVE  SumFunctionOnSet(f, S) = IF S = {} THEN 0
                       ELSE f[Any(S)] + SumFunctionOnSet(f, S \ {Any(S)})
<1> DEFINE sum(U) == (CHOOSE it : Sums(f, U, it))
<1>1. ASSUME NEW U \in SUBSET S PROVE Sums(f, U, sum(U)) /\ IsFiniteSet(U)
    BY SumsExist, FS_Subset
<1>2. \A U : SumFunctionOnSet(f, U) = sum(U)[U]
    BY SumDef
<1> HIDE DEF sum
<1> DEFINE V == S \ {Any(S)}
<1>3. sum(S)[S] = Partial(f, sum(S), S)
    BY <1>1, SumsAt
<1>4. sum(V)[V] = sum(S)[V]
    BY <1>1, SumsUnique
<1> QED BY <1>2, <1>3, <1>4 DEF Partial

(* Nothing adds up to zero. *)
LEMMA SumEmpty == \A f : SumFunctionOnSet(f, {}) = 0
    BY SumUnfold, FS_EmptySet

(* A sum of integers is one. *)
LEMMA SumType ==
    ASSUME NEW S, IsFiniteSet(S), NEW f, \A x \in S : f[x] \in Int
    PROVE  SumFunctionOnSet(f, S) \in Int
<1> DEFINE Q == {T \in SUBSET S : SumFunctionOnSet(f, T) \in Int}
<1>1. ASSUME NEW T \in SUBSET S, \A U \in SUBSET T : U # T => U \in Q PROVE T \in Q
    <2> DEFINE U == T \ {Any(T)}
    <2>1. SumFunctionOnSet(f, T) = IF T = {} THEN 0 ELSE f[Any(T)] + SumFunctionOnSet(f, U)
        BY SumUnfold, FS_Subset
    <2>2. CASE T = {}
        BY <2>1, <2>2
    <2>3. CASE T # {}
        <3>1. Any(T) \in T /\ U \in SUBSET T /\ U # T
            BY <2>3, AnyIn
        <3>2. SumFunctionOnSet(f, U) \in Int /\ f[Any(T)] \in Int
            BY <1>1, <3>1
        <3> HIDE DEF U
        <3> QED BY <2>1, <2>3, <3>2
    <2> QED BY <2>2, <2>3
<1> HIDE DEF Q
<1>2. SUBSET S \subseteq Q
    BY <1>1, SubsetInduction
<1> QED BY <1>2 DEF Q

(* Any element may be taken out of the sum, not only the first. *)
LEMMA SumRemove ==
    ASSUME NEW S, IsFiniteSet(S), NEW f, \A x \in S : f[x] \in Int, NEW y \in S
    PROVE  SumFunctionOnSet(f, S) = f[y] + SumFunctionOnSet(f, S \ {y})
<1> DEFINE sum(T) == SumFunctionOnSet(f, T)
           Q == {T \in SUBSET S : \A z \in T : sum(T) = f[z] + sum(T \ {z})}
<1>a. \A T \in SUBSET S : IsFiniteSet(T) /\ sum(T) \in Int
    BY FS_Subset, SumType
<1>1. ASSUME NEW T \in SUBSET S, \A U \in SUBSET T : U # T => U \in Q PROVE T \in Q
    <2> SUFFICES ASSUME NEW z \in T PROVE sum(T) = f[z] + sum(T \ {z})
        OBVIOUS
    <2> DEFINE c == Any(T)
    <2>1. c \in T
        BY AnyIn
    <2>2. sum(T) = f[c] + sum(T \ {c})
        BY <1>a, SumUnfold
    <2> HIDE DEF c, sum
    <2>3. CASE z = c
        BY <2>2, <2>3
    <2>4. CASE z # c
        <3>1. T \ {c} \in Q /\ T \ {z} \in Q
            BY <1>1, <2>1
        <3>2. z \in T \ {c} /\ c \in T \ {z}
            BY <2>1, <2>4
        <3>3. sum(T \ {c}) = f[z] + sum((T \ {c}) \ {z})
            BY <3>1, <3>2
        <3>4. sum(T \ {z}) = f[c] + sum((T \ {z}) \ {c})
            BY <3>1, <3>2
        <3>5. (T \ {c}) \ {z} = (T \ {z}) \ {c}
            OBVIOUS
        <3> DEFINE r == sum((T \ {z}) \ {c})
        <3>6. r \in Int /\ f[z] \in Int /\ f[c] \in Int
            BY <1>a, <2>1
        <3>7. sum(T) = f[c] + (f[z] + r) /\ sum(T \ {z}) = f[c] + r
            BY <2>2, <3>3, <3>4, <3>5
        <3> HIDE DEF r
        <3> QED BY <3>6, <3>7
    <2> QED BY <2>3, <2>4
<1> HIDE DEF Q
<1>2. SUBSET S \subseteq Q
    BY <1>1, SubsetInduction
<1>3. S \in Q
    BY <1>2
<1> QED BY <1>3 DEF Q

(* A new element adds its value to the sum. *)
LEMMA SumAdd ==
    ASSUME NEW S, IsFiniteSet(S), NEW y, y \notin S, NEW f, \A x \in S \cup {y} : f[x] \in Int
    PROVE  SumFunctionOnSet(f, S \cup {y}) = SumFunctionOnSet(f, S) + f[y]
<1>1. IsFiniteSet(S \cup {y}) /\ (S \cup {y}) \ {y} = S
    BY FS_AddElement
<1>2. SumFunctionOnSet(f, S \cup {y}) = f[y] + SumFunctionOnSet(f, S)
    BY <1>1, SumRemove
<1>3. SumFunctionOnSet(f, S) \in Int
    BY SumType
<1> QED BY <1>2, <1>3

(* The sum depends only on the values on the set. *)
LEMMA SumSame ==
    ASSUME NEW S, IsFiniteSet(S), NEW f, NEW g, \A x \in S : f[x] = g[x]
    PROVE  SumFunctionOnSet(f, S) = SumFunctionOnSet(g, S)
<1> DEFINE Q == {T \in SUBSET S : SumFunctionOnSet(f, T) = SumFunctionOnSet(g, T)}
<1>1. ASSUME NEW T \in SUBSET S, \A U \in SUBSET T : U # T => U \in Q PROVE T \in Q
    <2> DEFINE U == T \ {Any(T)}
    <2>1. /\ SumFunctionOnSet(f, T) = IF T = {} THEN 0 ELSE f[Any(T)] + SumFunctionOnSet(f, U)
          /\ SumFunctionOnSet(g, T) = IF T = {} THEN 0 ELSE g[Any(T)] + SumFunctionOnSet(g, U)
        BY SumUnfold, FS_Subset
    <2>2. T # {} => /\ SumFunctionOnSet(f, U) = SumFunctionOnSet(g, U)
                    /\ f[Any(T)] = g[Any(T)]
        BY <1>1, AnyIn
    <2> HIDE DEF U
    <2> QED BY <2>1, <2>2
<1> HIDE DEF Q
<1>2. SUBSET S \subseteq Q
    BY <1>1, SubsetInduction
<1> QED BY <1>2 DEF Q

(* Elements whose value is zero may be left out of the sum. *)
LEMMA SumDrop ==
    ASSUME NEW S, IsFiniteSet(S), NEW R \in SUBSET S, NEW f, \A x \in S : f[x] \in Int,
           \A x \in S \ R : f[x] = 0
    PROVE  SumFunctionOnSet(f, S) = SumFunctionOnSet(f, R)
<1> DEFINE sum(T) == SumFunctionOnSet(f, T)
           Q == {T \in SUBSET S : R \subseteq T => sum(T) = sum(R)}
<1>a. \A T \in SUBSET S : IsFiniteSet(T) /\ sum(T) \in Int
    BY FS_Subset, SumType
<1>1. ASSUME NEW T \in SUBSET S, \A U \in SUBSET T : U # T => U \in Q PROVE T \in Q
    <2> SUFFICES ASSUME R \subseteq T, R # T PROVE sum(T) = sum(R)
        OBVIOUS
    <2>1. PICK z \in T : z \notin R
        OBVIOUS
    <2>2. sum(T) = f[z] + sum(T \ {z})
        BY <1>a, SumRemove
    <2> HIDE DEF sum
    <2>3. sum(T \ {z}) = sum(R)
        BY <1>1, <2>1
    <2>4. f[z] = 0 /\ sum(R) \in Int
        BY <1>a, <2>1
    <2> QED BY <2>2, <2>3, <2>4
<1> HIDE DEF Q
<1>2. SUBSET S \subseteq Q
    BY <1>1, SubsetInduction
<1> QED BY <1>2 DEF Q

(* The sum of f over the integers from a to below b. *)
SumTo(f, a, b) == SumFunctionOnSet(f, a .. b - 1)

(* The value v for every integer from b to below c. *)
Times(v, b, c) == v * (c - b)

(* f has integer values from a to below b. *)
IntegersIn(f, a, b) == \A u \in a .. b - 1 : f[u] \in Int

(* f has the value v from b to below c. *)
Steady(f, b, c, v) == \A u \in b .. c - 1 : f[u] = v

(* The sum over a stretch in which f is constant. *)
LEMMA SumStretch ==
    ASSUME NEW a \in Int, NEW b \in Int, NEW c \in Int, a <= b, b <= c, NEW v \in Int, NEW f,
           IntegersIn(f, a, b), Steady(f, b, c, v)
    PROVE  SumTo(f, a, c) = SumTo(f, a, b) + Times(v, b, c)
<1> SUFFICES SumFunctionOnSet(f, a .. c - 1) = SumFunctionOnSet(f, a .. b - 1) + v * (c - b)
    BY DEF SumTo, Times
<1> USE DEF IntegersIn, Steady
<1> DEFINE sum(m) == SumFunctionOnSet(f, a .. m - 1)
           P == {n \in Nat : b + n <= c => sum(b + n) = sum(b) + v * n}
<1>a. ASSUME NEW m \in a .. c PROVE IsFiniteSet(a .. m - 1) /\ sum(m) \in Int
    <2>1. IsFiniteSet(a .. m - 1)
        BY FS_Interval
    <2>2. \A u \in a .. m - 1 : f[u] \in Int
        OBVIOUS
    <2> QED BY <2>1, <2>2, SumType
<1>1. 0 \in P
    <2>1. sum(b) \in Int
        BY <1>a
    <2>2. b + 0 = b /\ v * 0 = 0
        OBVIOUS
    <2> HIDE DEF sum
    <2> QED BY <2>1, <2>2
<1>2. ASSUME NEW n \in Nat, n \in P PROVE n + 1 \in P
    <2> SUFFICES ASSUME b + (n + 1) <= c PROVE sum(b + (n + 1)) = sum(b) + v * (n + 1)
        OBVIOUS
    <2> DEFINE m == b + n
    <2>1. m \in a .. c /\ m + 1 \in a .. c /\ b + (n + 1) = m + 1 /\ m \in b .. c - 1
          /\ (m + 1) - 1 = m
        OBVIOUS
    <2>2. a .. (m + 1) - 1 = (a .. m - 1) \cup {m} /\ m \notin a .. m - 1
        BY <2>1
    <2>3. \A u \in (a .. m - 1) \cup {m} : f[u] \in Int
        OBVIOUS
    <2>4. sum(m + 1) = sum(m) + f[m]
        <3> DEFINE S == a .. m - 1
        <3>1. IsFiniteSet(S)
            BY <1>a, <2>1
        <3>2. m \notin S /\ a .. (m + 1) - 1 = S \cup {m} /\ \A u \in S \cup {m} : f[u] \in Int
            BY <2>2, <2>3
        <3> HIDE DEF S
        <3>3. SumFunctionOnSet(f, S \cup {m}) = SumFunctionOnSet(f, S) + f[m]
            BY <3>1, <3>2, SumAdd
        <3> QED BY <3>2, <3>3 DEF S
    <2>5. sum(m) = sum(b) + v * n /\ sum(b) \in Int /\ f[m] = v
        <3>1. b + n <= c
            OBVIOUS
        <3>2. sum(b) \in Int
            BY <1>a
        <3> QED BY <1>2, <2>1, <3>1, <3>2
    <2>6. v * (n + 1) = v * n + v /\ v * n \in Int
        OBVIOUS
    <2> HIDE DEF sum
    <2> QED BY <2>1, <2>4, <2>5, <2>6
<1> HIDE DEF P
<1>3. c - b \in P
    BY <1>1, <1>2, NatSetInduction
<1>4. b + (c - b) = c
    OBVIOUS
<1> QED BY <1>3, <1>4 DEF P

(* A bounded set of integers that is not empty has a greatest element, and *)
(* Max is that.                                                            *)
LEMMA MaxFact ==
    ASSUME NEW S, S # {}, NEW a \in Int, NEW b \in Int, S \subseteq a .. b
    PROVE  Max(S) \in S /\ \A x \in S : x <= Max(S)
<1> DEFINE P == {n \in Nat : \A T \in SUBSET S : T # {} /\ T \subseteq a .. a + n - 1 =>
                      \E m \in T : \A x \in T : x <= m}
<1>1. 0 \in P
    <2>1. a .. a + 0 - 1 = {}
        OBVIOUS
    <2> QED BY <2>1
<1>2. ASSUME NEW n \in Nat, n \in P PROVE n + 1 \in P
    <2> SUFFICES ASSUME NEW T \in SUBSET S, T # {}, T \subseteq a .. a + (n + 1) - 1
                 PROVE  \E m \in T : \A x \in T : x <= m
        OBVIOUS
    <2>1. CASE a + n \in T
        BY <2>1
    <2>2. CASE a + n \notin T
        <3>1. T \subseteq a .. a + n - 1
            BY <2>2
        <3> QED BY <1>2, <3>1
    <2> QED BY <2>1, <2>2
<1>3. \A n \in Nat : n \in P
    <2> HIDE DEF P
    <2> QED BY <1>1, <1>2, NatSetInduction
<1>4. PICK s \in S : TRUE
    OBVIOUS
<1>5. b - a + 1 \in Nat /\ a + (b - a + 1) - 1 = b
    BY <1>4
<1>6. \E m \in S : \A x \in S : x <= m
    BY <1>3, <1>5
<1>7. \E m \in S : \A x \in S : m >= x
    BY <1>6
<1> HIDE DEF P
<1>8. Max(S) \in S /\ \A x \in S : Max(S) >= x
    BY <1>7 DEF Max
<1>9. ASSUME NEW x \in S PROVE x <= Max(S)
    <2>1. x \in Int /\ Max(S) \in Int
        <3>1. \A y \in S : y \in Int
            OBVIOUS
        <3>2. Max(S) \in S
            BY <1>8
        <3> QED BY <3>1, <3>2
    <2>2. Max(S) >= x
        BY <1>8
    <2> QED BY <2>1, <2>2
<1> QED BY <1>8, <1>9

(* One more element, and the sum of a function on the larger set. *)
LEMMA SumExtend ==
    ASSUME NEW S, IsFiniteSet(S), NEW y, NEW f, NEW g,
           \A x \in S : f[x] \in Int /\ f[x] = g[x], f[y] \in Int, y \notin S \/ f[y] = 0
    PROVE  SumFunctionOnSet(f, S \cup {y}) = SumFunctionOnSet(g, S) + f[y]
<1>1. SumFunctionOnSet(f, S) = SumFunctionOnSet(g, S)
    BY SumSame
<1>2. CASE y \notin S
    BY <1>1, <1>2, SumAdd
<1>3. CASE y \in S
    <2>1. S \cup {y} = S
        BY <1>3
    <2>2. SumFunctionOnSet(f, S) \in Int
        BY SumType
    <2>3. f[y] = 0
        BY <1>3
    <2>4. SumFunctionOnSet(f, S \cup {y}) = SumFunctionOnSet(f, S)
        BY <2>1
    <2> DEFINE all == SumFunctionOnSet(f, S \cup {y})
               old == SumFunctionOnSet(g, S)
    <2>5. all = old /\ old \in Int
        BY <1>1, <2>2, <2>4
    <2> HIDE DEF all, old
    <2>6. all = old + f[y]
        BY <2>3, <2>5
    <2> QED BY <2>6 DEF all, old
<1> QED BY <1>2, <1>3

(* A sum on a smaller set, when the elements left out count for nothing. *)
LEMMA SumPrune ==
    ASSUME NEW S, IsFiniteSet(S), NEW R \in SUBSET S, NEW f, NEW g,
           \A x \in S : f[x] \in Int, \A x \in R : f[x] = g[x], \A x \in S \ R : f[x] = 0
    PROVE  SumFunctionOnSet(g, R) = SumFunctionOnSet(f, S)
<1>1. SumFunctionOnSet(f, R) = SumFunctionOnSet(g, R)
    BY FS_Subset, SumSame
<1> QED BY <1>1, SumDrop

(* Zeros add up to zero. *)
LEMMA SumZero ==
    ASSUME NEW S, IsFiniteSet(S), NEW f, \A x \in S : f[x] = 0
    PROVE  SumFunctionOnSet(f, S) = 0
<1>1. \A x \in S : f[x] \in Int
    OBVIOUS
<1>2. {} \in SUBSET S
    OBVIOUS
<1>3. SumFunctionOnSet(f, S) = SumFunctionOnSet(f, {})
    BY <1>1, <1>2, SumDrop
<1> QED BY <1>3, SumEmpty
=============================================================================
