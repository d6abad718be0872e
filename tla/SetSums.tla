------------------------------ MODULE SetSums -------------------------------
(***************************************************************************)
(* What MapThenSumSet computes: the sum of a function over a finite set,   *)
(* however its elements are picked.  The recursive function behind it is   *)
(* shown to exist, and the laws of sums follow by taking a smallest set    *)
(* that breaks them.                                                       *)
(***************************************************************************)
EXTENDS Integers, FiniteSets, FiniteSetsExt, FiniteSetTheorems, WellFoundedInduction,
        NaturalsInduction, TLAPS

Sum(w, S) == MapThenSumSet(LAMBDA x : w[x], S)

IntegersOn(w, S) == \A x \in S : w[x] \in Int

Picked(s) == CHOOSE x \in s : TRUE

\* g is the recursive function of MapThenFoldSet, on the sets of D.
Rec(g, w, D) ==
    g = [s \in D |-> IF s = {} THEN 0 ELSE w[Picked(s)] + g[s \ {Picked(s)}]]

SumsOf(g, w, S) == Rec(g, w, SUBSET S)

\* Any element may be taken from a sum first.
Removable(g, w, T) == g[T] \in Int /\ \A y \in T : g[T] = w[y] + g[T \ {y}]

ImageOf(f, S) == {f[x] : x \in S}

InjectiveOn(f, S) == \A x, y \in S : f[x] = f[y] => x = y

\* The values of v on the image are those of w, larger by c.
ShiftedBy(v, f, w, c, S) == \A x \in S : v[f[x]] = w[x] + c

AgreeOn(w, v, T) == \A x \in T : w[x] = v[x]
-----------------------------------------------------------------------------
LEMMA LessThanOnNat == OpToRel(<, Nat) = {p \in Nat \X Nat : p[1] < p[2]}
  BY Zenon DEF OpToRel

LEMMA LeastNatural ==
    ASSUME NEW U, U \subseteq Nat, U # {}
    PROVE  \E n \in U : \A m \in U : n <= m
<1>1. PICK n \in U : \A m \in U : ~ (<<m, n>> \in OpToRel(<, Nat))
  BY NatLessThanWellFounded, WFMin
<1>2. ASSUME NEW m \in U, ~(n <= m) PROVE FALSE
  <2>1. <<m, n>> \in {p \in Nat \X Nat : p[1] < p[2]}
    BY <1>2
  <2>2. QED
    BY <1>1, <2>1, LessThanOnNat
<1>3. QED
  BY <1>2

\* Among the subsets of a finite set there is a smallest one.
LEMMA SmallestSet ==
    ASSUME NEW S, IsFiniteSet(S), NEW B, B \subseteq SUBSET S, B # {}
    PROVE  \E T \in B : \A R \in B : Cardinality(T) <= Cardinality(R)
<1> DEFINE U == {Cardinality(T) : T \in B}
<1>1. \A T \in B : Cardinality(T) \in Nat
  BY FS_Subset, FS_CardinalityType
<1>2. U \subseteq Nat /\ U # {}
  BY <1>1
<1>3. PICK n \in U : \A m \in U : n <= m
  BY <1>2, LeastNatural
<1>4. QED
  BY <1>3

LEMMA PickedIsIn ==
    ASSUME NEW s, s # {}
    PROVE  Picked(s) \in s
  BY DEF Picked

\* A nonempty subset without one of its elements is a smaller subset.
LEMMA Smaller ==
    ASSUME NEW S, IsFiniteSet(S), NEW T \in SUBSET S, NEW y \in T
    PROVE  /\ T \ {y} \in SUBSET S /\ IsFiniteSet(T)
           /\ Cardinality(T) \in Nat /\ Cardinality(T \ {y}) = Cardinality(T) - 1
           /\ Cardinality(T \ {y}) \in Nat
<1>1. IsFiniteSet(T)
  BY FS_Subset
<1>2. Cardinality(T \ {y}) = Cardinality(T) - 1 /\ IsFiniteSet(T \ {y})
  BY <1>1, FS_RemoveElement
<1>3. QED
  BY <1>1, <1>2, FS_CardinalityType

LEMMA RecursionExists ==
    ASSUME NEW S, IsFiniteSet(S), NEW w
    PROVE  \E g : Rec(g, w, SUBSET S)
<1> DEFINE Level(n) == {T \in SUBSET S : Cardinality(T) <= n}
           Solved(n) == \E g : Rec(g, w, Level(n))
           U == {n \in Nat : ~Solved(n)}
<1>1. Solved(0)
  <2>1. \A T \in Level(0) : T = {}
    BY FS_Subset, FS_CardinalityType, FS_EmptySet
  <2>2. Rec([s \in Level(0) |-> 0], w, Level(0))
    BY <2>1 DEF Rec
  <2>3. QED
    BY <2>2
<1>2. ASSUME NEW n \in Nat, Solved(n) PROVE Solved(n + 1)
  <2>1. PICK g : Rec(g, w, Level(n))
    BY <1>2
  <2> DEFINE value(s) == IF s = {} THEN 0 ELSE w[Picked(s)] + g[s \ {Picked(s)}]
             h == [s \in Level(n + 1) |-> value(s)]
  <2>2. \A t \in Level(n) : g[t] = value(t)
    BY <2>1, Zenon DEF Rec
  <2>3. \A t \in Level(n) : t \in Level(n + 1)
    BY FS_Subset, FS_CardinalityType
  <2>4. \A t \in Level(n) : h[t] = g[t]
    BY <2>2, <2>3
  <2>5. ASSUME NEW s \in Level(n + 1), s # {} PROVE s \ {Picked(s)} \in Level(n)
    <3>1. Picked(s) \in s /\ s \in SUBSET S
      BY <2>5, PickedIsIn
    <3>2. QED
      BY <2>5, <3>1, Smaller
  <2>6. ASSUME NEW s \in Level(n + 1)
        PROVE  h[s] = IF s = {} THEN 0 ELSE w[Picked(s)] + h[s \ {Picked(s)}]
    BY <2>4, <2>5
  <2>7. Rec(h, w, Level(n + 1))
    <3>1. h = [s \in Level(n + 1) |-> h[s]]
      OBVIOUS
    <3> HIDE DEF h, Level
    <3>2. QED
      BY <2>6, <3>1, Zenon DEF Rec
  <2>8. QED
    BY <2>7
<1> HIDE DEF Solved
<1>3. U = {}
  <2>1. SUFFICES ASSUME U # {} PROVE FALSE
    OBVIOUS
  <2>2. PICK n \in U : \A m \in U : n <= m
    BY <2>1, LeastNatural
  <2>3. n - 1 \in Nat /\ n - 1 \notin U
    BY <1>1, <2>2
  <2>4. Solved((n - 1) + 1)
    BY <1>2, <2>3
  <2>5. (n - 1) + 1 = n
    BY <2>2
  <2>6. QED
    BY <2>2, <2>4, <2>5
<1>4. Cardinality(S) \in Nat /\ Level(Cardinality(S)) = SUBSET S
  BY FS_Subset, FS_CardinalityType
<1>5. Solved(Cardinality(S))
  BY <1>3, <1>4
<1>6. QED
  BY <1>4, <1>5 DEF Solved

LEMMA SumIsRecursion ==
    ASSUME NEW S, IsFiniteSet(S), NEW w
    PROVE  \E g : SumsOf(g, w, S) /\ Sum(w, S) = g[S]
<1>1. Sum(w, S) = (CHOOSE g : Rec(g, w, SUBSET S))[S]
  BY DEF Sum, MapThenSumSet, MapThenFoldSet, Rec, Picked
<1>2. \E g : Rec(g, w, SUBSET S)
  BY RecursionExists
<1>3. Rec(CHOOSE g : Rec(g, w, SUBSET S), w, SUBSET S)
  BY <1>2, Zenon
<1>4. QED
  BY <1>1, <1>3 DEF SumsOf

\* Two recursions agree where their functions do.
LEMMA RecursionUnique ==
    ASSUME NEW S, IsFiniteSet(S), NEW w, NEW g, SumsOf(g, w, S),
           NEW T \in SUBSET S, NEW v, NEW h, SumsOf(h, v, T), AgreeOn(w, v, T)
    PROVE  g[T] = h[T]
<1> DEFINE B == {R \in SUBSET T : g[R] # h[R]}
<1>1. SUFFICES ASSUME B # {} PROVE FALSE
  BY DEF B
<1>2. IsFiniteSet(T)
  BY FS_Subset
<1>3. PICK R \in B : \A Q \in B : Cardinality(R) <= Cardinality(Q)
  BY <1>1, <1>2, SmallestSet
<1>4. /\ g[R] = IF R = {} THEN 0 ELSE w[Picked(R)] + g[R \ {Picked(R)}]
      /\ h[R] = IF R = {} THEN 0 ELSE v[Picked(R)] + h[R \ {Picked(R)}]
  <2>1. R \in SUBSET S /\ R \in SUBSET T
    BY <1>3
  <2>2. QED
    BY <2>1, Zenon DEF Rec, SumsOf
<1>5. R # {} /\ Picked(R) \in R
  BY <1>3, <1>4, PickedIsIn
<1>6. R \ {Picked(R)} \notin B
  BY <1>2, <1>3, <1>5, Smaller
<1>7. w[Picked(R)] = v[Picked(R)] /\ g[R \ {Picked(R)}] = h[R \ {Picked(R)}]
  BY <1>3, <1>5, <1>6 DEF AgreeOn
<1>8. QED
  BY <1>3, <1>4, <1>5, <1>7

\* The order of picking does not matter.
LEMMA RecursionRemoves ==
    ASSUME NEW S, IsFiniteSet(S), NEW w, IntegersOn(w, S),
           NEW g, SumsOf(g, w, S),
           NEW Q \in SUBSET S
    PROVE  Removable(g, w, Q)
<1> DEFINE OK(T) == g[T] \in Int /\ \A y \in T : g[T] = w[y] + g[T \ {y}]
           B == {T \in SUBSET S : ~OK(T)}
<1>1. SUFFICES ASSUME B # {} PROVE FALSE
  BY DEF Removable
<1>2. PICK T \in B : \A R \in B : Cardinality(T) <= Cardinality(R)
  BY <1>1, SmallestSet
<1> DEFINE x == Picked(T)
<1>3. \A R \in SUBSET S : g[R] = IF R = {} THEN 0 ELSE w[Picked(R)] + g[R \ {Picked(R)}]
  BY Zenon DEF Rec, SumsOf
<1>4. T \in SUBSET S /\ ~OK(T)
  BY <1>2
<1>5. ASSUME NEW R \in SUBSET S, Cardinality(R) < Cardinality(T) PROVE OK(R)
  <2>1. Cardinality(R) \in Nat /\ Cardinality(T) \in Nat
    BY <1>4, FS_Subset, FS_CardinalityType
  <2>2. QED
    <3> HIDE DEF OK
    <3>1. R \notin B
      BY <1>2, <1>5, <2>1
    <3>2. QED
      BY <3>1
<1>6. T # {}
  <2>1. g[{}] = 0
    BY <1>3
  <2>2. OK({})
    BY <2>1
  <2>3. QED
    BY <1>4, <2>2
<1>7. x \in T /\ g[T] = w[x] + g[T \ {x}] /\ w[x] \in Int
  <2>1. x \in T
    BY <1>6, PickedIsIn
  <2>2. g[T] = w[x] + g[T \ {x}]
    BY <1>3, <1>4, <1>6, Zenon
  <2>3. QED
    BY <1>4, <2>1, <2>2 DEF IntegersOn
<1> HIDE DEF x, B
<1>8. ASSUME NEW y \in T
      PROVE  /\ T \ {y} \in SUBSET S /\ Cardinality(T \ {y}) < Cardinality(T)
             /\ Cardinality(T \ {y}) \in Nat /\ Cardinality(T) \in Nat
  <2> HIDE DEF OK
  <2>1. /\ T \ {y} \in SUBSET S /\ Cardinality(T) \in Nat
        /\ Cardinality(T \ {y}) = Cardinality(T) - 1 /\ Cardinality(T \ {y}) \in Nat
    BY <1>4, <1>8, Smaller
  <2>2. QED
    BY <2>1
<1>9. ASSUME NEW y \in T PROVE OK(T \ {y})
  BY <1>5, <1>8
<1>10. g[T \ {x}] \in Int
  BY <1>7, <1>9
<1>11. ASSUME NEW y \in T, y # x PROVE g[T] = w[y] + g[T \ {y}]
  <2> DEFINE Tx == T \ {x}
             Ty == T \ {y}
             Txy == Tx \ {y}
  <2>1. OK(Tx) /\ OK(Ty) /\ y \in Tx /\ x \in Ty /\ Txy = Ty \ {x}
    BY <1>7, <1>9, <1>11
  <2>2. OK(Txy)
    <3>1. /\ Tx \in SUBSET S /\ Cardinality(Tx) < Cardinality(T)
          /\ Cardinality(Tx) \in Nat /\ Cardinality(T) \in Nat
      BY <1>7, <1>8
    <3> HIDE DEF Tx
    <3>2. Txy \in SUBSET S /\ Cardinality(Txy) = Cardinality(Tx) - 1
      BY <2>1, <3>1, Smaller
    <3> HIDE DEF Txy, OK
    <3>3. QED
      BY <1>5, <3>1, <3>2
  <2> HIDE DEF Tx, Ty, Txy
  <2>3. /\ g[Tx] = w[y] + g[Txy] /\ g[Ty] = w[x] + g[Txy] /\ g[Txy] \in Int
    BY <2>1, <2>2 DEF Txy
  <2>4. w[y] \in Int /\ w[x] \in Int /\ g[T] = w[x] + g[Tx]
    BY <1>4, <1>7 DEF Tx, IntegersOn
  <2>5. g[T] = w[y] + g[Ty]
    BY <2>3, <2>4
  <2>6. QED
    BY <2>5 DEF Ty
<1>12. g[T] \in Int
  BY <1>7, <1>10
<1>13. \A y \in T : g[T] = w[y] + g[T \ {y}]
  BY <1>7, <1>11
<1>14. QED
  BY <1>4, <1>12, <1>13, Zenon
-----------------------------------------------------------------------------
(* The laws of sums.                                                       *)

LEMMA SumEmpty ==
    ASSUME NEW w
    PROVE  Sum(w, {}) = 0
<1>1. PICK g : SumsOf(g, w, {}) /\ Sum(w, {}) = g[{}]
  BY SumIsRecursion, FS_EmptySet
<1>2. {} \in SUBSET {}
  OBVIOUS
<1>3. g[{}] = 0
  BY <1>1, <1>2, Zenon DEF Rec, SumsOf
<1>4. QED
  BY <1>1, <1>3

LEMMA SumRemove ==
    ASSUME NEW S, IsFiniteSet(S), NEW w, IntegersOn(w, S)
    PROVE  /\ Sum(w, S) \in Int
           /\ \A y \in S : Sum(w, S) = w[y] + Sum(w, S \ {y})
<1>1. PICK g : SumsOf(g, w, S) /\ Sum(w, S) = g[S]
  BY SumIsRecursion
<1>2. Removable(g, w, S)
  BY <1>1, RecursionRemoves
<1>3. ASSUME NEW y \in S PROVE g[S \ {y}] = Sum(w, S \ {y})
  <2>1. PICK R : R = S \ {y}
    OBVIOUS
  <2>2. IsFiniteSet(R) /\ R \in SUBSET S
    BY <2>1, FS_RemoveElement
  <2>3. PICK h : SumsOf(h, w, R) /\ Sum(w, R) = h[R]
    BY <2>2, SumIsRecursion
  <2>4. AgreeOn(w, w, R)
    BY DEF AgreeOn
  <2>5. g[R] = h[R]
    BY <1>1, <2>2, <2>3, <2>4, RecursionUnique
  <2>6. QED
    BY <2>1, <2>3, <2>5
<1>4. QED
  BY <1>1, <1>2, <1>3 DEF Removable

LEMMA SumAdd ==
    ASSUME NEW S, IsFiniteSet(S), NEW y, y \notin S, NEW w, IntegersOn(w, S \cup {y})
    PROVE  Sum(w, S \cup {y}) = w[y] + Sum(w, S)
<1>1. IsFiniteSet(S \cup {y}) /\ (S \cup {y}) \ {y} = S
  BY FS_AddElement
<1>2. y \in S \cup {y}
  OBVIOUS
<1>3. Sum(w, S \cup {y}) = w[y] + Sum(w, (S \cup {y}) \ {y})
  BY <1>1, <1>2, SumRemove
<1>4. QED
  BY <1>1, <1>3

LEMMA TimesNext ==
    ASSUME NEW c \in Int, NEW n \in Int
    PROVE  c * n = c * (n - 1) + c
  OBVIOUS

\* The sum over an image, of values larger by a constant.
LEMMA SumImage ==
    ASSUME NEW S, IsFiniteSet(S), NEW w, IntegersOn(w, S),
           NEW f, InjectiveOn(f, S), NEW v, NEW c \in Int, ShiftedBy(v, f, w, c, S)
    PROVE  /\ Sum(v, ImageOf(f, S)) = Sum(w, S) + c * Cardinality(S)
           /\ IsFiniteSet(ImageOf(f, S)) /\ Cardinality(ImageOf(f, S)) = Cardinality(S)
<1> DEFINE Im(T) == {f[x] : x \in T}
           OK(T) == /\ IsFiniteSet(Im(T)) /\ Cardinality(Im(T)) = Cardinality(T)
                    /\ Sum(v, Im(T)) = Sum(w, T) + c * Cardinality(T)
           B == {T \in SUBSET S : ~OK(T)}
<1>1. SUFFICES ASSUME B # {} PROVE FALSE
  BY DEF ImageOf
<1>2. PICK T \in B : \A R \in B : Cardinality(T) <= Cardinality(R)
  BY <1>1, SmallestSet
<1>3. T \in SUBSET S /\ ~OK(T) /\ IsFiniteSet(T)
  BY <1>2, FS_Subset
<1>4. OK({})
  <2>1. Im({}) = {} /\ c * 0 = 0
    OBVIOUS
  <2>2. Sum(v, {}) = 0 /\ Sum(w, {}) = 0 /\ Cardinality({}) = 0 /\ IsFiniteSet({})
    BY SumEmpty, FS_EmptySet
  <2>3. /\ IsFiniteSet(Im({})) /\ Cardinality(Im({})) = Cardinality({})
        /\ Sum(v, Im({})) = Sum(w, {}) + c * Cardinality({})
    <3>1. PICK E : E = Im({})
      OBVIOUS
    <3> HIDE DEF Im
    <3>2. E = {}
      BY <2>1, <3>1
    <3>3. IsFiniteSet(E) /\ Cardinality(E) = Cardinality({})
      BY <2>2, <3>2
    <3>4. Sum(v, E) = Sum(w, {}) + c * Cardinality({})
      BY <2>1, <2>2, <3>2
    <3>5. QED
      BY <3>1, <3>3, <3>4
  <2>4. QED
    BY <2>3
<1>5. PICK y \in T : TRUE
  BY <1>3, <1>4
<1> DEFINE R == T \ {y}
<1>6. /\ R \in SUBSET S /\ Cardinality(R) = Cardinality(T) - 1
      /\ Cardinality(T) \in Nat /\ Cardinality(R) \in Nat /\ IsFiniteSet(R)
  BY <1>3, <1>5, Smaller, FS_RemoveElement
<1>7. OK(R)
  <2> HIDE DEF OK, R
  <2>1. R \notin B
    BY <1>2, <1>6
  <2>2. QED
    BY <1>6, <2>1
<1>8. Im(T) = Im(R) \cup {f[y]} /\ f[y] \notin Im(R) /\ IntegersOn(v, Im(T))
  BY <1>3, <1>5 DEF IntegersOn, InjectiveOn, ShiftedBy
<1>9. w[y] \in Int /\ v[f[y]] = w[y] + c
  BY <1>3, <1>5 DEF IntegersOn, ShiftedBy
<1>10. Sum(v, Im(T)) = v[f[y]] + Sum(v, Im(R))
  <2>1. PICK I, J, z : I = Im(R) /\ J = Im(T) /\ z = f[y]
    OBVIOUS
  <2>2. IsFiniteSet(I)
    BY <1>7, <2>1
  <2> HIDE DEF Im, R
  <2>3. J = I \cup {z} /\ z \notin I /\ IntegersOn(v, I \cup {z})
    BY <1>8, <2>1
  <2>4. Sum(v, I \cup {z}) = v[z] + Sum(v, I)
    BY <2>2, <2>3, SumAdd
  <2>5. QED
    BY <2>1, <2>3, <2>4
<1>11. Sum(w, T) = w[y] + Sum(w, R) /\ Sum(w, R) \in Int
  <2>1. IntegersOn(w, T) /\ IntegersOn(w, R)
    BY <1>3 DEF IntegersOn
  <2>2. QED
    BY <1>3, <1>5, <1>6, <2>1, SumRemove
<1>12. IsFiniteSet(Im(T)) /\ Cardinality(Im(T)) = Cardinality(Im(R)) + 1
  <2>1. PICK I, J, z : I = Im(R) /\ J = Im(T) /\ z = f[y]
    OBVIOUS
  <2>2. IsFiniteSet(I)
    BY <1>7, <2>1
  <2> HIDE DEF Im, R
  <2>3. J = I \cup {z} /\ z \notin I
    BY <1>8, <2>1
  <2>4. IsFiniteSet(I \cup {z}) /\ Cardinality(I \cup {z}) = Cardinality(I) + 1
    BY <2>2, <2>3, FS_AddElement
  <2>5. QED
    BY <2>1, <2>3, <2>4
<1>13. c * Cardinality(T) = c * Cardinality(R) + c
  BY <1>6, TimesNext
<1> HIDE DEF Im, R
<1>14. Sum(v, Im(T)) = Sum(w, T) + c * Cardinality(T)
  <2>1. c * Cardinality(R) \in Int
    BY <1>6
  <2>2. QED
    BY <1>7, <1>9, <1>10, <1>11, <1>13, <2>1
<1>15. Cardinality(Im(T)) = Cardinality(T)
  BY <1>6, <1>7, <1>12
<1>16. QED
  BY <1>3, <1>12, <1>14, <1>15

\* The sum of values larger by a constant.
LEMMA SumShift ==
    ASSUME NEW S, IsFiniteSet(S), NEW w, IntegersOn(w, S),
           NEW v, NEW c \in Int, \A x \in S : v[x] = w[x] + c
    PROVE  Sum(v, S) = Sum(w, S) + c * Cardinality(S)
<1> DEFINE f == [x \in S |-> x]
<1>1. ImageOf(f, S) = S /\ \A x \in S : f[x] = x
  BY DEF ImageOf
<1> HIDE DEF f
<1>2. InjectiveOn(f, S) /\ ShiftedBy(v, f, w, c, S)
  BY <1>1 DEF InjectiveOn, ShiftedBy
<1>3. Sum(v, ImageOf(f, S)) = Sum(w, S) + c * Cardinality(S)
  BY <1>2, SumImage
<1>4. QED
  BY <1>1, <1>3

\* The sum of equal functions.
LEMMA SumAgree ==
    ASSUME NEW S, IsFiniteSet(S), NEW w, IntegersOn(w, S), NEW v, AgreeOn(v, w, S)
    PROVE  Sum(v, S) = Sum(w, S)
<1>1. PICK c \in Int : c = 0
  OBVIOUS
<1>2. \A x \in S : v[x] = w[x] + c
  BY <1>1 DEF AgreeOn, IntegersOn
<1>3. Sum(v, S) = Sum(w, S) + c * Cardinality(S)
  BY <1>2, SumShift
<1>4. Cardinality(S) \in Nat /\ Sum(w, S) \in Int
  BY FS_CardinalityType, SumRemove
<1>5. c * Cardinality(S) = 0
  BY <1>1, <1>4
<1>6. QED
  BY <1>3, <1>4, <1>5

\* A change of one value.
LEMMA SumUpdated ==
    ASSUME NEW S, IsFiniteSet(S), NEW w, IntegersOn(w, S), NEW y \in S,
           NEW v, NEW d \in Int, v[y] = w[y] + d, AgreeOn(v, w, S \ {y})
    PROVE  Sum(v, S) = Sum(w, S) + d
<1>1. IntegersOn(v, S) /\ w[y] \in Int
  BY DEF IntegersOn, AgreeOn
<1>2. Sum(v, S) = v[y] + Sum(v, S \ {y}) /\ Sum(w, S) = w[y] + Sum(w, S \ {y})
  BY <1>1, SumRemove
<1>3. IsFiniteSet(S \ {y}) /\ IntegersOn(w, S \ {y})
  BY FS_RemoveElement DEF IntegersOn
<1>4. Sum(v, S \ {y}) = Sum(w, S \ {y}) /\ Sum(w, S \ {y}) \in Int
  BY <1>3, SumAgree, SumRemove
<1>5. QED
  BY <1>1, <1>2, <1>4

\* A sum of values that are at most m.
LEMMA SumBounded ==
    ASSUME NEW S, IsFiniteSet(S), NEW w, IntegersOn(w, S),
           NEW m \in Int, \A x \in S : w[x] <= m
    PROVE  Sum(w, S) <= m * Cardinality(S)
<1> DEFINE OK(T) == Sum(w, T) <= m * Cardinality(T)
           B == {T \in SUBSET S : ~OK(T)}
<1>1. SUFFICES ASSUME B # {} PROVE FALSE
  OBVIOUS
<1>2. PICK T \in B : \A R \in B : Cardinality(T) <= Cardinality(R)
  BY <1>1, SmallestSet
<1>3. T \in SUBSET S /\ ~OK(T) /\ IsFiniteSet(T)
  BY <1>2, FS_Subset
<1>4. T # {}
  <2>1. Sum(w, {}) = 0 /\ Cardinality({}) = 0 /\ m * 0 = 0
    BY SumEmpty, FS_EmptySet
  <2>2. OK({})
    BY <2>1
  <2>3. QED
    BY <1>3, <2>2
<1>5. PICK y \in T : TRUE
  BY <1>4
<1>6. PICK R : R = T \ {y}
  OBVIOUS
<1>7. /\ R \in SUBSET S /\ Cardinality(R) = Cardinality(T) - 1
      /\ Cardinality(T) \in Nat /\ Cardinality(R) \in Nat
  BY <1>3, <1>5, <1>6, Smaller
<1>8. OK(R)
  <2> HIDE DEF OK
  <2>1. R \notin B
    BY <1>2, <1>7
  <2>2. QED
    BY <1>7, <2>1
<1>9. IntegersOn(w, T) /\ IntegersOn(w, R) /\ w[y] \in Int /\ w[y] <= m /\ IsFiniteSet(R)
  BY <1>3, <1>5, <1>6, <1>7, FS_Subset DEF IntegersOn
<1>10. Sum(w, T) = w[y] + Sum(w, R) /\ Sum(w, R) \in Int
  BY <1>3, <1>5, <1>6, <1>9, SumRemove
<1>11. PICK a, b : a = m * Cardinality(T) /\ b = m * Cardinality(R)
  OBVIOUS
<1>12. a = b + m /\ b \in Int
  BY <1>7, <1>11, TimesNext
<1>13. Sum(w, R) <= b
  BY <1>8, <1>11
<1>14. Sum(w, T) <= a
  BY <1>9, <1>10, <1>12, <1>13
<1>15. QED
  BY <1>3, <1>11, <1>14

LEMMA SumOfZeros ==
    ASSUME NEW S, IsFiniteSet(S), NEW w, \A x \in S : w[x] = 0
    PROVE  Sum(w, S) = 0
<1> DEFINE B == {T \in SUBSET S : Sum(w, T) # 0}
<1>1. SUFFICES ASSUME B # {} PROVE FALSE
  OBVIOUS
<1>2. PICK T \in B : \A R \in B : Cardinality(T) <= Cardinality(R)
  BY <1>1, SmallestSet
<1>3. T \in SUBSET S /\ Sum(w, T) # 0 /\ IsFiniteSet(T)
  BY <1>2, FS_Subset
<1>4. PICK y \in T : TRUE
  BY <1>3, SumEmpty
<1>5. PICK R : R = T \ {y}
  OBVIOUS
<1>6. /\ R \in SUBSET S /\ Cardinality(R) = Cardinality(T) - 1
      /\ Cardinality(T) \in Nat /\ Cardinality(R) \in Nat
  BY <1>3, <1>4, <1>5, Smaller
<1>7. Sum(w, R) = 0
  BY <1>2, <1>6
<1>8. IntegersOn(w, T) /\ w[y] = 0
  BY <1>3, <1>4 DEF IntegersOn
<1>9. Sum(w, T) = w[y] + Sum(w, R)
  BY <1>3, <1>4, <1>5, <1>8, SumRemove
<1>10. QED
  BY <1>3, <1>7, <1>8, <1>9

\* A sum of naturals.
LEMMA SumOfNaturals ==
    ASSUME NEW S, IsFiniteSet(S), NEW w, \A x \in S : w[x] \in Nat
    PROVE  Sum(w, S) \in Nat
<1> DEFINE B == {T \in SUBSET S : Sum(w, T) \notin Nat}
<1>1. SUFFICES ASSUME B # {} PROVE FALSE
  OBVIOUS
<1>2. PICK T \in B : \A R \in B : Cardinality(T) <= Cardinality(R)
  BY <1>1, SmallestSet
<1>3. T \in SUBSET S /\ Sum(w, T) \notin Nat /\ IsFiniteSet(T)
  BY <1>2, FS_Subset
<1>4. PICK y \in T : TRUE
  BY <1>3, SumEmpty
<1>5. PICK R : R = T \ {y}
  OBVIOUS
<1>6. /\ R \in SUBSET S /\ Cardinality(R) = Cardinality(T) - 1
      /\ Cardinality(T) \in Nat /\ Cardinality(R) \in Nat
  BY <1>3, <1>4, <1>5, Smaller
<1>7. Sum(w, R) \in Nat
  BY <1>2, <1>6
<1>8. IntegersOn(w, T) /\ w[y] \in Nat
  BY <1>3, <1>4 DEF IntegersOn
<1>9. Sum(w, T) = w[y] + Sum(w, R)
  BY <1>3, <1>4, <1>5, <1>8, SumRemove
<1>10. QED
  BY <1>3, <1>7, <1>8, <1>9

\* A finite set of naturals has a largest element.
LEMMA LargestNatural ==
    ASSUME NEW S \in SUBSET Nat, IsFiniteSet(S), S # {}
    PROVE  Max(S) \in S /\ \A x \in S : x <= Max(S)
<1> DEFINE OK(T) == T = {} \/ \E n \in T : \A x \in T : n >= x
           B == {T \in SUBSET S : ~OK(T)}
<1>1. ASSUME B # {} PROVE FALSE
  <2>1. PICK T \in B : \A R \in B : Cardinality(T) <= Cardinality(R)
    BY <1>1, SmallestSet
  <2>2. T \in SUBSET S /\ ~OK(T) /\ T # {} /\ T \subseteq Nat
    BY <2>1
  <2>3. PICK y \in T : TRUE
    BY <2>2
  <2>4. PICK R : R = T \ {y}
    OBVIOUS
  <2>5. /\ R \in SUBSET S /\ Cardinality(R) = Cardinality(T) - 1
        /\ Cardinality(T) \in Nat /\ Cardinality(R) \in Nat
    BY <2>2, <2>3, <2>4, Smaller
  <2>6. OK(R)
    <3> HIDE DEF OK
    <3>1. R \notin B
      BY <2>1, <2>5
    <3>2. QED
      BY <2>5, <3>1
  <2>7. CASE R = {}
    <3>1. \A x \in T : x = y
      BY <2>4, <2>7
    <3>2. \A x \in T : y >= x
      BY <2>2, <2>3, <3>1
    <3>3. QED
      BY <2>2, <2>3, <3>2
  <2>8. CASE R # {}
    <3>1. PICK n \in R : \A x \in R : n >= x
      BY <2>6, <2>8
    <3>2. n \in T /\ n \in Nat /\ y \in Nat /\ \A x \in T : x = y \/ x \in R
      BY <2>2, <2>3, <2>4, <3>1
    <3>3. CASE n >= y
      BY <2>2, <3>1, <3>2, <3>3
    <3>4. CASE y >= n
      <4>1. \A x \in T : y >= x
        BY <2>2, <3>1, <3>2, <3>4
      <4>2. QED
        BY <2>2, <2>3, <4>1
    <3>5. QED
      BY <3>2, <3>3, <3>4
  <2>9. QED
    BY <2>7, <2>8
<1>2. \E n \in S : \A x \in S : n >= x
  BY <1>1
<1>3. Max(S) \in S /\ \A x \in S : Max(S) >= x
  BY <1>2, Zenon DEF Max
<1>4. QED
  BY <1>3
=============================================================================
