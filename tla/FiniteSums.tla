----------------------------- MODULE FiniteSums ----------------------------
(***************************************************************************)
(* What the sum of a function over a finite set is: the facts about        *)
(* SumFunctionOnSet that the accounts of payments and of loyalty points    *)
(* rest on.  The operator is a fold, a recursive function on the subsets;  *)
(* the facts are proved by looking at a smallest set on which they fail.   *)
(***************************************************************************)
EXTENDS Naturals, Functions, FiniteSetTheorems, TLAPS

-----------------------------------------------------------------------------
(* Smallest counterexamples.                                               *)

(* A number that is not in the set although all smaller ones are. *)
LEMMA SmallestNumber ==
  ASSUME NEW B, B \subseteq Nat, B # {}
  PROVE  \E n \in B : \A m \in B : ~(m < n)
  <1>1. PICK n \in B : \A m \in B : <<m, n>> \notin OpToRel(<, Nat)
    BY NatLessThanWellFounded, WFMin
  <1>2. \A m \in B : m < n => <<m, n>> \in OpToRel(<, Nat)
    BY DEF OpToRel
  <1> QED
    BY <1>1, <1>2

(* What holds for a set if it holds for the set without any one of its
   elements holds for every subset of a finite set.                        *)
LEMMA SmallestSet ==
  ASSUME NEW S, IsFiniteSet(S), NEW B, B \subseteq SUBSET S, B # {}
  PROVE  \E T \in B : \A x \in T : T \ {x} \notin B
  <1>1. PICK T \in B : \A U \in B : <<U, T>> \notin StrictSubsetOrdering(S)
    <2>1. IsWellFoundedOn(StrictSubsetOrdering(S), SUBSET S)
      BY FS_StrictSubsetOrderingWellFounded, FS_FiniteSubsetsOfFinite
    <2> QED
      BY <2>1, WFMin
  <1>2. ASSUME NEW x \in T
        PROVE  <<T \ {x}, T>> \in StrictSubsetOrdering(S)
    <2>1. T \ {x} \in SUBSET S /\ T \in SUBSET S
      OBVIOUS
    <2>2. T \ {x} \subseteq T /\ T \ {x} # T
      OBVIOUS
    <2> QED
      BY <2>1, <2>2 DEF StrictSubsetOrdering
  <1> QED
    BY <1>1, <1>2

-----------------------------------------------------------------------------
(* The recursion.                                                          *)

Picked(s) == CHOOSE x \in s : TRUE

SumStep(f, it, s) == IF s = {} THEN 0 ELSE f[Picked(s)] + it[s \ {Picked(s)}]

IsSum(it, f, S) == it = [s \in SUBSET S |-> SumStep(f, it, s)]

LEMMA PickIsMember ==
  ASSUME NEW s, s # {}
  PROVE  Picked(s) \in s
  BY Zenon DEF Picked

(* The recursion has a solution: one that is right for the sets of up to n
   elements, for every n.                                                  *)
LEMMA SumExists ==
  ASSUME NEW f, NEW S, IsFiniteSet(S)
  PROVE  \E it : IsSum(it, f, S)
  <1> DEFINE Upto(n, it) ==
               /\ it = [s \in SUBSET S |-> it[s]]
               /\ \A s \in SUBSET S : Cardinality(s) <= n => it[s] = SumStep(f, it, s)
             B == {n \in Nat : ~\E it : Upto(n, it)}
  <1>1. ASSUME NEW s \in SUBSET S, s # {}
        PROVE  /\ s \ {Picked(s)} \in SUBSET S
               /\ Cardinality(s \ {Picked(s)}) = Cardinality(s) - 1
               /\ Cardinality(s) \in Nat
    <2>1. IsFiniteSet(s) /\ Picked(s) \in s
      BY <1>1, PickIsMember, FS_Subset
    <2> QED
      BY <2>1, FS_RemoveElement, FS_CardinalityType
  <1>2. \A s \in SUBSET S : Cardinality(s) \in Nat /\ (Cardinality(s) = 0 <=> s = {})
    BY FS_Subset, FS_EmptySet, FS_CardinalityType
  <1>3. \E it : Upto(0, it)
    <2> DEFINE z == [s \in SUBSET S |-> 0]
    <2>1. \A s \in SUBSET S : Cardinality(s) <= 0 => s = {}
      BY <1>2
    <2>2. Upto(0, z)
      BY <2>1 DEF SumStep
    <2> QED
      BY <2>2
  <1>4. ASSUME NEW n \in Nat, NEW it, Upto(n, it)
        PROVE  \E next : Upto(n + 1, next)
    <2> DEFINE next == [s \in SUBSET S |-> SumStep(f, it, s)]
    <2>1. next = [s \in SUBSET S |-> next[s]]
      OBVIOUS
    <2>2. ASSUME NEW s \in SUBSET S, Cardinality(s) <= n + 1
          PROVE  next[s] = SumStep(f, next, s)
      <3>1. CASE s = {}
        BY <3>1 DEF SumStep
      <3>2. CASE s # {}
        <4> DEFINE t == s \ {Picked(s)}
        <4>1. t \in SUBSET S /\ Cardinality(t) <= n
          BY <1>1, <2>2, <3>2
        <4>2. next[t] = it[t]
          BY <1>4, <4>1
        <4>3. SumStep(f, next, s) = f[Picked(s)] + next[t] /\ SumStep(f, it, s) = f[Picked(s)] + it[t]
          BY <3>2 DEF SumStep
        <4> QED
          BY <4>2, <4>3
      <3> QED
        BY <3>1, <3>2
    <2> HIDE DEF next
    <2> QED
      BY <2>1, <2>2
  <1>5. B = {}
    <2> SUFFICES ASSUME B # {}
                 PROVE  FALSE
      OBVIOUS
    <2> HIDE DEF Upto
    <2>1. PICK n \in B : \A m \in B : ~(m < n)
      BY SmallestNumber
    <2>2. n # 0 /\ n \in Nat
      BY <1>3
    <2>3. n - 1 \in Nat /\ n - 1 < n /\ n = (n - 1) + 1
      BY <2>2
    <2>4. \E it : Upto(n - 1, it)
      BY <2>1, <2>3
    <2> QED
      BY <1>4, <2>3, <2>4
  <1>6. Cardinality(S) \in Nat
    BY FS_CardinalityType
  <1>7. PICK it : Upto(Cardinality(S), it)
    BY <1>5, <1>6
  <1>8. \A s \in SUBSET S : it[s] = SumStep(f, it, s)
    BY <1>7, FS_Subset
  <1>9. it = [s \in SUBSET S |-> SumStep(f, it, s)]
    BY <1>7, <1>8
  <1> QED
    BY <1>9 DEF IsSum

LEMMA SumIsChosen ==
  ASSUME NEW f, NEW S
  PROVE  SumFunctionOnSet(f, S) = (CHOOSE it : IsSum(it, f, S))[S]
  BY DEF SumFunctionOnSet, FoldFunctionOnSet, MapThenFoldSet, IsSum, SumStep, Picked

(* A solution for a set, read at the set itself. *)
LEMMA SumSolves ==
  ASSUME NEW f, NEW S, IsFiniteSet(S)
  PROVE  \E it : IsSum(it, f, S) /\ SumFunctionOnSet(f, S) = it[S]
  <1>1. \E it : IsSum(it, f, S)
    BY SumExists
  <1>2. IsSum(CHOOSE it : IsSum(it, f, S), f, S)
    BY <1>1, Zenon
  <1> QED
    BY <1>2, SumIsChosen

(* Solutions of the same recursion agree, whatever set they are for. *)
LEMMA SolutionsAgree ==
  ASSUME NEW f, NEW g, NEW S, NEW U, IsFiniteSet(S), U \subseteq S,
         NEW it, IsSum(it, f, S), NEW ju, IsSum(ju, g, U),
         \A x \in U : f[x] = g[x]
  PROVE  it[U] = ju[U]
  <1> DEFINE B == {s \in SUBSET U : it[s] # ju[s]}
  <1>1. \A s \in SUBSET U : it[s] = SumStep(f, it, s) /\ ju[s] = SumStep(g, ju, s)
    BY DEF IsSum
  <1>2. B = {}
    <2> SUFFICES ASSUME B # {}
                 PROVE  FALSE
      OBVIOUS
    <2>1. IsFiniteSet(U)
      BY FS_Subset
    <2>2. PICK s \in B : \A x \in s : s \ {x} \notin B
      BY <2>1, SmallestSet
    <2>3. CASE s = {}
      BY <1>1, <2>2, <2>3 DEF SumStep
    <2>4. CASE s # {}
      <3>1. Picked(s) \in s /\ Picked(s) \in U
        BY <2>4, PickIsMember
      <3>2. it[s \ {Picked(s)}] = ju[s \ {Picked(s)}]
        BY <2>2, <3>1
      <3> QED
        BY <1>1, <2>2, <2>4, <3>1, <3>2 DEF SumStep
    <2> QED
      BY <2>3, <2>4
  <1> QED
    BY <1>2

-----------------------------------------------------------------------------
(* Sums.                                                                   *)

(* The sum over a nonempty set takes out one element. *)
LEMMA SumRecursion ==
  ASSUME NEW f, NEW S, IsFiniteSet(S)
  PROVE  /\ SumFunctionOnSet(f, {}) = 0
         /\ S # {} => SumFunctionOnSet(f, S)
                        = f[Picked(S)] + SumFunctionOnSet(f, S \ {Picked(S)})
  <1>1. SumFunctionOnSet(f, {}) = 0
    <2>1. PICK it : IsSum(it, f, {}) /\ SumFunctionOnSet(f, {}) = it[{}]
      BY SumSolves, FS_EmptySet
    <2> QED
      BY <2>1 DEF IsSum, SumStep
  <1>2. ASSUME S # {}
        PROVE  SumFunctionOnSet(f, S) = f[Picked(S)] + SumFunctionOnSet(f, S \ {Picked(S)})
    <2> DEFINE U == S \ {Picked(S)}
    <2>1. IsFiniteSet(U) /\ U \subseteq S
      BY FS_RemoveElement
    <2>2. PICK it : IsSum(it, f, S) /\ SumFunctionOnSet(f, S) = it[S]
      BY SumSolves
    <2>3. PICK ju : IsSum(ju, f, U) /\ SumFunctionOnSet(f, U) = ju[U]
      BY <2>1, SumSolves
    <2>4. it[U] = ju[U]
      BY <2>1, <2>2, <2>3, SolutionsAgree
    <2>5. it[S] = SumStep(f, it, S)
      BY <2>2 DEF IsSum
    <2> QED
      BY <1>2, <2>2, <2>3, <2>4, <2>5 DEF SumStep
  <1> QED
    BY <1>1, <1>2

(* A sum depends only on the values over its set. *)
LEMMA SumSame ==
  ASSUME NEW f, NEW g, NEW S, IsFiniteSet(S), \A x \in S : f[x] = g[x]
  PROVE  SumFunctionOnSet(f, S) = SumFunctionOnSet(g, S)
  <1>1. PICK it : IsSum(it, f, S) /\ SumFunctionOnSet(f, S) = it[S]
    BY SumSolves
  <1>2. PICK ju : IsSum(ju, g, S) /\ SumFunctionOnSet(g, S) = ju[S]
    BY SumSolves
  <1> QED
    BY <1>1, <1>2, SolutionsAgree

(* A sum of integers is an integer, one of natural numbers a natural number.*)
LEMMA SumInt ==
  ASSUME NEW f, NEW S, IsFiniteSet(S), \A x \in S : f[x] \in Int
  PROVE  /\ SumFunctionOnSet(f, S) \in Int
         /\ (\A x \in S : f[x] \in Nat) => SumFunctionOnSet(f, S) \in Nat
  <1> DEFINE B == {s \in SUBSET S :
                     ~ /\ SumFunctionOnSet(f, s) \in Int
                       /\ (\A x \in s : f[x] \in Nat) => SumFunctionOnSet(f, s) \in Nat}
  <1>1. B = {}
    <2> SUFFICES ASSUME B # {}
                 PROVE  FALSE
      OBVIOUS
    <2>1. PICK s \in B : \A x \in s : s \ {x} \notin B
      BY SmallestSet
    <2>2. IsFiniteSet(s)
      BY FS_Subset
    <2>3. s # {}
      <3>1. SumFunctionOnSet(f, {}) = 0
        BY <2>2, SumRecursion
      <3> QED
        BY <3>1
    <2>4. Picked(s) \in s /\ s \ {Picked(s)} \notin B /\ s \ {Picked(s)} \in SUBSET S
      BY <2>1, <2>3, PickIsMember
    <2>5. SumFunctionOnSet(f, s) = f[Picked(s)] + SumFunctionOnSet(f, s \ {Picked(s)})
      BY <2>2, <2>3, SumRecursion
    <2>6. f[Picked(s)] \in Int
      BY <2>4
    <2> QED
      BY <2>4, <2>5, <2>6
  <1> QED
    BY <1>1

(* Any element can be taken out. *)
LEMMA SumRemove ==
  ASSUME NEW f, NEW S, IsFiniteSet(S), \A x \in S : f[x] \in Int, NEW y \in S
  PROVE  SumFunctionOnSet(f, S) = f[y] + SumFunctionOnSet(f, S \ {y})
  <1> DEFINE B == {s \in SUBSET S :
                     \E z \in s : SumFunctionOnSet(f, s) # f[z] + SumFunctionOnSet(f, s \ {z})}
  <1>1. B = {}
    <2> SUFFICES ASSUME B # {}
                 PROVE  FALSE
      OBVIOUS
    <2>1. PICK s \in B : \A x \in s : s \ {x} \notin B
      BY SmallestSet
    <2>2. PICK z \in s : SumFunctionOnSet(f, s) # f[z] + SumFunctionOnSet(f, s \ {z})
      BY <2>1
    <2> DEFINE p == Picked(s)
               u == s \ {p}
               v == s \ {z}
               w == u \ {z}
    <2>3. p \in s
      BY PickIsMember
    <2>4. /\ IsFiniteSet(s) /\ IsFiniteSet(u) /\ IsFiniteSet(v) /\ IsFiniteSet(w)
      BY FS_Subset
    <2>5. SumFunctionOnSet(f, s) = f[p] + SumFunctionOnSet(f, u)
      BY <2>4, SumRecursion
    <2>6. p # z
      BY <2>2, <2>5
    <2>7. z \in u /\ p \in v /\ w = v \ {p}
      BY <2>3, <2>6
    <2>8. SumFunctionOnSet(f, u) = f[z] + SumFunctionOnSet(f, w)
      BY <2>1, <2>3, <2>7
    <2>9. SumFunctionOnSet(f, v) = f[p] + SumFunctionOnSet(f, w)
      <3>1. v \in SUBSET S /\ v \notin B
        BY <2>1
      <3>2. SumFunctionOnSet(f, v) = f[p] + SumFunctionOnSet(f, v \ {p})
        BY <2>7, <3>1
      <3> QED
        BY <2>7, <3>2
    <2>10. f[p] \in Int /\ f[z] \in Int /\ SumFunctionOnSet(f, w) \in Int
      BY <2>3, <2>4, SumInt
    <2> HIDE DEF p, u, v, w
    <2>11. SumFunctionOnSet(f, s) = f[z] + SumFunctionOnSet(f, v)
      BY <2>5, <2>8, <2>9, <2>10
    <2> QED
      BY <2>2, <2>11 DEF v
  <1> QED
    BY <1>1

(* Adding an element. *)
LEMMA SumAdd ==
  ASSUME NEW f, NEW S, IsFiniteSet(S), NEW y, y \notin S,
         \A x \in S \cup {y} : f[x] \in Int
  PROVE  SumFunctionOnSet(f, S \cup {y}) = f[y] + SumFunctionOnSet(f, S)
  <1>1. IsFiniteSet(S \cup {y}) /\ (S \cup {y}) \ {y} = S
    BY FS_AddElement
  <1> QED
    BY <1>1, SumRemove

(* What a change of one element, its arrival or its departure does to a sum. *)
LEMMA SumChange ==
  ASSUME NEW f, NEW g, NEW S, NEW U, NEW y,
         IsFiniteSet(S), IsFiniteSet(U), S \ {y} = U \ {y},
         \A x \in S : f[x] \in Int, \A x \in U : g[x] \in Int,
         \A x \in S \ {y} : g[x] = f[x]
  PROVE  /\ SumFunctionOnSet(f, S) \in Int
         /\ SumFunctionOnSet(g, U)
              = SumFunctionOnSet(f, S) + (IF y \in U THEN g[y] ELSE 0)
                                       - (IF y \in S THEN f[y] ELSE 0)
  <1>1. IsFiniteSet(S \ {y})
    BY FS_RemoveElement
  <1>2. SumFunctionOnSet(g, U \ {y}) = SumFunctionOnSet(f, S \ {y})
    BY <1>1, SumSame
  <1>3. /\ SumFunctionOnSet(f, S) \in Int
        /\ SumFunctionOnSet(f, S \ {y}) \in Int
    BY <1>1, SumInt
  <1>4. SumFunctionOnSet(f, S)
          = SumFunctionOnSet(f, S \ {y}) + (IF y \in S THEN f[y] ELSE 0)
    <2>1. CASE y \in S
      BY <2>1, <1>3, SumRemove
    <2>2. CASE y \notin S
      <3>1. S \ {y} = S
        BY <2>2
      <3> QED
        BY <2>2, <3>1, <1>3
    <2> QED
      BY <2>1, <2>2
  <1>5. SumFunctionOnSet(g, U)
          = SumFunctionOnSet(g, U \ {y}) + (IF y \in U THEN g[y] ELSE 0)
    <2>1. SumFunctionOnSet(g, U \ {y}) \in Int
      BY <1>2, <1>3
    <2>2. CASE y \in U
      BY <2>1, <2>2, SumRemove
    <2>3. CASE y \notin U
      <3>1. U \ {y} = U
        BY <2>3
      <3>2. SumFunctionOnSet(g, U) = SumFunctionOnSet(g, U \ {y})
        BY <3>1, Zenon
      <3> QED
        BY <2>1, <2>3, <3>2
    <2> QED
      BY <2>2, <2>3
  <1> QED
    BY <1>2, <1>3, <1>4, <1>5

(* A sum of natural numbers over a smaller set is no larger. *)
LEMMA SumMonotonic ==
  ASSUME NEW f, NEW S, IsFiniteSet(S), \A x \in S : f[x] \in Nat, NEW T \in SUBSET S
  PROVE  SumFunctionOnSet(f, T) <= SumFunctionOnSet(f, S)
  <1> DEFINE B == {s \in SUBSET S : T \subseteq s /\
                     ~(SumFunctionOnSet(f, T) <= SumFunctionOnSet(f, s))}
  <1>1. IsFiniteSet(T) /\ SumFunctionOnSet(f, T) \in Int
    BY FS_Subset, SumInt
  <1>2. B = {}
    <2> SUFFICES ASSUME B # {}
                 PROVE  FALSE
      OBVIOUS
    <2>1. PICK s \in B : \A x \in s : s \ {x} \notin B
      <3>1. B \subseteq SUBSET S
        OBVIOUS
      <3> HIDE DEF B
      <3> QED
        BY <3>1, SmallestSet
    <2>2. IsFiniteSet(s) /\ SumFunctionOnSet(f, s) \in Int
      BY FS_Subset, SumInt
    <2>3. PICK x \in s : x \notin T
      BY <1>1, <2>1
    <2>4. IsFiniteSet(s \ {x})
      BY <2>2, FS_RemoveElement
    <2>5. SumFunctionOnSet(f, s \ {x}) \in Nat /\ f[x] \in Nat
      BY <2>4, SumInt
    <2>6. SumFunctionOnSet(f, T) <= SumFunctionOnSet(f, s \ {x})
      BY <2>1, <2>3
    <2>7. SumFunctionOnSet(f, s) = f[x] + SumFunctionOnSet(f, s \ {x})
      BY <2>2, SumRemove
    <2> QED
      BY <1>1, <2>1, <2>2, <2>5, <2>6, <2>7
  <1> QED
    BY <1>2
=============================================================================
