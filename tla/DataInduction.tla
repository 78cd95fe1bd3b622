----------------------------- MODULE DataInduction -----------------------------
(***************************************************************************)
(* Facts about numbers, sequences, folds, recursive functions and sums     *)
(* over finite sets that the proofs of the components share.  Induction is *)
(* stated over a set of numbers: every instance names that set.            *)
(***************************************************************************)
EXTENDS Stepwise, FiniteSets, Functions, WellFoundedInduction, FiniteSetTheorems, SequenceTheorems, TLAPS

(* Every nonempty set of numbers has a least element.                      *)
LEMMA LeastNumber ==
  ASSUME NEW T \in SUBSET Nat, T # {}
  PROVE  \E least \in T : \A n \in T : least <= n
<1>1. PICK least \in T : \A n \in T : ~(<<n, least>> \in OpToRel(<, Nat))
  BY NatLessThanWellFounded, WFMin
<1>2. \A n \in T : ~(n < least)
  BY <1>1 DEF OpToRel
<1> QED
  BY <1>2

(* A set that holds zero and every successor of its numbers holds them all. *)
LEMMA EveryNumber ==
  ASSUME NEW T, 0 \in T, \A n \in Nat : n \in T => n + 1 \in T
  PROVE  Nat \subseteq T
<1> SUFFICES ASSUME NEW m \in Nat \ T PROVE FALSE
  OBVIOUS
<1>1. PICK least \in Nat \ T : \A n \in Nat \ T : least <= n
  BY LeastNumber
<1>2. least # 0
  BY <1>1
<1>3. least - 1 \in Nat /\ ~(least <= least - 1)
  BY <1>1, <1>2
<1>4. least - 1 \in T
  BY <1>1, <1>3
<1> QED
  BY <1>1, <1>3, <1>4

(* f begins with base, and each step leads from one of its values to the   *)
(* next.                                                                   *)
Iterates(f, base, step, last) ==
  f[0] = base /\ \A i \in 1 .. last : f[i] = step[i][f[i - 1]]

(* Such a function exists for all steps.                                   *)
LEMMA RecursiveFunctionExists ==
  ASSUME NEW S, NEW base \in S, NEW last \in Nat, NEW step \in [1 .. last -> [S -> S]]
  PROVE  \E f \in [0 .. last -> S] : Iterates(f, base, step, last)
<1> USE DEF Iterates
<1> DEFINE Defines(f, n) == f \in [0 .. n -> S] /\ Iterates(f, base, step, n)
           T == {n \in Nat : n <= last => \E f : Defines(f, n)}
<1>1. 0 \in T
  <2>1. Defines([i \in 0 .. 0 |-> base], 0)
    OBVIOUS
  <2> QED
    BY <2>1
<1>2. ASSUME NEW n \in Nat, n \in T PROVE n + 1 \in T
  <2> SUFFICES ASSUME n + 1 <= last PROVE \E g : Defines(g, n + 1)
    OBVIOUS
  <2>1. PICK f : Defines(f, n)
    BY <1>2
  <2> DEFINE g == [i \in 0 .. n + 1 |-> IF i <= n THEN f[i] ELSE step[n + 1][f[n]]]
  <2>2. step[n + 1][f[n]] \in S
    BY <2>1
  <2>3. \A i \in 0 .. n : g[i] = f[i] /\ g[i] \in S
    BY <2>1
  <2>4. g[n + 1] = step[n + 1][g[n]]
    BY <2>1
  <2>5. g \in [0 .. n + 1 -> S]
    BY <2>1, <2>2
  <2>6. ASSUME NEW i \in 1 .. n + 1 PROVE g[i] = step[i][g[i - 1]]
    <3>1. CASE i = n + 1
      BY <3>1, <2>4
    <3>2. CASE i \in 1 .. n
      BY <3>2, <2>1, <2>3
    <3> QED
      BY <3>1, <3>2
  <2>7. g[0] = base
    BY <2>1
  <2> HIDE DEF g
  <2> QED
    BY <2>5, <2>6, <2>7
<1>3. last \in T
  <2> HIDE DEF T
  <2> QED
    BY <1>1, <1>2, EveryNumber
<1> QED
  BY <1>3

-----------------------------------------------------------------------------
(* Sums of functions of numbers over finite sets.                          *)

(* The element a sum over T takes next.                                    *)
Picked(T) == CHOOSE x \in T : TRUE

(* w gives the sum of f over each subset of S, taking the elements in the  *)
(* order they are chosen in.                                               *)
Sums(w, f, S) ==
  w = [T \in SUBSET S |-> IF T = {} THEN 0 ELSE f[Picked(T)] + w[T \ {Picked(T)}]]

(* w gives sums that may take any element of a subset first.               *)
Additive(w, f, S) ==
  /\ w \in [SUBSET S -> Nat]
  /\ \A T \in SUBSET S : \A x \in T : w[T] = f[x] + w[T \ {x}]

LEMMA PickedIsElement ==
  ASSUME NEW T, T # {}
  PROVE  Picked(T) \in T
BY DEF Picked

(* The sums exist.                                                         *)
LEMMA SumsExist ==
  ASSUME NEW S, IsFiniteSet(S), NEW f \in [S -> Nat]
  PROVE  \E w \in [SUBSET S -> Nat] : Sums(w, f, S)
<1> DEFINE Tables == [SUBSET S -> Nat]
           More(v) == [T \in SUBSET S |-> IF T = {} THEN 0 ELSE f[Picked(T)] + v[T \ {Picked(T)}]]
           zero == [T \in SUBSET S |-> 0]
           last == Cardinality(S)
           step == [i \in 1 .. last |-> [v \in Tables |-> More(v)]]
<1>1. last \in Nat /\ \A T \in SUBSET S : IsFiniteSet(T) /\ Cardinality(T) \in 0 .. last
  <2>1. last \in Nat
    BY FS_CardinalityType
  <2>2. ASSUME NEW T \in SUBSET S PROVE IsFiniteSet(T) /\ Cardinality(T) \in 0 .. last
    BY <2>1, FS_Subset, FS_CardinalityType
  <2> QED
    BY <2>1, <2>2
<1>2. \A T \in SUBSET S : T # {} => Picked(T) \in S /\ Picked(T) \in T /\ T \ {Picked(T)} \in SUBSET S
  BY PickedIsElement
<1>3. ASSUME NEW v \in Tables PROVE More(v) \in Tables
  BY <1>2
<1>4. step \in [1 .. last -> [Tables -> Tables]]
  <2> HIDE DEF Tables, More, last
  <2> QED
    BY <1>3
<1>5. zero \in Tables
  OBVIOUS
<1>6. PICK rounds \in [0 .. last -> Tables] : Iterates(rounds, zero, step, last)
  <2>1. last \in Nat
    BY <1>1
  <2> HIDE DEF Tables, More, zero, last, step
  <2> QED
    BY <2>1, <1>4, <1>5, RecursiveFunctionExists
<1> DEFINE w == [T \in SUBSET S |-> rounds[Cardinality(T)][T]]
<1>7. w \in Tables
  BY <1>1, <1>6
<1>8. ASSUME NEW T \in SUBSET S
      PROVE  w[T] = IF T = {} THEN 0 ELSE f[Picked(T)] + w[T \ {Picked(T)}]
  <2>1. CASE T = {}
    BY <2>1, <1>6, FS_EmptySet DEF Iterates
  <2>2. CASE T # {}
    <3>1. Cardinality(T \ {Picked(T)}) = Cardinality(T) - 1
      BY <2>2, <1>1, <1>2, FS_RemoveElement
    <3>2. Cardinality(T) \in 1 .. last
      BY <2>2, <1>1, FS_EmptySet
    <3>3. rounds[Cardinality(T) - 1] \in Tables
      <4>1. Cardinality(T) - 1 \in 0 .. last
        BY <3>2, <1>1
      <4> HIDE DEF Tables, last
      <4> QED
        BY <4>1, <1>6
    <3>4. rounds[Cardinality(T)] = More(rounds[Cardinality(T) - 1])
      <4> HIDE DEF Tables, More
      <4> QED
        BY <3>2, <3>3, <1>6 DEF Iterates
    <3>5. w[T] = f[Picked(T)] + rounds[Cardinality(T) - 1][T \ {Picked(T)}]
      BY <2>2, <3>4
    <3> QED
      BY <2>2, <3>1, <3>5, <1>2
  <2> QED
    BY <2>1, <2>2
<1> QED
  BY <1>7, <1>8 DEF Sums

(* A sum over T may take any element of T first.                           *)
LEMMA AnyElementFirst ==
  ASSUME NEW S, IsFiniteSet(S), NEW f \in [S -> Nat], NEW w, Sums(w, f, S)
  PROVE  Additive(w, f, S)
<1> DEFINE Typed == {n \in Nat : \A T \in SUBSET S : Cardinality(T) = n => w[T] \in Nat}
           Fits(T) == \A x \in T : w[T] = f[x] + w[T \ {x}]
           Ordered == {n \in Nat : \A T \in SUBSET S : Cardinality(T) = n => Fits(T)}
<1>1. \A T \in SUBSET S : IsFiniteSet(T) /\ Cardinality(T) \in Nat
  BY FS_Subset, FS_CardinalityType
<1>2. \A T \in SUBSET S : T # {} =>
        Picked(T) \in T /\ f[Picked(T)] \in Nat /\ w[T] = f[Picked(T)] + w[T \ {Picked(T)}]
  BY PickedIsElement DEF Sums
<1>3. ASSUME NEW n \in Nat, NEW T \in SUBSET S, Cardinality(T) = n + 1
      PROVE  T # {} /\ \A x \in T : T \ {x} \in SUBSET S /\ Cardinality(T \ {x}) = n
  BY <1>1, <1>3, FS_EmptySet, FS_RemoveElement
<1>4. w[{}] = 0 /\ \A T \in SUBSET S : Cardinality(T) = 0 => T = {}
  BY <1>1, FS_EmptySet DEF Sums
<1>5. 0 \in Typed
  BY <1>4
<1>6. ASSUME NEW n \in Nat, n \in Typed PROVE n + 1 \in Typed
  <2> SUFFICES ASSUME NEW T \in SUBSET S, Cardinality(T) = n + 1 PROVE w[T] \in Nat
    OBVIOUS
  <2>1. f[Picked(T)] \in Nat /\ w[T] = f[Picked(T)] + w[T \ {Picked(T)}]
    BY <1>2, <1>3
  <2>2. w[T \ {Picked(T)}] \in Nat
    BY <1>2, <1>3, <1>6
  <2> QED
    BY <2>1, <2>2
<1>7. \A T \in SUBSET S : w[T] \in Nat
  <2>1. Nat \subseteq Typed
    <3> HIDE DEF Typed
    <3> QED
      BY <1>5, <1>6, EveryNumber
  <2> QED
    BY <2>1, <1>1
<1>8. 0 \in Ordered
  BY <1>4
<1>9. ASSUME NEW n \in Nat, n \in Ordered PROVE n + 1 \in Ordered
  <2> SUFFICES ASSUME NEW T \in SUBSET S, Cardinality(T) = n + 1, NEW x \in T
               PROVE  w[T] = f[x] + w[T \ {x}]
    OBVIOUS
  <2> DEFINE c == Picked(T)
  <2>1. /\ c \in T /\ f[c] \in Nat /\ f[x] \in Nat
        /\ w[T] = f[c] + w[T \ {c}]
    BY <1>2, <1>3
  <2> HIDE DEF c
  <2>2. Fits(T \ {c}) /\ Fits(T \ {x})
    BY <1>3, <1>9, <2>1
  <2>3. CASE x = c
    BY <2>1, <2>3
  <2>4. CASE x # c
    <3>1. w[T \ {c}] = f[x] + w[(T \ {c}) \ {x}]
      BY <2>1, <2>2, <2>4
    <3>2. w[T \ {x}] = f[c] + w[(T \ {x}) \ {c}]
      BY <2>1, <2>2, <2>4
    <3> DEFINE rest == w[(T \ {c}) \ {x}]
    <3>3. (T \ {c}) \ {x} = (T \ {x}) \ {c}
      OBVIOUS
    <3>4. rest \in Nat
      BY <1>7
    <3>5. w[T] = f[c] + (f[x] + rest) /\ w[T \ {x}] = f[c] + rest
      BY <2>1, <3>1, <3>2, <3>3
    <3> HIDE DEF rest
    <3> QED
      BY <2>1, <3>4, <3>5
  <2> QED
    BY <2>3, <2>4
<1>10. \A T \in SUBSET S : Fits(T)
  <2>1. Nat \subseteq Ordered
    <3> HIDE DEF Ordered
    <3> QED
      BY <1>8, <1>9, EveryNumber
  <2> QED
    BY <2>1, <1>1
<1>11. w \in [SUBSET S -> Nat]
  BY <1>7 DEF Sums
<1> QED
  BY <1>10, <1>11 DEF Additive

(* Functions that agree on T have the same sum over T, whatever larger     *)
(* sets the tables of sums are for.                                        *)
LEMMA SumsAgree ==
  ASSUME NEW S, IsFiniteSet(S), NEW f \in [S -> Nat], NEW w, Sums(w, f, S),
         NEW R, IsFiniteSet(R), NEW g \in [R -> Nat], NEW v, Sums(v, g, R),
         NEW U \in SUBSET S, U \in SUBSET R, \A x \in U : f[x] = g[x]
  PROVE  w[U] = v[U]
<1> DEFINE Same == {n \in Nat : \A T \in SUBSET U : Cardinality(T) = n => w[T] = v[T]}
<1>1. \A T \in SUBSET U : IsFiniteSet(T) /\ Cardinality(T) \in Nat
  BY FS_Subset, FS_CardinalityType
<1>5. \A T \in SUBSET U : \A x \in T : w[T] = f[x] + w[T \ {x}] /\ v[T] = g[x] + v[T \ {x}]
  <2>1. Additive(w, f, S) /\ Additive(v, g, R)
    BY AnyElementFirst
  <2> QED
    BY <2>1 DEF Additive
<1>2. 0 \in Same
  <2> SUFFICES ASSUME NEW T \in SUBSET U, Cardinality(T) = 0 PROVE w[T] = v[T]
    OBVIOUS
  <2>1. T = {}
    BY <1>1, FS_EmptySet
  <2> QED
    BY <2>1 DEF Sums
<1>3. ASSUME NEW n \in Nat, n \in Same PROVE n + 1 \in Same
  <2> SUFFICES ASSUME NEW T \in SUBSET U, Cardinality(T) = n + 1 PROVE w[T] = v[T]
    OBVIOUS
  <2>1. PICK x : x \in T
    BY <1>1, FS_EmptySet
  <2>2. T \ {x} \in SUBSET U /\ Cardinality(T \ {x}) = n
    <3>1. Cardinality(T \ {x}) = Cardinality(T) - 1
      BY <1>1, <2>1, FS_RemoveElement
    <3> QED
      BY <3>1
  <2>3. w[T \ {x}] = v[T \ {x}]
    BY <1>3, <2>2
  <2>4. w[T] = f[x] + w[T \ {x}] /\ v[T] = g[x] + v[T \ {x}]
    BY <1>5, <2>1
  <2> QED
    BY <2>1, <2>3, <2>4
<1>4. Nat \subseteq Same
  <2> HIDE DEF Same
  <2> QED
    BY <1>2, <1>3, EveryNumber
<1> QED
  BY <1>1, <1>4

(* The library's sum of a function is one of these sums.                   *)
LEMMA SumFunctionIsSum ==
  ASSUME NEW S, IsFiniteSet(S), NEW f \in [S -> Nat]
  PROVE  \E w \in [SUBSET S -> Nat] : Sums(w, f, S) /\ SumFunction(f) = w[S]
<1> DEFINE w[T \in SUBSET S] ==
      IF T = {} THEN 0 ELSE LET x == CHOOSE y \in T : TRUE IN f[x] + w[T \ {x}]
<1>1. SumFunction(f) = w[S]
  BY DEF SumFunction, SumFunctionOnSet, FoldFunctionOnSet, MapThenFoldSet
<1>2. Sums(w, f, S)
  <2>1. PICK v : Sums(v, f, S)
    BY SumsExist
  <2>2. v = [T \in SUBSET S |->
          IF T = {} THEN 0 ELSE LET x == CHOOSE y \in T : TRUE IN f[x] + v[T \ {x}]]
    BY <2>1, Zenon DEF Sums, Picked
  <2>3. w = [T \in SUBSET S |->
          IF T = {} THEN 0 ELSE LET x == CHOOSE y \in T : TRUE IN f[x] + w[T \ {x}]]
    BY <2>2, Zenon
  <2> HIDE DEF w
  <2> QED
    BY <2>3, Zenon DEF Sums, Picked
<1>3. w \in [SUBSET S -> Nat]
  <2> HIDE DEF w
  <2>1. Additive(w, f, S)
    BY <1>2, AnyElementFirst
  <2> QED
    BY <2>1 DEF Additive
<1> QED
  BY <1>1, <1>2, <1>3

(* A sum is a number.                                                      *)
LEMMA SumIsNumber ==
  ASSUME NEW S, IsFiniteSet(S), NEW f \in [S -> Nat]
  PROVE  SumFunction(f) \in Nat
<1>1. PICK w \in [SUBSET S -> Nat] : Sums(w, f, S) /\ SumFunction(f) = w[S]
  BY SumFunctionIsSum
<1> QED
  BY <1>1

(* A sum changes by as much as the one value that changes.                 *)
LEMMA SumChanges ==
  ASSUME NEW S, IsFiniteSet(S), NEW f \in [S -> Nat], NEW g \in [S -> Nat],
         NEW x \in S, \A y \in S \ {x} : g[y] = f[y]
  PROVE  SumFunction(g) + f[x] = SumFunction(f) + g[x]
<1>1. PICK w \in [SUBSET S -> Nat] : Sums(w, f, S) /\ SumFunction(f) = w[S]
  BY SumFunctionIsSum
<1>2. PICK v \in [SUBSET S -> Nat] : Sums(v, g, S) /\ SumFunction(g) = v[S]
  BY SumFunctionIsSum
<1>3. Additive(w, f, S) /\ Additive(v, g, S)
  BY <1>1, <1>2, AnyElementFirst
<1>4. w[S] = f[x] + w[S \ {x}] /\ v[S] = g[x] + v[S \ {x}]
  BY <1>3 DEF Additive
<1>5. w[S \ {x}] = v[S \ {x}]
  BY <1>1, <1>2, SumsAgree
<1>6. w[S \ {x}] \in Nat /\ f[x] \in Nat /\ g[x] \in Nat
  BY <1>1
<1> QED
  BY <1>1, <1>2, <1>4, <1>5, <1>6

(* A sum does not grow when none of the values does.                       *)
LEMMA SumShrinks ==
  ASSUME NEW S, IsFiniteSet(S), NEW f \in [S -> Nat], NEW g \in [S -> Nat],
         \A y \in S : g[y] <= f[y]
  PROVE  SumFunction(g) <= SumFunction(f)
<1>1. PICK w \in [SUBSET S -> Nat] : Sums(w, f, S) /\ SumFunction(f) = w[S]
  BY SumFunctionIsSum
<1>2. PICK v \in [SUBSET S -> Nat] : Sums(v, g, S) /\ SumFunction(g) = v[S]
  BY SumFunctionIsSum
<1>3. Additive(w, f, S) /\ Additive(v, g, S)
  BY <1>1, <1>2, AnyElementFirst
<1> DEFINE Below == {n \in Nat : \A T \in SUBSET S : Cardinality(T) = n => v[T] <= w[T]}
<1>4. \A T \in SUBSET S : IsFiniteSet(T) /\ Cardinality(T) \in Nat
  BY FS_Subset, FS_CardinalityType
<1>5. 0 \in Below
  <2> SUFFICES ASSUME NEW T \in SUBSET S, Cardinality(T) = 0 PROVE v[T] <= w[T]
    OBVIOUS
  <2>1. T = {}
    BY <1>4, FS_EmptySet
  <2>2. v[T] = 0 /\ w[T] = 0
    BY <1>1, <1>2, <2>1 DEF Sums
  <2> QED
    BY <2>2
<1>6. ASSUME NEW n \in Nat, n \in Below PROVE n + 1 \in Below
  <2> SUFFICES ASSUME NEW T \in SUBSET S, Cardinality(T) = n + 1 PROVE v[T] <= w[T]
    OBVIOUS
  <2>1. PICK x : x \in T
    BY <1>4, FS_EmptySet
  <2>2. T \ {x} \in SUBSET S /\ Cardinality(T \ {x}) = n
    <3>1. Cardinality(T \ {x}) = Cardinality(T) - 1
      BY <1>4, <2>1, FS_RemoveElement
    <3> QED
      BY <3>1
  <2>3. v[T \ {x}] <= w[T \ {x}] /\ v[T \ {x}] \in Nat /\ w[T \ {x}] \in Nat
    BY <1>6, <2>2
  <2>4. w[T] = f[x] + w[T \ {x}] /\ v[T] = g[x] + v[T \ {x}]
    BY <1>3, <2>1 DEF Additive
  <2>5. f[x] \in Nat /\ g[x] \in Nat /\ g[x] <= f[x]
    BY <2>1
  <2> QED
    BY <2>3, <2>4, <2>5
<1>7. Nat \subseteq Below
  <2> HIDE DEF Below
  <2> QED
    BY <1>5, <1>6, EveryNumber
<1> QED
  BY <1>1, <1>2, <1>4, <1>7

(* A sum of nothing but zeros is zero.                                     *)
LEMMA SumVanishes ==
  ASSUME NEW S, IsFiniteSet(S), NEW f \in [S -> Nat], \A y \in S : f[y] = 0
  PROVE  SumFunction(f) = 0
<1>1. PICK w \in [SUBSET S -> Nat] : Sums(w, f, S) /\ SumFunction(f) = w[S]
  BY SumFunctionIsSum
<1> DEFINE zero == [T \in SUBSET S |-> 0]
<1>2. Sums(zero, f, S)
  <2>1. \A T \in SUBSET S : T # {} => f[Picked(T)] = 0 /\ T \ {Picked(T)} \in SUBSET S
    BY PickedIsElement
  <2> QED
    BY <2>1 DEF Sums
<1>3. w[S] = zero[S]
  <2> HIDE DEF zero
  <2> QED
    BY <1>1, <1>2, SumsAgree
<1> QED
  BY <1>1, <1>3

(* A sum over one element more is greater by its value.                    *)
LEMMA SumGrows ==
  ASSUME NEW S, IsFiniteSet(S), NEW x, x \notin S, NEW f \in [S \cup {x} -> Nat],
         NEW g \in [S -> Nat], \A y \in S : g[y] = f[y]
  PROVE  SumFunction(f) = SumFunction(g) + f[x]
<1> DEFINE R == S \cup {x}
<1>1. IsFiniteSet(R)
  BY FS_AddElement
<1>2. PICK w \in [SUBSET R -> Nat] : Sums(w, f, R) /\ SumFunction(f) = w[R]
  BY <1>1, SumFunctionIsSum
<1>3. PICK v \in [SUBSET S -> Nat] : Sums(v, g, S) /\ SumFunction(g) = v[S]
  BY SumFunctionIsSum
<1>4. w[S] = v[S]
  BY <1>1, <1>2, <1>3, SumsAgree
<1>5. Additive(w, f, R)
  BY <1>1, <1>2, AnyElementFirst
<1>6. R \ {x} = S /\ x \in R
  OBVIOUS
<1>7. w[R] = f[x] + w[S]
  BY <1>5, <1>6 DEF Additive
<1>8. w[S] \in Nat /\ f[x] \in Nat
  BY <1>2
<1> QED
  BY <1>2, <1>3, <1>4, <1>7, <1>8

-----------------------------------------------------------------------------
(* Sequences, and what their elements make of a value one after the other. *)

(* A set that holds the empty sequence, and with every sequence the longer *)
(* ones by an element, holds all of them.                                  *)
LEMMA EverySequence ==
  ASSUME NEW C, NEW T, <<>> \in T,
         \A s \in Seq(C), c \in C : s \in T => Append(s, c) \in T
  PROVE  Seq(C) \subseteq T
<1> DEFINE N == {n \in Nat : \A s \in Seq(C) : Len(s) = n => s \in T}
<1>1. 0 \in N
  <2> SUFFICES ASSUME NEW s \in Seq(C), Len(s) = 0 PROVE s \in T
    OBVIOUS
  <2>1. s = <<>>
    BY EmptySeq
  <2> QED
    BY <2>1
<1>2. ASSUME NEW n \in Nat, n \in N PROVE n + 1 \in N
  <2> SUFFICES ASSUME NEW s \in Seq(C), Len(s) = n + 1 PROVE s \in T
    OBVIOUS
  <2> DEFINE front == SubSeq(s, 1, n)
  <2>1. front \in Seq(C) /\ Len(front) = n
    OBVIOUS
  <2>2. s[n + 1] \in C /\ s = Append(front, s[n + 1])
    OBVIOUS
  <2>3. front \in T
    BY <1>2, <2>1
  <2> HIDE DEF front
  <2> QED
    BY <2>1, <2>2, <2>3
<1>3. Nat \subseteq N
  <2> HIDE DEF N
  <2> QED
    BY <1>1, <1>2, EveryNumber
<1> QED
  <2> SUFFICES ASSUME NEW s \in Seq(C) PROVE s \in T
    OBVIOUS
  <2>1. Len(s) \in N
    BY <1>3
  <2> QED
    BY <2>1

(* A sequence that is not empty has a first element.                       *)
LEMMA LenPositive ==
  ASSUME NEW C, NEW seq \in Seq(C), seq # <<>>
  PROVE  Len(seq) \in Nat /\ Len(seq) >= 1
<1>1. Len(seq) # 0
  BY EmptySeq
<1> QED
  BY <1>1

(* f holds what Through makes of base after each element.                  *)
Unfolds(f, step, base, seq) ==
  /\ Through(step, base, seq) = f[Len(seq)]
  /\ f[0] = base
  /\ \A i \in 1 .. Len(seq) : f[i] = step[seq[i]][f[i - 1]]

(* The equations Through stands for have a solution, which it returns.     *)
LEMMA ThroughUnfolds ==
  ASSUME NEW C, NEW S, NEW step \in [C -> [S -> S]], NEW base \in S, NEW seq \in Seq(C)
  PROVE  \E f \in [0 .. Len(seq) -> S] : Unfolds(f, step, base, seq)
<1> DEFINE last == Len(seq)
           each == [i \in 1 .. last |-> step[seq[i]]]
           After(f) == f = [i \in 0 .. Len(seq) |->
                              IF i = 0 THEN base ELSE step[seq[i]][f[i - 1]]]
<1>1. last \in Nat /\ each \in [1 .. last -> [S -> S]]
  OBVIOUS
<1>2. PICK f \in [0 .. last -> S] : Iterates(f, base, each, last)
  <2> HIDE DEF last, each
  <2> QED
    BY <1>1, RecursiveFunctionExists
<1>3. After(f)
  BY <1>1, <1>2 DEF Iterates
<1> DEFINE g == CHOOSE h : After(h)
<1>4. After(g)
  <2> HIDE DEF After
  <2> QED
    BY <1>3, Zenon
<1>5. Through(step, base, seq) = g[last]
  BY DEF Through
<1> HIDE DEF g
<1>6. g[0] = base /\ \A i \in 1 .. last : g[i] = step[seq[i]][g[i - 1]]
  <2>1. ASSUME NEW i \in 1 .. last PROVE i \in 0 .. last /\ i # 0
    BY <1>1
  <2>2. 0 \in 0 .. last
    BY <1>1
  <2> QED
    BY <1>4, <2>1, <2>2
<1>7. \A i \in 0 .. last : g[i] \in S
  <2> DEFINE T == {n \in Nat : n <= last => g[n] \in S}
  <2>1. 0 \in T
    BY <1>6
  <2>2. ASSUME NEW n \in Nat, n \in T PROVE n + 1 \in T
    <3> SUFFICES ASSUME n + 1 <= last PROVE g[n + 1] \in S
      OBVIOUS
    <3>1. n + 1 \in 1 .. last /\ (n + 1) - 1 = n /\ g[n] \in S
      BY <1>1, <2>2
    <3>2. seq[n + 1] \in C
      BY <3>1
    <3> QED
      BY <1>6, <3>1, <3>2
  <2>3. Nat \subseteq T
    <3> HIDE DEF T
    <3> QED
      BY <2>1, <2>2, EveryNumber
  <2> QED
    BY <2>3, <1>1
<1>8. g \in [0 .. last -> S]
  BY <1>4, <1>7
<1> QED
  BY <1>5, <1>6, <1>8 DEF Unfolds

(* A fold stays in the set its steps stay in.                              *)
LEMMA ThroughTyped ==
  ASSUME NEW C, NEW S, NEW step \in [C -> [S -> S]], NEW base \in S, NEW seq \in Seq(C)
  PROVE  Through(step, base, seq) \in S
BY ThroughUnfolds, LenProperties DEF Unfolds

(* A fold of nothing is its base.                                          *)
LEMMA ThroughEmpty ==
  ASSUME NEW C, NEW S, NEW step \in [C -> [S -> S]], NEW base \in S
  PROVE  Through(step, base, <<>>) = base
<1>1. <<>> \in Seq(C) /\ Len(<<>>) = 0
  BY EmptySeq
<1>2. PICK f \in [0 .. Len(<<>>) -> S] : Unfolds(f, step, base, <<>>)
  BY <1>1, ThroughUnfolds
<1> QED
  BY <1>1, <1>2 DEF Unfolds

(* One element more is one step more.                                      *)
LEMMA ThroughAppend ==
  ASSUME NEW C, NEW S, NEW step \in [C -> [S -> S]], NEW base \in S, NEW seq \in Seq(C), NEW c \in C
  PROVE  Through(step, base, Append(seq, c)) = step[c][Through(step, base, seq)]
<1> DEFINE last == Len(seq)
           more == Append(seq, c)
<1>1. last \in Nat /\ more \in Seq(C) /\ Len(more) = last + 1 /\ more[last + 1] = c
      /\ \A i \in 1 .. last : more[i] = seq[i]
  OBVIOUS
<1> HIDE DEF last, more
<1>2. PICK f \in [0 .. Len(seq) -> S] : Unfolds(f, step, base, seq)
  BY ThroughUnfolds
<1>3. PICK g \in [0 .. Len(more) -> S] : Unfolds(g, step, base, more)
  BY <1>1, ThroughUnfolds
<1> USE DEF Unfolds, last
<1>4. g[last] = f[last]
  <2> DEFINE T == {n \in Nat : n <= last => g[n] = f[n]}
  <2>1. 0 \in T
    BY <1>2, <1>3
  <2>2. ASSUME NEW n \in Nat, n \in T PROVE n + 1 \in T
    <3> SUFFICES ASSUME n + 1 <= last PROVE g[n + 1] = f[n + 1]
      OBVIOUS
    <3>1. n + 1 \in 1 .. last /\ n + 1 \in 1 .. Len(more) /\ (n + 1) - 1 = n /\ g[n] = f[n]
      BY <1>1, <2>2
    <3>2. f[n + 1] = step[seq[n + 1]][f[n]]
      BY <1>2, <3>1
    <3>3. g[n + 1] = step[more[n + 1]][g[n]]
      BY <1>3, <3>1
    <3> QED
      BY <1>1, <3>1, <3>2, <3>3
  <2>3. Nat \subseteq T
    <3> HIDE DEF T
    <3> QED
      BY <2>1, <2>2, EveryNumber
  <2> QED
    BY <2>3, <1>1
<1>5. g[last + 1] = step[c][g[last]]
  <2>1. last + 1 \in 1 .. Len(more) /\ (last + 1) - 1 = last
    BY <1>1
  <2> QED
    BY <1>1, <1>3, <2>1
<1> QED
  BY <1>1, <1>2, <1>3, <1>4, <1>5 DEF more

(* A sequence in two parts is one part after the other.                    *)
LEMMA ThroughConcat ==
  ASSUME NEW C, NEW S, NEW step \in [C -> [S -> S]], NEW base \in S, NEW s \in Seq(C), NEW t \in Seq(C)
  PROVE  Through(step, base, s \o t) = Through(step, Through(step, base, s), t)
<1> DEFINE first == Through(step, base, s)
           T == {u \in Seq(C) : Through(step, base, s \o u) = Through(step, first, u)}
<1>1. first \in S
  BY ThroughTyped
<1> HIDE DEF first
<1>2. <<>> \in T
  <2>1. <<>> \in Seq(C) /\ s \o <<>> = s
    BY EmptySeq, ConcatEmptySeq
  <2>2. Through(step, first, <<>>) = first
    BY <1>1, ThroughEmpty
  <2> QED
    BY <2>1, <2>2 DEF first
<1>3. ASSUME NEW u \in Seq(C), NEW c \in C, u \in T PROVE Append(u, c) \in T
  <2>1. s \o Append(u, c) = Append(s \o u, c) /\ s \o u \in Seq(C) /\ Append(u, c) \in Seq(C)
    OBVIOUS
  <2> DEFINE both == s \o u
  <2>2. Through(step, base, Append(both, c)) = step[c][Through(step, base, both)]
    <3> HIDE DEF both
    <3>1. both \in Seq(C)
      BY <2>1 DEF both
    <3> QED
      BY <3>1, ThroughAppend
  <2>3. Through(step, first, Append(u, c)) = step[c][Through(step, first, u)]
    BY <1>1, ThroughAppend
  <2> QED
    BY <1>3, <2>1, <2>2, <2>3
<1>4. Seq(C) \subseteq T
  <2> HIDE DEF T
  <2> QED
    BY <1>2, <1>3, EverySequence
<1> QED
  BY <1>4 DEF first

-----------------------------------------------------------------------------
(* Texts that are put together.                                            *)

Regroups(s, t, u) == (s \o t) \o u = s \o (t \o u)

(* Concatenation is associative.                                           *)
LEMMA Associative ==
  ASSUME NEW S, NEW s \in Seq(S), NEW t \in Seq(S), NEW u \in Seq(S)
  PROVE  Regroups(s, t, u)
BY DEF Regroups

(* What is used of concatenation, together.                                *)
LEMMA ConcatFacts ==
  ASSUME NEW S, NEW s \in Seq(S), NEW t \in Seq(S), NEW u \in Seq(S)
  PROVE  /\ s \o t \in Seq(S)
         /\ Len(s \o t) = Len(s) + Len(t)
         /\ (s \o t) \o u = s \o (t \o u)
         /\ s \o <<>> = s /\ <<>> \o s = s
OBVIOUS

(* What begins alike goes on alike.                                        *)
LEMMA Cancel ==
  ASSUME NEW S, NEW s \in Seq(S), NEW t \in Seq(S), NEW u \in Seq(S), s \o t = s \o u
  PROVE  t = u
<1> DEFINE n == Len(s)
<1>1. n \in Nat /\ Len(s \o t) = n + Len(t) /\ Len(s \o u) = n + Len(u)
  OBVIOUS
<1>2. Len(t) = Len(u)
  BY <1>1
<1>3. ASSUME NEW i \in 1 .. Len(t) PROVE t[i] = u[i]
  <2>1. (s \o t)[n + i] = t[i] /\ (s \o u)[n + i] = u[i]
    BY <1>2
  <2> QED
    BY <2>1
<1> QED
  BY <1>2, <1>3, SeqEqual

(* The parts flattened, one part after the other.                          *)
LEMMA FlattenedUnfolds ==
  ASSUME NEW S
  PROVE  /\ <<>> \in Seq(Seq(S))
         /\ Flattened(S, <<>>) = <<>>
         /\ \A parts \in Seq(Seq(S)) : Flattened(S, parts) \in Seq(S)
         /\ \A parts \in Seq(Seq(S)), part \in Seq(S) :
              Flattened(S, Append(parts, part)) = Flattened(S, parts) \o part
<1> DEFINE T == Seq(S)
           step == [part \in T |-> [before \in T |-> before \o part]]
<1>1. <<>> \in T /\ <<>> \in Seq(T)
  BY EmptySeq
<1>2. step \in [T -> [T -> T]]
  BY ConcatFacts
<1>3. \A parts : Flattened(S, parts) = Through(step, <<>>, parts)
  BY DEF Flattened
<1>4. \A part, before \in T : step[part][before] = before \o part
  OBVIOUS
<1> HIDE DEF T, step
<1>5. Through(step, <<>>, <<>>) = <<>>
  BY <1>1, <1>2, ThroughEmpty
<1>6. \A parts \in Seq(T) : Through(step, <<>>, parts) \in T
  BY <1>1, <1>2, ThroughTyped
<1>7. \A parts \in Seq(T), part \in T : 
        Through(step, <<>>, Append(parts, part)) = step[part][Through(step, <<>>, parts)]
  BY <1>1, <1>2, ThroughAppend
<1> QED
  BY <1>1, <1>3, <1>4, <1>5, <1>6, <1>7 DEF T

OccursOnce(seq) == \A i, j \in DOMAIN seq : seq[i] = seq[j] => i = j

Elements(seq) == {seq[i] : i \in DOMAIN seq}

(* What appending an element changes.                                      *)
LEMMA AppendElements ==
  ASSUME NEW S, NEW seq \in Seq(S), NEW x \in S
  PROVE  /\ Append(seq, x) \in Seq(S)
         /\ Elements(Append(seq, x)) = Elements(seq) \cup {x}
         /\ OccursOnce(Append(seq, x)) <=> OccursOnce(seq) /\ x \notin Elements(seq)
<1> DEFINE n == Len(seq)
           more == Append(seq, x)
<1>1. n \in Nat /\ more \in Seq(S) /\ DOMAIN seq = 1 .. n /\ DOMAIN more = 1 .. n + 1
      /\ more[n + 1] = x /\ \A i \in 1 .. n : more[i] = seq[i]
  OBVIOUS
<1> HIDE DEF more, n
<1>2. Elements(more) = Elements(seq) \cup {x}
  BY <1>1 DEF Elements
<1>3. OccursOnce(more) => OccursOnce(seq) /\ x \notin Elements(seq)
  <2> SUFFICES ASSUME OccursOnce(more) PROVE OccursOnce(seq) /\ x \notin Elements(seq)
    OBVIOUS
  <2>1. OccursOnce(seq)
    BY <1>1 DEF OccursOnce
  <2>2. ASSUME NEW i \in 1 .. n, seq[i] = x PROVE FALSE
    <3>1. more[i] = more[n + 1] /\ i # n + 1 /\ i \in 1 .. n + 1 /\ n + 1 \in 1 .. n + 1
      BY <1>1, <2>2
    <3> QED
      BY <1>1, <3>1 DEF OccursOnce
  <2> QED
    BY <1>1, <2>1, <2>2 DEF Elements
<1>4. OccursOnce(seq) /\ x \notin Elements(seq) => OccursOnce(more)
  <2> SUFFICES ASSUME OccursOnce(seq), x \notin Elements(seq),
                      NEW i \in 1 .. n + 1, NEW j \in 1 .. n + 1, more[i] = more[j]
               PROVE  i = j
    BY <1>1 DEF OccursOnce
  <2>1. CASE i = n + 1 /\ j # n + 1
    BY <2>1, <1>1 DEF Elements
  <2>2. CASE j = n + 1 /\ i # n + 1
    BY <2>2, <1>1 DEF Elements
  <2>3. CASE i # n + 1 /\ j # n + 1
    BY <2>3, <1>1 DEF OccursOnce
  <2> QED
    BY <2>1, <2>2, <2>3
<1> QED
  BY <1>1, <1>2, <1>3, <1>4 DEF more

LEMMA NoElements ==
  ASSUME NEW S
  PROVE  <<>> \in Seq(S) /\ Elements(<<>>) = {} /\ OccursOnce(<<>>)
BY EmptySeq DEF Elements, OccursOnce

(* What is not dropped stays, in its order.                                *)
LEMMA DroppingLeaves ==
  ASSUME NEW S, NEW omitted, NEW seq \in Seq(S)
  PROVE  /\ Dropping(S, seq, omitted) \in Seq(S)
         /\ Elements(Dropping(S, seq, omitted)) = Elements(seq) \ omitted
         /\ OccursOnce(seq) => OccursOnce(Dropping(S, seq, omitted))
<1> DEFINE T == Seq(S)
           step == [x \in S |-> [kept \in T |-> IF x \in omitted THEN kept ELSE Append(kept, x)]]
           D(s) == Through(step, <<>>, s)
           Right(s) == /\ D(s) \in Seq(S)
                       /\ Elements(D(s)) = Elements(s) \ omitted
                       /\ OccursOnce(s) => OccursOnce(D(s))
           R == {s \in Seq(S) : Right(s)}
<1>1. <<>> \in T
  BY EmptySeq
<1>2. step \in [S -> [T -> T]]
  BY AppendElements
<1>3. \A s : Dropping(S, s, omitted) = D(s)
  BY DEF Dropping
<1>4. \A x \in S, kept \in T : step[x][kept] = IF x \in omitted THEN kept ELSE Append(kept, x)
  OBVIOUS
<1> HIDE DEF step
<1>5. <<>> \in R
  <2>1. D(<<>>) = <<>>
    <3> HIDE DEF T
    <3> QED
      BY <1>1, <1>2, ThroughEmpty
  <2> QED
    BY <2>1, NoElements
<1>6. ASSUME NEW s \in Seq(S), NEW x \in S, s \in R PROVE Append(s, x) \in R
  <2>1. D(Append(s, x)) = step[x][D(s)]
    <3> HIDE DEF T
    <3> QED
      BY <1>1, <1>2, ThroughAppend
  <2> DEFINE kept == D(s)
  <2>2. kept \in Seq(S) /\ Elements(kept) = Elements(s) \ omitted /\ (OccursOnce(s) => OccursOnce(kept))
    BY <1>6
  <2>3. D(Append(s, x)) = IF x \in omitted THEN kept ELSE Append(kept, x)
    BY <1>4, <2>1, <2>2
  <2> HIDE DEF D, kept
  <2>4. CASE x \in omitted
    BY <2>2, <2>3, <2>4, AppendElements
  <2>5. CASE x \notin omitted
    <3>1. /\ Append(kept, x) \in Seq(S)
          /\ Elements(Append(kept, x)) = Elements(kept) \cup {x}
          /\ OccursOnce(Append(kept, x)) <=> OccursOnce(kept) /\ x \notin Elements(kept)
      BY <2>2, AppendElements
    <3>2. /\ Append(s, x) \in Seq(S)
          /\ Elements(Append(s, x)) = Elements(s) \cup {x}
          /\ OccursOnce(Append(s, x)) <=> OccursOnce(s) /\ x \notin Elements(s)
      BY AppendElements
    <3> QED
      BY <2>2, <2>3, <2>5, <3>1, <3>2
  <2> QED
    BY <2>4, <2>5
<1>7. Seq(S) \subseteq R
  <2> HIDE DEF R
  <2> QED
    BY <1>5, <1>6, EverySequence
<1> QED
  BY <1>3, <1>7


-----------------------------------------------------------------------------
(* Steps that commute.                                                     *)

Commuting(step, C, S) ==
  \A x, y \in C : \A base \in S : step[x][step[y][base]] = step[y][step[x][base]]

(* A step taken first may as well be taken last.                           *)
LEMMA FirstOrLast ==
  ASSUME NEW C, NEW S, NEW step \in [C -> [S -> S]], Commuting(step, C, S),
         NEW base \in S, NEW x \in C, NEW seq \in Seq(C)
  PROVE  Through(step, step[x][base], seq) = step[x][Through(step, base, seq)]
<1> DEFINE first == step[x][base]
           R == {s \in Seq(C) : Through(step, first, s) = step[x][Through(step, base, s)]}
<1>1. first \in S
  OBVIOUS
<1> HIDE DEF first
<1>2. <<>> \in R
  <2>1. Through(step, first, <<>>) = first /\ Through(step, base, <<>>) = base
    BY <1>1, ThroughEmpty
  <2> QED
    BY <2>1, EmptySeq DEF first
<1>3. ASSUME NEW s \in Seq(C), NEW y \in C, s \in R PROVE Append(s, y) \in R
  <2>1. Through(step, first, Append(s, y)) = step[y][Through(step, first, s)]
    BY <1>1, ThroughAppend
  <2>2. Through(step, base, Append(s, y)) = step[y][Through(step, base, s)]
    BY ThroughAppend
  <2>3. Through(step, base, s) \in S
    BY ThroughTyped
  <2>4. Append(s, y) \in Seq(C)
    OBVIOUS
  <2> QED
    BY <1>3, <2>1, <2>2, <2>3, <2>4 DEF Commuting
<1>4. Seq(C) \subseteq R
  <2> HIDE DEF R
  <2> QED
    BY <1>2, <1>3, EverySequence
<1> QED
  BY <1>4 DEF first

(* s is what stands before x, and t what stands after it.                  *)
PartedAt(C, seq, x, s, t) ==
  /\ s \in Seq(C) /\ t \in Seq(C)
  /\ seq = Append(s, x) \o t
  /\ s \o t \in Seq(C)
  /\ OccursOnce(s \o t)
  /\ Elements(s \o t) = Elements(seq) \ {x}

(* A sequence can be parted at each of its elements.                       *)
LEMMA Parted ==
  ASSUME NEW C, NEW seq \in Seq(C), OccursOnce(seq), NEW x \in Elements(seq)
  PROVE  \E s, t \in Seq(C) : PartedAt(C, seq, x, s, t)
<1> DEFINE n == Len(seq)
<1>1. PICK i \in 1 .. n : seq[i] = x
  BY DEF Elements
<1> DEFINE s == SubSeq(seq, 1, i - 1)
           t == SubSeq(seq, i + 1, n)
           rest == s \o t
<1>2. n \in Nat /\ i \in Nat /\ 1 <= i /\ i <= n /\ x \in C
  BY <1>1
<1>3. /\ s \in Seq(C) /\ Len(s) = i - 1
      /\ \A j \in 1 .. i - 1 : s[j] = seq[j]
  BY <1>2
<1>4. /\ t \in Seq(C) /\ Len(t) = n - i
      /\ \A j \in 1 .. n - i : t[j] = seq[i + j]
  BY <1>2
<1> HIDE DEF s, t
<1>5. /\ rest \in Seq(C) /\ Len(rest) = n - 1 /\ DOMAIN rest = 1 .. n - 1
      /\ \A j \in 1 .. i - 1 : rest[j] = seq[j]
      /\ \A j \in i .. n - 1 : rest[j] = seq[j + 1]
  <2>1. rest \in Seq(C) /\ Len(rest) = n - 1 /\ DOMAIN rest = 1 .. n - 1
    BY <1>2, <1>3, <1>4
  <2>2. ASSUME NEW j \in 1 .. i - 1 PROVE rest[j] = seq[j]
    BY <1>2, <1>3, <1>4
  <2>3. ASSUME NEW j \in i .. n - 1 PROVE rest[j] = seq[j + 1]
    <3>1. rest[j] = t[j - (i - 1)] /\ j - (i - 1) \in 1 .. n - i
      BY <1>2, <1>3, <1>4
    <3> QED
      BY <1>2, <1>4, <3>1
  <2> QED
    BY <2>1, <2>2, <2>3
<1>6. seq = Append(s, x) \o t
  <2> DEFINE whole == Append(s, x) \o t
             front == Append(s, x)
  <2>1. front \in Seq(C) /\ Len(front) = i /\ front[i] = x /\ \A j \in 1 .. i - 1 : front[j] = s[j]
    BY <1>2, <1>3
  <2> HIDE DEF front
  <2>2. front \o t \in Seq(C) /\ Len(front \o t) = n
    <3>1. front \o t \in Seq(C) /\ Len(front \o t) = Len(front) + Len(t)
      <4>1. front \in Seq(C) /\ t \in Seq(C)
        BY <1>4, <2>1
      <4> QED
        BY <4>1
    <3> HIDE DEF n
    <3> QED
      BY <3>1, <1>2, <1>4, <2>1
  <2>3. ASSUME NEW j \in 1 .. n PROVE (front \o t)[j] = seq[j]
    <3>1. CASE j \in 1 .. i - 1
      BY <3>1, <1>2, <1>3, <1>4, <2>1
    <3>2. CASE j = i
      BY <3>2, <1>1, <1>2, <1>4, <2>1
    <3>3. CASE j \in i + 1 .. n
      <4>1. (front \o t)[j] = t[j - i] /\ j - i \in 1 .. n - i
        BY <3>3, <1>2, <1>4, <2>1
      <4>2. i + (j - i) = j
        BY <1>2
      <4>3. t[j - i] = seq[i + (j - i)]
        BY <1>4, <4>1
      <4> QED
        BY ONLY <4>1, <4>2, <4>3, Zenon
    <3> HIDE DEF n, front
    <3>4. j \in 1 .. i - 1 \/ j = i \/ j \in i + 1 .. n
      BY <1>2
    <3> QED
      BY <3>1, <3>2, <3>3, <3>4
  <2> QED
    BY <2>2, <2>3, SeqEqual DEF front
<1> DEFINE into(j) == IF j < i THEN j ELSE j + 1
<1>7. \A j \in 1 .. n - 1 : into(j) \in 1 .. n /\ into(j) # i /\ rest[j] = seq[into(j)]
  BY <1>2, <1>5
<1>8. OccursOnce(rest)
  <2> SUFFICES ASSUME NEW j \in 1 .. n - 1, NEW k \in 1 .. n - 1, rest[j] = rest[k] PROVE j = k
    BY <1>5 DEF OccursOnce
  <2>1. into(j) = into(k)
    <3>1. into(j) \in 1 .. n /\ rest[j] = seq[into(j)]
      BY <1>7
    <3>2. into(k) \in 1 .. n /\ rest[k] = seq[into(k)]
      BY <1>7
    <3>3. into(j) \in DOMAIN seq /\ into(k) \in DOMAIN seq
      BY <3>1, <3>2
    <3>4. seq[into(j)] = seq[into(k)]
      BY <3>1, <3>2
    <3> HIDE DEF into
    <3> QED
      BY <3>3, <3>4 DEF OccursOnce
  <2> QED
    <3> HIDE DEF n
    <3> QED
      BY <2>1, <1>2
<1>9. Elements(rest) = Elements(seq) \ {x}
  <2>1. ASSUME NEW j \in 1 .. n - 1 PROVE rest[j] \in Elements(seq) \ {x}
    <3>1. into(j) \in 1 .. n /\ into(j) # i /\ rest[j] = seq[into(j)]
      BY <1>7
    <3>2. seq[into(j)] # x
      BY <1>1, <3>1 DEF OccursOnce
    <3> QED
      BY <3>1, <3>2 DEF Elements
  <2>2. ASSUME NEW y \in Elements(seq) \ {x} PROVE y \in Elements(rest)
    <3>1. PICK k \in 1 .. n : seq[k] = y
      BY DEF Elements
    <3>2. k # i
      BY <1>1, <3>1
    <3> DEFINE j == IF k < i THEN k ELSE k - 1
    <3>3. j \in 1 .. n - 1 /\ into(j) = k
      BY <1>2, <3>2
    <3>4. rest[j] = y
      BY <1>7, <3>1, <3>3
    <3> QED
      BY <1>5, <3>3, <3>4 DEF Elements
  <2>3. ASSUME NEW y \in Elements(rest) PROVE y \in Elements(seq) \ {x}
    <3>1. PICK j \in 1 .. n - 1 : y = rest[j]
      BY <1>5 DEF Elements
    <3> QED
      BY <2>1, <3>1
  <2> QED
    BY <2>2, <2>3
<1> QED
  <2>1. PartedAt(C, seq, x, s, t)
    <3> HIDE DEF n
    <3> QED
      BY <1>3, <1>4, <1>5, <1>6, <1>8, <1>9 DEF PartedAt
  <2> QED
    BY <2>1, <1>3, <1>4

(* The order of steps that commute does not matter.                        *)
LEMMA AnyOrder ==
  ASSUME NEW C, NEW S, NEW step \in [C -> [S -> S]], Commuting(step, C, S), NEW base \in S,
         NEW s \in Seq(C), NEW t \in Seq(C), OccursOnce(s), OccursOnce(t), Elements(s) = Elements(t)
  PROVE  Through(step, base, s) = Through(step, base, t)
<1> DEFINE Right(u) == \A r \in Seq(C) :
                         OccursOnce(u) /\ OccursOnce(r) /\ Elements(u) = Elements(r)
                           => Through(step, base, u) = Through(step, base, r)
           R == {u \in Seq(C) : Right(u)}
<1>1. <<>> \in R
  <2> SUFFICES ASSUME NEW r \in Seq(C), Elements(r) = {} PROVE r = <<>>
    BY NoElements
  <2>1. Len(r) = 0
    <3> SUFFICES ASSUME Len(r) # 0 PROVE FALSE
      OBVIOUS
    <3>1. 1 \in DOMAIN r
      OBVIOUS
    <3> QED
      BY <3>1 DEF Elements
  <2> QED
    BY <2>1, EmptySeq
<1>2. ASSUME NEW u \in Seq(C), NEW x \in C, u \in R PROVE Append(u, x) \in R
  <2> SUFFICES ASSUME NEW r \in Seq(C), OccursOnce(Append(u, x)), OccursOnce(r),
                      Elements(Append(u, x)) = Elements(r)
               PROVE  Through(step, base, Append(u, x)) = Through(step, base, r)
    OBVIOUS
  <2>1. Elements(r) = Elements(u) \cup {x} /\ OccursOnce(u) /\ x \notin Elements(u)
    BY AppendElements
  <2>20. PICK a, b \in Seq(C) : PartedAt(C, r, x, a, b)
    <3>1. x \in Elements(r)
      BY <2>1
    <3> HIDE DEF R
    <3> QED
      BY <3>1, Parted
  <2>2. /\ r = Append(a, x) \o b
        /\ a \o b \in Seq(C)
        /\ OccursOnce(a \o b)
        /\ Elements(a \o b) = Elements(r) \ {x}
    BY <2>20 DEF PartedAt
  <2>3. Elements(a \o b) = Elements(u)
    BY <2>1, <2>2
  <2>4. Through(step, base, u) = Through(step, base, a \o b)
    BY <1>2, <2>1, <2>2, <2>3
  <2> DEFINE before == Through(step, base, a)
  <2>5. before \in S
    BY ThroughTyped
  <2>6. Through(step, base, a \o b) = Through(step, before, b)
    BY ThroughConcat
  <2>7. Through(step, base, Append(a, x)) = step[x][before]
    BY ThroughAppend
  <2>8. Through(step, base, r) = Through(step, Through(step, base, Append(a, x)), b)
    <3> DEFINE front == Append(a, x)
    <3>1. front \in Seq(C)
      OBVIOUS
    <3> HIDE DEF front
    <3>2. Through(step, base, front \o b) = Through(step, Through(step, base, front), b)
      BY <3>1, ThroughConcat
    <3> QED
      BY <2>2, <3>2 DEF front
  <2>9. Through(step, step[x][before], b) = step[x][Through(step, before, b)]
    <3> HIDE DEF before
    <3> QED
      BY <2>5, FirstOrLast
  <2>10. Through(step, base, Append(u, x)) = step[x][Through(step, base, u)]
    BY ThroughAppend
  <2> QED
    BY <2>4, <2>6, <2>7, <2>8, <2>9, <2>10
<1>3. Seq(C) \subseteq R
  <2> HIDE DEF R
  <2> QED
    BY <1>1, <1>2, EverySequence
<1> QED
  BY <1>3

(* The elements of a concatenation.                                        *)
LEMMA ConcatAt ==
  ASSUME NEW C, NEW s \in Seq(C), NEW t \in Seq(C)
  PROVE  /\ \A i \in 1 .. Len(s) : (s \o t)[i] = s[i]
         /\ \A i \in 1 .. Len(t) : (s \o t)[Len(s) + i] = t[i]
OBVIOUS

(* A sequence is its first element and the rest.                           *)
LEMMA FirstAndRest ==
  ASSUME NEW C, NEW s \in Seq(C), s # <<>>
  PROVE  \E x \in C, rest \in Seq(C) : s = <<x>> \o rest /\ Len(rest) = Len(s) - 1
<1> DEFINE n == Len(s)
           x == s[1]
           rest == SubSeq(s, 2, n)
<1>1. n \in Nat /\ n >= 1
  BY LenPositive
<1>2. x \in C
  BY <1>1
<1>3. rest \in Seq(C) /\ Len(rest) = n - 1 /\ \A i \in 1 .. n - 1 : rest[i] = s[i + 1]
  <2>1. rest \in Seq(C) /\ Len(rest) = n - 1
    <3>1. \A i \in 2 .. n : s[i] \in C
      BY <1>1
    <3> HIDE DEF n
    <3>2. 2 \in Int /\ n \in Int
      BY <1>1
    <3>3. rest \in Seq(C) /\ Len(rest) = IF 2 <= n THEN n - 2 + 1 ELSE 0
      BY <3>1, <3>2, SubSeqProperties
    <3>4. CASE 2 <= n
      BY <3>3, <3>4, <1>1
    <3>5. CASE ~(2 <= n)
      BY <3>3, <3>5, <1>1
    <3> QED
      BY <3>4, <3>5
  <2>2. ASSUME NEW i \in 1 .. n - 1 PROVE rest[i] = s[i + 1]
    BY <1>1
  <2> QED
    BY <2>1, <2>2
<1> HIDE DEF rest
<1> DEFINE one == <<x>>
<1>4. one \in Seq(C) /\ Len(one) = 1 /\ one[1] = s[1]
  BY <1>2
<1> HIDE DEF one, x
<1>5. one \o rest \in Seq(C) /\ Len(one \o rest) = n
  <2>1. one \o rest \in Seq(C) /\ Len(one \o rest) = Len(one) + Len(rest)
    <3>1. one \in Seq(C) /\ rest \in Seq(C)
      BY <1>3, <1>4
    <3> QED
      BY <3>1
  <2> HIDE DEF n
  <2> QED
    BY <2>1, <1>1, <1>3, <1>4
<1>6. ASSUME NEW i \in 1 .. n PROVE (one \o rest)[i] = s[i]
  <2>3. /\ \A j \in 1 .. 1 : (one \o rest)[j] = one[j]
        /\ \A j \in 1 .. n - 1 : (one \o rest)[1 + j] = rest[j]
    <3>1. one \in Seq(C) /\ rest \in Seq(C) /\ Len(one) = 1 /\ Len(rest) = n - 1
      BY <1>3, <1>4
    <3>2. /\ \A j \in 1 .. Len(one) : (one \o rest)[j] = one[j]
          /\ \A j \in 1 .. Len(rest) : (one \o rest)[Len(one) + j] = rest[j]
      <4>1. one \in Seq(C) /\ rest \in Seq(C)
        BY <3>1
      <4> QED
        BY <4>1, ConcatAt
    <3> HIDE DEF n
    <3> QED
      BY <3>1, <3>2
  <2>1. CASE i = 1
    BY <2>1, <2>3, <1>4
  <2>2. CASE i # 1
    <3> HIDE DEF n
    <3>1. i - 1 \in 1 .. n - 1 /\ 1 + (i - 1) = i /\ (i - 1) + 1 = i
      BY <2>2, <1>1
    <3>2. (one \o rest)[1 + (i - 1)] = rest[i - 1]
      BY <2>3, <3>1
    <3>3. rest[i - 1] = s[(i - 1) + 1]
      BY <1>3, <3>1
    <3> QED
      BY <3>1, <3>2, <3>3
  <2> QED
    BY <2>1, <2>2
<1>7. s = one \o rest
  BY <1>5, <1>6, SeqEqual
<1> QED
  BY <1>2, <1>3, <1>7 DEF one, x

(* The same induction, the longer ones by an element before.               *)
LEMMA EverySequenceBefore ==
  ASSUME NEW C, NEW T, <<>> \in T,
         \A s \in Seq(C), c \in C : s \in T => <<c>> \o s \in T
  PROVE  Seq(C) \subseteq T
<1> DEFINE N == {n \in Nat : \A s \in Seq(C) : Len(s) = n => s \in T}
<1>1. 0 \in N
  <2> SUFFICES ASSUME NEW s \in Seq(C), Len(s) = 0 PROVE s \in T
    OBVIOUS
  <2>1. s = <<>>
    BY EmptySeq
  <2> QED
    BY <2>1
<1>2. ASSUME NEW n \in Nat, n \in N PROVE n + 1 \in N
  <2> SUFFICES ASSUME NEW s \in Seq(C), Len(s) = n + 1 PROVE s \in T
    OBVIOUS
  <2>1. s # <<>>
    BY EmptySeq
  <2>2. PICK x \in C, rest \in Seq(C) : s = <<x>> \o rest /\ Len(rest) = Len(s) - 1
    BY <2>1, FirstAndRest
  <2>3. Len(rest) = n
    BY <2>2
  <2>4. rest \in T
    BY <1>2, <2>3
  <2> QED
    BY <2>2, <2>4
<1>3. Nat \subseteq N
  <2> HIDE DEF N
  <2> QED
    BY <1>1, <1>2, EveryNumber
<1> QED
  <2> SUFFICES ASSUME NEW s \in Seq(C) PROVE s \in T
    OBVIOUS
  <2>1. Len(s) \in N
    BY <1>3
  <2> QED
    BY <2>1

(* The parts flattened, one part before the others.                        *)
LEMMA FlattenedBefore ==
  ASSUME NEW S, NEW parts \in Seq(Seq(S)), NEW part \in Seq(S)
  PROVE  /\ <<part>> \o parts \in Seq(Seq(S))
         /\ Flattened(S, <<part>> \o parts) = part \o Flattened(S, parts)
<1> DEFINE C == Seq(S)
           R == {p \in Seq(C) : /\ <<part>> \o p \in Seq(C)
                                /\ Flattened(S, <<part>> \o p) = part \o Flattened(S, p)}
<1>1. \A p \in Seq(C), q \in C : Flattened(S, p) \in C /\ Flattened(S, Append(p, q)) = Flattened(S, p) \o q
  BY FlattenedUnfolds
<1>2. <<>> \in Seq(C) /\ Flattened(S, <<>>) = <<>> /\ <<>> \in C
  BY FlattenedUnfolds, EmptySeq
<1>3. part \in C /\ \A p, q, r \in C : p \o q \in C /\ (p \o q) \o r = p \o (q \o r) /\ p \o <<>> = p /\ <<>> \o p = p
  <2>1. ASSUME NEW p \in C, NEW q \in C, NEW r \in C
        PROVE  p \o q \in C /\ (p \o q) \o r = p \o (q \o r) /\ p \o <<>> = p /\ <<>> \o p = p
    <3>1. p \in Seq(S) /\ q \in Seq(S) /\ r \in Seq(S)
      OBVIOUS
    <3>2. (p \o q) \o r = p \o (q \o r)
      <4>1. Regroups(p, q, r)
        BY <3>1, Associative
      <4> QED
        BY ONLY <4>1 DEF Regroups
    <3>3. p \o q \in C /\ p \o <<>> = p /\ <<>> \o p = p
      BY <3>1, ConcatProperties, ConcatEmptySeq
    <3> QED
      BY ONLY <3>2, <3>3
  <2> QED
    BY <2>1
<1> HIDE DEF C
<1> DEFINE one == <<part>>
<1>4. one \in Seq(C) /\ one = Append(<<>>, part) /\ one \o <<>> = one
  BY <1>3
<1>5. \A p \in Seq(C), q \in C : one \o Append(p, q) = Append(one \o p, q) /\ one \o p \in Seq(C) /\ Append(p, q) \in Seq(C)
  BY <1>4
<1> HIDE DEF one
<1>6. <<>> \in R
  <2>1. Flattened(S, one) = <<>> \o part
    <3>1. Flattened(S, Append(<<>>, part)) = Flattened(S, <<>>) \o part
      BY <1>1, <1>2, <1>3
    <3> QED
      BY <3>1, <1>2, <1>4
  <2> QED
    BY <2>1, <1>2, <1>3, <1>4 DEF one
<1>7. ASSUME NEW p \in Seq(C), NEW q \in C, p \in R PROVE Append(p, q) \in R
  <2> DEFINE longer == one \o p
  <2>1. longer \in Seq(C) /\ Flattened(S, longer) = part \o Flattened(S, p)
    BY <1>7, <1>5 DEF one
  <2>2. one \o Append(p, q) = Append(longer, q) /\ Append(p, q) \in Seq(C)
    BY <1>5
  <2> HIDE DEF longer
  <2>3. Flattened(S, Append(longer, q)) = (part \o Flattened(S, p)) \o q
    BY <2>1, <1>1
  <2>4. (part \o Flattened(S, p)) \o q = part \o (Flattened(S, p) \o q)
    <3> DEFINE text == Flattened(S, p)
    <3>1. text \in C
      BY <1>1
    <3> HIDE DEF text
    <3>2. (part \o text) \o q = part \o (text \o q)
      <4>1. part \in Seq(S) /\ text \in Seq(S) /\ q \in Seq(S)
        BY <1>3, <3>1 DEF C
      <4>2. Regroups(part, text, q)
        BY <4>1, Associative
      <4> QED
        BY ONLY <4>2 DEF Regroups
    <3> QED
      BY <3>2 DEF text
  <2>5. Flattened(S, Append(p, q)) = Flattened(S, p) \o q
    BY <1>1
  <2>6. Append(longer, q) \in Seq(C)
    BY <2>1
  <2> QED
    BY <2>2, <2>3, <2>4, <2>5, <2>6 DEF one
<1>8. Seq(C) \subseteq R
  <2> HIDE DEF R
  <2> QED
    BY <1>6, <1>7, EverySequence
<1> QED
  BY <1>8 DEF C

(* Whatever follows, a word of W is read in one way.                       *)
PrefixFree(W, S) ==
  \A p, q \in W : \A s, t \in Seq(S) : p \o s = q \o t => p = q

(* So is a sequence of such words, before an end no word begins like.      *)
NoneBegins(W, S, Ends) == \A w \in W, s \in Seq(S) : w \o s \notin Ends

ListsRead(W, S, Ends) ==
  \A P, Q \in Seq(W) : \A e, f \in Ends : Flattened(S, P) \o e = Flattened(S, Q) \o f => P = Q

(* If no word is the beginning of another, a list of words and what ends   *)
(* it can be read in one way.                                              *)
LEMMA ListsAreRead ==
  ASSUME NEW S, NEW W, W \subseteq Seq(S), PrefixFree(W, S),
         NEW Ends, Ends \subseteq Seq(S), NoneBegins(W, S, Ends)
  PROVE  ListsRead(W, S, Ends)
<1> DEFINE F(p) == Flattened(S, p)
           R == {p \in Seq(W) : \A q \in Seq(W), a, b \in Ends : F(p) \o a = F(q) \o b => p = q}
<1>1. \A p \in Seq(W) : p \in Seq(Seq(S)) /\ F(p) \in Seq(S)
  BY FlattenedUnfolds
<1>2. <<>> \in Seq(W) /\ F(<<>>) = <<>>
  BY FlattenedUnfolds, EmptySeq
<1>3. \A p \in Seq(W), w \in W : /\ <<w>> \o p \in Seq(W)
                                 /\ F(<<w>> \o p) = w \o F(p)
  <2> TAKE p \in Seq(W), w \in W
  <2>1. p \in Seq(Seq(S)) /\ w \in Seq(S)
    BY <1>1
  <2>2. F(<<w>> \o p) = w \o F(p)
    BY <2>1, FlattenedBefore
  <2>3. <<w>> \in Seq(W) /\ \A v \in Seq(W) : v \o p \in Seq(W)
    OBVIOUS
  <2> HIDE DEF F
  <2> QED
    BY <2>2, <2>3
<1> HIDE DEF F
<1>4. \A p \in Seq(W), w \in W, a \in Ends :
        /\ F(p) \o a \in Seq(S)
        /\ F(<<w>> \o p) \o a = w \o (F(p) \o a)
  <2> TAKE p \in Seq(W), w \in W, a \in Ends
  <2>1. F(p) \in Seq(S) /\ w \in Seq(S) /\ a \in Seq(S)
    BY <1>1
  <2>2. (w \o F(p)) \o a = w \o (F(p) \o a) /\ F(p) \o a \in Seq(S)
    <3> DEFINE text == F(p)
    <3> HIDE DEF text
    <3>1. text \in Seq(S) /\ w \in Seq(S) /\ a \in Seq(S)
      BY <2>1 DEF text
    <3>2. Regroups(w, text, a)
      BY <3>1, Associative
    <3>3. (w \o text) \o a = w \o (text \o a)
      BY ONLY <3>2 DEF Regroups
    <3>4. text \o a \in Seq(S)
      BY <3>1, ConcatProperties
    <3> QED
      BY <3>3, <3>4 DEF text
  <2> QED
    BY <2>2, <1>3
<1>5. \A a \in Ends : F(<<>>) \o a = a
  BY <1>2, ConcatFacts, EmptySeq
<1>6. <<>> \in R
  <2> SUFFICES ASSUME NEW q \in Seq(W), NEW a \in Ends, NEW b \in Ends, a = F(q) \o b, q # <<>>
               PROVE  FALSE
    BY <1>2, <1>5
  <2>1. PICK x \in W, rest \in Seq(W) : q = <<x>> \o rest /\ Len(rest) = Len(q) - 1
    BY FirstAndRest
  <2>2. a = x \o (F(rest) \o b) /\ F(rest) \o b \in Seq(S)
    BY <2>1, <1>4
  <2> QED
    BY <2>2 DEF NoneBegins
<1>7. ASSUME NEW p \in Seq(W), NEW w \in W, p \in R PROVE <<w>> \o p \in R
  <2> SUFFICES ASSUME NEW q \in Seq(W), NEW a \in Ends, NEW b \in Ends,
                      F(<<w>> \o p) \o a = F(q) \o b
               PROVE  <<w>> \o p = q
    BY <1>3
  <2>1. w \o (F(p) \o a) = F(q) \o b /\ F(p) \o a \in Seq(S)
    BY <1>4
  <2>2. q # <<>>
    <3> SUFFICES ASSUME q = <<>> PROVE FALSE
      OBVIOUS
    <3>1. w \o (F(p) \o a) = b
      BY <2>1, <1>5
    <3> QED
      BY <2>1, <3>1 DEF NoneBegins
  <2>3. PICK x \in W, rest \in Seq(W) : q = <<x>> \o rest /\ Len(rest) = Len(q) - 1
    BY <2>2, FirstAndRest
  <2>4. F(q) \o b = x \o (F(rest) \o b) /\ F(rest) \o b \in Seq(S)
    BY <2>3, <1>4
  <2>5. w = x
    <3> DEFINE s == F(p) \o a
               t == F(rest) \o b
    <3>1. s \in Seq(S) /\ t \in Seq(S) /\ w \o s = x \o t
      BY <2>1, <2>4
    <3> HIDE DEF s, t
    <3> QED
      BY <3>1 DEF PrefixFree
  <2>6. F(p) \o a = F(rest) \o b
    <3>1. w \in Seq(S) /\ w \o (F(p) \o a) = w \o (F(rest) \o b)
      BY <2>1, <2>4, <2>5
    <3> QED
      BY <2>1, <2>4, <3>1, Cancel
  <2>7. p = rest
    BY <1>7, <2>6
  <2> QED
    BY <2>3, <2>5, <2>7
<1>8. Seq(W) \subseteq R
  <2> HIDE DEF R
  <2> QED
    BY <1>2, <1>6, <1>7, EverySequenceBefore
<1> QED
  BY <1>8 DEF F, ListsRead

LEMMA ConcatTyped ==
  ASSUME NEW S, NEW s \in Seq(S), NEW t \in Seq(S)
  PROVE  s \o t \in Seq(S)
OBVIOUS

LEMMA SingletonIs ==
  ASSUME NEW S, NEW x \in S
  PROVE  <<x>> \in Seq(S) /\ Len(<<x>>) = 1 /\ <<x>>[1] = x /\ <<x>> # <<>>
OBVIOUS

(* A function of the numbers up to n is a sequence, and conversely.        *)
LEMMA FunctionIsSequence ==
  ASSUME NEW C, NEW n \in Nat, NEW f \in [1 .. n -> C]
  PROVE  f \in Seq(C) /\ Len(f) = n
OBVIOUS

LEMMA SequenceIsFunction ==
  ASSUME NEW C, NEW s \in Seq(C)
  PROVE  Len(s) \in Nat /\ DOMAIN s = 1 .. Len(s) /\ \A i \in 1 .. Len(s) : s[i] \in C
OBVIOUS

LEMMA SameDomain ==
  ASSUME NEW m \in Nat, NEW n \in Nat, 1 .. m = 1 .. n
  PROVE  m = n
OBVIOUS

LEMMA WiderElements ==
  ASSUME NEW A, NEW B, A \subseteq B
  PROVE  Seq(A) \subseteq Seq(B)
OBVIOUS

LEMMA FirstOfConcat ==
  ASSUME NEW S, NEW s \in Seq(S), NEW t \in Seq(S), s # <<>>
  PROVE  (s \o t)[1] = s[1] /\ s \o t # <<>> /\ s[1] \in S
<1>1. Len(s) \in Nat /\ Len(s) >= 1
  BY LenPositive
<1>2. 1 \in 1 .. Len(s)
  BY <1>1
<1>3. (s \o t)[1] = s[1]
  BY <1>2, ConcatAt
<1>4. Len(s \o t) = Len(s) + Len(t) /\ Len(t) \in Nat
  BY ConcatFacts
<1>5. Len(s \o t) # 0
  BY <1>1, <1>4
<1> QED
  BY <1>2, <1>3, <1>5

-----------------------------------------------------------------------------

(* What the numbers up to n are.                                           *)
LEMMA UpToIs ==
  ASSUME NEW n \in Nat
  PROVE  UpTo(n) \in Seq(1 .. n) /\ Len(UpTo(n)) = n /\ \A i \in 1 .. n : UpTo(n)[i] = i
<1>1. UpTo(n) \in [1 .. n -> 1 .. n] /\ \A i \in 1 .. n : UpTo(n)[i] = i
  BY DEF UpTo
<1> QED
  BY <1>1, FunctionIsSequence

SameSteps(step, s, other, t) == Len(s) = Len(t) /\ \A i \in 1 .. Len(s) : step[s[i]] = other[t[i]]

(* Two folds whose steps do the same come to the same.                     *)
LEMMA ThroughSame ==
  ASSUME NEW C, NEW D, NEW S, NEW step \in [C -> [S -> S]], NEW other \in [D -> [S -> S]], NEW base \in S,
         NEW s \in Seq(C), NEW t \in Seq(D), SameSteps(step, s, other, t)
  PROVE  Through(step, base, s) = Through(other, base, t)
<1> DEFINE n == Len(s)
<1>1. n \in Nat
  BY SequenceIsFunction
<1>s. Len(t) = n /\ \A i \in 1 .. n : step[s[i]] = other[t[i]]
  BY DEF SameSteps
<1>2. PICK f \in [0 .. n -> S] : Unfolds(f, step, base, s)
  BY ThroughUnfolds
<1>3. PICK g \in [0 .. Len(t) -> S] : Unfolds(g, other, base, t)
  BY ThroughUnfolds
<1>4. Through(step, base, s) = f[n] /\ f[0] = base /\ \A i \in 1 .. n : f[i] = step[s[i]][f[i - 1]]
  BY <1>2 DEF Unfolds
<1>5. Through(other, base, t) = g[n] /\ g[0] = base /\ \A i \in 1 .. n : g[i] = other[t[i]][g[i - 1]]
  BY <1>3, <1>s DEF Unfolds
<1> DEFINE T == {k \in Nat : k <= n => f[k] = g[k]}
<1>6. 0 \in T
  BY <1>4, <1>5
<1>7. ASSUME NEW k \in Nat, k \in T PROVE k + 1 \in T
  <2> SUFFICES ASSUME k + 1 <= n PROVE f[k + 1] = g[k + 1]
    OBVIOUS
  <2>1. k + 1 \in 1 .. n /\ (k + 1) - 1 = k /\ k <= n
    BY <1>1
  <2>2. f[k] = g[k]
    BY <1>7, <2>1
  <2>3. f[k + 1] = step[s[k + 1]][f[k]] /\ g[k + 1] = other[t[k + 1]][g[k]]
    BY <1>4, <1>5, <2>1
  <2>4. step[s[k + 1]] = other[t[k + 1]]
    BY <1>s, <2>1
  <2> QED
    BY <2>2, <2>3, <2>4
<1>8. Nat \subseteq T
  <2> HIDE DEF T
  <2> QED
    BY <1>6, <1>7, EveryNumber
<1>9. f[n] = g[n]
  BY <1>1, <1>8
<1> QED
  BY <1>4, <1>5, <1>9

(* Two sequences of the same elements, each once, are equally long.        *)
LEMMA SameLength ==
  ASSUME NEW C, NEW s \in Seq(C), NEW t \in Seq(C), OccursOnce(s), OccursOnce(t), Elements(s) = Elements(t)
  PROVE  Len(s) = Len(t)
<1> DEFINE none == 0
           N == Nat
           count == [x \in C |-> [n \in N |-> n + 1]]
           T == {r \in Seq(C) : Through(count, none, r) = Len(r)}
<1>1. count \in [C -> [N -> N]] /\ \A x \in C : \A n \in N : count[x][n] = n + 1
  OBVIOUS
<1>z. none \in N /\ Len(<<>>) = none
  OBVIOUS
<1> HIDE DEF count, none, N
<1>2. <<>> \in T
  BY ONLY <1>1, <1>z, ThroughEmpty, EmptySeq
<1>3. ASSUME NEW r \in Seq(C), NEW c \in C, r \in T PROVE Append(r, c) \in T
  <2>1. Through(count, none, Append(r, c)) = count[c][Through(count, none, r)]
    BY <1>1, <1>z, ThroughAppend
  <2>2. Append(r, c) \in Seq(C) /\ Len(Append(r, c)) = Len(r) + 1 /\ Len(r) \in Nat
    OBVIOUS
  <2> QED
    BY <1>1, <1>3, <2>1, <2>2 DEF N
<1>4. Seq(C) \subseteq T
  <2> HIDE DEF T
  <2> QED
    BY <1>2, <1>3, EverySequence
<1>5. Commuting(count, C, N)
  <2>1. \A n \in N : n + 1 \in N
    BY DEF N
  <2> QED
    BY <1>1, <2>1 DEF Commuting
<1>6. Through(count, none, s) = Through(count, none, t)
  BY <1>1, <1>z, <1>5, AnyOrder
<1> QED
  BY <1>4, <1>6

(* H grows at each step by as much as F and G together, so in all too.     *)
AddingEach(F, G, H, n) ==
  /\ \A i \in 0 .. n : F[i] \in Int /\ G[i] \in Int /\ H[i] \in Int
  /\ \A i \in 1 .. n : H[i] - H[i - 1] = (F[i] - F[i - 1]) + (G[i] - G[i - 1])

AddingAll(F, G, H, n) == H[n] - H[0] = (F[n] - F[0]) + (G[n] - G[0])

(* A sum that grows at each step by what two others grow has grown in the  *)
(* end by what both have.                                                  *)
LEMMA AddingUp ==
  ASSUME NEW n \in Nat, NEW F, NEW G, NEW H, AddingEach(F, G, H, n)
  PROVE  AddingAll(F, G, H, n)
<1> USE DEF AddingEach, AddingAll
<1> DEFINE Sum(k) == H[k] - H[0] = (F[k] - F[0]) + (G[k] - G[0])
           T == {k \in Nat : k <= n => Sum(k)}
<1>1. 0 \in T
  <2>1. F[0] \in Int /\ G[0] \in Int /\ H[0] \in Int
    OBVIOUS
  <2> QED
    BY <2>1
<1>2. ASSUME NEW k \in Nat, k \in T PROVE k + 1 \in T
  <2> SUFFICES ASSUME k + 1 <= n PROVE Sum(k + 1)
    OBVIOUS
  <2>1. k + 1 \in 1 .. n /\ (k + 1) - 1 = k /\ k \in 0 .. n /\ k + 1 \in 0 .. n /\ 0 \in 0 .. n
    OBVIOUS
  <2>2. H[k] - H[0] = (F[k] - F[0]) + (G[k] - G[0])
    BY <1>2, <2>1
  <2>3. H[k + 1] - H[k] = (F[k + 1] - F[k]) + (G[k + 1] - G[k])
    BY <2>1
  <2>4. /\ F[0] \in Int /\ G[0] \in Int /\ H[0] \in Int
        /\ F[k] \in Int /\ G[k] \in Int /\ H[k] \in Int
        /\ F[k + 1] \in Int /\ G[k + 1] \in Int /\ H[k + 1] \in Int
    BY <2>1
  <2> QED
    <3> DEFINE f0 == F[0]
               f1 == F[k]
               f2 == F[k + 1]
               g0 == G[0]
               g1 == G[k]
               g2 == G[k + 1]
               h0 == H[0]
               h1 == H[k]
               h2 == H[k + 1]
    <3>1. f0 \in Int /\ f1 \in Int /\ f2 \in Int /\ g0 \in Int /\ g1 \in Int /\ g2 \in Int
          /\ h0 \in Int /\ h1 \in Int /\ h2 \in Int
      BY <2>4
    <3>2. h1 - h0 = (f1 - f0) + (g1 - g0) /\ h2 - h1 = (f2 - f1) + (g2 - g1)
      BY <2>2, <2>3
    <3> HIDE DEF f0, f1, f2, g0, g1, g2, h0, h1, h2
    <3>3. h2 - h0 = (f2 - f0) + (g2 - g0)
      BY ONLY <3>1, <3>2
    <3> QED
      BY <3>3 DEF f0, f2, g0, g2, h0, h2
<1>3. Nat \subseteq T
  <2> HIDE DEF T
  <2> QED
    BY <1>1, <1>2, EveryNumber
<1> QED
  BY <1>3

=============================================================================
