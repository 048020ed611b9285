---------------------------- MODULE CommonTheorems ----------------------------
(***************************************************************************)
(* The lemmas that the proofs of several components need.                  *)
(*                                                                         *)
(* Sums: what SumFunctionOnSet of the community module Functions does to a *)
(* finite set.  Every balance equation of the ledger is a sum over         *)
(* accounts, reservations or fills, and a step of the system changes a few *)
(* summands; these lemmas turn such a step into arithmetic.  Induction     *)
(* over finite sets is done through FinMin: a nonempty family of subsets   *)
(* of a finite set has a member none of whose one-element removals is in   *)
(* the family.                                                             *)
(*                                                                         *)
(* Quotients: the bounds and the monotonicity of integer division.         *)
(*                                                                         *)
(* Price-time matching, for every book and incoming order: no maker gives  *)
(* more than it has, no incoming order takes more than it asked for,       *)
(* nothing is left on both sides, and a maker is only reached when         *)
(* everybody ahead is exhausted.                                           *)
(***************************************************************************)
EXTENDS PriceTime, FiniteSetTheorems, TLAPS

Pick(T) == CHOOSE x \in T : TRUE

\* The recursive definition inside MapThenFoldSet, as a property of a function.
Defines(s, f, S) ==
  s = [T \in SUBSET S |-> IF T = {} THEN 0 ELSE f[Pick(T)] + s[T \ {Pick(T)}]]

(***************************************************************************)
(* Least-element principle for subsets of a finite set.                    *)
(***************************************************************************)
LEMMA FinMin ==
  ASSUME NEW S, IsFiniteSet(S), NEW B, B \subseteq SUBSET S, B # {}
  PROVE  \E T \in B : \A x \in T : T \ {x} \notin B
<1>1. B \subseteq FiniteSubsetsOf(S)
  BY FS_Subset DEF FiniteSubsetsOf
<1>2. \E T \in B : \A U \in B : <<U, T>> \notin StrictSubsetOrdering(S)
  BY <1>1, FS_StrictSubsetOrderingWellFounded, WFMin
<1>3. PICK T \in B : \A U \in B : <<U, T>> \notin StrictSubsetOrdering(S)
  BY <1>2
<1>4. ASSUME NEW x \in T, T \ {x} \in B
      PROVE  FALSE
  <2>1. <<T \ {x}, T>> \notin StrictSubsetOrdering(S)
    BY <1>3, <1>4
  <2>2. <<T \ {x}, T>> \in (SUBSET S) \X (SUBSET S)
    BY <1>3, <1>4
  <2>3. T \ {x} \subseteq T /\ T \ {x} # T
    BY <1>4
  <2>4. <<T \ {x}, T>> \in StrictSubsetOrdering(S)
    BY <2>2, <2>3 DEF StrictSubsetOrdering
  <2>5. QED  BY <2>1, <2>4
<1>5. QED  BY <1>3, <1>4

\* A chosen element is an element.
LEMMA PickIn == ASSUME NEW T, T # {}  PROVE Pick(T) \in T
BY DEF Pick

(***************************************************************************)
(* The recursion of the fold has integer values, and two functions that    *)
(* satisfy it agree wherever both are defined.                             *)
(***************************************************************************)
LEMMA DefinesType ==
  ASSUME NEW S, IsFiniteSet(S), NEW f, \A x \in S : f[x] \in Int,
         NEW s, Defines(s, f, S)
  PROVE  s \in [SUBSET S -> Int]
<1> DEFINE B == {T \in SUBSET S : s[T] \notin Int}
<1>1. ASSUME B # {} PROVE FALSE
  <2>1. PICK T \in B : \A x \in T : T \ {x} \notin B
    BY <1>1, FinMin
  <2>2. T # {}
    BY DEF Defines
  <2>3. Pick(T) \in T /\ s[T \ {Pick(T)}] \in Int
    BY <2>1, <2>2, PickIn
  <2>4. s[T] = f[Pick(T)] + s[T \ {Pick(T)}]
    BY <2>2 DEF Defines
  <2>5. QED  BY <2>3, <2>4
<1>2. QED  BY <1>1 DEF Defines

\* Two solutions of the recursion of a sum agree where both are defined.
LEMMA DefinesUnique ==
  ASSUME NEW S, IsFiniteSet(S), NEW f, \A x \in S : f[x] \in Int,
         NEW R, NEW s, Defines(s, f, S), NEW r, Defines(r, f, R), NEW U,
         U \subseteq S, U \subseteq R
  PROVE  s[U] = r[U]
<1> DEFINE B == {T \in SUBSET S : T \subseteq R /\ s[T] # r[T]}
<1>1. ASSUME B # {} PROVE FALSE
  <2>1. PICK T \in B : \A x \in T : T \ {x} \notin B
    BY <1>1, FinMin
  <2>2. T # {}
    BY DEF Defines
  <2>3. Pick(T) \in T /\ s[T \ {Pick(T)}] = r[T \ {Pick(T)}]
    BY <2>1, <2>2, PickIn
  <2>4. /\ s[T] = f[Pick(T)] + s[T \ {Pick(T)}]
        /\ r[T] = f[Pick(T)] + r[T \ {Pick(T)}]
    BY <2>2 DEF Defines
  <2>5. QED  BY <2>3, <2>4
<1>2. QED  BY <1>1

(***************************************************************************)
(* The recursion has a solution on every finite set.                       *)
(***************************************************************************)
LEMMA DefinesExists ==
  ASSUME NEW S, IsFiniteSet(S), NEW f, \A x \in S : f[x] \in Int
  PROVE  \E s : Defines(s, f, S)
<1> DEFINE Solvable(T) == \E s : Defines(s, f, T)
           B == {T \in SUBSET S : ~ Solvable(T)}
<1>1. ASSUME B # {} PROVE FALSE
  <2>1. PICK T \in B : \A x \in T : T \ {x} \notin B
    BY <1>1, FinMin
  <2>2. T # {}
    <3>1. Defines([U \in SUBSET {} |-> 0], f, {})
      BY DEF Defines
    <3>2. QED  BY <3>1
  <2>3. \A U \in SUBSET T : U # T => Solvable(U)
    <3> SUFFICES ASSUME NEW U \in SUBSET T, U # T PROVE Solvable(U)
      OBVIOUS
    <3>1. PICK x \in T : U \subseteq T \ {x}
      OBVIOUS
    <3>2. PICK s : Defines(s, f, T \ {x})
      BY <2>1
    <3>3. Defines([V \in SUBSET U |-> s[V]], f, U)
      <4> SUFFICES ASSUME NEW V \in SUBSET U
                   PROVE  s[V] = IF V = {} THEN 0 ELSE f[Pick(V)] + s[V \ {Pick(V)}]
        BY DEF Defines
      <4>1. V \in SUBSET (T \ {x})
        BY <3>1
      <4>2. QED  BY <3>2, <4>1 DEF Defines
    <3>4. QED  BY <3>3
  <2> DEFINE sol(U) == CHOOSE s : Defines(s, f, U)
             P == Pick(T)
             t == [U \in SUBSET T |-> IF U = T THEN f[P] + sol(T \ {P})[T \ {P}] ELSE sol(U)[U]]
  <2>4. \A U \in SUBSET T : U # T => Defines(sol(U), f, U)
    BY <2>3
  <2>5. ASSUME NEW U \in SUBSET T
        PROVE  t[U] = IF U = {} THEN 0 ELSE f[Pick(U)] + t[U \ {Pick(U)}]
    <3>1. CASE U = T
      <4>1. P \in T /\ T \ {P} # T /\ T \ {P} \in SUBSET T
        BY <2>2, PickIn
      <4>2. QED  BY <2>2, <3>1, <4>1
    <3>2. CASE U # T /\ U = {}
      <4>1. t[U] = sol(U)[U]
        BY <3>2
      <4>2. Defines(sol(U), f, U)
        BY <2>4, <3>2
      <4>3. QED  BY <3>2, <4>1, <4>2 DEF Defines
    <3>3. CASE U # T /\ U # {}
      <4> DEFINE W == U \ {Pick(U)}
      <4>1. Pick(U) \in U /\ W \in SUBSET T /\ W \in SUBSET U /\ W # T
        BY <3>3, PickIn
      <4>2. Defines(sol(U), f, U) /\ Defines(sol(W), f, W)
        BY <2>4, <3>3, <4>1
      <4>3. /\ IsFiniteSet(U)
            /\ \A x \in U : f[x] \in Int
        BY FS_Subset
      <4>4. sol(U)[W] = sol(W)[W]
        <5> HIDE DEF W, sol
        <5>1. W \subseteq U /\ W \subseteq W
          BY <4>1
        <5>2. QED  BY <4>2, <4>3, <5>1, DefinesUnique
      <4>5. sol(U)[U] = f[Pick(U)] + sol(U)[W]
        BY <3>3, <4>2 DEF Defines
      <4>6. t[U] = sol(U)[U] /\ t[W] = sol(W)[W]
        BY <3>3, <4>1
      <4>7. QED  BY <3>3, <4>4, <4>5, <4>6
    <3>4. QED  BY <3>1, <3>2, <3>3
  <2>6. Defines(t, f, T)
    <3>1. t = [U \in SUBSET T |-> t[U]]
      OBVIOUS
    <3> HIDE DEF t
    <3>2. QED  BY <2>5, <3>1 DEF Defines
  <2>7. QED  BY <2>6
<1>2. QED  BY <1>1

\* A sum is a value of a solution.
LEMMA SumDef ==
  ASSUME NEW f, NEW S
  PROVE  SumFunctionOnSet(f, S) = (CHOOSE s : Defines(s, f, S))[S]
BY DEF SumFunctionOnSet, FoldFunctionOnSet, MapThenFoldSet, Defines, Pick

\* It does not matter which solution.
LEMMA SumSolution ==
  ASSUME NEW S, IsFiniteSet(S), NEW f, \A x \in S : f[x] \in Int,
         NEW U \in SUBSET S, NEW s, Defines(s, f, S)
  PROVE  SumFunctionOnSet(f, U) = s[U]
<1>1. IsFiniteSet(U) /\ \A x \in U : f[x] \in Int
  BY FS_Subset
<1> DEFINE r == CHOOSE r : Defines(r, f, U)
<1>2. Defines(r, f, U)
  BY <1>1, DefinesExists
<1>3. SumFunctionOnSet(f, U) = r[U]
  BY SumDef
<1> HIDE DEF r
<1>4. r[U] = s[U]
  BY <1>1, <1>2, DefinesUnique
<1>5. QED  BY <1>3, <1>4

(***************************************************************************)
(* The value of a sum: an integer, zero on the empty set.                  *)
(***************************************************************************)
LEMMA SumEmpty == ASSUME NEW f PROVE SumFunctionOnSet(f, {}) = 0
<1>1. PICK s : Defines(s, f, {})
  BY FS_EmptySet, DefinesExists
<1>2. SumFunctionOnSet(f, {}) = s[{}]
  BY <1>1, FS_EmptySet, SumSolution
<1>3. QED  BY <1>1, <1>2 DEF Defines

\* A sum of integers is an integer.
LEMMA SumType ==
  ASSUME NEW S, IsFiniteSet(S), NEW f, \A x \in S : f[x] \in Int
  PROVE  SumFunctionOnSet(f, S) \in Int
<1>1. PICK s : Defines(s, f, S)
  BY DefinesExists
<1>2. SumFunctionOnSet(f, S) = s[S] /\ s \in [SUBSET S -> Int]
  BY <1>1, SumSolution, DefinesType
<1>3. QED  BY <1>2

\* A sum without one element.
LEMMA SumPick ==
  ASSUME NEW S, IsFiniteSet(S), NEW f, \A x \in S : f[x] \in Int, S # {}
  PROVE  SumFunctionOnSet(f, S) = f[Pick(S)] + SumFunctionOnSet(f, S \ {Pick(S)})
<1>1. PICK s : Defines(s, f, S)
  BY DefinesExists
<1>2. SumFunctionOnSet(f, S) = s[S] /\ SumFunctionOnSet(f, S \ {Pick(S)}) = s[S \ {Pick(S)}]
  BY <1>1, SumSolution
<1>3. QED  BY <1>1, <1>2 DEF Defines

(***************************************************************************)
(* Any element may be split off, not only the one the fold picks first.    *)
(***************************************************************************)
LEMMA SumRemove ==
  ASSUME NEW S, IsFiniteSet(S), NEW f, \A x \in S : f[x] \in Int, NEW y \in S
  PROVE  SumFunctionOnSet(f, S) = f[y] + SumFunctionOnSet(f, S \ {y})
<1> DEFINE sum(T) == SumFunctionOnSet(f, T)
           Splits(T) == \A x \in T : sum(T) = f[x] + sum(T \ {x})
           B == {T \in SUBSET S : ~ Splits(T)}
<1>1. ASSUME B # {} PROVE FALSE
  <2>1. PICK T \in B : \A x \in T : T \ {x} \notin B
    BY <1>1, FinMin
  <2>2. PICK x \in T : sum(T) # f[x] + sum(T \ {x})
    OBVIOUS
  <2> DEFINE P == Pick(T)
             V == (T \ {P}) \ {x}
  <2>3. P \in T /\ T # {}
    BY <2>2, PickIn
  <2>4. \A U \in SUBSET T : IsFiniteSet(U) /\ (\A z \in U : f[z] \in Int) /\ sum(U) \in Int
    BY FS_Subset, SumType
  <2>5. sum(T) = f[P] + sum(T \ {P})
    BY <2>3, <2>4, SumPick
  <2>6. P # x
    BY <2>2, <2>5
  <2>7. Splits(T \ {P}) /\ Splits(T \ {x})
    BY <2>1, <2>3
  <2>8. sum(T \ {P}) = f[x] + sum(V) /\ sum(T \ {x}) = f[P] + sum(V)
    <3>1. V = (T \ {x}) \ {P} /\ x \in T \ {P} /\ P \in T \ {x}
      BY <2>3, <2>6
    <3> HIDE DEF V, sum, P
    <3>2. QED  BY <2>7, <3>1 DEF V
  <2>9. /\ f[x] \in Int /\ f[P] \in Int /\ sum(V) \in Int
        /\ sum(T \ {x}) \in Int /\ sum(T \ {P}) \in Int
    BY <2>3, <2>4
  <2> HIDE DEF V, sum, P
  <2>10. QED  BY <2>2, <2>5, <2>8, <2>9
<1>2. Splits(S)
  BY <1>1
<1>3. QED  BY <1>2

\* A sum with one more element.
LEMMA SumAdd ==
  ASSUME NEW S, IsFiniteSet(S), NEW f, NEW y, y \notin S,
         \A x \in S \cup {y} : f[x] \in Int
  PROVE  SumFunctionOnSet(f, S \cup {y}) = f[y] + SumFunctionOnSet(f, S)
<1>1. IsFiniteSet(S \cup {y}) /\ (S \cup {y}) \ {y} = S /\ y \in S \cup {y}
  BY FS_AddElement
<1> DEFINE T == S \cup {y}
<1>2. \A x \in T : f[x] \in Int
  OBVIOUS
<1>3. SumFunctionOnSet(f, T) = f[y] + SumFunctionOnSet(f, T \ {y})
  <2> HIDE DEF T
  <2>1. QED  BY <1>1, <1>2, SumRemove DEF T
<1>4. QED  BY <1>1, <1>3

(***************************************************************************)
(* Sums of two functions: equal when the functions agree, ordered when     *)
(* they are ordered pointwise.                                             *)
(***************************************************************************)
LEMMA SumEqual ==
  ASSUME NEW S, IsFiniteSet(S), NEW f, NEW g,
         \A x \in S : f[x] \in Int /\ g[x] = f[x]
  PROVE  SumFunctionOnSet(g, S) = SumFunctionOnSet(f, S)
<1> DEFINE B == {T \in SUBSET S : SumFunctionOnSet(g, T) # SumFunctionOnSet(f, T)}
<1>1. ASSUME B # {} PROVE FALSE
  <2>1. PICK T \in B : \A x \in T : T \ {x} \notin B
    BY <1>1, FinMin
  <2>2. T # {}
    BY SumEmpty
  <2>3. PICK x \in T : TRUE
    BY <2>2
  <2>4. IsFiniteSet(T) /\ \A z \in T : f[z] \in Int /\ g[z] \in Int
    BY FS_Subset
  <2>5. /\ SumFunctionOnSet(f, T) = f[x] + SumFunctionOnSet(f, T \ {x})
        /\ SumFunctionOnSet(g, T) = g[x] + SumFunctionOnSet(g, T \ {x})
    BY <2>4, SumRemove
  <2>6. QED  BY <2>1, <2>5
<1>2. QED  BY <1>1

\* A sum of which one term changes.
LEMMA SumUpdate ==
  ASSUME NEW S, IsFiniteSet(S), NEW f, NEW g, NEW y \in S,
         \A x \in S : f[x] \in Int /\ g[x] \in Int,
         \A x \in S \ {y} : g[x] = f[x]
  PROVE  SumFunctionOnSet(g, S) = SumFunctionOnSet(f, S) - f[y] + g[y]
<1>1. IsFiniteSet(S \ {y})
  BY FS_Subset
<1>2. SumFunctionOnSet(g, S \ {y}) = SumFunctionOnSet(f, S \ {y})
  BY <1>1, SumEqual
<1>3. /\ SumFunctionOnSet(f, S) = f[y] + SumFunctionOnSet(f, S \ {y})
      /\ SumFunctionOnSet(g, S) = g[y] + SumFunctionOnSet(g, S \ {y})
  BY SumRemove
<1>4. SumFunctionOnSet(f, S \ {y}) \in Int
  BY <1>1, SumType
<1>5. QED  BY <1>2, <1>3, <1>4

\* Sums are monotone.
LEMMA SumLeq ==
  ASSUME NEW S, IsFiniteSet(S), NEW f, NEW g,
         \A x \in S : f[x] \in Int /\ g[x] \in Int /\ f[x] <= g[x]
  PROVE  SumFunctionOnSet(f, S) <= SumFunctionOnSet(g, S)
<1> DEFINE B == {T \in SUBSET S : ~(SumFunctionOnSet(f, T) <= SumFunctionOnSet(g, T))}
<1>1. ASSUME B # {} PROVE FALSE
  <2>1. PICK T \in B : \A x \in T : T \ {x} \notin B
    BY <1>1, FinMin
  <2>2. T # {}
    BY SumEmpty
  <2>3. PICK x \in T : TRUE
    BY <2>2
  <2>4. IsFiniteSet(T) /\ IsFiniteSet(T \ {x})
    BY FS_Subset
  <2>5. /\ SumFunctionOnSet(f, T) = f[x] + SumFunctionOnSet(f, T \ {x})
        /\ SumFunctionOnSet(g, T) = g[x] + SumFunctionOnSet(g, T \ {x})
    BY <2>4, SumRemove
  <2>6. SumFunctionOnSet(f, T \ {x}) \in Int /\ SumFunctionOnSet(g, T \ {x}) \in Int
    BY <2>4, SumType
  <2>7. QED  BY <2>1, <2>3, <2>5, <2>6
<1>2. QED  BY <1>1

\* A sum of natural numbers is one.
LEMMA SumNat ==
  ASSUME NEW S, IsFiniteSet(S), NEW f, \A x \in S : f[x] \in Nat
  PROVE  SumFunctionOnSet(f, S) \in Nat
<1> DEFINE B == {T \in SUBSET S : SumFunctionOnSet(f, T) \notin Nat}
<1>1. ASSUME B # {} PROVE FALSE
  <2>1. PICK T \in B : \A x \in T : T \ {x} \notin B
    BY <1>1, FinMin
  <2>2. T # {}
    BY SumEmpty
  <2>3. PICK x \in T : TRUE
    BY <2>2
  <2>4. IsFiniteSet(T) /\ \A z \in T : f[z] \in Int
    BY FS_Subset
  <2>5. SumFunctionOnSet(f, T) = f[x] + SumFunctionOnSet(f, T \ {x})
    BY <2>4, SumRemove
  <2>6. QED  BY <2>1, <2>3, <2>5
<1>2. QED  BY <1>1

(***************************************************************************)
(* A summand of a sum of naturals is at most the sum.                      *)
(***************************************************************************)
LEMMA SumBound ==
  ASSUME NEW S, IsFiniteSet(S), NEW f, \A x \in S : f[x] \in Nat, NEW y \in S
  PROVE  f[y] <= SumFunctionOnSet(f, S)
<1>1. SumFunctionOnSet(f, S) = f[y] + SumFunctionOnSet(f, S \ {y})
  BY SumRemove
<1>2. SumFunctionOnSet(f, S \ {y}) \in Nat
  BY FS_Subset, SumNat
<1>3. QED  BY <1>1, <1>2

(***************************************************************************)
(* A sum splits over a set and its complement, and over the groups of the  *)
(* elements that have the same owner; it is linear in the function.        *)
(***************************************************************************)
LEMMA SumSplit ==
  ASSUME NEW S, IsFiniteSet(S), NEW f, \A x \in S : f[x] \in Int, NEW A \in SUBSET S
  PROVE  SumFunctionOnSet(f, S) = SumFunctionOnSet(f, A) + SumFunctionOnSet(f, S \ A)
<1> DEFINE sum(T) == SumFunctionOnSet(f, T)
           B == {T \in SUBSET S : sum(S) # sum(T) + sum(S \ T)}
<1>1. \A T \in SUBSET S : IsFiniteSet(T) /\ (\A x \in T : f[x] \in Int) /\ sum(T) \in Int
  BY FS_Subset, SumType
<1>2. ASSUME B # {} PROVE FALSE
  <2>1. PICK T \in B : \A x \in T : T \ {x} \notin B
    BY <1>2, FinMin
  <2>2. T # {}
    <3>1. sum({}) = 0 /\ S \ {} = S /\ sum(S) \in Int
      BY <1>1, SumEmpty
    <3>2. {} \notin B
      <4> HIDE DEF sum
      <4>1. QED  BY <3>1
    <3>3. QED  BY <2>1, <3>2
  <2>3. PICK x \in T : TRUE
    BY <2>2
  <2>4. sum(T) = f[x] + sum(T \ {x})
    BY <1>1, <2>3, SumRemove
  <2>5. sum(S \ (T \ {x})) = f[x] + sum(S \ T)
    <3> DEFINE V == S \ (T \ {x})
    <3>1. x \in V /\ V \in SUBSET S /\ V \ {x} = S \ T
      BY <2>3
    <3> HIDE DEF V
    <3>2. sum(V) = f[x] + sum(V \ {x})
      BY <1>1, <3>1, SumRemove
    <3>3. QED  BY <3>1, <3>2 DEF V
  <2>6. sum(S) = sum(T \ {x}) + sum(S \ (T \ {x}))
    BY <2>1, <2>3
  <2>7. /\ f[x] \in Int /\ sum(T \ {x}) \in Int /\ sum(S \ T) \in Int
        /\ sum(T) \in Int /\ sum(S) \in Int
    <3>1. T \in SUBSET S /\ T \ {x} \in SUBSET S /\ S \ T \in SUBSET S /\ S \in SUBSET S /\ x \in S
      BY <2>1, <2>3
    <3> HIDE DEF sum
    <3>2. QED  BY <1>1, <3>1
  <2>8. sum(S) # sum(T) + sum(S \ T)
    BY <2>1
  <2> HIDE DEF sum
  <2>9. QED  BY <2>4, <2>5, <2>6, <2>7, <2>8
<1>3. QED  BY <1>2

\* A sum of zeros is zero.
LEMMA SumZero ==
  ASSUME NEW S, IsFiniteSet(S), NEW f, \A x \in S : f[x] = 0
  PROVE  SumFunctionOnSet(f, S) = 0
<1> DEFINE B == {T \in SUBSET S : SumFunctionOnSet(f, T) # 0}
<1>1. ASSUME B # {} PROVE FALSE
  <2>1. PICK T \in B : \A x \in T : T \ {x} \notin B
    BY <1>1, FinMin
  <2>2. PICK x \in T : TRUE
    BY SumEmpty
  <2>3. IsFiniteSet(T) /\ \A z \in T : f[z] \in Int
    BY FS_Subset
  <2>4. SumFunctionOnSet(f, T) = f[x] + SumFunctionOnSet(f, T \ {x})
    BY <2>3, SumRemove
  <2>5. QED  BY <2>1, <2>2, <2>4
<1>2. QED  BY <1>1

\* A sum of sums.
LEMMA SumPlus ==
  ASSUME NEW S, IsFiniteSet(S), NEW f, NEW g, NEW h,
         \A x \in S : f[x] \in Int /\ g[x] \in Int /\ h[x] = f[x] + g[x]
  PROVE  SumFunctionOnSet(h, S) = SumFunctionOnSet(f, S) + SumFunctionOnSet(g, S)
<1> DEFINE B == {T \in SUBSET S :
             SumFunctionOnSet(h, T) # SumFunctionOnSet(f, T) + SumFunctionOnSet(g, T)}
<1>1. ASSUME B # {} PROVE FALSE
  <2>1. PICK T \in B : \A x \in T : T \ {x} \notin B
    BY <1>1, FinMin
  <2>2. T # {}
    <3>1. /\ SumFunctionOnSet(f, {}) = 0 /\ SumFunctionOnSet(g, {}) = 0
          /\ SumFunctionOnSet(h, {}) = 0
      BY SumEmpty
    <3>2. {} \notin B
      BY <3>1
    <3>3. QED  BY <2>1, <3>2
  <2>3. PICK x \in T : TRUE
    BY <2>2
  <2>4. /\ IsFiniteSet(T) /\ IsFiniteSet(T \ {x})
        /\ \A z \in T : f[z] \in Int /\ g[z] \in Int /\ h[z] \in Int
    BY FS_Subset
  <2>5. /\ SumFunctionOnSet(f, T) = f[x] + SumFunctionOnSet(f, T \ {x})
        /\ SumFunctionOnSet(g, T) = g[x] + SumFunctionOnSet(g, T \ {x})
        /\ SumFunctionOnSet(h, T) = h[x] + SumFunctionOnSet(h, T \ {x})
    BY <2>4, SumRemove
  <2>6. /\ SumFunctionOnSet(f, T \ {x}) \in Int
        /\ SumFunctionOnSet(g, T \ {x}) \in Int
    BY <2>4, SumType
  <2>7. QED  BY <2>1, <2>3, <2>4, <2>5, <2>6
<1>2. QED  BY <1>1

\* A multiple of a sum.
LEMMA SumScale ==
  ASSUME NEW S, IsFiniteSet(S), NEW f, NEW g, NEW c \in Int,
         \A x \in S : f[x] \in Int /\ g[x] = c * f[x]
  PROVE  SumFunctionOnSet(g, S) = c * SumFunctionOnSet(f, S)
<1> DEFINE B == {T \in SUBSET S : SumFunctionOnSet(g, T) # c * SumFunctionOnSet(f, T)}
<1>1. ASSUME B # {} PROVE FALSE
  <2>1. PICK T \in B : \A x \in T : T \ {x} \notin B
    BY <1>1, FinMin
  <2>2. T # {}
    <3>1. SumFunctionOnSet(f, {}) = 0 /\ SumFunctionOnSet(g, {}) = 0 /\ c * 0 = 0
      BY SumEmpty
    <3>2. {} \notin B
      BY <3>1
    <3>3. QED  BY <2>1, <3>2
  <2>3. PICK x \in T : TRUE
    BY <2>2
  <2>4. /\ IsFiniteSet(T) /\ IsFiniteSet(T \ {x})
        /\ \A z \in T : f[z] \in Int /\ g[z] \in Int
    BY FS_Subset
  <2>5. /\ SumFunctionOnSet(f, T) = f[x] + SumFunctionOnSet(f, T \ {x})
        /\ SumFunctionOnSet(g, T) = g[x] + SumFunctionOnSet(g, T \ {x})
    BY <2>4, SumRemove
  <2>6. SumFunctionOnSet(f, T \ {x}) \in Int
    BY <2>4, SumType
  <2>7. QED  BY <2>1, <2>3, <2>4, <2>5, <2>6
<1>2. QED  BY <1>1

\* A sum split by owner.
LEMMA SumGroup ==
  ASSUME NEW S, IsFiniteSet(S), NEW f, \A x \in S : f[x] \in Int,
         NEW U, IsFiniteSet(U), NEW own, \A x \in S : own[x] \in U
  PROVE  SumFunctionOnSet([w \in U |-> SumFunctionOnSet(f, {x \in S : own[x] = w})], U)
           = SumFunctionOnSet(f, S)
<1> DEFINE of(T, w) == {x \in T : own[x] = w}
           F(T) == [w \in U |-> SumFunctionOnSet(f, of(T, w))]
           B == {T \in SUBSET S : SumFunctionOnSet(F(T), U) # SumFunctionOnSet(f, T)}
<1>1. \A T \in SUBSET S : IsFiniteSet(T) /\ \A x \in T : f[x] \in Int
  BY FS_Subset
<1>2. \A T \in SUBSET S, w \in U : of(T, w) \in SUBSET S /\ F(T)[w] \in Int
  BY <1>1, SumType
<1>3. ASSUME B # {} PROVE FALSE
  <2>1. PICK T \in B : \A x \in T : T \ {x} \notin B
    BY <1>3, FinMin
  <2>2. T # {}
    <3>1. \A w \in U : F({})[w] = 0
      BY SumEmpty
    <3>2. SumFunctionOnSet(F({}), U) = 0
      <4> HIDE DEF F
      <4>1. QED  BY <3>1, SumZero
    <3>3. QED  BY <3>2, SumEmpty
  <2>3. PICK x \in T : TRUE
    BY <2>2
  <2> DEFINE R == T \ {x}
             y == own[x]
  <2>4. R \in SUBSET S /\ T \in SUBSET S /\ y \in U /\ x \in T
    BY <2>3
  <2>5. \A w \in U \ {y} : F(T)[w] = F(R)[w]
    <3>1. \A w \in U \ {y} : of(T, w) = of(R, w)
      OBVIOUS
    <3>2. QED  BY <3>1
  <2>6. F(T)[y] = f[x] + F(R)[y]
    <3>1. x \in of(T, y) /\ of(T, y) \ {x} = of(R, y) /\ of(T, y) \in SUBSET S
      BY <2>4
    <3>2. SumFunctionOnSet(f, of(T, y)) = f[x] + SumFunctionOnSet(f, of(T, y) \ {x})
      <4> DEFINE V == of(T, y)
      <4>1. IsFiniteSet(V) /\ (\A z \in V : f[z] \in Int) /\ x \in V
        BY <1>1, <3>1
      <4> HIDE DEF V
      <4>2. SumFunctionOnSet(f, V) = f[x] + SumFunctionOnSet(f, V \ {x})
        BY <4>1, SumRemove
      <4>3. QED  BY <4>2 DEF V
    <3>3. QED  BY <2>4, <3>1, <3>2
  <2>7. SumFunctionOnSet(F(T), U) = SumFunctionOnSet(F(R), U) - F(R)[y] + F(T)[y]
    <3>1. \A w \in U : F(T)[w] \in Int /\ F(R)[w] \in Int
      BY <1>2, <2>4
    <3>2. y \in U
      BY <2>4
    <3> HIDE DEF F, R, y
    <3>3. QED  BY <2>5, <3>1, <3>2, SumUpdate
  <2>8. SumFunctionOnSet(f, T) = f[x] + SumFunctionOnSet(f, R)
    BY <1>1, <2>4, SumRemove
  <2>9. SumFunctionOnSet(F(R), U) = SumFunctionOnSet(f, R)
    BY <2>1, <2>3
  <2>10. /\ F(R)[y] \in Int /\ f[x] \in Int /\ SumFunctionOnSet(f, R) \in Int
         /\ SumFunctionOnSet(F(T), U) # SumFunctionOnSet(f, T)
    <3>1. SumFunctionOnSet(f, R) \in Int
      BY <1>1, <2>4, SumType
    <3>2. F(R)[y] \in Int /\ f[x] \in Int
      BY <1>2, <2>4
    <3>3. QED  BY <2>1, <3>1, <3>2
  <2> HIDE DEF F, R, y
  <2>11. QED  BY <2>6, <2>7, <2>8, <2>9, <2>10
<1>4. SumFunctionOnSet(F(S), U) = SumFunctionOnSet(f, S)
  BY <1>3
<1>5. QED  BY <1>4

(***************************************************************************)
(* Summands outside T that are zero may be left out, and the elements of a *)
(* set may be renamed one to one.                                          *)
(***************************************************************************)
LEMMA SumRestrict ==
  ASSUME NEW S, IsFiniteSet(S), NEW T \in SUBSET S, NEW f, NEW g,
         \A x \in T : f[x] \in Int /\ g[x] = f[x], \A x \in S \ T : g[x] = 0
  PROVE  SumFunctionOnSet(g, S) = SumFunctionOnSet(f, T)
<1>1. IsFiniteSet(T) /\ IsFiniteSet(S \ T) /\ \A x \in S : g[x] \in Int
  BY FS_Subset
<1>2. SumFunctionOnSet(g, S) = SumFunctionOnSet(g, T) + SumFunctionOnSet(g, S \ T)
  BY <1>1, SumSplit
<1>3. SumFunctionOnSet(g, S \ T) = 0
  BY <1>1, SumZero
<1>4. SumFunctionOnSet(g, T) = SumFunctionOnSet(f, T) /\ SumFunctionOnSet(g, T) \in Int
  BY <1>1, SumEqual, SumType
<1>5. QED  BY <1>2, <1>3, <1>4

\* A sum over an image.
LEMMA SumImage ==
  ASSUME NEW S, IsFiniteSet(S), NEW f, \A x \in S : f[x] \in Int,
         NEW r, \A x, y \in S : r[x] = r[y] => x = y,
         NEW g, \A x \in S : g[r[x]] = f[x]
  PROVE  /\ IsFiniteSet({r[x] : x \in S})
         /\ SumFunctionOnSet(g, {r[x] : x \in S}) = SumFunctionOnSet(f, S)
<1> DEFINE im(T) == {r[x] : x \in T}
           B == {T \in SUBSET S : ~ (/\ IsFiniteSet(im(T))
                                    /\ SumFunctionOnSet(g, im(T)) = SumFunctionOnSet(f, T))}
<1>1. ASSUME B # {} PROVE FALSE
  <2>1. PICK T \in B : \A x \in T : T \ {x} \notin B
    BY <1>1, FinMin
  <2>2. T # {}
    <3>1. /\ im({}) = {} /\ IsFiniteSet(im({}))
          /\ SumFunctionOnSet(g, im({})) = 0 /\ SumFunctionOnSet(f, {}) = 0
      BY SumEmpty, FS_EmptySet
    <3>2. {} \notin B
      BY <3>1
    <3>3. QED  BY <2>1, <3>2
  <2>3. PICK x \in T : TRUE
    BY <2>2
  <2> DEFINE R == T \ {x}
  <2>4. /\ R \in SUBSET S /\ T \in SUBSET S /\ x \in S
        /\ r[x] \notin im(R) /\ im(T) = im(R) \cup {r[x]}
    BY <2>3
  <2>5. /\ IsFiniteSet(im(R))
        /\ SumFunctionOnSet(g, im(R)) = SumFunctionOnSet(f, R)
    BY <2>1, <2>3, <2>4
  <2>6. SumFunctionOnSet(f, T) = f[x] + SumFunctionOnSet(f, R)
    <3>1. IsFiniteSet(T) /\ \A z \in T : f[z] \in Int
      BY FS_Subset
    <3>2. QED  BY <2>3, <3>1, SumRemove
  <2>7. /\ IsFiniteSet(im(R) \cup {r[x]})
        /\ SumFunctionOnSet(g, im(R) \cup {r[x]}) = g[r[x]] + SumFunctionOnSet(g, im(R))
    <3>1. \A z \in im(R) \cup {r[x]} : g[z] \in Int
      BY <2>4
    <3> DEFINE I == im(R)
               y == r[x]
    <3>2. IsFiniteSet(I) /\ y \notin I /\ \A z \in I \cup {y} : g[z] \in Int
      BY <2>4, <2>5, <3>1
    <3> HIDE DEF I, y
    <3>3. IsFiniteSet(I \cup {y}) /\ SumFunctionOnSet(g, I \cup {y}) = g[y] + SumFunctionOnSet(g, I)
      BY <3>2, SumAdd, FS_AddElement
    <3>4. QED  BY <3>3 DEF I, y
  <2>8. IsFiniteSet(im(T)) /\ SumFunctionOnSet(g, im(T)) = SumFunctionOnSet(f, T)
    BY <2>4, <2>5, <2>6, <2>7
  <2>9. QED  BY <2>1, <2>8
<1>2. QED  BY <1>1

-------------------------------------------------------------------------------
(***************************************************************************)
(* Integer division by a positive number: its bounds and its monotonicity. *)
(***************************************************************************)
LEMMA DivBounds ==
  ASSUME NEW n \in Int, NEW d \in Nat, d > 0
  PROVE  /\ n \div d \in Int
         /\ d * (n \div d) <= n /\ n < d * (n \div d) + d
OBVIOUS

\* Products by a natural number are monotone.
LEMMA ProductMonotone ==
  ASSUME NEW c \in Nat, NEW a \in Int, NEW b \in Int, a <= b
  PROVE  c * a <= c * b
<1>1. c * (b - a) >= 0
  OBVIOUS
<1>2. QED  BY <1>1

\* Division rounds monotonically.
LEMMA DivMonotone ==
  ASSUME NEW a \in Int, NEW b \in Int, a <= b, NEW d \in Nat, d > 0
  PROVE  a \div d <= b \div d
<1> DEFINE q == a \div d
           r == b \div d
<1>1. /\ q \in Int /\ r \in Int /\ d * q <= a /\ b < d * r + d
  BY DivBounds
<1> HIDE DEF q, r
<1>2. ASSUME r + 1 <= q PROVE FALSE
  <2>1. d * (r + 1) <= d * q
    BY <1>1, <1>2, ProductMonotone
  <2>2. d * (r + 1) = d * r + d /\ d * r \in Int /\ d * q \in Int
    BY <1>1
  <2>3. QED  BY <1>1, <2>1, <2>2
<1>3. q <= r
  BY <1>1, <1>2
<1>4. QED  BY <1>3 DEF q, r

\* Division stays within the natural numbers.
LEMMA DivNat ==
  ASSUME NEW a \in Nat, NEW d \in Nat, d > 0
  PROVE  a \div d \in Nat
<1>1. 0 \div d <= a \div d /\ 0 \div d = 0 /\ a \div d \in Int
  BY DivMonotone, DivBounds
<1>2. QED  BY <1>1

\* Division undoes a product.
LEMMA DivProduct ==
  ASSUME NEW a \in Int, NEW d \in Nat, d > 0
  PROVE  (d * a) \div d = a
<1> DEFINE q == (d * a) \div d
<1>1. q \in Int /\ d * q <= d * a /\ d * a < d * q + d /\ d * a \in Int /\ d * q \in Int
  BY DivBounds
<1> HIDE DEF q
<1>2. ~ (a + 1 <= q)
  <2>1. SUFFICES ASSUME a + 1 <= q PROVE FALSE
    OBVIOUS
  <2>2. d * (a + 1) <= d * q /\ d * (a + 1) = d * a + d
    BY <1>1, <2>1, ProductMonotone
  <2>3. QED  BY <1>1, <2>2
<1>3. ~ (q + 1 <= a)
  <2>1. SUFFICES ASSUME q + 1 <= a PROVE FALSE
    OBVIOUS
  <2>2. d * (q + 1) <= d * a /\ d * (q + 1) = d * q + d
    BY <1>1, <2>1, ProductMonotone
  <2>3. QED  BY <1>1, <2>2
<1>4. q = a
  BY <1>1, <1>2, <1>3
<1>5. QED  BY <1>4 DEF q

-------------------------------------------------------------------------------
\* A book of orders that can be ranked: natural remainders, integer prices,
\* and no sequence number given twice.
Rankable(book, makers) ==
  /\ IsFiniteSet(makers)
  /\ \A m \in makers : /\ book[m].remaining \in Nat
                       /\ book[m].price \in Int /\ book[m].seq \in Int
  /\ \A m, n \in makers : m # n => book[m].seq # book[n].seq

(***************************************************************************)
(* The priority of two orders is a strict total order on a rankable book.  *)
(***************************************************************************)
LEMMA BeforeOrder ==
  ASSUME NEW book, NEW makers, Rankable(book, makers), NEW side,
         NEW a \in makers, NEW b \in makers
  PROVE  /\ ~ Before(side, book[a], book[a])
         /\ Before(side, book[a], book[b]) => ~ Before(side, book[b], book[a])
         /\ a # b => Before(side, book[a], book[b]) \/ Before(side, book[b], book[a])
BY DEF Rankable, Before, Crosses

\* Price-time priority is transitive.
LEMMA BeforeTransitive ==
  ASSUME NEW book, NEW makers, Rankable(book, makers), NEW side,
         NEW a \in makers, NEW b \in makers, NEW c \in makers,
         Before(side, book[a], book[b]), Before(side, book[b], book[c])
  PROVE  Before(side, book[a], book[c])
BY DEF Rankable, Before, Crosses

\* Some maker ranks last.
LEMMA LastOf ==
  ASSUME NEW book, NEW makers, Rankable(book, makers), NEW side,
         NEW S \in SUBSET makers, S # {}
  PROVE  \E x \in S : \A y \in S \ {x} : Before(side, book[y], book[x])
<1> DEFINE Last(x, T) == \A y \in T \ {x} : Before(side, book[y], book[x])
           B == {T \in SUBSET S : T # {} /\ \A x \in T : ~ Last(x, T)}
<1>1. ASSUME B # {} PROVE FALSE
  <2>1. PICK T \in B : \A x \in T : T \ {x} \notin B
    <3>1. IsFiniteSet(S)
      BY FS_Subset DEF Rankable
    <3>2. QED  BY <1>1, <3>1, FinMin
  <2>2. PICK x \in T : TRUE
    OBVIOUS
  <2>3. T \ {x} # {}
    BY <2>1, <2>2
  <2>4. PICK z \in T \ {x} : Last(z, T \ {x})
    BY <2>1, <2>3
  <2>5. CASE Before(side, book[x], book[z])
    <3>1. Last(z, T)
      BY <2>4, <2>5
    <3>2. QED  BY <2>1, <2>4, <3>1
  <2>6. CASE Before(side, book[z], book[x])
    <3>1. \A y \in (T \ {x}) \ {z} : Before(side, book[y], book[x])
      <4> TAKE y \in (T \ {x}) \ {z}
      <4>1. x \in makers /\ y \in makers /\ z \in makers
        BY <2>1, <2>2, <2>4
      <4>2. Before(side, book[y], book[z])
        BY <2>4
      <4>3. QED  BY <2>6, <4>1, <4>2, BeforeTransitive
    <3>2. Last(x, T)
      BY <2>6, <3>1
    <3>3. QED  BY <2>1, <2>2, <3>2
  <2>7. QED
    <3>1. x \in makers /\ z \in makers /\ x # z
      BY <2>1, <2>2, <2>4
    <3>2. Before(side, book[x], book[z]) \/ Before(side, book[z], book[x])
      <4> HIDE DEF B, Last
      <4>1. QED  BY <3>1, BeforeOrder
    <3>3. QED  BY <2>5, <2>6, <3>2
<1>2. QED  BY <1>1

(***************************************************************************)
(* Depth: the quantity on offer in a set of orders.                        *)
(***************************************************************************)
LEMMA DepthNat ==
  ASSUME NEW book, NEW S, IsFiniteSet(S), \A m \in S : book[m].remaining \in Nat
  PROVE  Depth(book, S) \in Nat
<1> DEFINE f == [m \in S |-> book[m].remaining]
<1>1. \A m \in S : f[m] \in Nat
  OBVIOUS
<1> HIDE DEF f
<1>2. SumFunctionOnSet(f, S) \in Nat
  BY <1>1, SumNat
<1>3. QED  BY <1>2 DEF Depth, f

\* Depth is additive.
LEMMA DepthSplit ==
  ASSUME NEW book, NEW S, IsFiniteSet(S), \A m \in S : book[m].remaining \in Nat,
         NEW T \in SUBSET S
  PROVE  Depth(book, S) = Depth(book, T) + Depth(book, S \ T)
<1> DEFINE f(A) == [m \in A |-> book[m].remaining]
<1>1. \A A \in SUBSET S : IsFiniteSet(A) /\ \A m \in A : f(A)[m] = f(S)[m] /\ f(S)[m] \in Int
  BY FS_Subset
<1>2. \A A \in SUBSET S : SumFunctionOnSet(f(A), A) = SumFunctionOnSet(f(S), A)
  <2> HIDE DEF f
  <2>1. QED  BY <1>1, SumEqual
<1>3. SumFunctionOnSet(f(S), S) = SumFunctionOnSet(f(S), T) + SumFunctionOnSet(f(S), S \ T)
  <2>1. S \in SUBSET S
    OBVIOUS
  <2> HIDE DEF f
  <2>2. \A m \in S : f(S)[m] \in Int
    BY <1>1, <2>1
  <2>3. QED  BY <2>2, SumSplit
<1>4. Depth(book, S) = SumFunctionOnSet(f(S), S) /\ Depth(book, T) = SumFunctionOnSet(f(T), T)
      /\ Depth(book, S \ T) = SumFunctionOnSet(f(S \ T), S \ T)
  BY DEF Depth
<1>5. S \ T \in SUBSET S
  OBVIOUS
<1> HIDE DEF f
<1>6. QED  BY <1>2, <1>3, <1>4, <1>5

\* The depth of one maker is its rest.
LEMMA DepthOne ==
  ASSUME NEW book, NEW x, book[x].remaining \in Nat
  PROVE  Depth(book, {x}) = book[x].remaining
<1> DEFINE f == [m \in {x} |-> book[m].remaining]
<1>1. f[x] \in Int /\ IsFiniteSet({}) /\ x \notin {} /\ \A y \in {} \cup {x} : f[y] \in Int
  BY FS_EmptySet
<1>2. SumFunctionOnSet(f, {} \cup {x}) = f[x] + SumFunctionOnSet(f, {})
  <2> HIDE DEF f
  <2>1. QED  BY <1>1, SumAdd
<1>3. SumFunctionOnSet(f, {}) = 0 /\ {} \cup {x} = {x}
  BY SumEmpty
<1>4. QED  BY <1>2, <1>3 DEF Depth

\* No makers have no depth.
LEMMA DepthEmpty == ASSUME NEW book PROVE Depth(book, {}) = 0
BY SumEmpty DEF Depth

\* A larger set is at least as deep, and strictly so by what it adds.
LEMMA DepthGrows ==
  ASSUME NEW book, NEW S, IsFiniteSet(S), \A m \in S : book[m].remaining \in Nat,
         NEW T \in SUBSET S, NEW x \in S \ T
  PROVE  /\ Depth(book, T) \in Nat /\ Depth(book, S) \in Nat
         /\ Depth(book, T) + book[x].remaining <= Depth(book, S)
<1>1. Depth(book, S) = Depth(book, T) + Depth(book, S \ T)
  BY DepthSplit
<1> DEFINE R == S \ T
<1>2. IsFiniteSet(R) /\ (\A m \in R : book[m].remaining \in Nat) /\ {x} \in SUBSET R
  BY FS_Subset
<1>3. Depth(book, R) = Depth(book, {x}) + Depth(book, R \ {x})
  <2> HIDE DEF R
  <2>1. QED  BY <1>2, DepthSplit
<1>4. Depth(book, {x}) = book[x].remaining
  BY DepthOne
<1>5. IsFiniteSet(T) /\ IsFiniteSet(R \ {x}) /\ \A m \in R \ {x} : book[m].remaining \in Nat
  BY <1>2, FS_Subset
<1>6. Depth(book, T) \in Nat /\ Depth(book, R \ {x}) \in Nat /\ Depth(book, S) \in Nat
  <2> HIDE DEF R
  <2>1. QED  BY <1>5, DepthNat
<1>7. QED  BY <1>1, <1>3, <1>4, <1>6

\* More makers have no less depth.
LEMMA DepthMonotone ==
  ASSUME NEW book, NEW S, IsFiniteSet(S), \A m \in S : book[m].remaining \in Nat,
         NEW T \in SUBSET S
  PROVE  /\ Depth(book, T) \in Nat /\ Depth(book, S) \in Nat
         /\ Depth(book, T) <= Depth(book, S)
<1>1. Depth(book, S) = Depth(book, T) + Depth(book, S \ T)
  BY DepthSplit
<1>2. IsFiniteSet(T) /\ IsFiniteSet(S \ T)
  BY FS_Subset
<1>3. Depth(book, T) \in Nat /\ Depth(book, S \ T) \in Nat
  BY <1>2, DepthNat
<1>4. QED  BY <1>1, <1>3

(***************************************************************************)
(* No maker gives more than it has.                                        *)
(***************************************************************************)
LEMMA MatchBounds ==
  ASSUME NEW book, NEW makers, Rankable(book, makers), NEW side, NEW quantity \in Nat
  PROVE  \A m \in makers :
           /\ MatchPriceTime(side, quantity, book, makers)[m] \in Nat
           /\ MatchPriceTime(side, quantity, book, makers)[m] <= book[m].remaining
<1> TAKE m \in makers
<1> DEFINE A == AheadOf(side, book, makers, m)
<1>1. IsFiniteSet(A) /\ \A n \in A : book[n].remaining \in Nat
  BY FS_Subset DEF Rankable, AheadOf
<1>2. Depth(book, A) \in Nat
  <2> HIDE DEF A
  <2>1. QED  BY <1>1, DepthNat
<1>3. book[m].remaining \in Nat
  BY DEF Rankable
<1>4. QED  BY <1>2, <1>3 DEF MatchPriceTime

\* Everybody ahead of a maker together with the maker is at most the book.
LEMMA AheadDepth ==
  ASSUME NEW book, NEW makers, Rankable(book, makers), NEW side, NEW m \in makers
  PROVE  /\ Depth(book, AheadOf(side, book, makers, m)) \in Nat
         /\ Depth(book, makers) \in Nat
         /\ Depth(book, AheadOf(side, book, makers, m)) + book[m].remaining
              <= Depth(book, makers)
<1>1. AheadOf(side, book, makers, m) \in SUBSET makers /\ m \in makers \ AheadOf(side, book, makers, m)
  BY BeforeOrder DEF AheadOf
<1>2. QED  BY <1>1, DepthGrows DEF Rankable

(***************************************************************************)
(* A maker is reached only when everybody ahead of it is exhausted.        *)
(***************************************************************************)
LEMMA MatchPriority ==
  ASSUME NEW book, NEW makers, Rankable(book, makers), NEW side, NEW quantity \in Nat,
         NEW m \in makers, NEW n \in makers, Before(side, book[n], book[m]),
         MatchPriceTime(side, quantity, book, makers)[m] > 0
  PROVE  MatchPriceTime(side, quantity, book, makers)[n] = book[n].remaining
<1> DEFINE A == AheadOf(side, book, makers, m)
           C == AheadOf(side, book, makers, n)
<1>1. C \in SUBSET A /\ n \in A \ C
  <2>1. ~ Before(side, book[n], book[n])
    BY BeforeOrder
  <2>2. \A k \in makers : Before(side, book[k], book[n]) => Before(side, book[k], book[m])
    BY BeforeTransitive
  <2>3. QED  BY <2>1, <2>2 DEF AheadOf
<1>2. IsFiniteSet(A) /\ \A k \in A : book[k].remaining \in Nat
  BY FS_Subset DEF Rankable, AheadOf
<1>3. /\ Depth(book, C) \in Nat /\ Depth(book, A) \in Nat
      /\ Depth(book, C) + book[n].remaining <= Depth(book, A)
  <2> HIDE DEF A, C
  <2>1. QED  BY <1>1, <1>2, DepthGrows
<1>4. quantity > Depth(book, A)
  BY <1>3 DEF MatchPriceTime
<1>5. book[n].remaining \in Nat
  BY DEF Rankable
<1> HIDE DEF A
<1>6. QED  BY <1>3, <1>4, <1>5 DEF MatchPriceTime

(***************************************************************************)
(* The matched total is the incoming quantity or the whole book, whichever *)
(* is smaller.                                                             *)
(***************************************************************************)
LEMMA MatchTotal ==
  ASSUME NEW book, NEW makers, Rankable(book, makers), NEW side, NEW quantity \in Nat
  PROVE  /\ Depth(book, makers) \in Nat
         /\ SumFunctionOnSet(MatchPriceTime(side, quantity, book, makers), makers)
              = IF quantity <= Depth(book, makers) THEN quantity ELSE Depth(book, makers)
<1> DEFINE F == MatchPriceTime(side, quantity, book, makers)
           Closed(T) == \A t \in T, y \in makers : Before(side, book[y], book[t]) => y \in T
           Total(T) == IF quantity <= Depth(book, T) THEN quantity ELSE Depth(book, T)
           B == {T \in SUBSET makers : Closed(T) /\ SumFunctionOnSet(F, T) # Total(T)}
<1>1. IsFiniteSet(makers) /\ \A m \in makers : book[m].remaining \in Nat
  BY DEF Rankable
<1>2. \A m \in makers : F[m] \in Nat
  BY MatchBounds
<1>3. \A T \in SUBSET makers : /\ IsFiniteSet(T) /\ Depth(book, T) \in Nat
                               /\ \A m \in T : F[m] \in Int
                               /\ SumFunctionOnSet(F, T) \in Int
  <2> TAKE T \in SUBSET makers
  <2> HIDE DEF F
  <2>1. IsFiniteSet(T) /\ (\A m \in T : F[m] \in Int) /\ \A m \in T : book[m].remaining \in Nat
    BY <1>1, <1>2, FS_Subset
  <2>2. QED  BY <2>1, SumType, DepthNat
<1>4. ASSUME B # {} PROVE FALSE
  <2>1. PICK T \in B : \A x \in T : T \ {x} \notin B
    <3>1. B \subseteq SUBSET makers
      OBVIOUS
    <3> HIDE DEF B
    <3>2. QED  BY <1>1, <1>4, <3>1, FinMin
  <2>2. T # {}
    <3>1. SumFunctionOnSet(F, {}) = 0 /\ Depth(book, {}) = 0
      BY SumEmpty, DepthEmpty
    <3>2. {} \notin B
      <4> HIDE DEF F
      <4>1. QED  BY <3>1
    <3>3. QED  BY <2>1, <3>2
  <2>3. PICK x \in T : \A y \in T \ {x} : Before(side, book[y], book[x])
    <3>1. T \in SUBSET makers
      BY <2>1
    <3> HIDE DEF B
    <3>2. QED  BY <2>2, <3>1, LastOf
  <2>4. Closed(T \ {x})
    <3> SUFFICES ASSUME NEW t \in T \ {x}, NEW y \in makers, Before(side, book[y], book[t])
                 PROVE  y \in T \ {x}
      OBVIOUS
    <3>1. y \in T
      BY <2>1
    <3>2. Before(side, book[t], book[x]) /\ t \in makers /\ x \in makers
      BY <2>1, <2>3
    <3>3. y # x
      BY <3>2, BeforeOrder
    <3>4. QED  BY <3>1, <3>3
  <2>5. SumFunctionOnSet(F, T \ {x}) = Total(T \ {x})
    BY <2>1, <2>3, <2>4
  <2>6. AheadOf(side, book, makers, x) = T \ {x}
    <3>1. x \in makers /\ T \in SUBSET makers /\ Closed(T)
      BY <2>1, <2>3
    <3>2. ~ Before(side, book[x], book[x])
      BY <3>1, BeforeOrder
    <3>3. QED  BY <2>3, <3>1, <3>2 DEF AheadOf
  <2> DEFINE left == quantity - Depth(book, T \ {x})
  <2>7. F[x] = IF left <= 0 THEN 0
               ELSE IF left < book[x].remaining THEN left ELSE book[x].remaining
    BY <2>1, <2>6 DEF MatchPriceTime
  <2>8. T \in SUBSET makers /\ T \ {x} \in SUBSET makers /\ x \in T /\ x \in makers
        /\ {x} \in SUBSET T /\ SumFunctionOnSet(F, T) # Total(T)
    BY <2>1, <2>3
  <2> HIDE DEF F
  <2>9. SumFunctionOnSet(F, T) = F[x] + SumFunctionOnSet(F, T \ {x})
    BY <1>3, <2>8, SumRemove
  <2>10. Depth(book, T) = book[x].remaining + Depth(book, T \ {x})
    <3>1. \A m \in T : book[m].remaining \in Nat
      BY <1>1, <2>8
    <3>2. Depth(book, T) = Depth(book, {x}) + Depth(book, T \ {x})
      BY <1>3, <2>8, <3>1, DepthSplit
    <3>3. QED  BY <2>8, <3>1, <3>2, DepthOne
  <2>11. Depth(book, T \ {x}) \in Nat /\ book[x].remaining \in Nat
    BY <1>1, <1>3, <2>8
  <2>12. QED  BY <2>5, <2>7, <2>8, <2>9, <2>10, <2>11
<1>5. Closed(makers) /\ makers \in SUBSET makers
  OBVIOUS
<1>6. SumFunctionOnSet(F, makers) = Total(makers)
  BY <1>4, <1>5
<1>7. Depth(book, makers) \in Nat
  BY <1>3, <1>5
<1>8. QED  BY <1>6, <1>7

(***************************************************************************)
(* An incoming order that is not filled completely leaves no maker behind: *)
(* this is why a book is never crossed after matching.                     *)
(***************************************************************************)
LEMMA MatchExhausts ==
  ASSUME NEW book, NEW makers, Rankable(book, makers), NEW side, NEW quantity \in Nat,
         SumFunctionOnSet(MatchPriceTime(side, quantity, book, makers), makers) # quantity
  PROVE  \A m \in makers :
           MatchPriceTime(side, quantity, book, makers)[m] = book[m].remaining
<1>1. Depth(book, makers) \in Nat /\ quantity > Depth(book, makers)
  BY MatchTotal
<1> TAKE m \in makers
<1> DEFINE A == AheadOf(side, book, makers, m)
<1>2. Depth(book, A) \in Nat /\ Depth(book, A) + book[m].remaining <= Depth(book, makers)
  BY AheadDepth
<1>3. book[m].remaining \in Nat
  BY DEF Rankable
<1> HIDE DEF A
<1>4. QED  BY <1>1, <1>2, <1>3 DEF MatchPriceTime, A

\* A sum with one more element, whose other terms are the same.
Extends(g, y, f, S) ==
  /\ IsFiniteSet(S) /\ y \notin S /\ g[y] \in Int
  /\ \A x \in S : f[x] \in Int /\ g[x] = f[x]
\* It is the old sum and that element.
LEMMA SumExtended ==
  ASSUME NEW S, NEW f, NEW g, NEW y, Extends(g, y, f, S)
  PROVE  SumFunctionOnSet(g, S \cup {y}) = SumFunctionOnSet(f, S) + g[y]
<1> USE DEF Extends
<1>1. SumFunctionOnSet(g, S) = SumFunctionOnSet(f, S) /\ SumFunctionOnSet(f, S) \in Int
  BY SumEqual, SumType
<1>2. SumFunctionOnSet(g, S \cup {y}) = g[y] + SumFunctionOnSet(g, S)
  <2>1. \A x \in S \cup {y} : g[x] \in Int
    OBVIOUS
  <2>2. QED  BY <2>1, SumAdd
<1>3. QED  BY <1>1, <1>2

\* A sum over two sets that have no element in common.
Joins(h, f, A, g, B) ==
  /\ IsFiniteSet(A) /\ IsFiniteSet(B) /\ A \cap B = {}
  /\ \A x \in A : f[x] \in Int /\ h[x] = f[x]
  /\ \A x \in B : g[x] \in Int /\ h[x] = g[x]
\* It is the two sums.
LEMMA SumUnion ==
  ASSUME NEW A, NEW B, NEW f, NEW g, NEW h, Joins(h, f, A, g, B)
  PROVE  /\ SumFunctionOnSet(h, A \cup B) = SumFunctionOnSet(f, A) + SumFunctionOnSet(g, B)
         /\ SumFunctionOnSet(f, A) \in Int /\ SumFunctionOnSet(g, B) \in Int
<1> USE DEF Joins
<1> DEFINE S == A \cup B
<1>1. IsFiniteSet(S)
  BY FS_Union
<1>2. A \in SUBSET S /\ S \ A = B /\ \A x \in S : h[x] \in Int
  OBVIOUS
<1> HIDE DEF S
<1>3. SumFunctionOnSet(h, S) = SumFunctionOnSet(h, A) + SumFunctionOnSet(h, S \ A)
  BY <1>1, <1>2, SumSplit
<1>4. SumFunctionOnSet(h, A) = SumFunctionOnSet(f, A) /\ SumFunctionOnSet(h, B) = SumFunctionOnSet(g, B)
  BY SumEqual
<1>5. SumFunctionOnSet(f, A) \in Int /\ SumFunctionOnSet(g, B) \in Int
  BY SumType
<1>6. QED  BY <1>2, <1>3, <1>4, <1>5 DEF S

\* Least-element principle.
LEMMA LeastNat ==
  ASSUME NEW S, S \subseteq Nat, S # {}
  PROVE  \E m \in S : \A k \in S : m <= k
<1>1. PICK m \in S : \A k \in S : <<k, m>> \notin OpToRel(<, Nat)
  BY NatLessThanWellFounded, WFMin
<1>2. \A k \in S : <<k, m>> \notin {ss \in Nat \X Nat : ss[1] < ss[2]}
  BY <1>1 DEF OpToRel
<1>3. ASSUME NEW k \in S PROVE m <= k
  <2>1. <<k, m>> \in Nat \X Nat /\ ~(k < m)
    BY <1>2
  <2>2. QED  BY <2>1
<1>4. QED  BY <1>3

\* Induction up to a number, over a set instead of a predicate.
LEMMA Climbing ==
  ASSUME NEW n \in Nat, NEW G, 0 \in G, \A m \in 1..n : m - 1 \in G => m \in G
  PROVE  \A m \in 0..n : m \in G
<1> DEFINE B == {m \in 0..n : m \notin G}
<1>1. ASSUME B # {} PROVE FALSE
  <2>1. B \subseteq Nat
    OBVIOUS
  <2>2. PICK m \in B : \A k \in B : m <= k
    <3> HIDE DEF B
    <3>1. QED  BY <1>1, <2>1, LeastNat
  <2>3. m \in 1..n /\ m - 1 \notin B /\ m - 1 \in 0..n
    BY <2>2
  <2>4. QED  BY <2>3
<1>2. QED  BY <1>1
===============================================================================
