----------------------------- MODULE SumTheorems -----------------------------
(***************************************************************************)
(* What the sums of the models come to: SumFunctionOnSet and SumFunction   *)
(* of the community modules, which add the values of a function up in an   *)
(* order nobody knows.  They are recursive functions on the subsets of the *)
(* index set; that those exist, and what they are, is shown here by        *)
(* induction on the number of the elements, over sets of numbers: the      *)
(* provers cannot instantiate an induction theorem, but they can cite one  *)
(* about a set.                                                            *)
(***************************************************************************)
EXTENDS Integers, SequencesExt, FiniteSets, Functions, FiniteSetTheorems, NaturalsInduction,
        WellFoundedInduction, TLAPS

\* Induction, of a set.
LEMMA SetInduction ==
    ASSUME NEW S \in SUBSET Nat, 0 \in S, \A n \in S : n + 1 \in S
    PROVE  S = Nat
<1>1. SUFFICES ASSUME NEW n \in Nat \ S PROVE FALSE
  OBVIOUS
<1>2. PICK i \in Nat \ S : \A j \in Nat \ S : <<j, i>> \notin OpToRel(<, Nat)
  BY <1>1, NatLessThanWellFounded, WFMin
<1>3. i # 0 /\ i - 1 \in Nat
  OBVIOUS
<1>4. <<i - 1, i>> \in OpToRel(<, Nat)
  BY <1>3 DEF OpToRel
<1>5. i - 1 \in S
  BY <1>2, <1>3, <1>4
<1>6. (i - 1) + 1 = i
  BY <1>3
<1> QED
  BY <1>5, <1>6

-----------------------------------------------------------------------------
(* The function that is defined by recursion.                               *)

IsSums(g, v, S) ==
    g = [s \in SUBSET S |->
            IF s = {} THEN 0 ELSE LET x == CHOOSE y \in s : TRUE IN v[x] + g[s \ {x}]]

\* It exists: it can be built for the subsets of n elements, for every n.
LEMMA SumsExist ==
    ASSUME NEW S, IsFiniteSet(S), NEW v, \A x \in S : v[x] \in Int
    PROVE  \E g : IsSums(g, v, S) /\ \A s \in SUBSET S : g[s] \in Int
<1> DEFINE Rhs(g) == [s \in SUBSET S |->
              IF s = {} THEN 0 ELSE LET x == CHOOSE y \in s : TRUE IN v[x] + g[s \ {x}]]
           Upto(g, n) == \A s \in SUBSET S : Cardinality(s) <= n => g[s] = Rhs(g)[s]
           Done == {n \in Nat : \E g \in [SUBSET S -> Int] : Upto(g, n)}
<1>1. \A s \in SUBSET S : IsFiniteSet(s) /\ Cardinality(s) \in Nat
  BY FS_Subset, FS_CardinalityType
<1>2. \A s \in SUBSET S : s # {} =>
         /\ (CHOOSE y \in s : TRUE) \in s
         /\ s \ {CHOOSE y \in s : TRUE} \in SUBSET S
         /\ Cardinality(s \ {CHOOSE y \in s : TRUE}) = Cardinality(s) - 1
  <2> SUFFICES ASSUME NEW s \in SUBSET S, s # {}
               PROVE  /\ (CHOOSE y \in s : TRUE) \in s
                      /\ s \ {CHOOSE y \in s : TRUE} \in SUBSET S
                      /\ Cardinality(s \ {CHOOSE y \in s : TRUE}) = Cardinality(s) - 1
    OBVIOUS
  <2>1. (CHOOSE y \in s : TRUE) \in s
    OBVIOUS
  <2> QED
    BY <1>1, <2>1, FS_RemoveElement
<1>3. ASSUME NEW g \in [SUBSET S -> Int] PROVE Rhs(g) \in [SUBSET S -> Int]
  <2> SUFFICES ASSUME NEW s \in SUBSET S PROVE Rhs(g)[s] \in Int
    OBVIOUS
  <2>1. CASE s = {}
    BY <2>1
  <2>2. CASE s # {}
    <3>1. Rhs(g)[s] = v[CHOOSE y \in s : TRUE] + g[s \ {CHOOSE y \in s : TRUE}]
      BY <2>2
    <3> HIDE DEF Rhs
    <3> QED
      BY <1>2, <2>2, <3>1
  <2> QED
    BY <2>1, <2>2
<1>4. 0 \in Done
  <2> DEFINE nothing == [s \in SUBSET S |-> 0]
  <2>1. Upto(nothing, 0)
    <3> SUFFICES ASSUME NEW s \in SUBSET S, Cardinality(s) <= 0
                 PROVE  nothing[s] = Rhs(nothing)[s]
      OBVIOUS
    <3>1. s = {}
      BY <1>1, FS_EmptySet
    <3> QED
      BY <3>1
  <2>2. nothing \in [SUBSET S -> Int]
    OBVIOUS
  <2> HIDE DEF nothing, Upto
  <2> QED
    BY <2>1, <2>2
<1>5. ASSUME NEW n \in Done PROVE n + 1 \in Done
  <2>1. PICK g \in [SUBSET S -> Int] : Upto(g, n)
    BY <1>5
  <2> DEFINE h == Rhs(g)
  <2>2. h \in [SUBSET S -> Int]
    BY <1>3
  <2>3. ASSUME NEW s \in SUBSET S, Cardinality(s) <= n + 1
        PROVE  h[s] = Rhs(h)[s]
    <3>1. CASE s = {}
      BY <3>1
    <3>2. CASE s # {}
      <4>1. PICK x \in s : x = CHOOSE y \in s : TRUE
        BY <3>2
      <4>2. s \ {x} \in SUBSET S /\ Cardinality(s \ {x}) <= n
        BY <1>1, <1>2, <2>3, <3>2, <4>1
      <4>3. g[s \ {x}] = h[s \ {x}]
        BY <2>1, <4>2
      <4>4. h[s] = v[x] + g[s \ {x}] /\ Rhs(h)[s] = v[x] + h[s \ {x}]
        BY <3>2, <4>1
      <4> QED
        BY <4>3, <4>4
    <3> QED
      BY <3>1, <3>2
  <2> HIDE DEF h
  <2>4. Upto(h, n + 1)
    BY <2>3
  <2>5. n + 1 \in Nat
    BY <1>5
  <2> HIDE DEF Upto
  <2> QED
    BY <2>2, <2>4, <2>5
<1> HIDE DEF Done
<1>6. Done = Nat
  BY <1>4, <1>5, SetInduction DEF Done
<1>7. PICK g \in [SUBSET S -> Int] : Upto(g, Cardinality(S))
  BY <1>1, <1>6 DEF Done
<1>8. \A s \in SUBSET S : Cardinality(s) <= Cardinality(S)
  BY FS_Subset
<1>9. \A s \in SUBSET S : g[s] = Rhs(g)[s]
  BY <1>7, <1>8
<1>10. g = Rhs(g)
  BY <1>9
<1> QED
  BY <1>10 DEF IsSums

\* Two such functions, of a set and of a part of it, agree.
LEMMA SumsAgree ==
    ASSUME NEW S, IsFiniteSet(S), NEW T \in SUBSET S, NEW v, NEW g, NEW h,
           IsSums(g, v, S), IsSums(h, v, T)
    PROVE  \A t \in SUBSET T : g[t] = h[t]
<1> DEFINE Agree == {n \in Nat : \A t \in SUBSET T : Cardinality(t) <= n => g[t] = h[t]}
<1>1. \A t \in SUBSET T : IsFiniteSet(t) /\ Cardinality(t) \in Nat /\ t \in SUBSET S
  BY FS_Subset, FS_CardinalityType
<1>2. \A t \in SUBSET T :
         /\ g[t] = IF t = {} THEN 0
                   ELSE v[CHOOSE y \in t : TRUE] + g[t \ {CHOOSE y \in t : TRUE}]
         /\ h[t] = IF t = {} THEN 0
                   ELSE v[CHOOSE y \in t : TRUE] + h[t \ {CHOOSE y \in t : TRUE}]
  BY Zenon DEF IsSums
<1>3. 0 \in Agree
  BY <1>1, <1>2, FS_EmptySet
<1>4. ASSUME NEW n \in Agree PROVE n + 1 \in Agree
  <2> SUFFICES ASSUME NEW t \in SUBSET T, Cardinality(t) <= n + 1 PROVE g[t] = h[t]
    OBVIOUS
  <2>1. CASE t = {}
    BY <1>2, <2>1
  <2>2. CASE t # {}
    <3>1. PICK x \in t : x = CHOOSE y \in t : TRUE
      BY <2>2
    <3>2. Cardinality(t \ {x}) = Cardinality(t) - 1
      BY <1>1, FS_RemoveElement
    <3>3. g[t \ {x}] = h[t \ {x}]
      BY <1>1, <1>4, <3>2
    <3>4. g[t] = v[x] + g[t \ {x}] /\ h[t] = v[x] + h[t \ {x}]
      BY <1>2, <2>2, <3>1
    <3> QED
      BY <3>3, <3>4
  <2> QED
    BY <2>1, <2>2
<1> HIDE DEF Agree
<1>5. Agree = Nat
  BY <1>3, <1>4, SetInduction DEF Agree
<1> QED
  BY <1>1, <1>5 DEF Agree

\* The sum is that function's value for the whole set.
LEMMA SumIsTheirs ==
    ASSUME NEW S, IsFiniteSet(S), NEW v, NEW g, IsSums(g, v, S)
    PROVE  SumFunctionOnSet(v, S) = g[S]
<1> DEFINE Rhs(iter) == [s \in SUBSET S |->
              IF s = {} THEN 0 ELSE LET x == CHOOSE y \in s : TRUE IN v[x] + iter[s \ {x}]]
           chosen == CHOOSE iter : iter = Rhs(iter)
<1>1. g = Rhs(g)
  BY DEF IsSums
<1>2. chosen = Rhs(chosen)
  BY <1>1
<1>3. IsSums(chosen, v, S)
  BY <1>2 DEF IsSums
<1>4. SumFunctionOnSet(v, S) = chosen[S]
  BY DEF SumFunctionOnSet, FoldFunctionOnSet, MapThenFoldSet
<1> HIDE DEF chosen
<1>5. \A t \in SUBSET S : g[t] = chosen[t]
  BY <1>3, SumsAgree
<1> QED
  BY <1>4, <1>5

-----------------------------------------------------------------------------
(* What a sum is.                                                           *)

\* Nothing adds up to 0; otherwise one value, of an element nobody knows, and the rest.
LEMMA SumStep ==
    ASSUME NEW S, IsFiniteSet(S), NEW v, \A x \in S : v[x] \in Int
    PROVE  /\ SumFunctionOnSet(v, S) \in Int
           /\ S = {} => SumFunctionOnSet(v, S) = 0
           /\ S # {} => \E x \in S :
                SumFunctionOnSet(v, S) = v[x] + SumFunctionOnSet(v, S \ {x})
<1>1. PICK g : IsSums(g, v, S) /\ \A s \in SUBSET S : g[s] \in Int
  BY SumsExist
<1>2. SumFunctionOnSet(v, S) = g[S]
  BY <1>1, SumIsTheirs
<1>3. S = {} => g[S] = 0
  BY <1>1 DEF IsSums
<1>4. ASSUME S # {}
      PROVE  \E x \in S : SumFunctionOnSet(v, S) = v[x] + SumFunctionOnSet(v, S \ {x})
  <2>1. PICK x \in S : x = CHOOSE y \in S : TRUE
    BY <1>4
  <2>2. g[S] = v[x] + g[S \ {x}]
    BY <1>1, <1>4, <2>1 DEF IsSums
  <2>3. IsFiniteSet(S \ {x}) /\ \A y \in S \ {x} : v[y] \in Int
    BY FS_RemoveElement
  <2>4. PICK h : IsSums(h, v, S \ {x})
    BY <2>3, SumsExist
  <2>5. SumFunctionOnSet(v, S \ {x}) = h[S \ {x}]
    BY <2>3, <2>4, SumIsTheirs
  <2>6. g[S \ {x}] = h[S \ {x}]
    BY <1>1, <2>4, SumsAgree
  <2> QED
    BY <1>2, <2>2, <2>5, <2>6
<1> QED
  BY <1>1, <1>2, <1>3, <1>4

\* Any element may be taken out first.
LEMMA SumRemove ==
    ASSUME NEW S, IsFiniteSet(S), NEW v, \A x \in S : v[x] \in Int
    PROVE  \A x \in S : SumFunctionOnSet(v, S) = v[x] + SumFunctionOnSet(v, S \ {x})
<1> DEFINE Good == {n \in Nat : \A s \in SUBSET S : Cardinality(s) <= n =>
              \A x \in s : SumFunctionOnSet(v, s) = v[x] + SumFunctionOnSet(v, s \ {x})}
<1>1. \A s \in SUBSET S : IsFiniteSet(s) /\ Cardinality(s) \in Nat
  BY FS_Subset, FS_CardinalityType
<1>2. \A s \in SUBSET S : SumFunctionOnSet(v, s) \in Int
  BY <1>1, SumStep
<1>3. 0 \in Good
  BY <1>1, FS_EmptySet
<1>4. ASSUME NEW n \in Good PROVE n + 1 \in Good
  <2> SUFFICES ASSUME NEW s \in SUBSET S, Cardinality(s) <= n + 1, NEW x \in s
               PROVE  SumFunctionOnSet(v, s) = v[x] + SumFunctionOnSet(v, s \ {x})
    BY <1>4
  <2>1. PICK c \in s : SumFunctionOnSet(v, s) = v[c] + SumFunctionOnSet(v, s \ {c})
    BY <1>1, SumStep
  <2>2. CASE c = x
    BY <2>1, <2>2
  <2>3. CASE c # x
    <3>1. /\ s \ {c} \in SUBSET S /\ Cardinality(s \ {c}) <= n /\ x \in s \ {c}
          /\ s \ {x} \in SUBSET S /\ Cardinality(s \ {x}) <= n /\ c \in s \ {x}
      <4>1. /\ Cardinality(s \ {c}) = Cardinality(s) - 1
            /\ Cardinality(s \ {x}) = Cardinality(s) - 1
        BY <1>1, FS_RemoveElement
      <4>2. n \in Nat /\ Cardinality(s) \in Nat
        BY <1>1
      <4> QED
        BY <2>3, <4>1, <4>2
    <3>2. SumFunctionOnSet(v, s \ {c}) = v[x] + SumFunctionOnSet(v, (s \ {c}) \ {x})
      BY <1>4, <3>1
    <3>3. SumFunctionOnSet(v, s \ {x}) = v[c] + SumFunctionOnSet(v, (s \ {x}) \ {c})
      BY <1>4, <3>1
    <3>4. (s \ {c}) \ {x} = (s \ {x}) \ {c} /\ (s \ {x}) \ {c} \in SUBSET S
      OBVIOUS
    <3>5. v[x] \in Int /\ v[c] \in Int /\ SumFunctionOnSet(v, (s \ {x}) \ {c}) \in Int
      BY <1>2, <3>4
    <3>6. SumFunctionOnSet(v, s) = v[c] + (v[x] + SumFunctionOnSet(v, (s \ {x}) \ {c}))
      BY <2>1, <3>2, <3>4
    <3> HIDE DEF Good
    <3> QED
      BY <3>3, <3>5, <3>6
  <2> QED
    BY <2>2, <2>3
<1> HIDE DEF Good
<1>5. Good = Nat
  BY <1>3, <1>4, SetInduction DEF Good
<1> QED
  BY <1>1, <1>5 DEF Good

\* A sum grows with its values, and is that of a function with the same values.
LEMMA SumGrows ==
    ASSUME NEW S, IsFiniteSet(S), NEW v, NEW w,
           \A x \in S : v[x] \in Int /\ w[x] \in Int /\ v[x] <= w[x]
    PROVE  SumFunctionOnSet(v, S) <= SumFunctionOnSet(w, S)
<1> DEFINE Good == {n \in Nat : \A s \in SUBSET S : Cardinality(s) <= n =>
              SumFunctionOnSet(v, s) <= SumFunctionOnSet(w, s)}
<1>1. \A s \in SUBSET S : IsFiniteSet(s) /\ Cardinality(s) \in Nat
  BY FS_Subset, FS_CardinalityType
<1>2. \A s \in SUBSET S : SumFunctionOnSet(v, s) \in Int /\ SumFunctionOnSet(w, s) \in Int
  BY <1>1, SumStep
<1>3. ASSUME NEW s \in SUBSET S, s = {} PROVE SumFunctionOnSet(v, s) <= SumFunctionOnSet(w, s)
  <2>1. SumFunctionOnSet(v, s) = 0 /\ SumFunctionOnSet(w, s) = 0
    BY <1>1, <1>3, SumStep
  <2> QED
    BY <2>1
<1>4. 0 \in Good
  BY <1>1, <1>3, FS_EmptySet
<1>5. ASSUME NEW n \in Good PROVE n + 1 \in Good
  <2> SUFFICES ASSUME NEW s \in SUBSET S, Cardinality(s) <= n + 1, s # {}
               PROVE  SumFunctionOnSet(v, s) <= SumFunctionOnSet(w, s)
    BY <1>3, <1>5
  <2>1. PICK x \in s : TRUE
    OBVIOUS
  <2>2. /\ SumFunctionOnSet(v, s) = v[x] + SumFunctionOnSet(v, s \ {x})
        /\ SumFunctionOnSet(w, s) = w[x] + SumFunctionOnSet(w, s \ {x})
    BY <1>1, <2>1, SumRemove
  <2>3. s \ {x} \in SUBSET S /\ Cardinality(s \ {x}) <= n
    BY <1>1, <1>5, <2>1, FS_RemoveElement
  <2>4. SumFunctionOnSet(v, s \ {x}) <= SumFunctionOnSet(w, s \ {x})
    BY <1>5, <2>3
  <2> QED
    BY <1>2, <2>1, <2>2, <2>3, <2>4
<1> HIDE DEF Good
<1>6. Good = Nat
  BY <1>4, <1>5, SetInduction DEF Good
<1> QED
  BY <1>1, <1>6 DEF Good

\* Values that are the same have the same sum.
LEMMA SumSame ==
    ASSUME NEW S, IsFiniteSet(S), NEW v, NEW w,
           \A x \in S : v[x] \in Int /\ w[x] = v[x]
    PROVE  SumFunctionOnSet(v, S) = SumFunctionOnSet(w, S)
<1>1. \A x \in S : v[x] \in Int /\ w[x] \in Int /\ v[x] <= w[x] /\ w[x] <= v[x]
  OBVIOUS
<1>2. SumFunctionOnSet(v, S) <= SumFunctionOnSet(w, S)
  BY <1>1, SumGrows
<1>3. SumFunctionOnSet(w, S) <= SumFunctionOnSet(v, S)
  BY <1>1, SumGrows
<1>4. SumFunctionOnSet(v, S) \in Int /\ SumFunctionOnSet(w, S) \in Int
  BY <1>1, SumStep
<1> QED
  BY <1>2, <1>3, <1>4

-----------------------------------------------------------------------------
(* Sums over 1 .. n.                                                        *)

\* The last value may be taken out first.
LEMMA SumOfOneMore ==
    ASSUME NEW n \in Nat, NEW v, \A i \in 1 .. n + 1 : v[i] \in Int
    PROVE  /\ SumFunctionOnSet(v, 1 .. n + 1) = SumFunctionOnSet(v, 1 .. n) + v[n + 1]
           /\ SumFunctionOnSet(v, 1 .. n) \in Int
           /\ SumFunctionOnSet(v, 1 .. 0) = 0
<1>1. IsFiniteSet(1 .. n + 1) /\ IsFiniteSet(1 .. n) /\ IsFiniteSet(1 .. 0)
  BY FS_Interval
<1>2. n + 1 \in 1 .. n + 1 /\ (1 .. n + 1) \ {n + 1} = 1 .. n /\ 1 .. 0 = {}
  OBVIOUS
<1>3. SumFunctionOnSet(v, 1 .. n + 1) = v[n + 1] + SumFunctionOnSet(v, (1 .. n + 1) \ {n + 1})
  BY <1>1, <1>2, SumRemove
<1>4. SumFunctionOnSet(v, 1 .. n) \in Int
  BY <1>1, SumStep
<1>5. SumFunctionOnSet(v, 1 .. 0) = 0
  BY <1>1, <1>2, SumStep
<1>6. v[n + 1] \in Int
  BY <1>2
<1>7. SumFunctionOnSet(v, 1 .. n + 1) = v[n + 1] + SumFunctionOnSet(v, 1 .. n)
  BY <1>2, <1>3
<1>8. v[n + 1] + SumFunctionOnSet(v, 1 .. n) = SumFunctionOnSet(v, 1 .. n) + v[n + 1]
  BY <1>4, <1>6
<1> QED
  BY <1>4, <1>5, <1>7, <1>8

\* n times the same.
LEMMA SumOfAlike ==
    ASSUME NEW c \in Int, NEW v, NEW m \in Nat, \A i \in 1 .. m : v[i] = c
    PROVE  SumFunctionOnSet(v, 1 .. m) = m * c
<1> DEFINE Good == {n \in Nat : n <= m => SumFunctionOnSet(v, 1 .. n) = n * c}
<1>1. 0 \in Good
  <2>1. IsFiniteSet(1 .. 0) /\ 1 .. 0 = {}
    BY FS_Interval
  <2>2. SumFunctionOnSet(v, 1 .. 0) = 0
    BY <2>1, SumStep
  <2> QED
    BY <2>2
<1>2. ASSUME NEW n \in Good PROVE n + 1 \in Good
  <2> SUFFICES ASSUME n + 1 <= m PROVE SumFunctionOnSet(v, 1 .. n + 1) = (n + 1) * c
    BY <1>2
  <2>1. n \in Nat /\ SumFunctionOnSet(v, 1 .. n) = n * c
    BY <1>2
  <2>2. \A i \in 1 .. n + 1 : v[i] = c
    BY <2>1
  <2>3. SumFunctionOnSet(v, 1 .. n + 1) = SumFunctionOnSet(v, 1 .. n) + v[n + 1]
    BY <2>1, <2>2, SumOfOneMore
  <2>4. v[n + 1] = c
    BY <2>1, <2>2
  <2> QED
    BY <2>1, <2>3, <2>4
<1> HIDE DEF Good
<1>3. Good = Nat
  BY <1>1, <1>2, SetInduction DEF Good
<1> QED
  BY <1>3 DEF Good

\* Natural numbers add up to one.
LEMMA SumIsNatural ==
    ASSUME NEW S, IsFiniteSet(S), NEW v, \A x \in S : v[x] \in Nat
    PROVE  SumFunctionOnSet(v, S) \in Nat
<1> DEFINE Good == {n \in Nat : \A s \in SUBSET S : Cardinality(s) <= n =>
              SumFunctionOnSet(v, s) \in Nat}
<1>1. \A s \in SUBSET S : IsFiniteSet(s) /\ Cardinality(s) \in Nat
  BY FS_Subset, FS_CardinalityType
<1>2. ASSUME NEW s \in SUBSET S, s = {} PROVE SumFunctionOnSet(v, s) \in Nat
  <2>1. SumFunctionOnSet(v, s) = 0
    BY <1>1, <1>2, SumStep
  <2> QED
    BY <2>1
<1>3. 0 \in Good
  BY <1>1, <1>2, FS_EmptySet
<1>4. ASSUME NEW n \in Good PROVE n + 1 \in Good
  <2> SUFFICES ASSUME NEW s \in SUBSET S, Cardinality(s) <= n + 1, s # {}
               PROVE  SumFunctionOnSet(v, s) \in Nat
    BY <1>2, <1>4
  <2>1. PICK x \in s : TRUE
    OBVIOUS
  <2>2. SumFunctionOnSet(v, s) = v[x] + SumFunctionOnSet(v, s \ {x})
    BY <1>1, <2>1, SumRemove
  <2>3. s \ {x} \in SUBSET S /\ Cardinality(s \ {x}) <= n
    BY <1>1, <1>4, <2>1, FS_RemoveElement
  <2>4. SumFunctionOnSet(v, s \ {x}) \in Nat
    BY <1>4, <2>3
  <2> QED
    BY <2>1, <2>2, <2>4
<1> HIDE DEF Good
<1>5. Good = Nat
  BY <1>3, <1>4, SetInduction DEF Good
<1> QED
  BY <1>1, <1>5 DEF Good

\* A value that is everywhere the same is counted.
LEMMA SumOfConstant ==
    ASSUME NEW S, IsFiniteSet(S), NEW c \in Int, NEW v, \A x \in S : v[x] = c
    PROVE  SumFunctionOnSet(v, S) = Cardinality(S) * c
<1> DEFINE Good == {n \in Nat : \A s \in SUBSET S : Cardinality(s) <= n =>
              SumFunctionOnSet(v, s) = Cardinality(s) * c}
<1>1. \A s \in SUBSET S : IsFiniteSet(s) /\ Cardinality(s) \in Nat
  BY FS_Subset, FS_CardinalityType
<1>2. ASSUME NEW s \in SUBSET S, s = {} PROVE SumFunctionOnSet(v, s) = Cardinality(s) * c
  <2>1. SumFunctionOnSet(v, s) = 0
    BY <1>1, <1>2, SumStep
  <2>2. Cardinality(s) = 0
    BY <1>2, FS_EmptySet
  <2> QED
    BY <2>1, <2>2
<1>3. 0 \in Good
  <2> SUFFICES ASSUME NEW s \in SUBSET S, Cardinality(s) <= 0
               PROVE  SumFunctionOnSet(v, s) = Cardinality(s) * c
    OBVIOUS
  <2>1. s = {}
    BY <1>1, FS_EmptySet
  <2> QED
    BY <1>2, <2>1
<1>4. ASSUME NEW n \in Good PROVE n + 1 \in Good
  <2> SUFFICES ASSUME NEW s \in SUBSET S, Cardinality(s) <= n + 1, s # {}
               PROVE  SumFunctionOnSet(v, s) = Cardinality(s) * c
    BY <1>2, <1>4
  <2>1. PICK x \in s : v[x] = c
    OBVIOUS
  <2>2. SumFunctionOnSet(v, s) = c + SumFunctionOnSet(v, s \ {x})
    <3>1. \A y \in s : v[y] \in Int
      OBVIOUS
    <3> QED
      BY <1>1, <2>1, <3>1, SumRemove
  <2>3. PICK k \in Nat : k = Cardinality(s \ {x}) /\ Cardinality(s) = k + 1
    BY <1>1, <2>1, FS_RemoveElement
  <2>4. SumFunctionOnSet(v, s \ {x}) = k * c
    BY <1>4, <2>3
  <2>5. (k + 1) * c = c + k * c
    OBVIOUS
  <2> QED
    BY <2>2, <2>3, <2>4, <2>5
<1> HIDE DEF Good
<1>5. Good = Nat
  BY <1>3, <1>4, SetInduction DEF Good
<1> QED
  BY <1>1, <1>5 DEF Good

\* A row of values put behind another adds its own sum.
LEMMA SumOfJoined ==
    ASSUME NEW m \in Nat, NEW n \in Nat, NEW whole \in Nat, whole = m + n, NEW v, NEW w,
           \A i \in 1 .. whole : v[i] \in Int,
           \A i \in 1 .. n : w[i] = v[m + i]
    PROVE  SumFunctionOnSet(v, 1 .. whole)
            = SumFunctionOnSet(v, 1 .. m) + SumFunctionOnSet(w, 1 .. n)
<1> DEFINE Good == {k \in Nat : k <= n =>
              SumFunctionOnSet(v, 1 .. m + k)
                = SumFunctionOnSet(v, 1 .. m) + SumFunctionOnSet(w, 1 .. k)}
<1>1. IsFiniteSet(1 .. m) /\ SumFunctionOnSet(v, 1 .. m) \in Int
  BY FS_Interval, SumStep
<1>2. 0 \in Good
  <2> HIDE DEF Good
  <2>1. 1 .. 0 = {} /\ m + 0 = m /\ IsFiniteSet(1 .. 0)
    BY FS_EmptySet
  <2>2. SumFunctionOnSet(w, 1 .. 0) = 0
    BY <2>1, SumStep
  <2> QED
    BY <1>1, <2>1, <2>2 DEF Good
<1>3. ASSUME NEW k \in Good PROVE k + 1 \in Good
  <2> SUFFICES ASSUME k + 1 <= n
               PROVE  SumFunctionOnSet(v, 1 .. m + (k + 1))
                        = SumFunctionOnSet(v, 1 .. m) + SumFunctionOnSet(w, 1 .. k + 1)
    BY <1>3
  <2>1. k \in Nat /\ m + k \in Nat /\ m + (k + 1) = (m + k) + 1
    BY <1>3
  <2>2. SumFunctionOnSet(v, 1 .. m + k) = SumFunctionOnSet(v, 1 .. m) + SumFunctionOnSet(w, 1 .. k)
    BY <1>3, <2>1
  <2>3. (\A i \in 1 .. (m + k) + 1 : v[i] \in Int) /\ (\A i \in 1 .. k + 1 : w[i] \in Int)
    BY <2>1
  <2>4. SumFunctionOnSet(v, 1 .. (m + k) + 1) = SumFunctionOnSet(v, 1 .. m + k) + v[(m + k) + 1]
    BY <2>1, <2>3, SumOfOneMore
  <2>5. /\ SumFunctionOnSet(w, 1 .. k + 1) = SumFunctionOnSet(w, 1 .. k) + w[k + 1]
        /\ SumFunctionOnSet(w, 1 .. k) \in Int
    BY <2>1, <2>3, SumOfOneMore
  <2>6. w[k + 1] = v[(m + k) + 1] /\ w[k + 1] \in Int
    BY <2>1, <2>3
  <2> HIDE DEF Good
  <2> QED
    BY <1>1, <2>1, <2>2, <2>4, <2>5, <2>6
<1> HIDE DEF Good
<1>4. Good = Nat
  BY <1>2, <1>3, SetInduction DEF Good
<1> QED
  BY <1>4 DEF Good

-----------------------------------------------------------------------------
(* Sums over a sequence.                                                    *)

\* The amounts of the members of a sequence, added up.
SumAlong(amount, s) == SumFunction([i \in DOMAIN s |-> amount[s[i]]])

\* It is a sum over the places of the sequence.
LEMMA SumAlongIs ==
    ASSUME NEW T, NEW amount \in [T -> Int], NEW s \in Seq(T)
    PROVE  LET v == [i \in 1 .. Len(s) |-> amount[s[i]]]
           IN  /\ SumAlong(amount, s) = SumFunctionOnSet(v, 1 .. Len(s))
               /\ Len(s) \in Nat /\ \A i \in 1 .. Len(s) : v[i] = amount[s[i]] /\ v[i] \in Int
<1>1. DOMAIN s = 1 .. Len(s) /\ Len(s) \in Nat /\ \A i \in 1 .. Len(s) : s[i] \in T
  OBVIOUS
<1> QED
  BY <1>1 DEF SumAlong, SumFunction

\* It is a number.
LEMMA SumAlongType ==
    ASSUME NEW T, NEW amount \in [T -> Int], NEW s \in Seq(T)
    PROVE  SumAlong(amount, s) \in Int
<1> DEFINE v == [i \in 1 .. Len(s) |-> amount[s[i]]]
<1>1. SumAlong(amount, s) = SumFunctionOnSet(v, 1 .. Len(s))
  BY SumAlongIs
<1>2. IsFiniteSet(1 .. Len(s)) /\ \A i \in 1 .. Len(s) : v[i] \in Int
  BY FS_Interval, SumAlongIs
<1> HIDE DEF v
<1> QED
  BY <1>1, <1>2, SumStep

\* Two sequences behind each other come to what each of them comes to.
LEMMA SumAlongJoined ==
    ASSUME NEW T, NEW amount \in [T -> Int], NEW s \in Seq(T), NEW t \in Seq(T)
    PROVE  SumAlong(amount, s \o t) = SumAlong(amount, s) + SumAlong(amount, t)
<1> DEFINE u == s \o t
           v == [i \in 1 .. Len(u) |-> amount[u[i]]]
           vs == [i \in 1 .. Len(s) |-> amount[s[i]]]
           vt == [i \in 1 .. Len(t) |-> amount[t[i]]]
<1>1. /\ u \in Seq(T) /\ Len(u) = Len(s) + Len(t) /\ Len(s) \in Nat /\ Len(t) \in Nat
      /\ \A i \in 1 .. Len(s) : u[i] = s[i]
      /\ \A i \in 1 .. Len(t) : u[Len(s) + i] = t[i]
  OBVIOUS
<1>2. /\ SumAlong(amount, u) = SumFunctionOnSet(v, 1 .. Len(u))
      /\ \A i \in 1 .. Len(u) : v[i] \in Int
  BY <1>1, SumAlongIs
<1>3. /\ SumAlong(amount, s) = SumFunctionOnSet(vs, 1 .. Len(s))
      /\ \A i \in 1 .. Len(s) : vs[i] \in Int
  BY SumAlongIs
<1>4. SumAlong(amount, t) = SumFunctionOnSet(vt, 1 .. Len(t))
  BY SumAlongIs
<1>5. \A i \in 1 .. Len(t) : vt[i] = v[Len(s) + i]
  BY <1>1
<1>6. \A i \in 1 .. Len(s) : vs[i] = v[i]
  BY <1>1
<1> HIDE DEF u, v, vs, vt
<1>7. SumFunctionOnSet(v, 1 .. Len(u))
        = SumFunctionOnSet(v, 1 .. Len(s)) + SumFunctionOnSet(vt, 1 .. Len(t))
  <2>1. Len(s) \in Nat /\ Len(t) \in Nat /\ Len(u) \in Nat /\ Len(u) = Len(s) + Len(t)
    BY <1>1
  <2>2. \A i \in 1 .. Len(u) : v[i] \in Int
    BY <1>2
  <2> QED
    BY <1>5, <2>1, <2>2, SumOfJoined
<1>8. SumFunctionOnSet(vs, 1 .. Len(s)) = SumFunctionOnSet(v, 1 .. Len(s))
  <2>1. IsFiniteSet(1 .. Len(s))
    BY <1>1, FS_Interval
  <2>2. \A i \in 1 .. Len(s) : vs[i] \in Int /\ v[i] = vs[i]
    BY <1>3, <1>6
  <2> QED
    BY <2>1, <2>2, SumSame
<1>9. SumAlong(amount, u) = SumAlong(amount, s) + SumAlong(amount, t)
  BY <1>2, <1>3, <1>4, <1>7, <1>8
<1> QED
  BY <1>9 DEF u

\* FlattenSeq is built by putting one sequence after another behind those before.
LEMMA FlattenIs ==
    ASSUME NEW T, NEW seqs \in Seq(Seq(T)), seqs # <<>>
    PROVE  \E g \in [1 .. Len(seqs) -> Seq(T)] :
             /\ g[1] = seqs[1]
             /\ \A i \in 2 .. Len(seqs) : g[i] = g[i - 1] \o seqs[i]
             /\ FlattenSeq(seqs) = g[Len(seqs)]
<1> DEFINE N == Len(seqs)
           Rhs(g) == [i \in 1 .. Len(seqs) |-> IF i = 1 THEN seqs[i] ELSE g[i - 1] \o seqs[i]]
           Upto(g, n) == \A i \in 1 .. N : i <= n => g[i] = Rhs(g)[i]
           Done == {n \in Nat : \E g \in [1 .. N -> Seq(T)] : Upto(g, n)}
<1>1. N \in Nat /\ N >= 1 /\ \A i \in 1 .. N : seqs[i] \in Seq(T)
  OBVIOUS
<1>2. ASSUME NEW g \in [1 .. N -> Seq(T)] PROVE Rhs(g) \in [1 .. N -> Seq(T)]
  BY <1>1
<1>3. 0 \in Done
  <2>1. \A i \in 1 .. N : ~ (i <= 0)
    BY <1>1
  <2>2. [i \in 1 .. N |-> seqs[i]] \in [1 .. N -> Seq(T)]
    BY <1>1
  <2> QED
    BY <2>1, <2>2
<1>4. ASSUME NEW n \in Done PROVE n + 1 \in Done
  <2>1. PICK g \in [1 .. N -> Seq(T)] : Upto(g, n)
    BY <1>4
  <2> DEFINE h == Rhs(g)
  <2>2. h \in [1 .. N -> Seq(T)]
    BY <1>2
  <2>3. ASSUME NEW i \in 1 .. N, i <= n + 1 PROVE h[i] = Rhs(h)[i]
    <3>1. CASE i = 1
      BY <3>1
    <3>2. CASE i # 1
      <4>1. i - 1 \in 1 .. N /\ i - 1 <= n
        BY <1>1, <1>4, <2>3, <3>2
      <4>2. g[i - 1] = h[i - 1]
        BY <2>1, <4>1
      <4> QED
        BY <3>2, <4>2
    <3> QED
      BY <3>1, <3>2
  <2> HIDE DEF h
  <2>4. Upto(h, n + 1) /\ n + 1 \in Nat
    BY <1>4, <2>3
  <2> HIDE DEF Upto
  <2> QED
    BY <2>2, <2>4
<1> HIDE DEF Done
<1>5. Done = Nat
  BY <1>3, <1>4, SetInduction DEF Done
<1>6. PICK g \in [1 .. N -> Seq(T)] : Upto(g, N)
  BY <1>1, <1>5 DEF Done
<1>7. g = Rhs(g)
  <2>1. \A i \in 1 .. N : g[i] = Rhs(g)[i]
    <3> SUFFICES ASSUME NEW i \in 1 .. N PROVE g[i] = Rhs(g)[i]
      OBVIOUS
    <3>1. i <= N
      BY <1>1
    <3> QED
      BY <1>6, <3>1
  <2>2. Rhs(g) = [i \in 1 .. N |-> Rhs(g)[i]] /\ g = [i \in 1 .. N |-> g[i]]
    OBVIOUS
  <2> HIDE DEF Rhs
  <2> QED
    BY <2>1, <2>2
<1> DEFINE chosen == CHOOSE f : f = Rhs(f)
<1>8. chosen = Rhs(chosen)
  BY <1>7
<1>9. FlattenSeq(seqs) = chosen[N]
  BY <1>1 DEF FlattenSeq
<1> HIDE DEF chosen
<1> DEFINE Typed == {n \in Nat : \A i \in 1 .. N : i <= n => chosen[i] \in Seq(T)}
<1>10. 0 \in Typed
  BY <1>1
<1>11. ASSUME NEW n \in Typed PROVE n + 1 \in Typed
  <2> SUFFICES ASSUME NEW i \in 1 .. N, i <= n + 1 PROVE chosen[i] \in Seq(T)
    BY <1>11
  <2>1. CASE i = 1
    BY <1>1, <1>8, <2>1
  <2>2. CASE i # 1
    <3>1. i - 1 \in 1 .. N /\ i - 1 <= n
      BY <1>1, <1>11, <2>2
    <3>2. chosen[i - 1] \in Seq(T)
      BY <1>11, <3>1
    <3>3. chosen[i] = chosen[i - 1] \o seqs[i]
      BY <1>8, <2>2
    <3> QED
      BY <1>1, <3>2, <3>3
  <2> QED
    BY <2>1, <2>2
<1> HIDE DEF Typed
<1>12. Typed = Nat
  BY <1>10, <1>11, SetInduction DEF Typed
<1>13. \A i \in 1 .. N : chosen[i] \in Seq(T)
  <2> SUFFICES ASSUME NEW i \in 1 .. N PROVE chosen[i] \in Seq(T)
    OBVIOUS
  <2>1. N \in Typed /\ i <= N
    BY <1>1, <1>12
  <2> QED
    BY <2>1 DEF Typed
<1>14. chosen \in [1 .. N -> Seq(T)]
  BY <1>8, <1>13
<1>15. chosen[1] = seqs[1] /\ \A i \in 2 .. N : chosen[i] = chosen[i - 1] \o seqs[i]
  <2>1. \A i \in 1 .. N : chosen[i] = IF i = 1 THEN seqs[i] ELSE chosen[i - 1] \o seqs[i]
    BY <1>8
  <2>2. 1 \in 1 .. N /\ \A i \in 2 .. N : i \in 1 .. N /\ i # 1
    BY <1>1
  <2> HIDE DEF Rhs
  <2> QED
    BY <2>1, <2>2
<1> QED
  BY <1>9, <1>14, <1>15

\* What one sequence after another adds up to is what each of them adds up to, added up.
LEMMA SumAlongFlattened ==
    ASSUME NEW T, NEW amount \in [T -> Int], NEW seqs \in Seq(Seq(T)), seqs # <<>>
    PROVE  /\ FlattenSeq(seqs) \in Seq(T)
           /\ SumAlong(amount, FlattenSeq(seqs))
                = SumFunctionOnSet([i \in 1 .. Len(seqs) |-> SumAlong(amount, seqs[i])],
                                   1 .. Len(seqs))
<1> DEFINE sums == [i \in 1 .. Len(seqs) |-> SumAlong(amount, seqs[i])]
<1>1. PICK g \in [1 .. Len(seqs) -> Seq(T)] :
         /\ g[1] = seqs[1]
         /\ \A i \in 2 .. Len(seqs) : g[i] = g[i - 1] \o seqs[i]
         /\ FlattenSeq(seqs) = g[Len(seqs)]
  BY FlattenIs
<1>2. Len(seqs) \in Nat /\ Len(seqs) >= 1 /\ \A i \in 1 .. Len(seqs) : seqs[i] \in Seq(T)
  OBVIOUS
<1>3. \A i \in 1 .. Len(seqs) : sums[i] = SumAlong(amount, seqs[i]) /\ sums[i] \in Int
  BY <1>2, SumAlongType
<1> DEFINE Good == {n \in Nat : n \in 1 .. Len(seqs) =>
              SumAlong(amount, g[n]) = SumFunctionOnSet(sums, 1 .. n)}
<1> HIDE DEF sums
<1>4. 0 \in Good
  OBVIOUS
<1>5. ASSUME NEW n \in Good PROVE n + 1 \in Good
  <2> SUFFICES ASSUME n + 1 \in 1 .. Len(seqs)
               PROVE  SumAlong(amount, g[n + 1]) = SumFunctionOnSet(sums, 1 .. n + 1)
    BY <1>5
  <2>1. n \in Nat
    BY <1>5
  <2>2. \A i \in 1 .. n + 1 : sums[i] \in Int
    BY <1>2, <1>3, <2>1
  <2>3. /\ SumFunctionOnSet(sums, 1 .. n + 1) = SumFunctionOnSet(sums, 1 .. n) + sums[n + 1]
        /\ SumFunctionOnSet(sums, 1 .. 0) = 0
    BY <2>1, <2>2, SumOfOneMore
  <2>4. CASE n = 0
    <3>1. SumAlong(amount, g[1]) = sums[1] /\ sums[1] \in Int
      BY <1>1, <1>2, <1>3
    <3> QED
      BY <2>3, <2>4, <3>1
  <2>5. CASE n # 0
    <3>1. n \in 1 .. Len(seqs) /\ n + 1 \in 2 .. Len(seqs) /\ (n + 1) - 1 = n
      BY <1>2, <2>1, <2>5
    <3>2. g[n + 1] = g[n] \o seqs[n + 1] /\ g[n] \in Seq(T) /\ seqs[n + 1] \in Seq(T)
      BY <1>1, <1>2, <3>1
    <3>3. SumAlong(amount, g[n + 1]) = SumAlong(amount, g[n]) + SumAlong(amount, seqs[n + 1])
      BY <3>2, SumAlongJoined
    <3>4. SumAlong(amount, g[n]) = SumFunctionOnSet(sums, 1 .. n)
      BY <1>5, <3>1
    <3> QED
      BY <1>3, <2>3, <3>3, <3>4
  <2> QED
    BY <2>4, <2>5
<1> HIDE DEF Good
<1>6. Good = Nat
  BY <1>4, <1>5, SetInduction DEF Good
<1>7. SumAlong(amount, g[Len(seqs)]) = SumFunctionOnSet(sums, 1 .. Len(seqs))
  <2>1. Len(seqs) \in Good /\ Len(seqs) \in 1 .. Len(seqs)
    BY <1>2, <1>6
  <2> QED
    BY <2>1 DEF Good
<1>8. FlattenSeq(seqs) \in Seq(T)
        /\ SumAlong(amount, FlattenSeq(seqs)) = SumFunctionOnSet(sums, 1 .. Len(seqs))
  <2>1. FlattenSeq(seqs) = g[Len(seqs)] /\ Len(seqs) \in 1 .. Len(seqs)
    BY <1>1, <1>2
  <2> QED
    BY <1>7, <2>1
<1> QED
  BY <1>8 DEF sums

\* The first of all comes first.
LEMMA FlattenedFirst ==
    ASSUME NEW T, NEW seqs \in Seq(Seq(T)), seqs # <<>>, seqs[1] # <<>>
    PROVE  FlattenSeq(seqs) # <<>> /\ FlattenSeq(seqs)[1] = seqs[1][1]
<1>1. PICK g \in [1 .. Len(seqs) -> Seq(T)] :
         /\ g[1] = seqs[1]
         /\ \A i \in 2 .. Len(seqs) : g[i] = g[i - 1] \o seqs[i]
         /\ FlattenSeq(seqs) = g[Len(seqs)]
  BY FlattenIs
<1>2. Len(seqs) \in Nat /\ Len(seqs) >= 1 /\ \A i \in 1 .. Len(seqs) : seqs[i] \in Seq(T)
  OBVIOUS
<1> DEFINE Good == {n \in Nat : n \in 1 .. Len(seqs) => Len(g[n]) > 0 /\ g[n][1] = seqs[1][1]}
<1>3. 0 \in Good
  OBVIOUS
<1>4. ASSUME NEW n \in Good PROVE n + 1 \in Good
  <2> SUFFICES ASSUME n + 1 \in 1 .. Len(seqs)
               PROVE  Len(g[n + 1]) > 0 /\ g[n + 1][1] = seqs[1][1]
    BY <1>4
  <2>1. n \in Nat
    BY <1>4
  <2>2. CASE n = 0
    <3>1. g[n + 1] = seqs[1] /\ seqs[1] \in Seq(T)
      BY <1>1, <1>2, <2>2
    <3> QED
      BY <3>1
  <2>3. CASE n # 0
    <3>1. n \in 1 .. Len(seqs) /\ n + 1 \in 2 .. Len(seqs) /\ (n + 1) - 1 = n
      BY <1>2, <2>1, <2>3
    <3>2. g[n + 1] = g[n] \o seqs[n + 1] /\ g[n] \in Seq(T) /\ seqs[n + 1] \in Seq(T)
      BY <1>1, <1>2, <3>1
    <3>3. Len(g[n]) > 0 /\ g[n][1] = seqs[1][1]
      BY <1>4, <3>1
    <3>4. ASSUME NEW s \in Seq(T), NEW t \in Seq(T), Len(s) > 0
          PROVE  Len(s \o t) > 0 /\ (s \o t)[1] = s[1]
      BY <3>4
    <3> HIDE DEF Good
    <3> QED
      BY <3>2, <3>3, <3>4
  <2> QED
    BY <2>2, <2>3
<1> HIDE DEF Good
<1>5. Good = Nat
  BY <1>3, <1>4, SetInduction DEF Good
<1>6. Len(seqs) \in Good /\ Len(seqs) \in 1 .. Len(seqs)
  BY <1>2, <1>5
<1>7. Len(g[Len(seqs)]) > 0 /\ g[Len(seqs)][1] = seqs[1][1] /\ FlattenSeq(seqs) = g[Len(seqs)]
  BY <1>1, <1>6 DEF Good
<1> QED
  BY <1>7

-----------------------------------------------------------------------------

\* One of finitely many is the largest.
LEMMA FiniteMaximum ==
    ASSUME NEW S, IsFiniteSet(S), S # {}, NEW key, \A x \in S : key[x] \in Int
    PROVE  \E x \in S : \A y \in S : key[y] <= key[x]
<1> DEFINE Good == {n \in Nat : \A s \in SUBSET S : Cardinality(s) <= n /\ s # {} =>
              \E x \in s : \A y \in s : key[y] <= key[x]}
<1>1. \A s \in SUBSET S : IsFiniteSet(s) /\ Cardinality(s) \in Nat
  BY FS_Subset, FS_CardinalityType
<1>2. 0 \in Good
  BY <1>1, FS_EmptySet
<1>3. ASSUME NEW n \in Good PROVE n + 1 \in Good
  <2> SUFFICES ASSUME NEW s \in SUBSET S, Cardinality(s) <= n + 1, s # {}
               PROVE  \E x \in s : \A y \in s : key[y] <= key[x]
    BY <1>3
  <2>1. PICK z \in s : TRUE
    OBVIOUS
  <2>2. s \ {z} \in SUBSET S /\ Cardinality(s \ {z}) <= n
    BY <1>1, <1>3, <2>1, FS_RemoveElement
  <2>3. CASE s = {z}
    BY <2>1, <2>3
  <2>4. CASE s # {z}
    <3>1. PICK x \in s \ {z} : \A y \in s \ {z} : key[y] <= key[x]
      BY <1>3, <2>1, <2>2, <2>4
    <3>2. key[x] \in Int /\ key[z] \in Int /\ \A y \in s : key[y] \in Int
      BY <2>1
    <3> QED
      BY <2>1, <3>1, <3>2
  <2> QED
    BY <2>3, <2>4
<1> HIDE DEF Good
<1>4. Good = Nat
  BY <1>2, <1>3, SetInduction DEF Good
<1> QED
  BY <1>1, <1>4 DEF Good


-----------------------------------------------------------------------------
(* Sums of parts, and of other values.                                      *)

\* Induction over the parts of a finite set, of a set of them.
LEMMA SubsetInduction ==
    ASSUME NEW S, IsFiniteSet(S), NEW G, {} \in G,
           \A s \in SUBSET S : \A x \in s : s \ {x} \in G => s \in G
    PROVE  \A s \in SUBSET S : s \in G
<1> DEFINE Good == {n \in Nat : \A s \in SUBSET S : Cardinality(s) <= n => s \in G}
<1>1. \A s \in SUBSET S : IsFiniteSet(s) /\ Cardinality(s) \in Nat
  BY FS_Subset, FS_CardinalityType
<1>2. 0 \in Good
  <2> SUFFICES ASSUME NEW s \in SUBSET S, Cardinality(s) <= 0 PROVE s \in G
    OBVIOUS
  <2>1. Cardinality(s) = 0
    BY <1>1
  <2>2. s = {}
    BY <1>1, <2>1, FS_EmptySet
  <2> QED
    BY <2>2
<1>3. ASSUME NEW n \in Good PROVE n + 1 \in Good
  <2> SUFFICES ASSUME NEW s \in SUBSET S, Cardinality(s) <= n + 1 PROVE s \in G
    BY <1>3
  <2>1. CASE s = {}
    BY <2>1
  <2>2. CASE s # {}
    <3>1. PICK x \in s : TRUE
      BY <2>2
    <3>2. s \ {x} \in SUBSET S /\ Cardinality(s \ {x}) = Cardinality(s) - 1
      BY <1>1, <3>1, FS_RemoveElement
    <3>3. Cardinality(s \ {x}) <= n
      BY <1>1, <1>3, <3>2
    <3>4. s \ {x} \in G
      BY <1>3, <3>2, <3>3
    <3> QED
      BY <3>1, <3>4
  <2> QED
    BY <2>1, <2>2
<1>4. Good \in SUBSET Nat
  OBVIOUS
<1>5. Good = Nat
  <2> HIDE DEF Good
  <2> QED
    BY <1>2, <1>3, <1>4, SetInduction
<1> QED
  <2> SUFFICES ASSUME NEW s \in SUBSET S PROVE s \in G
    OBVIOUS
  <2>1. Cardinality(s) \in Good
    BY <1>1, <1>5
  <2> QED
    BY <1>1, <2>1

\* The parts of a set have sums, and a part without one of its elements has what is left.
LEMMA SumOfParts ==
    ASSUME NEW S, IsFiniteSet(S), NEW v, \A x \in S : v[x] \in Int
    PROVE  /\ SumFunctionOnSet(v, {}) = 0
           /\ \A s \in SUBSET S :
                /\ IsFiniteSet(s) /\ SumFunctionOnSet(v, s) \in Int
                /\ \A x \in s : SumFunctionOnSet(v, s) = v[x] + SumFunctionOnSet(v, s \ {x})
<1>1. SumFunctionOnSet(v, {}) = 0
  BY FS_EmptySet, SumStep
<1>2. \A s \in SUBSET S : IsFiniteSet(s) /\ \A x \in s : v[x] \in Int
  BY FS_Subset
<1>3. \A s \in SUBSET S : SumFunctionOnSet(v, s) \in Int
  BY <1>2, SumStep
<1>4. \A s \in SUBSET S : \A x \in s : SumFunctionOnSet(v, s) = v[x] + SumFunctionOnSet(v, s \ {x})
  BY <1>2, SumRemove
<1> QED
  BY <1>1, <1>2, <1>3, <1>4

\* One more.
LEMMA SumAdd ==
    ASSUME NEW S, IsFiniteSet(S), NEW v, NEW z, z \notin S, \A x \in S \cup {z} : v[x] \in Int
    PROVE  SumFunctionOnSet(v, S \cup {z}) = SumFunctionOnSet(v, S) + v[z]
<1>1. IsFiniteSet(S \cup {z}) /\ (S \cup {z}) \ {z} = S
  BY FS_AddElement
<1>2. SumFunctionOnSet(v, S \cup {z}) = v[z] + SumFunctionOnSet(v, S)
  BY <1>1, SumRemove
<1>3. SumFunctionOnSet(v, S) \in Int
  BY SumStep
<1> QED
  BY <1>2, <1>3

\* Two values of each element add up to the two sums.
LEMMA SumOfSums ==
    ASSUME NEW S, IsFiniteSet(S), NEW u, NEW v, NEW w,
           \A x \in S : v[x] \in Int /\ w[x] \in Int /\ u[x] = v[x] + w[x]
    PROVE  SumFunctionOnSet(u, S) = SumFunctionOnSet(v, S) + SumFunctionOnSet(w, S)
<1> DEFINE G == {s \in SUBSET S :
              SumFunctionOnSet(u, s) = SumFunctionOnSet(v, s) + SumFunctionOnSet(w, s)}
<1>0. \A x \in S : u[x] \in Int
  OBVIOUS
<1>1. {} \in G
  <2>1. /\ SumFunctionOnSet(u, {}) = 0 /\ SumFunctionOnSet(v, {}) = 0
        /\ SumFunctionOnSet(w, {}) = 0
    BY <1>0, SumOfParts
  <2> QED
    BY <2>1
<1>2. ASSUME NEW s \in SUBSET S, NEW x \in s, s \ {x} \in G PROVE s \in G
  <2>1. /\ SumFunctionOnSet(u, s) = u[x] + SumFunctionOnSet(u, s \ {x})
        /\ SumFunctionOnSet(v, s) = v[x] + SumFunctionOnSet(v, s \ {x})
        /\ SumFunctionOnSet(w, s) = w[x] + SumFunctionOnSet(w, s \ {x})
    BY <1>0, SumOfParts
  <2>2. /\ SumFunctionOnSet(v, s \ {x}) \in Int /\ SumFunctionOnSet(w, s \ {x}) \in Int
        /\ x \in S /\ s \ {x} \in SUBSET S
    BY SumOfParts
  <2>3. SumFunctionOnSet(u, s \ {x}) = SumFunctionOnSet(v, s \ {x}) + SumFunctionOnSet(w, s \ {x})
    BY <1>2
  <2> QED
    BY <2>1, <2>2, <2>3
<1>3. \A s \in SUBSET S : s \in G
  <2> HIDE DEF G
  <2> QED
    BY <1>1, <1>2, SubsetInduction
<1> QED
  BY <1>3

\* Only the elements of a part count.
LEMMA SumSelected ==
    ASSUME NEW S, IsFiniteSet(S), NEW T \in SUBSET S, NEW v, NEW w,
           \A x \in S : v[x] \in Int /\ w[x] = IF x \in T THEN v[x] ELSE 0
    PROVE  SumFunctionOnSet(w, S) = SumFunctionOnSet(v, T)
<1> DEFINE G == {s \in SUBSET S : SumFunctionOnSet(w, s) = SumFunctionOnSet(v, s \cap T)}
<1>0. \A x \in S : w[x] \in Int
  OBVIOUS
<1>1. {} \in G
  <2>1. SumFunctionOnSet(w, {}) = 0 /\ SumFunctionOnSet(v, {}) = 0 /\ {} \cap T = {}
    BY <1>0, SumOfParts
  <2> QED
    BY <2>1
<1>2. ASSUME NEW s \in SUBSET S, NEW x \in s, s \ {x} \in G PROVE s \in G
  <2>1. SumFunctionOnSet(w, s) = w[x] + SumFunctionOnSet(w, s \ {x})
    BY <1>0, SumOfParts
  <2>2. SumFunctionOnSet(w, s \ {x}) = SumFunctionOnSet(v, (s \ {x}) \cap T)
    BY <1>2
  <2>3. SumFunctionOnSet(v, (s \ {x}) \cap T) \in Int /\ x \in S
    BY SumOfParts
  <2>4. CASE x \in T
    <3>1. (s \cap T) \in SUBSET S /\ x \in s \cap T /\ (s \cap T) \ {x} = (s \ {x}) \cap T
      BY <2>4
    <3>2. SumFunctionOnSet(v, s \cap T) = v[x] + SumFunctionOnSet(v, (s \cap T) \ {x})
      BY <3>1, SumOfParts
    <3> QED
      BY <2>1, <2>2, <2>3, <2>4, <3>1, <3>2
  <2>5. CASE x \notin T
    <3>1. (s \ {x}) \cap T = s \cap T /\ w[x] = 0
      BY <2>3, <2>5
    <3>2. SumFunctionOnSet(w, s) = SumFunctionOnSet(v, s \cap T)
      <4>1. SumFunctionOnSet(v, (s \ {x}) \cap T) = SumFunctionOnSet(v, s \cap T)
        BY <3>1, Zenon
      <4> QED
        BY <2>1, <2>2, <2>3, <3>1, <4>1
    <3> QED
      BY <3>2
  <2> QED
    BY <2>4, <2>5
<1>3. \A s \in SUBSET S : s \in G
  <2> HIDE DEF G
  <2> QED
    BY <1>1, <1>2, SubsetInduction
<1>4. S \cap T = T
  OBVIOUS
<1> QED
  BY <1>3, <1>4

\* Finitely many elements have finitely many names, and as many when each has its own.
LEMMA NamesAreFinite ==
    ASSUME NEW S, IsFiniteSet(S), NEW e
    PROVE  /\ IsFiniteSet({e[x] : x \in S})
           /\ (\A x, y \in S : e[x] = e[y] => x = y)
                => Cardinality({e[x] : x \in S}) = Cardinality(S)
<1> DEFINE N == {e[x] : x \in S}
           f == [x \in S |-> e[x]]
<1>1. f \in Surjection(S, N)
  BY DEF Surjection
<1>2. (\A x, y \in S : e[x] = e[y] => x = y) => f \in Injection(S, N)
  BY DEF Injection, IsInjective
<1> HIDE DEF f, N
<1>3. IsFiniteSet(N) /\ (f \in Injection(S, N) => Cardinality(N) = Cardinality(S))
  <2>1. IsFiniteSet(N) /\ (Cardinality(N) = Cardinality(S) <=> f \in Injection(S, N))
    BY <1>1, FS_Surjection
  <2> QED
    BY <2>1
<1> QED
  BY <1>2, <1>3 DEF N

\* Elements that go by other names, each by its own.
LEMMA SumRenamed ==
    ASSUME NEW S, IsFiniteSet(S), NEW e, \A x, y \in S : e[x] = e[y] => x = y,
           NEW v, NEW w, \A x \in S : w[x] \in Int /\ v[e[x]] = w[x]
    PROVE  SumFunctionOnSet(v, {e[x] : x \in S}) = SumFunctionOnSet(w, S)
<1> DEFINE Names(s) == {e[x] : x \in s}
           G == {s \in SUBSET S : SumFunctionOnSet(v, Names(s)) = SumFunctionOnSet(w, s)}
<1>1. IsFiniteSet(Names(S)) /\ \A z \in Names(S) : v[z] \in Int
  <2> DEFINE f == [x \in S |-> e[x]]
  <2>1. f \in Surjection(S, Names(S))
    BY DEF Surjection
  <2>2. IsFiniteSet(Names(S))
    <3> HIDE DEF f, Names
    <3> QED
      BY <2>1, FS_Surjection
  <2> QED
    BY <2>2
<1>0. \A n \in SUBSET Names(S) : \A z \in n :
        SumFunctionOnSet(v, n) = v[z] + SumFunctionOnSet(v, n \ {z})
  <2> DEFINE N == Names(S)
  <2>1. IsFiniteSet(N) /\ \A z \in N : v[z] \in Int
    BY <1>1
  <2> HIDE DEF N
  <2>2. ASSUME NEW n \in SUBSET N
        PROVE  \A z \in n : SumFunctionOnSet(v, n) = v[z] + SumFunctionOnSet(v, n \ {z})
    <3>1. IsFiniteSet(n) /\ \A z \in n : v[z] \in Int
      BY <2>1, FS_Subset
    <3> QED
      BY <3>1, SumRemove
  <2> QED
    BY <2>2 DEF N
<1>2. {} \in G
  <2>1. Names({}) = {} /\ SumFunctionOnSet(v, {}) = 0 /\ SumFunctionOnSet(w, {}) = 0
    <3>1. Names({}) = {}
      OBVIOUS
    <3>2. SumFunctionOnSet(w, {}) = 0
      BY SumOfParts
    <3>3. SumFunctionOnSet(v, {}) = 0
      BY FS_EmptySet, SumStep
    <3> QED
      BY <3>1, <3>2, <3>3
  <2> QED
    BY <2>1
<1>3. ASSUME NEW s \in SUBSET S, NEW x \in s, s \ {x} \in G PROVE s \in G
  <2>1. Names(s) \in SUBSET Names(S) /\ e[x] \in Names(s)
    OBVIOUS
  <2>2. Names(s) \ {e[x]} = Names(s \ {x})
    OBVIOUS
  <2>3. SumFunctionOnSet(w, s) = w[x] + SumFunctionOnSet(w, s \ {x})
    BY SumOfParts
  <2>4. SumFunctionOnSet(v, Names(s)) = v[e[x]] + SumFunctionOnSet(v, Names(s) \ {e[x]})
    <3> HIDE DEF Names
    <3> QED
      BY <1>0, <2>1
  <2>5. SumFunctionOnSet(v, Names(s \ {x})) = SumFunctionOnSet(w, s \ {x})
    BY <1>3
  <2>6. v[e[x]] = w[x]
    OBVIOUS
  <2>7. SumFunctionOnSet(v, Names(s)) = SumFunctionOnSet(w, s)
    <3> HIDE DEF Names
    <3> QED
      BY <2>2, <2>3, <2>4, <2>5, <2>6
  <2> QED
    BY <2>7
<1>4. \A s \in SUBSET S : s \in G
  <2> HIDE DEF G
  <2> QED
    BY <1>2, <1>3, SubsetInduction
<1> QED
  BY <1>4

KeyedBy(S, at, k) == {x \in S : at[x] = k}

\* What is sorted by a key adds up key by key.
LEMMA SumByKey ==
    ASSUME NEW S, IsFiniteSet(S), NEW K, IsFiniteSet(K), NEW at, \A x \in S : at[x] \in K,
           NEW v, \A x \in S : v[x] \in Int,
           NEW w, \A k \in K : w[k] = SumFunctionOnSet(v, KeyedBy(S, at, k))
    PROVE  SumFunctionOnSet(v, S) = SumFunctionOnSet(w, K)
<1> DEFINE Of(s, k) == {x \in s : at[x] = k}
           By(s) == [k \in K |-> SumFunctionOnSet(v, Of(s, k))]
           G == {s \in SUBSET S : SumFunctionOnSet(v, s) = SumFunctionOnSet(By(s), K)}
<1>1. \A s \in SUBSET S : \A k \in K : Of(s, k) \in SUBSET S
        /\ By(s)[k] = SumFunctionOnSet(v, Of(s, k))
  OBVIOUS
<1>2. \A s \in SUBSET S : \A k \in K : By(s)[k] \in Int
  <2> HIDE DEF Of, By
  <2> QED
    BY <1>1, SumOfParts
<1>3. /\ SumFunctionOnSet(v, {}) = 0
      /\ \A s \in SUBSET S : \A x \in s :
           SumFunctionOnSet(v, s) = v[x] + SumFunctionOnSet(v, s \ {x})
  BY SumOfParts, SMTT(30)
<1>7. \A s \in SUBSET S : \A k \in K :
        /\ SumFunctionOnSet(By(s), K) = By(s)[k] + SumFunctionOnSet(By(s), K \ {k})
        /\ SumFunctionOnSet(By(s), K \ {k}) \in Int /\ IsFiniteSet(K \ {k})
  <2> SUFFICES ASSUME NEW s \in SUBSET S
               PROVE  \A k \in K :
                        /\ SumFunctionOnSet(By(s), K) = By(s)[k] + SumFunctionOnSet(By(s), K \ {k})
                        /\ SumFunctionOnSet(By(s), K \ {k}) \in Int /\ IsFiniteSet(K \ {k})
    OBVIOUS
  <2> DEFINE b == By(s)
  <2>1. \A k \in K : b[k] \in Int
    BY <1>2
  <2> HIDE DEF b
  <2>2. \A k \in K :
          /\ SumFunctionOnSet(b, K) = b[k] + SumFunctionOnSet(b, K \ {k})
          /\ SumFunctionOnSet(b, K \ {k}) \in Int /\ IsFiniteSet(K \ {k})
    <3>1. \A k \in K : SumFunctionOnSet(b, K) = b[k] + SumFunctionOnSet(b, K \ {k})
      BY <2>1, SumRemove
    <3>2. \A k \in K : IsFiniteSet(K \ {k})
      BY FS_RemoveElement
    <3>3. ASSUME NEW k \in K PROVE SumFunctionOnSet(b, K \ {k}) \in Int
      <4>1. \A x \in K \ {k} : b[x] \in Int
        BY <2>1
      <4> QED
        BY <3>2, <4>1, SumStep
    <3> QED
      BY <3>1, <3>2, <3>3
  <2> QED
    BY <2>2 DEF b
<1>4. {} \in G
  <2>1. \A k \in K : By({})[k] = 0
    <3>1. \A k \in K : Of({}, k) = {}
      OBVIOUS
    <3> QED
      BY <1>3, <3>1
  <2>2. SumFunctionOnSet(By({}), K) = Cardinality(K) * 0
    <3> HIDE DEF By
    <3> QED
      BY <2>1, SumOfConstant
  <2>3. Cardinality(K) * 0 = 0
    BY FS_CardinalityType
  <2> QED
    BY <1>3, <2>2, <2>3
<1>5. ASSUME NEW s \in SUBSET S, NEW x \in s, s \ {x} \in G PROVE s \in G
  <2> DEFINE t == s \ {x}
  <2>1. t \in SUBSET S /\ at[x] \in K /\ v[x] \in Int
    OBVIOUS
  <2>2. \A k \in K \ {at[x]} : Of(s, k) = Of(t, k)
    OBVIOUS
  <2>3. x \in Of(s, at[x]) /\ Of(s, at[x]) \ {x} = Of(t, at[x])
    OBVIOUS
  <2>4. By(s)[at[x]] = v[x] + By(t)[at[x]]
    <3> HIDE DEF Of, t
    <3>1. Of(s, at[x]) \in SUBSET S
      BY <1>1, <2>1
    <3>2. SumFunctionOnSet(v, Of(s, at[x])) = v[x] + SumFunctionOnSet(v, Of(s, at[x]) \ {x})
      BY <1>3, <2>3, <3>1
    <3> QED
      BY <2>1, <2>3, <3>2
  <2>5. \A k \in K \ {at[x]} : By(s)[k] = By(t)[k]
    <3> HIDE DEF Of, t
    <3> QED
      BY <2>2
  <2> HIDE DEF By, Of, t
  <2>6. /\ SumFunctionOnSet(By(s), K) = By(s)[at[x]] + SumFunctionOnSet(By(s), K \ {at[x]})
        /\ SumFunctionOnSet(By(t), K) = By(t)[at[x]] + SumFunctionOnSet(By(t), K \ {at[x]})
        /\ SumFunctionOnSet(By(t), K \ {at[x]}) \in Int /\ IsFiniteSet(K \ {at[x]})
    BY <1>7, <2>1
  <2>7. SumFunctionOnSet(By(s), K \ {at[x]}) = SumFunctionOnSet(By(t), K \ {at[x]})
    BY <1>2, <2>1, <2>5, <2>6, SumSame
  <2>8. SumFunctionOnSet(v, s) = v[x] + SumFunctionOnSet(v, t)
    BY SumOfParts DEF t
  <2>9. SumFunctionOnSet(v, t) = SumFunctionOnSet(By(t), K)
    BY <1>5 DEF t
  <2>10. By(t)[at[x]] \in Int
    BY <1>2, <2>1
  <2> QED
    BY <2>1, <2>4, <2>6, <2>7, <2>8, <2>9, <2>10
<1>6. \A s \in SUBSET S : s \in G
  <2> HIDE DEF G
  <2> QED
    BY <1>4, <1>5, SubsetInduction
<1>9. SumFunctionOnSet(v, S) = SumFunctionOnSet(By(S), K)
  BY <1>6
<1>8. SumFunctionOnSet(By(S), K) = SumFunctionOnSet(w, K)
  <2>1. \A k \in K : w[k] = By(S)[k] /\ By(S)[k] \in Int
    <3>1. \A k \in K : Of(S, k) = KeyedBy(S, at, k)
      BY DEF KeyedBy
    <3> QED
      BY <1>1, <1>2, <3>1
  <2> HIDE DEF By
  <2> QED
    BY <2>1, SumSame
<1> QED
  BY <1>9, <1>8

\* What is counted by a key is counted key by key.
LEMMA CountByKey ==
    ASSUME NEW S, IsFiniteSet(S), NEW K, IsFiniteSet(K), NEW at, \A x \in S : at[x] \in K,
           NEW w, \A k \in K : w[k] = Cardinality(KeyedBy(S, at, k))
    PROVE  Cardinality(S) = SumFunctionOnSet(w, K)
<1> DEFINE one == [x \in S |-> 1]
<1>1. \A s \in SUBSET S : IsFiniteSet(s) /\ Cardinality(s) \in Nat /\ \A x \in s : one[x] = 1
  BY FS_Subset, FS_CardinalityType
<1>2. \A s \in SUBSET S : SumFunctionOnSet(one, s) = Cardinality(s)
  <2> SUFFICES ASSUME NEW s \in SUBSET S PROVE SumFunctionOnSet(one, s) = Cardinality(s)
    OBVIOUS
  <2>1. SumFunctionOnSet(one, s) = Cardinality(s) * 1
    <3> HIDE DEF one
    <3> QED
      BY <1>1, SumOfConstant
  <2> QED
    BY <1>1, <2>1
<1>3. \A k \in K : w[k] = SumFunctionOnSet(one, KeyedBy(S, at, k))
  <2>1. \A k \in K : KeyedBy(S, at, k) \in SUBSET S
    BY DEF KeyedBy
  <2> QED
    BY <1>2, <2>1
<1>4. \A x \in S : one[x] \in Int
  OBVIOUS
<1> HIDE DEF one
<1>5. SumFunctionOnSet(one, S) = SumFunctionOnSet(w, K)
  BY <1>3, <1>4, SumByKey, SMTT(30)
<1> QED
  BY <1>2, <1>5

=============================================================================
