-------------------------- MODULE Dashboard_proofs ---------------------------
(***************************************************************************)
(* Theorems about module Dashboard, for any pools, backends and amount of  *)
(* traffic.                                                                *)
(***************************************************************************)
EXTENDS Dashboard, FunctionTheorems, FiniteSetTheorems,
        SequenceTheorems, WellFoundedInduction, TLAPS

-----------------------------------------------------------------------------
(* Sums over finite sets, which the library defines by taking the elements *)
(* one after the other, in the order in which CHOOSE gives them.           *)

LEMMA Induction ==
  ASSUME NEW T, 0 \in T, \A n \in Nat : n \in T => n + 1 \in T
  PROVE  \A n \in Nat : n \in T
<1> DEFINE R == {p \in Nat \X Nat : p[1] < p[2]}
<1> SUFFICES ASSUME Nat \ T # {} PROVE FALSE
  OBVIOUS
<1>1. IsWellFoundedOn(R, Nat)
  BY NatLessThanWellFounded DEF OpToRel
<1> HIDE DEF R
<1>2. PICK n \in Nat \ T : \A m \in Nat \ T : ~ (<<m, n>> \in R)
  BY <1>1, WFMin
<1>3. n # 0 /\ n - 1 \in Nat /\ n - 1 < n /\ n - 1 + 1 = n
  BY <1>2
<1>4. n - 1 \in T
  BY <1>2, <1>3 DEF R
<1> QED BY <1>2, <1>3, <1>4

\* The element that is taken first, and what g does with a set.
Chosen(s)      == CHOOSE x \in s : TRUE
Takes(g, f, s) == g[s] = IF s = {} THEN 0 ELSE f[Chosen(s)] + g[s \ {Chosen(s)}]
Sums(g, f, S)  == g = [s \in SUBSET S |-> g[s]] /\ \A s \in SUBSET S : Takes(g, f, s)

\* The subsets of S of at most n elements.
Small(S, n) == {s \in SUBSET S : Cardinality(s) <= n}

LEMMA SumExists ==
  ASSUME NEW S, IsFiniteSet(S), NEW f, \A x \in S : f[x] \in Nat
  PROVE  \E g \in [SUBSET S -> Nat] : Sums(g, f, S)
<1> DEFINE Good(n) == {g \in [Small(S, n) -> Nat] : \A s \in Small(S, n) : Takes(g, f, s)}
           T == {n \in Nat : Good(n) # {}}
<1>0. \A s \in SUBSET S : IsFiniteSet(s) /\ Cardinality(s) \in Nat
  BY FS_Subset, FS_CardinalityType
<1>a. ASSUME NEW s \in SUBSET S, s # {}
      PROVE  /\ Chosen(s) \in s /\ s \ {Chosen(s)} \in SUBSET S
             /\ Cardinality(s \ {Chosen(s)}) = Cardinality(s) - 1
  <2>1. Chosen(s) \in s BY <1>a DEF Chosen
  <2> QED BY <1>0, <2>1, FS_RemoveElement
<1>1. 0 \in T
  <2> DEFINE g == [s \in Small(S, 0) |-> 0]
  <2>1. \A s \in Small(S, 0) : s = {}
    BY <1>0, FS_EmptySet DEF Small
  <2>2. g \in [Small(S, 0) -> Nat] /\ \A s \in Small(S, 0) : g[s] = 0
    OBVIOUS
  <2> HIDE DEF g
  <2>3. \A s \in Small(S, 0) : Takes(g, f, s)
    BY <2>1, <2>2 DEF Takes
  <2> QED BY <2>2, <2>3
<1>2. ASSUME NEW n \in Nat, n \in T PROVE n + 1 \in T
  <2>1. PICK g \in [Small(S, n) -> Nat] : \A s \in Small(S, n) : Takes(g, f, s)
    BY <1>2
  <2> DEFINE h == [s \in Small(S, n + 1) |->
                     IF s = {} THEN 0 ELSE f[Chosen(s)] + g[s \ {Chosen(s)}]]
  <2>2. ASSUME NEW s \in Small(S, n + 1), s # {}
        PROVE  /\ s \ {Chosen(s)} \in Small(S, n) /\ Chosen(s) \in S
               /\ f[Chosen(s)] + g[s \ {Chosen(s)}] \in Nat
    <3>1. s \in SUBSET S /\ Cardinality(s) <= n + 1
      BY DEF Small
    <3>2. s \ {Chosen(s)} \in Small(S, n)
      BY <1>0, <1>a, <2>2, <3>1 DEF Small
    <3> QED BY <1>a, <2>1, <2>2, <3>1, <3>2
  <2>3. h \in [Small(S, n + 1) -> Nat]
    BY <2>2
  <2>4. ASSUME NEW s \in Small(S, n) PROVE s \in Small(S, n + 1) /\ h[s] = g[s]
    <3>1. s \in Small(S, n + 1)
      BY <1>0 DEF Small
    <3> QED BY <2>1, <3>1 DEF Takes
  <2>5. ASSUME NEW s \in Small(S, n + 1) PROVE Takes(h, f, s)
    <3>1. h[s] = IF s = {} THEN 0 ELSE f[Chosen(s)] + g[s \ {Chosen(s)}]
      OBVIOUS
    <3> HIDE DEF h
    <3> QED BY <2>2, <2>4, <3>1 DEF Takes
  <2> HIDE DEF h
  <2> QED BY <2>3, <2>5
<1> HIDE DEF T
<1>3. \A n \in Nat : n \in T
  BY <1>1, <1>2, Induction
<1>4. Cardinality(S) \in T
  BY <1>3, <1>0
<1>5. PICK g \in [Small(S, Cardinality(S)) -> Nat] :
         \A s \in Small(S, Cardinality(S)) : Takes(g, f, s)
  BY <1>4 DEF T
<1>6. Small(S, Cardinality(S)) = SUBSET S
  BY FS_Subset DEF Small
<1> QED BY <1>5, <1>6 DEF Sums

\* A sum over subsets of S does not depend on what else there is.
LEMMA SumsAgree ==
  ASSUME NEW S, IsFiniteSet(S), NEW R, NEW f, NEW g, NEW h,
         \A x \in S : f[x] \in Nat, Sums(g, f, S), Sums(h, f, R), S \subseteq R
  PROVE  \A s \in SUBSET S : g[s] = h[s]
<1> DEFINE T == {n \in Nat : \A s \in Small(S, n) : g[s] = h[s]}
<1>1. 0 \in T
  <2> SUFFICES ASSUME NEW s \in Small(S, 0) PROVE g[s] = h[s]
    OBVIOUS
  <2>1. s = {} /\ s \in SUBSET S /\ s \in SUBSET R
    BY FS_Subset, FS_CardinalityType, FS_EmptySet DEF Small
  <2> QED BY <2>1 DEF Sums, Takes
<1>2. ASSUME NEW n \in Nat, n \in T PROVE n + 1 \in T
  <2>a. ASSUME NEW s \in Small(S, n + 1), s = {} PROVE g[s] = h[s]
    BY <2>a DEF Sums, Takes, Small
  <2> SUFFICES ASSUME NEW s \in Small(S, n + 1), s # {} PROVE g[s] = h[s]
    BY <2>a
  <2>1. s \in SUBSET S /\ s \in SUBSET R /\ Cardinality(s) <= n + 1 /\ IsFiniteSet(s)
    BY FS_Subset DEF Small
  <2>2. Chosen(s) \in s
    BY DEF Chosen
  <2>3. s \ {Chosen(s)} \in Small(S, n)
    <3>1. Cardinality(s \ {Chosen(s)}) = Cardinality(s) - 1 /\ Cardinality(s) \in Nat
      BY <2>1, <2>2, FS_RemoveElement, FS_CardinalityType
    <3> QED BY <2>1, <3>1 DEF Small
  <2>4. g[s \ {Chosen(s)}] = h[s \ {Chosen(s)}]
    BY <1>2, <2>3
  <2> QED BY <2>1, <2>4 DEF Sums, Takes
<1> HIDE DEF T
<1>3. \A n \in Nat : n \in T
  BY <1>1, <1>2, Induction
<1> SUFFICES ASSUME NEW s \in SUBSET S PROVE g[s] = h[s]
  OBVIOUS
<1>4. Cardinality(s) \in Nat /\ s \in Small(S, Cardinality(s))
  BY FS_Subset, FS_CardinalityType DEF Small
<1> QED BY <1>3, <1>4 DEF T

\* What the sum over S is made of: g is the sum over each of its subsets.
LEMMA SumOfFold ==
  ASSUME NEW S, IsFiniteSet(S), NEW f, \A x \in S : f[x] \in Nat
  PROVE  \E g \in [SUBSET S -> Nat] : Sums(g, f, S) /\ SumFunctionOnSet(f, S) = g[S]
<1> DEFINE Body(g) == [s \in SUBSET S |->
                         IF s = {} THEN 0 ELSE f[Chosen(s)] + g[s \ {Chosen(s)}]]
           iter == CHOOSE g : g = Body(g)
<1>1. SumFunctionOnSet(f, S) = iter[S]
  BY Zenon DEF SumFunctionOnSet, FoldFunctionOnSet, MapThenFoldSet, Chosen
<1>2. PICK g \in [SUBSET S -> Nat] : Sums(g, f, S)
  BY SumExists
<1>3. g = Body(g)
  BY <1>2 DEF Sums, Takes
<1>4. iter = Body(iter)
  BY <1>3
<1> HIDE DEF iter
<1>5. \A s \in SUBSET S :
        iter[s] = IF s = {} THEN 0 ELSE f[Chosen(s)] + iter[s \ {Chosen(s)}]
  BY <1>4
<1>6. Sums(iter, f, S)
  BY <1>4, <1>5 DEF Sums, Takes
<1>7. \A s \in SUBSET S : iter[s] = g[s]
  <2>1. S \subseteq S
    OBVIOUS
  <2> QED BY <1>2, <1>6, <2>1, SumsAgree
<1> QED BY <1>1, <1>2, <1>7

Summable(f, S) == IsFiniteSet(S) /\ \A x \in S : f[x] \in Nat

LEMMA SumType ==
  ASSUME NEW f, NEW S, Summable(f, S)
  PROVE  SumFunctionOnSet(f, S) \in Nat /\ (S = {} => SumFunctionOnSet(f, S) = 0)
<1>1. PICK g \in [SUBSET S -> Nat] : Sums(g, f, S) /\ SumFunctionOnSet(f, S) = g[S]
  BY SumOfFold DEF Summable
<1>2. S \in SUBSET S
  OBVIOUS
<1> QED BY <1>1, <1>2 DEF Sums, Takes

\* The order in which elements are taken makes no difference.
Adds(g, f, S) == \A s \in SUBSET S : \A x \in s : g[s] = f[x] + g[s \ {x}]

LEMMA AnyOrder ==
  ASSUME NEW S, NEW f, Summable(f, S), NEW g \in [SUBSET S -> Nat], Sums(g, f, S)
  PROVE  Adds(g, f, S)
<1> USE DEF Summable, Adds
<1> DEFINE T == {n \in Nat : \A s \in Small(S, n) : \A x \in s : g[s] = f[x] + g[s \ {x}]}
<1>1. 0 \in T
  <2>1. \A s \in Small(S, 0) : s = {}
    BY FS_Subset, FS_CardinalityType, FS_EmptySet DEF Small
  <2> QED BY <2>1
<1>2. ASSUME NEW n \in Nat, n \in T PROVE n + 1 \in T
  <2> SUFFICES ASSUME NEW s \in Small(S, n + 1), NEW x \in s
               PROVE  g[s] = f[x] + g[s \ {x}]
    OBVIOUS
  <2> DEFINE c == Chosen(s)
  <2>1. s \in SUBSET S /\ Cardinality(s) <= n + 1 /\ IsFiniteSet(s) /\ s # {}
    BY FS_Subset DEF Small
  <2>2. c \in s
    BY DEF Chosen
  <2>3. g[s] = f[c] + g[s \ {c}]
    BY <2>1 DEF Sums, Takes
  <2>4. CASE x = c
    BY <2>3, <2>4
  <2>5. CASE x # c
    <3> HIDE DEF c
    <3>1. s \ {c} \in Small(S, n) /\ s \ {x} \in Small(S, n) /\ s \ {x, c} \in SUBSET S
      <4>1. /\ Cardinality(s) \in Nat /\ Cardinality(s \ {c}) = Cardinality(s) - 1
            /\ Cardinality(s \ {x}) = Cardinality(s) - 1
        BY <2>1, <2>2, FS_RemoveElement, FS_CardinalityType
      <4> QED BY <2>1, <4>1 DEF Small
    <3>2. x \in s \ {c} /\ c \in s \ {x}
      BY <2>2, <2>5
    <3>3. (s \ {c}) \ {x} = s \ {x, c} /\ (s \ {x}) \ {c} = s \ {x, c}
      OBVIOUS
    <3>4. g[s \ {c}] = f[x] + g[s \ {x, c}] /\ g[s \ {x}] = f[c] + g[s \ {x, c}]
      BY <1>2, <3>1, <3>2, <3>3
    <3>5. f[x] \in Nat /\ f[c] \in Nat /\ g[s \ {x, c}] \in Nat
      BY <2>1, <2>2, <3>1
    <3> QED BY ONLY <2>3, <3>4, <3>5
  <2> QED BY <2>4, <2>5
<1> HIDE DEF T
<1>3. \A n \in Nat : n \in T
  BY <1>1, <1>2, Induction
<1> SUFFICES ASSUME NEW s \in SUBSET S, NEW x \in s PROVE g[s] = f[x] + g[s \ {x}]
  OBVIOUS
<1>4. Cardinality(s) \in Nat /\ s \in Small(S, Cardinality(s))
  BY FS_Subset, FS_CardinalityType DEF Small
<1> QED BY <1>3, <1>4 DEF T

LEMMA SumWithout ==
  ASSUME NEW f, NEW S, Summable(f, S), NEW x \in S
  PROVE  /\ Summable(f, S \ {x})
         /\ SumFunctionOnSet(f, S) = f[x] + SumFunctionOnSet(f, S \ {x})
<1>1. Summable(f, S \ {x})
  BY FS_RemoveElement DEF Summable
<1>2. PICK g \in [SUBSET S -> Nat] : Sums(g, f, S) /\ SumFunctionOnSet(f, S) = g[S]
  BY SumOfFold DEF Summable
<1>3. PICK h \in [SUBSET (S \ {x}) -> Nat] :
        Sums(h, f, S \ {x}) /\ SumFunctionOnSet(f, S \ {x}) = h[S \ {x}]
  BY <1>1, SumOfFold DEF Summable
<1>4. h[S \ {x}] = g[S \ {x}]
  <2>1. \A s \in SUBSET (S \ {x}) : h[s] = g[s]
    BY <1>1, <1>2, <1>3, SumsAgree DEF Summable
  <2> QED BY <2>1
<1>5. g[S] = f[x] + g[S \ {x}]
  <2>1. Adds(g, f, S)
    BY <1>2, AnyOrder
  <2>2. S \in SUBSET S
    OBVIOUS
  <2> QED BY <2>1, <2>2 DEF Adds
<1> QED BY <1>1, <1>2, <1>3, <1>4, <1>5

LEMMA SumOfUnion ==
  ASSUME NEW f, NEW S, NEW R, Summable(f, S), Summable(f, R), S \cap R = {}
  PROVE  /\ Summable(f, S \cup R)
         /\ SumFunctionOnSet(f, S \cup R) = SumFunctionOnSet(f, S) + SumFunctionOnSet(f, R)
<1> DEFINE Joins(Q) == /\ Summable(f, S \cup Q)
                      /\ SumFunctionOnSet(f, S \cup Q)
                           = SumFunctionOnSet(f, S) + SumFunctionOnSet(f, Q)
           T == {n \in Nat : \A Q \in Small(R, n) : Joins(Q)}
<1>1. \A Q \in SUBSET R : Summable(f, Q)
  BY FS_Subset DEF Summable
<1>2. 0 \in T
  <2> SUFFICES ASSUME NEW Q \in Small(R, 0) PROVE Joins(Q)
    OBVIOUS
  <2>1. Q = {} /\ S \cup Q = S /\ Q \in SUBSET R
    BY FS_Subset, FS_CardinalityType, FS_EmptySet DEF Small, Summable
  <2>2. SumFunctionOnSet(f, Q) = 0 /\ SumFunctionOnSet(f, S) \in Nat
    BY <1>1, <2>1, SumType
  <2> QED BY <2>1, <2>2
<1>3. ASSUME NEW n \in Nat, n \in T PROVE n + 1 \in T
  <2> SUFFICES ASSUME NEW Q \in Small(R, n + 1) PROVE Joins(Q)
    OBVIOUS
  <2>1. Q \in SUBSET R /\ Cardinality(Q) <= n + 1 /\ IsFiniteSet(Q) /\ Cardinality(Q) \in Nat
    BY FS_Subset, FS_CardinalityType DEF Small, Summable
  <2>2. CASE Q = {}
    <3>1. S \cup Q = S
      BY <2>2
    <3>2. SumFunctionOnSet(f, Q) = 0 /\ SumFunctionOnSet(f, S) \in Nat
      BY <1>1, <2>1, <2>2, SumType
    <3> QED BY <3>1, <3>2
  <2>3. CASE Q # {}
    <3>1. PICK x \in Q : TRUE
      BY <2>3
    <3>2. Q \ {x} \in Small(R, n)
      <4>1. Cardinality(Q \ {x}) = Cardinality(Q) - 1
        BY <2>1, <3>1, FS_RemoveElement
      <4> QED BY <2>1, <4>1 DEF Small
    <3>3. Joins(Q \ {x})
      BY <1>3, <3>2
    <3>4. (S \cup Q) \ {x} = S \cup (Q \ {x}) /\ x \in S \cup Q /\ f[x] \in Nat
      BY <2>1, <3>1 DEF Summable
    <3>5. Summable(f, S \cup Q)
      BY <1>1, <2>1, FS_Union DEF Summable
    <3>6. SumFunctionOnSet(f, S \cup Q) = f[x] + SumFunctionOnSet(f, S \cup (Q \ {x}))
      BY <3>4, <3>5, SumWithout
    <3>7. SumFunctionOnSet(f, Q) = f[x] + SumFunctionOnSet(f, Q \ {x})
          /\ SumFunctionOnSet(f, Q \ {x}) \in Nat /\ SumFunctionOnSet(f, S) \in Nat
      BY <1>1, <2>1, <3>1, SumWithout, SumType
    <3> QED BY <3>3, <3>4, <3>5, <3>6, <3>7
  <2> QED BY <2>2, <2>3
<1> HIDE DEF T
<1>4. \A n \in Nat : n \in T
  BY <1>2, <1>3, Induction
<1>5. Cardinality(R) \in Nat /\ R \in Small(R, Cardinality(R))
  BY FS_CardinalityType DEF Small, Summable
<1> QED BY <1>4, <1>5 DEF T

LEMMA SumOfPart ==
  ASSUME NEW f, NEW R, Summable(f, R), NEW S \in SUBSET R
  PROVE  Summable(f, S) /\ SumFunctionOnSet(f, S) <= SumFunctionOnSet(f, R)
<1>1. Summable(f, S) /\ Summable(f, R \ S) /\ S \cap (R \ S) = {} /\ S \cup (R \ S) = R
  BY FS_Subset DEF Summable
<1>2. SumFunctionOnSet(f, R) = SumFunctionOnSet(f, S) + SumFunctionOnSet(f, R \ S)
  <2>1. SumFunctionOnSet(f, S \cup (R \ S))
          = SumFunctionOnSet(f, S) + SumFunctionOnSet(f, R \ S)
    BY <1>1, SumOfUnion
  <2> QED BY <1>1, <2>1
<1>3. SumFunctionOnSet(f, S) \in Nat /\ SumFunctionOnSet(f, R \ S) \in Nat
  BY <1>1, SumType
<1> QED BY <1>1, <1>2, <1>3

\* A function that gives the sums of another one's values gives its sum.
LEMMA SumIs ==
  ASSUME NEW f, NEW S, Summable(f, S), NEW h, Sums(h, f, S)
  PROVE  SumFunctionOnSet(f, S) = h[S]
<1>1. PICK g \in [SUBSET S -> Nat] : Sums(g, f, S) /\ SumFunctionOnSet(f, S) = g[S]
  BY SumOfFold DEF Summable
<1>2. \A s \in SUBSET S : g[s] = h[s]
  <2>1. S \subseteq S
    OBVIOUS
  <2> QED BY <1>1, <2>1, SumsAgree DEF Summable
<1> QED BY <1>1, <1>2

LEMMA SumOfSame ==
  ASSUME NEW f, NEW h, NEW S, Summable(f, S), \A x \in S : h[x] = f[x]
  PROVE  Summable(h, S) /\ SumFunctionOnSet(h, S) = SumFunctionOnSet(f, S)
<1>1. Summable(h, S)
  BY DEF Summable
<1>2. PICK g \in [SUBSET S -> Nat] : Sums(g, f, S) /\ SumFunctionOnSet(f, S) = g[S]
  BY SumOfFold DEF Summable
<1>3. Sums(g, h, S)
  <2>1. \A s \in SUBSET S : s # {} => h[Chosen(s)] = f[Chosen(s)]
    BY DEF Chosen
  <2> QED BY <1>2, <2>1 DEF Sums, Takes
<1> QED BY <1>1, <1>2, <1>3, SumIs

LEMMA SumOfZeros ==
  ASSUME NEW f, NEW S, IsFiniteSet(S), \A x \in S : f[x] = 0
  PROVE  Summable(f, S) /\ SumFunctionOnSet(f, S) = 0
<1> DEFINE g == [s \in SUBSET S |-> 0]
<1>1. Summable(f, S)
  BY DEF Summable
<1>2. Sums(g, f, S)
  <2>1. \A s \in SUBSET S : g[s] = 0
    OBVIOUS
  <2>2. g = [s \in SUBSET S |-> g[s]]
    OBVIOUS
  <2>3. \A s \in SUBSET S : s # {} => f[Chosen(s)] = 0 /\ s \ {Chosen(s)} \in SUBSET S
    BY DEF Chosen
  <2> HIDE DEF g
  <2>4. \A s \in SUBSET S : Takes(g, f, s)
    <3> SUFFICES ASSUME NEW s \in SUBSET S, s # {}
                 PROVE  g[s] = f[Chosen(s)] + g[s \ {Chosen(s)}]
      BY <2>1 DEF Takes
    <3>1. g[s] = 0 /\ f[Chosen(s)] = 0 /\ g[s \ {Chosen(s)}] = 0
      BY <2>1, <2>3
    <3> QED BY ONLY <3>1
  <2> QED BY <2>2, <2>4 DEF Sums
<1>3. SumFunctionOnSet(f, S) = g[S]
  BY <1>1, <1>2, SumIs
<1>4. g[S] = 0
  OBVIOUS
<1> QED BY <1>1, <1>3, <1>4

LEMMA SumAfterOneMore ==
  ASSUME NEW f, NEW h, NEW S, Summable(f, S), NEW x,
         \A y \in S : h[y] = IF y = x THEN f[y] + 1 ELSE f[y]
  PROVE  Summable(h, S) /\ SumFunctionOnSet(h, S) <= SumFunctionOnSet(f, S) + 1
<1>1. Summable(h, S)
  BY DEF Summable
<1>2. SumFunctionOnSet(f, S) \in Nat
  BY SumType
<1>3. CASE x \notin S
  BY <1>1, <1>2, <1>3, SumOfSame
<1>4. CASE x \in S
  <2>1. /\ Summable(f, S \ {x}) /\ SumFunctionOnSet(f, S) = f[x] + SumFunctionOnSet(f, S \ {x})
        /\ SumFunctionOnSet(h, S) = h[x] + SumFunctionOnSet(h, S \ {x})
    BY <1>1, <1>4, SumWithout
  <2>2. SumFunctionOnSet(h, S \ {x}) = SumFunctionOnSet(f, S \ {x})
    BY <2>1, SumOfSame
  <2>3. h[x] = f[x] + 1 /\ f[x] \in Nat /\ SumFunctionOnSet(f, S \ {x}) \in Nat
    BY <1>4, <2>1, SumType DEF Summable
  <2> QED BY <1>1, <2>1, <2>2, <2>3
<1> QED BY <1>3, <1>4

\* Elements that add nothing make no difference.
LEMMA SumOfNoMore ==
  ASSUME NEW f, NEW R, Summable(f, R), NEW S, IsFiniteSet(S), \A x \in S \ R : f[x] = 0
  PROVE  Summable(f, S) /\ SumFunctionOnSet(f, S) <= SumFunctionOnSet(f, R)
<1>1. Summable(f, S \cap R) /\ SumFunctionOnSet(f, S \cap R) <= SumFunctionOnSet(f, R)
  BY SumOfPart
<1>2. Summable(f, S \ R) /\ SumFunctionOnSet(f, S \ R) = 0
  BY FS_Subset, SumOfZeros
<1>3. (S \cap R) \cup (S \ R) = S /\ (S \cap R) \cap (S \ R) = {}
  OBVIOUS
<1>4. /\ Summable(f, (S \cap R) \cup (S \ R))
      /\ SumFunctionOnSet(f, (S \cap R) \cup (S \ R))
           = SumFunctionOnSet(f, S \cap R) + SumFunctionOnSet(f, S \ R)
  BY <1>1, <1>2, <1>3, SumOfUnion
<1>5. /\ Summable(f, S)
      /\ SumFunctionOnSet(f, S) = SumFunctionOnSet(f, S \cap R) + SumFunctionOnSet(f, S \ R)
  BY ONLY <1>3, <1>4
<1>6. SumFunctionOnSet(f, S \cap R) \in Nat
  BY <1>1, SumType
<1> QED BY ONLY <1>1, <1>2, <1>5, <1>6

-----------------------------------------------------------------------------
(* Percentiles.                                                            *)

\* Among the elements of a finite set, s is greatest somewhere.
LEMMA GreatestExists ==
  ASSUME NEW I, IsFiniteSet(I), I # {}, NEW s, \A i \in I : s[i] \in Nat
  PROVE  \E m \in I : \A i \in I : s[i] <= s[m]
<1> DEFINE Has(J) == \E m \in J : \A i \in J : s[i] <= s[m]
           T == {n \in Nat : \A J \in SUBSET I : Cardinality(J) = n + 1 => Has(J)}
<1>0. \A J \in SUBSET I : IsFiniteSet(J) /\ Cardinality(J) \in Nat
  BY FS_Subset, FS_CardinalityType
<1>1. 0 \in T
  <2> SUFFICES ASSUME NEW J \in SUBSET I, Cardinality(J) = 0 + 1 PROVE Has(J)
    OBVIOUS
  <2>1. IsFiniteSet(J) /\ Cardinality(J) = 1
    BY <1>0
  <2>2. PICK m : J = {m}
    BY <2>1, FS_Singleton
  <2> QED BY <2>2
<1>2. ASSUME NEW n \in Nat, n \in T PROVE n + 1 \in T
  <2> SUFFICES ASSUME NEW J \in SUBSET I, Cardinality(J) = n + 1 + 1 PROVE Has(J)
    OBVIOUS
  <2>1. PICK x \in J : TRUE
    BY <1>0, FS_EmptySet
  <2>2. Cardinality(J \ {x}) = n + 1
    <3>1. Cardinality(J \ {x}) = Cardinality(J) - 1
      BY <1>0, <2>1, FS_RemoveElement
    <3> QED BY <3>1
  <2>3. J \ {x} \in SUBSET I
    OBVIOUS
  <2>4. PICK m \in J \ {x} : \A i \in J \ {x} : s[i] <= s[m]
    BY <1>2, <2>2, <2>3
  <2>5. s[x] \in Nat /\ s[m] \in Nat /\ \A i \in J : s[i] \in Nat
    BY <2>1, <2>4
  <2>6. CASE s[x] <= s[m]
    BY <2>4, <2>6
  <2>7. CASE ~ (s[x] <= s[m])
    BY <2>1, <2>4, <2>5, <2>7
  <2> QED BY <2>6, <2>7
<1> HIDE DEF T
<1>3. \A n \in Nat : n \in T
  BY <1>1, <1>2, Induction
<1>4. Cardinality(I) - 1 \in Nat /\ Cardinality(I) - 1 + 1 = Cardinality(I)
  BY <1>0, FS_EmptySet
<1>5. I \in SUBSET I
  OBVIOUS
<1> QED BY <1>3, <1>4, <1>5 DEF T

\* p lists the n elements of J so that s does not decrease.
Lists(p, n, J, s) ==
  /\ p \in Bijection(1 .. n, J)
  /\ \A i, j \in 1 .. n : i <= j => s[p[i]] <= s[p[j]]

LEMMA ListingExists ==
  ASSUME NEW I, IsFiniteSet(I), NEW s, \A i \in I : s[i] \in Nat
  PROVE  \E p : Lists(p, Cardinality(I), I, s)
<1> DEFINE T == {n \in Nat : \A J \in SUBSET I : Cardinality(J) = n => \E p : Lists(p, n, J, s)}
<1>0. \A J \in SUBSET I : IsFiniteSet(J) /\ Cardinality(J) \in Nat
  BY FS_Subset, FS_CardinalityType
<1>1. 0 \in T
  <2> SUFFICES ASSUME NEW J \in SUBSET I, Cardinality(J) = 0 PROVE \E p : Lists(p, 0, J, s)
    OBVIOUS
  <2> DEFINE p == [i \in 1 .. 0 |-> 0]
  <2>1. J = {} /\ 1 .. 0 = {}
    BY <1>0, FS_EmptySet
  <2>2. p \in Bijection(1 .. 0, J)
    BY <2>1 DEF Bijection, Injection, Surjection, IsInjective
  <2>3. Lists(p, 0, J, s)
    BY <2>1, <2>2 DEF Lists
  <2> QED BY <2>3
<1>2. ASSUME NEW n \in Nat, n \in T PROVE n + 1 \in T
  <2> SUFFICES ASSUME NEW J \in SUBSET I, Cardinality(J) = n + 1
               PROVE  \E p : Lists(p, n + 1, J, s)
    OBVIOUS
  <2>1. J # {}
    BY <1>0, FS_EmptySet
  <2>2. PICK m \in J : \A i \in J : s[i] <= s[m]
    BY <1>0, <2>1, GreatestExists
  <2>3. Cardinality(J \ {m}) = n
    <3>1. Cardinality(J \ {m}) = Cardinality(J) - 1
      BY <1>0, <2>2, FS_RemoveElement
    <3> QED BY <3>1
  <2>4. PICK p : Lists(p, n, J \ {m}, s)
    <3>1. J \ {m} \in SUBSET I
      OBVIOUS
    <3> QED BY <1>2, <2>3, <3>1
  <2>5. /\ p \in [1 .. n -> J \ {m}] /\ \A a, b \in 1 .. n : p[a] = p[b] => a = b
        /\ \A t \in J \ {m} : \E a \in 1 .. n : p[a] = t
        /\ \A i, j \in 1 .. n : i <= j => s[p[i]] <= s[p[j]]
    BY <2>4 DEF Lists, Bijection, Injection, Surjection, IsInjective
  <2> DEFINE f == [i \in 1 .. n + 1 |-> IF i = n + 1 THEN m ELSE p[i]]
  <2>6. /\ f[n + 1] = m /\ \A i \in 1 .. n : f[i] = p[i] /\ p[i] \in J \ {m}
        /\ \A i \in 1 .. n + 1 : i = n + 1 \/ i \in 1 .. n
        /\ n + 1 \in 1 .. n + 1 /\ 1 .. n \subseteq 1 .. n + 1
    BY <2>5
  <2>7. f \in [1 .. n + 1 -> J]
    BY <2>2, <2>5, <2>6
  <2> HIDE DEF f
  <2>8. \A a, b \in 1 .. n + 1 : f[a] = f[b] => a = b
    BY <2>5, <2>6
  <2>9. \A t \in J : \E a \in 1 .. n + 1 : f[a] = t
    BY <2>5, <2>6
  <2>10. f \in Bijection(1 .. n + 1, J)
    BY <2>7, <2>8, <2>9, Fun_IsBij
  <2>11. \A i, j \in 1 .. n + 1 : i <= j => s[f[i]] <= s[f[j]]
    <3> SUFFICES ASSUME NEW i \in 1 .. n + 1, NEW j \in 1 .. n + 1, i <= j
                 PROVE  s[f[i]] <= s[f[j]]
      OBVIOUS
    <3>1. CASE j = n + 1
      BY <2>2, <2>6, <2>7, <3>1
    <3>2. CASE j # n + 1
      <4>1. i \in 1 .. n /\ j \in 1 .. n
        BY <3>2
      <4> QED BY <2>5, <2>6, <4>1
    <3> QED BY <3>1, <3>2
  <2>12. Lists(f, n + 1, J, s)
    BY <2>10, <2>11 DEF Lists
  <2> QED BY <2>12
<1> HIDE DEF T
<1>3. \A n \in Nat : n \in T
  BY <1>1, <1>2, Induction
<1>4. I \in SUBSET I /\ Cardinality(I) \in T
  BY <1>0, <1>3
<1> QED BY <1>4 DEF T

\* How many there are of what g maps to one another.
LEMMA AsMany ==
  ASSUME NEW A, NEW B, NEW g, IsFiniteSet(A), \A a \in A : g[a] \in B,
         \A a, b \in A : g[a] = g[b] => a = b, \A t \in B : \E a \in A : g[a] = t
  PROVE  IsFiniteSet(B) /\ Cardinality(B) = Cardinality(A)
<1> DEFINE h == [a \in A |-> g[a]]
<1>1. h \in [A -> B] /\ (\A a, b \in A : h[a] = h[b] => a = b) /\ \A t \in B : \E a \in A : h[a] = t
  OBVIOUS
<1>2. h \in Bijection(A, B)
  BY <1>1, Fun_IsBij
<1> QED BY <1>2, FS_Bijection, Fun_ExistsBij DEF ExistsBijection

\* The least number of hundredths that reach m.
LEMMA RankBounds ==
  ASSUME NEW m \in Nat \ {0}, NEW n \in Nat, m <= 100 * n
  PROVE  LET rank == DivCeil(m, 100)
         IN  rank \in 1 .. n /\ rank * 100 >= m /\ (rank - 1) * 100 < m
BY DEF DivCeil

\* The value at the rank of q is the nearest-rank q-th percentile.
LEMMA PercentileIsRight ==
  ASSUME NEW samples, IsFiniteSet(DOMAIN samples), \A i \in DOMAIN samples : samples[i] \in Nat,
         NEW q \in 1 .. 100
  PROVE  IF Counted(samples) = {} THEN Percentile(samples, q) = None
         ELSE IsNearestRank(Percentile(samples, q), samples, q)
<1> DEFINE I == Counted(samples)
           n == Cardinality(I)
           p == CHOOSE p \in Bijection(1 .. n, I) :
                  \A i, j \in 1 .. n : i <= j => samples[p[i]] <= samples[p[j]]
           v == Ascending(samples)
<1>1. IsFiniteSet(I) /\ n \in Nat /\ \A i \in I : samples[i] \in Nat /\ i \in DOMAIN samples
  BY FS_Subset, FS_CardinalityType DEF Counted
<1>2. /\ p \in Bijection(1 .. n, I)
      /\ \A i, j \in 1 .. n : i <= j => samples[p[i]] <= samples[p[j]]
  <2>1. \E f \in Bijection(1 .. n, I) :
          \A i, j \in 1 .. n : i <= j => samples[f[i]] <= samples[f[j]]
    BY <1>1, ListingExists DEF Lists
  <2> QED BY <2>1
<1>3. v = [i \in 1 .. n |-> samples[p[i]]]
  BY DEF Ascending
<1> HIDE DEF p
<1>4. Len(v) = n /\ (v = <<>> <=> n = 0)
  <2>1. \A i \in 1 .. n : v[i] = samples[p[i]] /\ samples[p[i]] \in Nat
    BY <1>1, <1>2, <1>3, Fun_BijectionProperties
  <2>2. v \in Seq(Nat) /\ Len(v) = n
    BY <1>1, <1>3, <2>1
  <2> HIDE DEF v
  <2> QED BY <2>2, <1>1
<1>5. CASE I = {}
  BY <1>4, <1>5, FS_EmptySet DEF Percentile
<1>6. CASE I # {}
  <2> DEFINE m == n * q
             rank == DivCeil(m, 100)
             x == v[rank]
             upTo == {i \in I : samples[i] <= x}
             below == {i \in I : samples[i] < x}
  <2>1. n \in Nat \ {0}
    BY <1>1, <1>6, FS_EmptySet
  <2>2. m \in Nat \ {0} /\ m <= 100 * n
    BY <2>1, Z3
  <2> HIDE DEF n
  <2> HIDE DEF m
  <2>3. rank \in 1 .. n /\ rank * 100 >= m /\ (rank - 1) * 100 < m /\ rank # 0 /\ rank \in Nat
    BY <2>1, <2>2, RankBounds
  <2>4. Percentile(samples, q) = x
    BY <1>4, <2>1, <2>3 DEF Percentile, m
  <2> HIDE DEF rank
  <2>5. /\ p \in [1 .. n -> I] /\ \A a, b \in 1 .. n : p[a] = p[b] => a = b
        /\ \A t \in I : \E a \in 1 .. n : p[a] = t
    BY <1>2 DEF Bijection, Injection, Surjection, IsInjective
  <2>6. x = samples[p[rank]] /\ p[rank] \in I
    BY <1>3, <2>3, <2>5
  <2> HIDE DEF x, v, I
  <2>7. IsFiniteSet(upTo) /\ Cardinality(upTo) \in Nat
        /\ IsFiniteSet(below) /\ Cardinality(below) \in Nat
    BY <1>1, FS_Subset, FS_CardinalityType
  <2>8. Cardinality(upTo) >= rank
    <3> DEFINE h == [i \in 1 .. rank |-> p[i]]
    <3>1. \A i \in 1 .. rank : i \in 1 .. n /\ p[i] \in upTo
      <4> SUFFICES ASSUME NEW i \in 1 .. rank PROVE i \in 1 .. n /\ p[i] \in upTo
        OBVIOUS
      <4>1. i \in 1 .. n /\ rank \in 1 .. n /\ i <= rank
        BY <2>1, <2>3
      <4>2. samples[p[i]] <= samples[p[rank]]
        BY <1>2, <4>1
      <4> QED BY <2>5, <2>6, <4>1, <4>2
    <3>2. h \in Injection(1 .. rank, upTo)
      <4>1. h \in [1 .. rank -> upTo] /\ \A a, b \in 1 .. rank : h[a] = h[b] => a = b
        BY <2>5, <3>1
      <4> QED BY <4>1, Fun_IsInj
    <3>3. Cardinality(1 .. rank) <= Cardinality(upTo)
      BY <2>7, <3>2, FS_Injection
    <3>4. Cardinality(1 .. rank) = rank
      BY <2>3, FS_Interval
    <3> QED BY <2>3, <2>7, <3>3, <3>4
  <2>9. Cardinality(below) <= rank - 1
    <3> DEFINE h == [i \in 1 .. rank - 1 |-> p[i]]
               image == {h[i] : i \in 1 .. rank - 1}
    <3>1. \A i \in below : i \in image
      <4> SUFFICES ASSUME NEW i \in below PROVE i \in image
        OBVIOUS
      <4>1. PICK a \in 1 .. n : p[a] = i
        BY <2>5
      <4>2. ~ (rank <= a)
        <5>1. rank <= a => x <= samples[i]
          BY <1>2, <2>3, <2>6, <4>1
        <5>2. samples[i] \in Nat /\ x \in Nat /\ samples[i] < x
          BY <1>1, <2>6
        <5> QED BY <5>1, <5>2
      <4>3. a \in 1 .. rank - 1
        BY <2>3, <4>1, <4>2
      <4> QED BY <4>1, <4>3
    <3>2. h \in Surjection(1 .. rank - 1, image)
      BY DEF Surjection
    <3>3. IsFiniteSet(1 .. rank - 1) /\ Cardinality(1 .. rank - 1) = rank - 1
      <4> DEFINE k == rank - 1
      <4>1. 1 \in Int /\ k \in Nat /\ k \in Int
        BY <2>1, <2>3
      <4> HIDE DEF k
      <4>2. IsFiniteSet(1 .. k) /\ Cardinality(1 .. k) = IF 1 > k THEN 0 ELSE k - 1 + 1
        BY <4>1, FS_Interval
      <4>3. Cardinality(1 .. k) = k
        BY <4>1, <4>2
      <4> QED BY <4>2, <4>3 DEF k
    <3>4. IsFiniteSet(image) /\ Cardinality(image) <= rank - 1
      BY <3>2, <3>3, FS_Surjection
    <3>5. Cardinality(below) <= Cardinality(image) /\ Cardinality(image) \in Nat
      BY <3>1, <3>4, FS_Subset, FS_CardinalityType
    <3> QED BY <2>3, <2>7, <3>4, <3>5
  <2>10. Cardinality(upTo) * 100 >= m /\ Cardinality(below) * 100 < m
    <3> HIDE DEF upTo, below
    <3> QED BY <2>2, <2>3, <2>7, <2>8, <2>9
  <2> QED BY <2>4, <2>6, <2>10 DEF IsNearestRank, m, n, I
<1> QED BY <1>5, <1>6

-----------------------------------------------------------------------------
(* The pools' lists and the counters.                                      *)

ArePools(m) ==
  /\ m \in [DOMAIN Listed -> SUBSET Object]
  /\ \A p \in DOMAIN Listed : IsFiniteSet(m[p])
  /\ \A p \in DOMAIN Listed \ Tcp : m[p] = ToSet(Listed[p])
  /\ \A p, q \in DOMAIN Listed : m[p] \cap m[q] # {} => p = q

PoolsOK == ArePools(members)

CountsOK ==
  /\ bytes \in [Object -> Nat]
  /\ now \in Nat /\ carried \in Nat /\ sent \in 0 .. carried
  /\ row \in [bytes : Nat, at : 0 .. now, rate : Nat, span : Nat]
  /\ scan # None =>
       scan \in [pool : 1 .. Len(Listed) + 1, total : Nat, from : 0 .. carried]

LEMMA FiniteImage ==
  ASSUME NEW s, NEW D, IsFiniteSet(D)
  PROVE  IsFiniteSet({s[i] : i \in D})
<1> DEFINE f == [i \in D |-> s[i]]
<1>1. f \in Surjection(D, {s[i] : i \in D})
  BY DEF Surjection
<1> QED BY <1>1, FS_Surjection

LEMMA PoolNumbers ==
  /\ DOMAIN Listed = 1 .. Len(Listed) /\ Len(Listed) \in Nat
  /\ IsFiniteSet(DOMAIN Listed) /\ Tcp \subseteq DOMAIN Listed
<1>1. DOMAIN Listed = 1 .. Len(Listed) /\ Len(Listed) \in Nat
  BY DashboardAssumption
<1> QED BY <1>1, FS_Interval, DashboardAssumption

LEMMA ListedIsFinite ==
  ASSUME NEW p \in DOMAIN Listed
  PROVE  ToSet(Listed[p]) \in SUBSET Object /\ IsFiniteSet(ToSet(Listed[p]))
<1>1. Listed[p] \in Seq(Object)
  BY DashboardAssumption
<1>2. DOMAIN Listed[p] = 1 .. Len(Listed[p]) /\ Len(Listed[p]) \in Nat
  BY <1>1
<1>3. IsFiniteSet(DOMAIN Listed[p])
  BY <1>2, FS_Interval
<1>4. ToSet(Listed[p]) \in SUBSET Object
  BY <1>1 DEF ToSet
<1> QED BY <1>3, <1>4, FiniteImage DEF ToSet

LEMMA ConfiguredPools == ArePools([p \in DOMAIN Listed |-> ToSet(Listed[p])])
<1> DEFINE m == [p \in DOMAIN Listed |-> ToSet(Listed[p])]
<1>1. \A p \in DOMAIN Listed : m[p] = ToSet(Listed[p])
  OBVIOUS
<1>2. m \in [DOMAIN Listed -> SUBSET Object]
  BY ListedIsFinite
<1>3. \A p \in DOMAIN Listed : IsFiniteSet(m[p])
  BY <1>1, ListedIsFinite
<1>4. \A p, q \in DOMAIN Listed : m[p] \cap m[q] # {} => p = q
  BY <1>1, DashboardAssumption
<1> HIDE DEF m
<1> QED BY <1>1, <1>2, <1>3, <1>4 DEF ArePools

\* What the API and a restart do to the lists.
LEMMA PoolsStep == PoolsOK /\ [Next]_vars => PoolsOK'
<1> SUFFICES ASSUME PoolsOK, [Next]_vars PROVE PoolsOK'
  OBVIOUS
<1>1. CASE UNCHANGED members
  BY <1>1 DEF PoolsOK, ArePools
<1>2. ASSUME NEW p \in Tcp, NEW o \in Object, AddBackend(p, o)
      PROVE  PoolsOK'
  <2>1. p \in DOMAIN Listed /\ \A q \in DOMAIN Listed : o \notin members[q]
    BY <1>2, PoolNumbers DEF AddBackend, InUse, IsListed, PoolsOK, ArePools
  <2>2. \A q \in DOMAIN Listed :
          members'[q] = IF q = p THEN members[q] \cup {o} ELSE members[q]
    BY <1>2, <2>1 DEF AddBackend, PoolsOK, ArePools
  <2>3. members' \in [DOMAIN Listed -> SUBSET Object]
    BY <1>2, <2>1 DEF AddBackend, PoolsOK, ArePools
  <2>4. \A q \in DOMAIN Listed : IsFiniteSet(members'[q])
    <3>1. IsFiniteSet(members[p] \cup {o})
      BY <2>1, FS_AddElement DEF PoolsOK, ArePools
    <3> QED BY <2>2, <3>1 DEF PoolsOK, ArePools
  <2>5. \A q \in DOMAIN Listed \ Tcp : members'[q] = ToSet(Listed[q])
    BY <1>2, <2>2 DEF PoolsOK, ArePools
  <2>6. \A q, r \in DOMAIN Listed : members'[q] \cap members'[r] # {} => q = r
    BY <2>1, <2>2 DEF PoolsOK, ArePools
  <2> QED BY <2>3, <2>4, <2>5, <2>6 DEF PoolsOK, ArePools
<1>3. ASSUME NEW p \in Tcp, NEW a, RemoveBackend(p, a)
      PROVE  PoolsOK'
  <2>1. p \in DOMAIN Listed
    BY PoolNumbers
  <2>2. /\ \A q \in DOMAIN Listed : members'[q] \in SUBSET members[q]
        /\ \A q \in DOMAIN Listed : q # p => members'[q] = members[q]
    BY <1>3, <2>1 DEF RemoveBackend, PoolsOK, ArePools
  <2>3. members' \in [DOMAIN Listed -> SUBSET Object]
    BY <1>3, <2>1 DEF RemoveBackend, PoolsOK, ArePools
  <2>4. \A q \in DOMAIN Listed : IsFiniteSet(members'[q])
    BY <2>2, FS_Subset DEF PoolsOK, ArePools
  <2>5. \A q \in DOMAIN Listed \ Tcp : members'[q] = ToSet(Listed[q])
    BY <1>3, <2>2 DEF PoolsOK, ArePools
  <2>6. \A q, r \in DOMAIN Listed : members'[q] \cap members'[r] # {} => q = r
    BY <2>2 DEF PoolsOK, ArePools
  <2> QED BY <2>3, <2>4, <2>5, <2>6 DEF PoolsOK, ArePools
<1>4. CASE Restart
  BY <1>4, ConfiguredPools DEF Restart, PoolsOK
<1> QED
  BY <1>1, <1>2, <1>3, <1>4
  DEF Next, vars, daemon, Tick, Carry, StoreSample, TakeSlot, BeginScan, ScanPool, Respond

LEMMA CountsInit == Init => CountsOK
<1> SUFFICES ASSUME Init PROVE CountsOK
  OBVIOUS
<1>1. \A o \in Object : bytes[o] = 0
  BY DEF Init
<1> QED BY <1>1 DEF Init, CountsOK

\* What one response makes of the row.
LEMMA RowStep ==
  ASSUME CountsOK, NEW total \in Nat
  PROVE  /\ RowOf(row, total) \in [bytes : Nat, at : 0 .. now, rate : Nat, span : Nat]
         /\ RowOf(row, total).bytes = total
         /\ \/ RowOf(row, total).rate = row.rate /\ RowOf(row, total).span = row.span
            \/ RowOf(row, total).rate * RowOf(row, total).span <= Less(total, row.bytes)
<1> DEFINE span == (now - row.at) \div 2
           rate == Less(total, row.bytes) \div span
           r    == RowOf(row, total)
<1>1. /\ row \in [bytes : Nat, at : 0 .. now, rate : Nat, span : Nat] /\ row.bytes \in Nat
      /\ now \in Nat /\ row.at \in 0 .. now /\ Less(total, row.bytes) \in Nat
  BY DEF CountsOK, Less
<1>2. CASE total = row.bytes
  BY <1>1, <1>2 DEF RowOf
<1>3. CASE total # row.bytes /\ (row.at = 0 \/ span = 0)
  <2>1. r = [row EXCEPT !.bytes = total, !.at = now]
    BY <1>3 DEF RowOf
  <2>2. r = [bytes |-> total, at |-> now, rate |-> row.rate, span |-> row.span]
    BY ONLY <1>1, <2>1
  <2> HIDE DEF r
  <2>3. r \in [bytes : Nat, at : 0 .. now, rate : Nat, span : Nat]
    BY <1>1, <2>2
  <2>4. r.bytes = total /\ r.rate = row.rate /\ r.span = row.span
    BY ONLY <2>2
  <2> QED BY <2>3, <2>4 DEF r
<1>4. CASE total # row.bytes /\ row.at # 0 /\ span # 0
  <2>1. r = [row EXCEPT !.bytes = total, !.at = now, !.span = span, !.rate = rate]
    BY <1>4 DEF RowOf
  <2>2. span \in Nat
    BY <1>1
  <2> HIDE DEF span
  <2>3. rate \in Nat /\ rate * span <= Less(total, row.bytes)
    BY <1>1, <1>4, <2>2
  <2> HIDE DEF rate
  <2>4. r = [bytes |-> total, at |-> now, rate |-> rate, span |-> span]
    BY ONLY <1>1, <2>1
  <2> HIDE DEF r
  <2>5. r \in [bytes : Nat, at : 0 .. now, rate : Nat, span : Nat]
    BY <1>1, <2>2, <2>3, <2>4
  <2>6. r.bytes = total /\ r.rate = rate /\ r.span = span
    BY ONLY <2>4
  <2> QED BY <2>3, <2>5, <2>6 DEF r
<1> QED BY <1>2, <1>3, <1>4

-----------------------------------------------------------------------------
(* What is read of the pools of P, and of the pools before, and from, k.   *)

ReadIn(P) == UNION {Read(p) : p \in P}
Before(k) == {p \in DOMAIN Listed : p < k}
From(k)   == {p \in DOMAIN Listed : k <= p}

Total(P) == SumFunctionOnSet(bytes, ReadIn(P))

LEMMA ReadOfPool ==
  ASSUME PoolsOK, NEW p \in DOMAIN Listed
  PROVE  Read(p) \subseteq members[p] /\ IsFiniteSet(Read(p))
<1>1. IsFiniteSet(members[p])
  BY DEF PoolsOK, ArePools
<1>2. CASE p \in Tcp
  BY <1>1, <1>2 DEF Read
<1>3. CASE p \notin Tcp
  <2>1. members[p] = ToSet(Listed[p])
    BY <1>3 DEF PoolsOK, ArePools
  <2>2. Read(p) \subseteq ToSet(Listed[p])
    BY <1>3 DEF Read, ToSet
  <2> QED BY <1>1, <2>1, <2>2, FS_Subset
<1> QED BY <1>2, <1>3

LEMMA TotalType ==
  ASSUME PoolsOK, CountsOK, NEW P \in SUBSET DOMAIN Listed
  PROVE  Summable(bytes, ReadIn(P)) /\ Total(P) \in Nat /\ (P = {} => Total(P) = 0)
<1>1. IsFiniteSet({Read(p) : p \in P})
  <2> DEFINE s == [p \in P |-> Read(p)]
  <2>1. IsFiniteSet(P)
    BY PoolNumbers, FS_Subset
  <2>2. IsFiniteSet({s[p] : p \in P})
    BY <2>1, FiniteImage
  <2>3. {s[p] : p \in P} = {Read(p) : p \in P}
    OBVIOUS
  <2> QED BY <2>2, <2>3
<1>2. \A R \in {Read(p) : p \in P} : IsFiniteSet(R) /\ R \subseteq Object
  BY ReadOfPool DEF PoolsOK, ArePools
<1>3. IsFiniteSet(ReadIn(P)) /\ ReadIn(P) \subseteq Object
  BY <1>1, <1>2, FS_UNION DEF ReadIn
<1>4. Summable(bytes, ReadIn(P))
  BY <1>3 DEF Summable, CountsOK
<1>5. P = {} => ReadIn(P) = {}
  BY DEF ReadIn
<1> QED BY <1>4, <1>5, SumType DEF Total

\* One pool after the other.
LEMMA TotalWith ==
  ASSUME PoolsOK, CountsOK, NEW P \in SUBSET DOMAIN Listed, NEW k \in DOMAIN Listed, k \notin P
  PROVE  Total(P \cup {k}) = Total(P) + SumFunctionOnSet(bytes, Read(k))
<1>1. ReadIn(P \cup {k}) = ReadIn(P) \cup Read(k) /\ ReadIn({k}) = Read(k)
  BY DEF ReadIn
<1>2. ReadIn(P) \cap Read(k) = {}
  <2> SUFFICES ASSUME NEW x \in ReadIn(P), x \in Read(k) PROVE FALSE
    OBVIOUS
  <2>1. PICK p \in P : x \in Read(p)
    BY DEF ReadIn
  <2>2. x \in members[p] /\ x \in members[k]
    BY <2>1, ReadOfPool
  <2> QED BY <2>1, <2>2 DEF PoolsOK, ArePools
<1>3. Summable(bytes, ReadIn(P)) /\ Summable(bytes, Read(k))
  <2>1. {k} \in SUBSET DOMAIN Listed
    OBVIOUS
  <2> QED BY <1>1, <2>1, TotalType
<1> QED BY <1>1, <1>2, <1>3, SumOfUnion DEF Total

\* What a step does to the totals of the pools.
LEMMA TotalStep ==
  ASSUME PoolsOK, CountsOK, [Next]_vars, NEW P \in SUBSET DOMAIN Listed
  PROVE  /\ UNCHANGED <<members, bytes>> => Total(P)' = Total(P)
         /\ \A o \in Object : Carry(o) => Total(P)' \in Nat /\ Total(P)' <= Total(P) + 1
         /\ \A p \in Tcp, o \in Object :
              AddBackend(p, o) \/ RemoveBackend(p, AddrOf[o])
                => Total(P)' \in Nat /\ Total(P)' <= Total(P)
         /\ Restart => Total(P)' = 0
<1>1. Summable(bytes, ReadIn(P)) /\ Total(P) \in Nat
  BY TotalType
<1>2. ASSUME UNCHANGED <<members, bytes>> PROVE Total(P)' = Total(P)
  BY <1>2 DEF Total, ReadIn, Read
<1>3. ASSUME NEW o \in Object, Carry(o)
      PROVE  Total(P)' \in Nat /\ Total(P)' <= Total(P) + 1
  <2>1. UNCHANGED members /\ bytes' = [bytes EXCEPT ![o] = @ + 1]
    BY <1>3 DEF Carry
  <2>2. ReadIn(P)' = ReadIn(P)
    BY <2>1 DEF ReadIn, Read
  <2>3. \A x \in ReadIn(P) : bytes'[x] = IF x = o THEN bytes[x] + 1 ELSE bytes[x]
    <3>1. \A x \in ReadIn(P) : x \in Object
      BY ReadOfPool DEF ReadIn, PoolsOK, ArePools
    <3> QED BY <2>1, <3>1 DEF CountsOK
  <2>4. /\ Summable(bytes', ReadIn(P))
        /\ SumFunctionOnSet(bytes', ReadIn(P)) <= SumFunctionOnSet(bytes, ReadIn(P)) + 1
    BY <1>1, <2>3, SumAfterOneMore
  <2>5. SumFunctionOnSet(bytes', ReadIn(P)) \in Nat
    BY <2>4, SumType
  <2> QED BY <2>2, <2>4, <2>5 DEF Total
<1>4. ASSUME NEW p \in Tcp, NEW o \in Object,
             AddBackend(p, o) \/ RemoveBackend(p, AddrOf[o])
      PROVE  Total(P)' \in Nat /\ Total(P)' <= Total(P)
  <2>1. UNCHANGED bytes
    BY <1>4 DEF AddBackend, RemoveBackend
  <2>2. AddBackend(p, o) => bytes[o] = 0
    BY DEF AddBackend, InUse, CountsOK
  <2>3. \A q \in DOMAIN Listed :
          Read(q)' \subseteq IF AddBackend(p, o) THEN Read(q) \cup {o} ELSE Read(q)
    BY <1>4, PoolNumbers DEF AddBackend, RemoveBackend, Read, PoolsOK, ArePools
  <2> DEFINE S == ReadIn(P)'
  <2>4. \A x \in S : x \in ReadIn(P) \/ (AddBackend(p, o) /\ x = o)
    BY <2>3 DEF ReadIn
  <2>5. IsFiniteSet(S)
    <3>1. S \in SUBSET (ReadIn(P) \cup {o})
      BY <2>4
    <3>2. IsFiniteSet(ReadIn(P) \cup {o})
      BY <1>1, FS_AddElement DEF Summable
    <3> QED BY <3>1, <3>2, FS_Subset
  <2>6. \A x \in S \ ReadIn(P) : bytes[x] = 0
    BY <2>2, <2>4
  <2> HIDE DEF S
  <2>7. Summable(bytes, S) /\ SumFunctionOnSet(bytes, S) <= SumFunctionOnSet(bytes, ReadIn(P))
    BY <1>1, <2>5, <2>6, SumOfNoMore
  <2>8. SumFunctionOnSet(bytes, S) \in Nat
    BY <2>7, SumType
  <2> QED BY <2>1, <2>7, <2>8 DEF Total, S
<1>5. ASSUME Restart PROVE Total(P)' = 0
  <2>1. bytes' = [o \in Object |-> 0] /\ bytes \in [Object -> Nat]
    BY <1>5 DEF Restart, CountsOK
  <2>2. \A p \in P : Read(p)' \subseteq ToSet(Listed[p])
    BY <1>5 DEF Restart, Read, ToSet
  <2> DEFINE S == ReadIn(P)'
             L == UNION {ToSet(Listed[p]) : p \in P}
  <2>3. IsFiniteSet(L) /\ L \subseteq Object
    <3> DEFINE s == [p \in P |-> ToSet(Listed[p])]
    <3>1. IsFiniteSet(P)
      BY PoolNumbers, FS_Subset
    <3>2. IsFiniteSet({s[p] : p \in P})
      BY <3>1, FiniteImage
    <3>3. {s[p] : p \in P} = {ToSet(Listed[p]) : p \in P}
      OBVIOUS
    <3>4. \A R \in {ToSet(Listed[p]) : p \in P} : IsFiniteSet(R) /\ R \subseteq Object
      BY ListedIsFinite
    <3> QED BY <3>2, <3>3, <3>4, FS_UNION
  <2>4. S \subseteq L
    BY <2>2 DEF ReadIn
  <2> HIDE DEF L
  <2>5. IsFiniteSet(S) /\ \A x \in S : bytes'[x] = 0
    BY <2>1, <2>3, <2>4, FS_Subset
  <2> HIDE DEF S
  <2>6. SumFunctionOnSet(bytes', S) = 0
    BY <2>5, SumOfZeros
  <2> QED BY <2>6 DEF Total, S
<1> QED BY <1>2, <1>3, <1>4, <1>5
-----------------------------------------------------------------------------
(* The row's accounts.                                                     *)

LEMMA PoolTotal ==
  ASSUME PoolsOK, CountsOK, NEW k \in DOMAIN Listed
  PROVE  SumFunctionOnSet(bytes, Read(k)) \in Nat
<1>1. ReadIn({k}) = Read(k) /\ {k} \in SUBSET DOMAIN Listed
  BY DEF ReadIn
<1> QED BY <1>1, TotalType DEF Total

\* What one more pool adds to a request.
LEMMA ScanStep ==
  ASSUME PoolsOK, CountsOK, ScanPool
  PROVE  /\ scan.pool \in DOMAIN Listed
         /\ scan \in [pool : 1 .. Len(Listed) + 1, total : Nat, from : 0 .. carried]
         /\ scan' = [pool  |-> scan.pool + 1,
                     total |-> scan.total + SumFunctionOnSet(bytes, Read(scan.pool)),
                     from  |-> scan.from]
         /\ scan'.pool = scan.pool + 1 /\ scan'.from = scan.from
         /\ scan'.total = scan.total + SumFunctionOnSet(bytes, Read(scan.pool))
<1> DEFINE n == SumFunctionOnSet(bytes, Read(scan.pool))
<1>1. scan \in [pool : 1 .. Len(Listed) + 1, total : Nat, from : 0 .. carried]
  BY DEF ScanPool, CountsOK
<1>2. scan' = [scan EXCEPT !.pool = @ + 1, !.total = @ + n]
  BY DEF ScanPool
<1>3. scan.pool \in DOMAIN Listed
  BY DEF ScanPool, PoolsOK, ArePools
<1> HIDE DEF n
<1>4. scan' = [pool |-> scan.pool + 1, total |-> scan.total + n, from |-> scan.from]
  BY ONLY <1>1, <1>2
<1>5. scan'.pool = scan.pool + 1 /\ scan'.from = scan.from /\ scan'.total = scan.total + n
  BY ONLY <1>4
<1> QED BY <1>1, <1>3, <1>4, <1>5 DEF n

LEMMA CountsStep == PoolsOK /\ CountsOK /\ [Next]_vars => CountsOK'
<1> SUFFICES ASSUME PoolsOK, CountsOK, [Next]_vars PROVE CountsOK'
  OBVIOUS
<1> USE DEF CountsOK
<1>1. CASE UNCHANGED vars
  BY <1>1 DEF vars, daemon, page, history
<1>2. CASE Tick
  BY <1>2 DEF Tick, daemon, page, history
<1>3. ASSUME NEW o \in Object, Carry(o) PROVE CountsOK'
  <2>1. bytes' \in [Object -> Nat]
    BY <1>3 DEF Carry
  <2> QED BY <1>3, <2>1 DEF Carry, page
<1>4. ASSUME NEW o, StoreSample(o) \/ \E us \in Sample : TakeSlot(o, us) PROVE CountsOK'
  BY <1>4 DEF StoreSample, TakeSlot, page
<1>5. ASSUME NEW p \in Tcp, NEW o \in Object, AddBackend(p, o) \/ RemoveBackend(p, AddrOf[o])
      PROVE  CountsOK'
  BY <1>5 DEF AddBackend, RemoveBackend, page, history
<1>6. CASE BeginScan
  <2>1. 1 \in 1 .. Len(Listed) + 1
    BY PoolNumbers
  <2> QED BY <1>6, <2>1 DEF BeginScan, daemon, history
<1>7. CASE ScanPool
  <2>1. /\ scan.pool \in DOMAIN Listed
        /\ scan \in [pool : 1 .. Len(Listed) + 1, total : Nat, from : 0 .. carried]
        /\ scan' = [pool  |-> scan.pool + 1,
                    total |-> scan.total + SumFunctionOnSet(bytes, Read(scan.pool)),
                    from  |-> scan.from]
    BY <1>7, ScanStep
  <2>2. SumFunctionOnSet(bytes, Read(scan.pool)) \in Nat
    BY <2>1, PoolTotal
  <2>3. scan.pool + 1 \in 1 .. Len(Listed) + 1
    BY <2>1, PoolNumbers
  <2> QED BY <1>7, <2>1, <2>2, <2>3 DEF ScanPool, daemon, history
<1>8. CASE Respond
  <2>1. scan.total \in Nat /\ scan.from \in 0 .. carried
    BY <1>8 DEF Respond
  <2>2. RowOf(row, scan.total) \in [bytes : Nat, at : 0 .. now, rate : Nat, span : Nat]
    BY <2>1, RowStep
  <2> QED BY <1>8, <2>1, <2>2 DEF Respond, daemon
<1>9. CASE Restart
  BY <1>9 DEF Restart
<1> HIDE DEF CountsOK
<1> QED BY <1>1, <1>2, <1>3, <1>4, <1>5, <1>6, <1>7, <1>8, <1>9 DEF Next

All == DOMAIN Listed

\* Nothing is shown twice: what the pools hold, and what a request has gathered
\* of them so far, is accounted for by what the row saw last and the traffic
\* since the request for it was sent; and a request has gathered all that the
\* pools it is past hold, but for the traffic since it was sent.
Accounted ==
  /\ Total(All) + sent <= row.bytes + carried
  /\ scan # None =>
       /\ scan.total + Total(From(scan.pool)) + sent <= row.bytes + carried
       /\ Total(Before(scan.pool)) + scan.from <= scan.total + carried

RateInv == PoolsOK /\ CountsOK /\ Accounted

LEMMA RateInit == Init => RateInv
<1> SUFFICES ASSUME Init PROVE RateInv
  OBVIOUS
<1>1. PoolsOK /\ CountsOK
  BY ConfiguredPools, CountsInit DEF Init, PoolsOK
<1>2. Total(All) = 0
  <2>1. All \in SUBSET DOMAIN Listed
    BY DEF All
  <2>2. Summable(bytes, ReadIn(All))
    BY <1>1, <2>1, TotalType
  <2>3. \A x \in ReadIn(All) : bytes[x] = 0
    BY <1>1, ReadOfPool DEF ReadIn, PoolsOK, ArePools, Init, All
  <2> QED BY <2>2, <2>3, SumOfZeros DEF Total, Summable
<1>3. Accounted
  BY <1>2 DEF Accounted, Init
<1> QED BY <1>1, <1>3 DEF RateInv

LEMMA RateNext == RateInv /\ [Next]_vars => RateInv'
<1> SUFFICES ASSUME RateInv, [Next]_vars PROVE Accounted'
  BY PoolsStep, CountsStep DEF RateInv
<1>1. PoolsOK /\ CountsOK /\ Accounted /\ PoolsOK' /\ CountsOK'
  BY PoolsStep, CountsStep DEF RateInv
<1>2. /\ row.bytes \in Nat /\ carried \in Nat /\ sent \in Nat
      /\ scan # None => scan.total \in Nat /\ scan.from \in Nat
  BY <1>1 DEF CountsOK
<1>3. \A k : All \in SUBSET DOMAIN Listed /\ From(k) \in SUBSET DOMAIN Listed
             /\ Before(k) \in SUBSET DOMAIN Listed
  BY DEF All, From, Before
<1>4. \A P \in SUBSET DOMAIN Listed : Total(P) \in Nat
  BY <1>1, TotalType
\* The totals do not grow, and neither does anything else change.
<1>5. ASSUME UNCHANGED <<row, scan, sent, carried>>,
             \A P \in SUBSET DOMAIN Listed : Total(P)' \in Nat /\ Total(P)' <= Total(P)
      PROVE  Accounted'
  <2>1. /\ Total(All)' \in Nat /\ Total(All)' <= Total(All) /\ Total(All) \in Nat
        /\ Total(From(scan.pool))' \in Nat
        /\ Total(From(scan.pool))' <= Total(From(scan.pool))
        /\ Total(From(scan.pool)) \in Nat
        /\ Total(Before(scan.pool))' \in Nat
        /\ Total(Before(scan.pool))' <= Total(Before(scan.pool))
        /\ Total(Before(scan.pool)) \in Nat
    BY <1>3, <1>4, <1>5
  <2> QED BY <1>1, <1>2, <1>5, <2>1 DEF Accounted
<1>6. CASE UNCHANGED <<members, bytes, row, scan, sent, carried>>
  <2>1. \A P \in SUBSET DOMAIN Listed : Total(P)' \in Nat /\ Total(P)' <= Total(P)
    BY <1>1, <1>4, <1>6, TotalStep
  <2> QED BY <1>5, <1>6, <2>1
<1>7. ASSUME NEW o \in Object, Carry(o) PROVE Accounted'
  <2>1. \A P \in SUBSET DOMAIN Listed : Total(P)' \in Nat /\ Total(P)' <= Total(P) + 1
    BY <1>1, <1>7, TotalStep
  <2>2. carried' = carried + 1 /\ UNCHANGED <<row, scan, sent>>
    BY <1>7 DEF Carry, page
  <2>3. /\ Total(All)' \in Nat /\ Total(All)' <= Total(All) + 1 /\ Total(All) \in Nat
        /\ Total(From(scan.pool))' \in Nat
        /\ Total(From(scan.pool))' <= Total(From(scan.pool)) + 1
        /\ Total(From(scan.pool)) \in Nat
        /\ Total(Before(scan.pool))' \in Nat
        /\ Total(Before(scan.pool))' <= Total(Before(scan.pool)) + 1
        /\ Total(Before(scan.pool)) \in Nat
    BY <1>3, <1>4, <2>1, <2>2
  <2> QED BY <1>1, <1>2, <2>2, <2>3 DEF Accounted
<1>8. ASSUME NEW p \in Tcp, NEW o \in Object, AddBackend(p, o) \/ RemoveBackend(p, AddrOf[o])
      PROVE  Accounted'
  <2>1. \A P \in SUBSET DOMAIN Listed : Total(P)' \in Nat /\ Total(P)' <= Total(P)
    BY <1>1, <1>8, TotalStep
  <2>2. UNCHANGED <<row, scan, sent, carried>>
    BY <1>8 DEF AddBackend, RemoveBackend, page, history
  <2> QED BY <1>5, <2>1, <2>2
<1>9. CASE BeginScan
  <2>1. \A P \in SUBSET DOMAIN Listed : Total(P)' = Total(P)
    BY <1>1, <1>9, TotalStep DEF BeginScan, daemon
  <2>2. From(1) = All /\ Before(1) = {}
    BY PoolNumbers DEF From, Before, All
  <2>3. Total(From(1))' = Total(All) /\ Total(All)' = Total(All) /\ Total(All) \in Nat
    BY <1>3, <1>4, <2>1, <2>2
  <2>4. Total(Before(1))' = 0
    BY <1>1, <1>3, <2>1, <2>2, TotalType
  <2>5. /\ scan'.pool = 1 /\ scan'.total = 0 /\ scan'.from = carried
        /\ UNCHANGED <<row, sent, carried>>
    BY <1>9 DEF BeginScan, history
  <2> QED BY <1>1, <1>2, <2>3, <2>4, <2>5 DEF Accounted
<1>10. CASE ScanPool
  <2>0. PICK k, n : k = scan.pool /\ n = SumFunctionOnSet(bytes, Read(k))
    OBVIOUS
  <2>1. /\ k \in DOMAIN Listed /\ scan'.pool = k + 1 /\ scan'.from = scan.from
        /\ scan'.total = scan.total + n /\ scan # None
        /\ UNCHANGED <<members, bytes, row, sent, carried>>
    BY <1>1, <1>10, <2>0, ScanStep DEF ScanPool, daemon, history
  <2>2. \A P \in SUBSET DOMAIN Listed : Total(P)' = Total(P)
    BY <1>1, <2>1, TotalStep
  <2>3. n \in Nat /\ k \in Nat
    BY <1>1, <2>0, <2>1, PoolTotal, PoolNumbers
  <2>4. /\ Before(k + 1) = Before(k) \cup {k} /\ k \notin Before(k)
        /\ From(k) = From(k + 1) \cup {k} /\ k \notin From(k + 1)
    BY <2>1, PoolNumbers DEF Before, From
  <2>5. Total(Before(k + 1)) = Total(Before(k)) + n
    BY <1>1, <1>3, <2>0, <2>1, <2>4, TotalWith
  <2>6. Total(From(k)) = Total(From(k + 1)) + n
    BY <1>1, <1>3, <2>0, <2>1, <2>4, TotalWith
  <2>7. /\ Total(All)' = Total(All) /\ Total(From(k + 1))' = Total(From(k + 1))
        /\ Total(Before(k + 1))' = Total(Before(k + 1))
        /\ Total(All) \in Nat /\ Total(From(k + 1)) \in Nat /\ Total(Before(k)) \in Nat
    BY <1>3, <1>4, <2>2
  <2>8. /\ Total(From(scan.pool))' = Total(From(k + 1))'
        /\ Total(Before(scan.pool))' = Total(Before(k + 1))'
    BY <2>1
  <2>9. /\ Total(All) + sent <= row.bytes + carried
        /\ scan.total + Total(From(k)) + sent <= row.bytes + carried
        /\ Total(Before(k)) + scan.from <= scan.total + carried
    BY <1>1, <2>0, <2>1 DEF Accounted
  <2> QED BY <1>2, <2>1, <2>3, <2>5, <2>6, <2>7, <2>8, <2>9 DEF Accounted
<1>11. CASE Respond
  <2>1. /\ scan # None /\ scan.pool \notin DOMAIN Listed /\ scan.pool \in 1 .. Len(Listed) + 1
        /\ row' = RowOf(row, scan.total) /\ sent' = scan.from /\ scan' = None
        /\ UNCHANGED <<members, bytes, carried>>
    BY <1>1, <1>11 DEF Respond, daemon, CountsOK, PoolsOK, ArePools
  <2>2. Before(scan.pool) = All
    BY <2>1, PoolNumbers DEF Before, All
  <2>3. Total(All) + scan.from <= scan.total + carried
    BY <1>1, <2>1, <2>2 DEF Accounted
  <2>4. row'.bytes = scan.total
    BY <1>1, <1>2, <2>1, RowStep
  <2>5. Total(All)' = Total(All)
    BY <1>1, <1>3, <2>1, TotalStep
  <2> QED BY <2>1, <2>3, <2>4, <2>5 DEF Accounted
<1>12. CASE Restart
  <2>1. Total(All)' = 0
    BY <1>1, <1>3, <1>12, TotalStep
  <2>2. scan' = None /\ UNCHANGED <<row, sent, carried>>
    BY <1>12 DEF Restart
  <2>3. sent <= carried
    BY <1>1 DEF CountsOK
  <2> QED BY <1>2, <2>1, <2>2, <2>3 DEF Accounted
<1> QED
  BY <1>6, <1>7, <1>8, <1>9, <1>10, <1>11, <1>12
  DEF Next, vars, daemon, page, history, Tick, StoreSample, TakeSlot

\* The row never shows traffic that did not happen, whatever the pools, however
\* backends come and go, and however often the daemon restarts while a request
\* gathers the totals (server.rs, api_signals; main.rs, GoldenSignalsRow).
THEOREM RateIsBacked == Spec => RateIsCarried
<1>1. RateInv /\ [Next]_vars =>
        [row'.rate # row.rate \/ row'.span # row.span =>
           row'.rate * row'.span <= carried - sent]_vars
  <2> SUFFICES ASSUME RateInv, [Next]_vars,
                      row'.rate # row.rate \/ row'.span # row.span
               PROVE  row'.rate * row'.span <= carried - sent
    OBVIOUS
  <2>1. Respond
    BY DEF Next, vars, daemon, page, history, Tick, Carry, StoreSample, TakeSlot, AddBackend,
           RemoveBackend, BeginScan, ScanPool, Restart
  <2>2. PoolsOK /\ CountsOK /\ Accounted
    BY DEF RateInv
  <2>3. /\ scan # None /\ row' = RowOf(row, scan.total)
        /\ scan.total \in Nat /\ row.bytes \in Nat /\ carried \in Nat /\ sent \in 0 .. carried
    BY <2>1, <2>2 DEF Respond, CountsOK
  <2>4. row'.rate * row'.span <= Less(scan.total, row.bytes)
    BY <2>2, <2>3, RowStep
  <2>5. row'.rate \in Nat /\ row'.span \in Nat
    BY <2>2, <2>3, RowStep
  <2>6. scan.total + Total(From(scan.pool)) + sent <= row.bytes + carried
    BY <2>2, <2>3 DEF Accounted
  <2>7. Total(From(scan.pool)) \in Nat
    BY <2>2, TotalType DEF From
  <2>8. Less(scan.total, row.bytes) <= carried - sent
    BY <2>3, <2>6, <2>7 DEF Less
  <2>9. row'.rate * row'.span \in Nat /\ Less(scan.total, row.bytes) \in Nat
    BY <2>3, <2>5 DEF Less
  <2>10. carried - sent \in Int
    BY <2>3
  <2> DEFINE shown == row'.rate * row'.span
  <2>11. shown \in Nat /\ shown <= Less(scan.total, row.bytes)
    BY <2>4, <2>9
  <2> HIDE DEF shown
  <2>12. shown <= carried - sent
    BY ONLY <2>8, <2>9, <2>10, <2>11
  <2> QED BY <2>12 DEF shown
<1> QED BY <1>1, RateInit, RateNext, PTL DEF Spec, RateIsCarried

-----------------------------------------------------------------------------
(* The ring of samples.                                                    *)

\* The slot of the sample with number a.
Slot(a) == a % Slots

LEMMA SlotType ==
  ASSUME NEW a \in Nat
  PROVE  /\ Slot(a) \in 0 .. Slots - 1
         /\ \E q \in Nat : a = q * Slots + Slot(a)
<1>1. Slots \in Nat \ {0}
  BY DashboardAssumption
<1>2. /\ a = (a \div Slots) * Slots + (a % Slots) /\ a \div Slots \in Nat
      /\ a % Slots \in 0 .. Slots - 1
  BY <1>1, SMT
<1> QED BY <1>2 DEF Slot

LEMMA FirstRound ==
  ASSUME NEW a \in Nat, a < Slots
  PROVE  Slot(a) = a
<1>1. Slots \in Nat \ {0}
  BY DashboardAssumption
<1>2. PICK q \in Nat : a = q * Slots + Slot(a)
  BY SlotType
<1>3. Slot(a) \in 0 .. Slots - 1
  BY SlotType
<1>4. q >= 1 => q * Slots >= Slots
  BY <1>1
<1>5. q = 0
  <2>1. q * Slots \in Nat
    BY <1>1
  <2> QED BY <1>1, <1>2, <1>3, <1>4, <2>1
<1>6. 0 * Slots = 0 /\ Slot(a) \in Int
  BY <1>1, <1>3
<1>7. a = 0 * Slots + Slot(a)
  BY <1>2, <1>5
<1> QED BY ONLY <1>6, <1>7

\* Fewer than Slots numbers apart, a slot is that of one number only.
LEMMA OneRound ==
  ASSUME NEW a \in Nat, NEW b \in Nat, Slot(a) = Slot(b), a < b + Slots, b < a + Slots
  PROVE  a = b
<1>1. Slots \in Nat \ {0}
  BY DashboardAssumption
<1>2. PICK p \in Nat : a = p * Slots + Slot(a)
  BY SlotType
<1>3. PICK q \in Nat : b = q * Slots + Slot(b)
  BY SlotType
<1>4. Slot(a) \in Nat
  BY SlotType
<1>5. p * Slots < q * Slots + Slots /\ q * Slots < p * Slots + Slots
  <2>1. p * Slots \in Nat /\ q * Slots \in Nat
    BY <1>1
  <2> QED BY <1>1, <1>2, <1>3, <1>4, <2>1
<1>6. p < q => p * Slots + Slots <= q * Slots
  <2>1. p < q => (p + 1) * Slots <= q * Slots
    BY <1>1
  <2>2. (p + 1) * Slots = p * Slots + Slots
    BY <1>1
  <2> QED BY <2>1, <2>2
<1>7. q < p => q * Slots + Slots <= p * Slots
  <2>1. q < p => (q + 1) * Slots <= p * Slots
    BY <1>1
  <2>2. (q + 1) * Slots = q * Slots + Slots
    BY <1>1
  <2> QED BY <2>1, <2>2
<1>8. ~ (p < q) /\ ~ (q < p)
  <2>1. p * Slots \in Nat /\ q * Slots \in Nat
    BY <1>1
  <2> QED BY <1>1, <1>5, <1>6, <1>7, <2>1
<1>9. p = q
  BY <1>8
<1> QED BY <1>2, <1>3, <1>9

\* The samples that are, or are about to be, in the ring: those of the last round.
Latest(o) == {j \in DOMAIN taken[o] : Len(taken[o]) < j + Slots}

\* Each of them is in its slot or being stored, unless the slot's is a late one.
RingOK ==
  /\ taken \in [Object -> Seq(Nat)]
  /\ next = [o \in Object |-> Len(taken[o])]
  /\ ring \in [Object -> [0 .. Slots - 1 -> Nat]]
  /\ storing \in [Object -> SUBSET [at : Nat, us : Nat]]
  /\ late \in [Object -> SUBSET (0 .. Slots - 1)]
  /\ \A o \in Object : \A w \in storing[o] :
       w.at + 1 \in DOMAIN taken[o] /\ w.us = taken[o][w.at + 1]
  /\ \A o \in Object, k \in 0 .. Slots - 1 : next[o] <= k => ring[o][k] = 0
  /\ \A o \in Object : \A j \in Latest(o) :
       Slot(j - 1) \notin late[o] =>
         \/ ring[o][Slot(j - 1)] = taken[o][j]
         \/ \E w \in storing[o] : w.at = j - 1

\* No sample was taken yet.
LEMMA NothingTaken ==
  ASSUME ring = NoSamples, next = [o \in Object |-> 0], storing = [o \in Object |-> {}],
         taken = [o \in Object |-> <<>>], late = [o \in Object |-> {}]
  PROVE  RingOK
<1>1. Slots \in Nat \ {0}
  BY DashboardAssumption
<1>2. ring \in [Object -> [0 .. Slots - 1 -> Nat]] /\ \A o \in Object, k \in 0 .. Slots - 1 : ring[o][k] = 0
  BY DEF NoSamples
<1>3. \A o \in Object : Latest(o) = {}
  BY DEF Latest
<1> QED BY <1>2, <1>3 DEF RingOK

LEMMA TakeSlotStep ==
  ASSUME RingOK, NEW o \in Object, NEW us \in Sample, TakeSlot(o, us)
  PROVE  RingOK'
<1>1. Slots \in Nat \ {0} /\ us \in Nat
  BY DashboardAssumption
<1> DEFINE w == [at |-> next[o], us |-> us]
           n == Len(taken[o])
<1>2. /\ storing' = [storing EXCEPT ![o] = @ \cup {w}]
      /\ next' = [next EXCEPT ![o] = @ + 1]
      /\ taken' = [taken EXCEPT ![o] = Append(@, us)]
      /\ UNCHANGED <<ring, late>>
  BY DEF TakeSlot
<1>3. n \in Nat /\ next[o] = n /\ taken[o] \in Seq(Nat)
  BY DEF RingOK
<1>4. /\ Append(taken[o], us) \in Seq(Nat) /\ Len(Append(taken[o], us)) = n + 1
      /\ DOMAIN Append(taken[o], us) = 1 .. n + 1 /\ DOMAIN taken[o] = 1 .. n
      /\ \A j \in 1 .. n : Append(taken[o], us)[j] = taken[o][j]
      /\ Append(taken[o], us)[n + 1] = us
  BY <1>1, <1>3
<1>5. /\ taken' \in [Object -> Seq(Nat)] /\ storing' \in [Object -> SUBSET [at : Nat, us : Nat]]
      /\ next' = [x \in Object |-> Len(taken'[x])]
  <2>1. taken' \in [Object -> Seq(Nat)]
    BY <1>2, <1>4 DEF RingOK
  <2>2. storing' \in [Object -> SUBSET [at : Nat, us : Nat]]
    <3>1. w \in [at : Nat, us : Nat]
      BY <1>1, <1>3
    <3> HIDE DEF w
    <3> QED BY <1>2, <3>1 DEF RingOK
  <2>3. \A x \in Object : next[x] = Len(taken[x])
    BY DEF RingOK
  <2>4. \A x \in Object : next'[x] = Len(taken'[x])
    BY <1>2, <1>3, <1>4, <2>3 DEF RingOK
  <2>5. next' = [x \in Object |-> next'[x]]
    BY <1>2 DEF RingOK
  <2> QED BY <2>1, <2>2, <2>4, <2>5
<1>6. ASSUME NEW x \in Object, x # o
      PROVE  /\ taken'[x] = taken[x] /\ next'[x] = next[x] /\ storing'[x] = storing[x]
             /\ Latest(x)' = Latest(x)
  BY <1>2, <1>6 DEF RingOK, Latest
<1>7. /\ taken'[o] = Append(taken[o], us) /\ next'[o] = n + 1 /\ storing'[o] = storing[o] \cup {w}
  BY <1>2, <1>3 DEF RingOK
<1>8. \A x \in Object : \A v \in storing'[x] :
        v.at + 1 \in DOMAIN taken'[x] /\ v.us = taken'[x][v.at + 1]
  <2>1. ASSUME NEW v \in storing[o]
        PROVE  v.at + 1 \in DOMAIN taken'[o] /\ v.us = taken'[o][v.at + 1]
    <3>1. v.at + 1 \in 1 .. n /\ v.us = taken[o][v.at + 1]
      BY <1>4 DEF RingOK
    <3> QED BY <1>4, <1>7, <3>1
  <2>2. w.at + 1 = n + 1 /\ w.us = us
    BY <1>3
  <2>3. w.at + 1 \in DOMAIN taken'[o] /\ w.us = taken'[o][w.at + 1]
    BY <1>3, <1>4, <1>7, <2>2
  <2> HIDE DEF w
  <2>4. ASSUME NEW x \in Object, NEW v \in storing'[x]
        PROVE  v.at + 1 \in DOMAIN taken'[x] /\ v.us = taken'[x][v.at + 1]
    <3>1. CASE x # o
      <4>1. v \in storing[x] /\ taken'[x] = taken[x]
        BY <1>6, <2>4, <3>1
      <4> QED BY <4>1 DEF RingOK
    <3>2. CASE x = o
      BY <1>7, <2>1, <2>3, <2>4, <3>2
    <3> QED BY <3>1, <3>2
  <2> QED BY <2>4
<1>9. \A x \in Object, k \in 0 .. Slots - 1 : next'[x] <= k => ring'[x][k] = 0
  <2> SUFFICES ASSUME NEW x \in Object, NEW k \in 0 .. Slots - 1, next'[x] <= k
               PROVE  ring[x][k] = 0
    BY <1>2
  <2>1. next[x] <= k
    BY <1>1, <1>3, <1>6, <1>7
  <2> QED BY <2>1 DEF RingOK
<1>10. ASSUME NEW x \in Object, NEW j \in Latest(x)', Slot(j - 1) \notin late'[x]
       PROVE  \/ ring'[x][Slot(j - 1)] = taken'[x][j]
              \/ \E v \in storing'[x] : v.at = j - 1
  <2>1. CASE x # o
    <3>1. /\ Slot(j - 1) \notin late[x] /\ j \in Latest(x) /\ taken'[x] = taken[x] /\ storing'[x] = storing[x]
          /\ ring' = ring
      BY <1>2, <1>6, <1>10, <2>1
    <3>2. \/ ring[x][Slot(j - 1)] = taken[x][j]
          \/ \E v \in storing[x] : v.at = j - 1
      BY <3>1 DEF RingOK
    <3> QED BY <3>1, <3>2
  <2>2. CASE x = o
    <3>1. j \in 1 .. n + 1 /\ n + 1 < j + Slots
      BY <1>4, <1>7, <2>2 DEF Latest
    <3>2. CASE j = n + 1
      <4>1. w.at = j - 1
        BY <1>3, <3>2
      <4> HIDE DEF w
      <4> QED BY <1>7, <2>2, <4>1
    <3>3. CASE j # n + 1
      <4>1. j \in Latest(o) /\ j \in 1 .. n
        BY <1>1, <1>3, <1>4, <3>1, <3>3 DEF Latest
      <4>2. Slot(j - 1) \notin late[o]
        BY <1>2, <1>10, <2>2
      <4>3. \/ ring[o][Slot(j - 1)] = taken[o][j]
            \/ \E v \in storing[o] : v.at = j - 1
        BY <4>1, <4>2 DEF RingOK
      <4> QED BY <1>2, <1>4, <1>7, <2>2, <4>1, <4>3
    <3> QED BY <3>2, <3>3
  <2> QED BY <2>1, <2>2
<1> HIDE DEF w, n
<1> QED BY <1>2, <1>5, <1>8, <1>9, <1>10 DEF RingOK

LEMMA StoreSampleStep ==
  ASSUME RingOK, NEW o \in Object, StoreSample(o)
  PROVE  RingOK'
<1>1. Slots \in Nat \ {0}
  BY DashboardAssumption
<1>2. PICK w \in storing[o] :
        /\ ring' = [ring EXCEPT ![o][w.at % Slots] = w.us]
        /\ storing' = [storing EXCEPT ![o] = @ \ {w}]
        /\ late' = [late EXCEPT ![o] = IF w.at + Slots < next[o] THEN @ \cup {w.at % Slots}
                                      ELSE @ \ {w.at % Slots}]
        /\ UNCHANGED <<next, taken>>
  BY DEF StoreSample
<1> DEFINE n == Len(taken[o])
           s == Slot(w.at)
<1>3. /\ n \in Nat /\ next[o] = n /\ taken[o] \in Seq(Nat) /\ DOMAIN taken[o] = 1 .. n
      /\ w.at \in Nat /\ w.us \in Nat /\ w.at + 1 \in 1 .. n /\ w.us = taken[o][w.at + 1]
      /\ w = [at |-> w.at, us |-> w.us]
  BY DEF RingOK
<1>4. s \in 0 .. Slots - 1
  BY <1>3, SlotType
<1>5. /\ ring' \in [Object -> [0 .. Slots - 1 -> Nat]] /\ ring'[o][s] = w.us
      /\ \A k \in 0 .. Slots - 1 : k # s => ring'[o][k] = ring[o][k]
      /\ \A x \in Object : x # o => ring'[x] = ring[x]
  <2>1. ring' = [ring EXCEPT ![o] = [ring[o] EXCEPT ![s] = w.us]]
    BY <1>2 DEF Slot
  <2> HIDE DEF s
  <2>2. ring \in [Object -> [0 .. Slots - 1 -> Nat]]
    BY DEF RingOK
  <2> QED BY <1>3, <1>4, <2>1, <2>2
<1>6. /\ storing' \in [Object -> SUBSET [at : Nat, us : Nat]]
      /\ \A x \in Object : storing'[x] \subseteq storing[x]
      /\ storing'[o] = storing[o] \ {w}
      /\ \A x \in Object : x # o => storing'[x] = storing[x] /\ late'[x] = late[x]
  BY <1>2 DEF RingOK
<1>b. /\ late' \in [Object -> SUBSET (0 .. Slots - 1)]
      /\ w.at + Slots < n => late'[o] = late[o] \cup {s}
      /\ ~ (w.at + Slots < n) => late'[o] = late[o] \ {s}
  <2>1. late' = [late EXCEPT ![o] = IF w.at + Slots < n THEN late[o] \cup {s}
                                    ELSE late[o] \ {s}]
    BY <1>2, <1>3 DEF Slot
  <2> HIDE DEF s
  <2> QED BY <1>4, <2>1 DEF RingOK
<1>7. \A x \in Object : Latest(x)' = Latest(x)
  BY <1>2 DEF Latest
<1>8. \A x \in Object, k \in 0 .. Slots - 1 : next'[x] <= k => ring'[x][k] = 0
  <2> SUFFICES ASSUME NEW x \in Object, NEW k \in 0 .. Slots - 1, next[x] <= k
               PROVE  ring'[x][k] = 0
    BY <1>2
  <2>1. ring[x][k] = 0
    BY DEF RingOK
  <2>2. x = o => k # s
    <3> SUFFICES ASSUME x = o PROVE k # s
      OBVIOUS
    <3>0. PICK a : a = w.at
      OBVIOUS
    <3>1. w.at < k /\ w.at < Slots
      <4>1. a \in Nat /\ a + 1 <= n /\ n <= k /\ n \in Nat
        BY <1>3, <3>0
      <4>2. a < k /\ a < Slots
        BY ONLY <1>1, <4>1, k \in 0 .. Slots - 1
      <4> QED BY <3>0, <4>2
    <3>2. s = w.at
      BY <1>3, <3>1, FirstRound
    <3> QED BY <1>3, <3>1, <3>2
  <2> QED BY <1>5, <2>1, <2>2
<1>9. ASSUME NEW x \in Object, NEW j \in Latest(x), Slot(j - 1) \notin late'[x]
      PROVE  \/ ring'[x][Slot(j - 1)] = taken[x][j]
             \/ \E v \in storing'[x] : v.at = j - 1
  <2>1. CASE x # o
    <3>1. Slot(j - 1) \notin late[x] /\ ring'[x] = ring[x] /\ storing'[x] = storing[x]
      BY <1>5, <1>6, <1>9, <2>1
    <3>2. \/ ring[x][Slot(j - 1)] = taken[x][j]
          \/ \E v \in storing[x] : v.at = j - 1
      BY <1>9, <3>1 DEF RingOK
    <3> QED BY <3>1, <3>2
  <2>2. CASE x = o
    <3>1. j \in 1 .. n /\ n < j + Slots /\ j - 1 \in Nat
      <4>1. j \in DOMAIN taken[o] /\ n < j + Slots
        BY <2>2 DEF Latest
      <4>2. j \in 1 .. n /\ n \in Nat
        BY <1>3, <4>1
      <4> HIDE DEF n
      <4> QED BY ONLY <4>1, <4>2
    <3>4. Slot(j - 1) \in 0 .. Slots - 1
      BY <3>1, SlotType
    <3>5. CASE j - 1 = w.at
      <4>1. j = w.at + 1
        BY <1>3, <3>1, <3>5
      <4> QED BY <1>3, <1>5, <2>2, <3>5, <4>1
    <3>6. CASE j - 1 # w.at
      <4>1. Slot(j - 1) # s
        <5> SUFFICES ASSUME Slot(j - 1) = s PROVE FALSE
          OBVIOUS
        <5>0. ~ (w.at + Slots < n)
          BY <1>9, <1>b, <2>2
        <5>1. j - 1 < w.at + Slots /\ w.at < (j - 1) + Slots
          <6>1. PICK a : a = w.at
            OBVIOUS
          <6>2. /\ a \in Nat /\ a + 1 <= n /\ n \in Nat /\ j \in 1 .. n /\ n < j + Slots
                /\ ~ (a + Slots < n)
            BY <1>3, <3>1, <5>0, <6>1
          <6> HIDE DEF n
          <6>3. j - 1 < a + Slots /\ a < (j - 1) + Slots
            BY ONLY <1>1, <6>2
          <6> QED BY <6>1, <6>3
        <5> QED BY <1>3, <3>1, <3>6, <5>1, OneRound
      <4>2. ring'[o][Slot(j - 1)] = ring[o][Slot(j - 1)]
        BY <1>5, <3>4, <4>1
      <4>5. \/ ring[o][Slot(j - 1)] = taken[o][j]
            \/ \E v \in storing[o] : v.at = j - 1
        <5>1. Slot(j - 1) \notin late[o]
          BY <1>9, <1>b, <2>2, <4>1
        <5> QED BY <1>9, <2>2, <5>1 DEF RingOK
      <4>3. \A v \in storing[o] : v.at = j - 1 => v \in storing'[o]
        BY <1>6, <3>6
      <4> QED BY <2>2, <4>2, <4>3, <4>5
    <3> QED BY <3>5, <3>6
  <2> QED BY <2>1, <2>2
<1>10. \A x \in Object : \A v \in storing'[x] :
         v.at + 1 \in DOMAIN taken'[x] /\ v.us = taken'[x][v.at + 1]
  BY <1>2, <1>6 DEF RingOK
<1>11. ASSUME NEW x \in Object, NEW j \in Latest(x)', Slot(j - 1) \notin late'[x]
       PROVE  \/ ring'[x][Slot(j - 1)] = taken'[x][j]
              \/ \E v \in storing'[x] : v.at = j - 1
  BY <1>2, <1>7, <1>9, <1>11
<1>12. /\ taken' \in [Object -> Seq(Nat)] /\ next' = [x \in Object |-> Len(taken'[x])]
  BY <1>2 DEF RingOK
<1> HIDE DEF n, s
<1> QED BY <1>5, <1>6, <1>b, <1>8, <1>10, <1>11, <1>12 DEF RingOK

LEMMA RingNext == RingOK /\ [Next]_vars => RingOK'
<1> SUFFICES ASSUME RingOK, [Next]_vars PROVE RingOK'
  OBVIOUS
<1>1. CASE UNCHANGED <<ring, next, storing, taken, late>>
  BY <1>1 DEF RingOK, Latest
<1>2. ASSUME NEW o \in Sampled, StoreSample(o) \/ \E us \in Sample : TakeSlot(o, us)
      PROVE  RingOK'
  <2>1. o \in Object
    BY DashboardAssumption
  <2> QED BY <1>2, <2>1, StoreSampleStep, TakeSlotStep
<1>3. CASE Restart
  <2>1. /\ ring' = NoSamples /\ next' = [o \in Object |-> 0]
        /\ storing' = [o \in Object |-> {}]
        /\ taken' = [o \in Object |-> <<>>] /\ late' = [o \in Object |-> {}]
    BY <1>3 DEF Restart
  <2>2. Slots \in Nat \ {0} /\ ring' \in [Object -> [0 .. Slots - 1 -> Nat]]
        /\ \A o \in Object, k \in 0 .. Slots - 1 : ring'[o][k] = 0
    BY <2>1, DashboardAssumption DEF NoSamples
  <2>3. \A o \in Object : Latest(o)' = {}
    BY <2>1 DEF Latest
  <2> QED BY <2>1, <2>2, <2>3 DEF RingOK
<1> QED
  BY <1>1, <1>2, <1>3
  DEF Next, vars, daemon, page, history, Tick, Carry, AddBackend, RemoveBackend,
      BeginScan, ScanPool, Respond

\* g takes the places of the samples of s that count to places of t with the
\* same samples, each to one of its own, and leaves out none that counts.
Rearranges(g, s, t) ==
  /\ \A i \in Counted(s) : g[i] \in Counted(t) /\ t[g[i]] = s[i]
  /\ \A i, j \in Counted(s) : g[i] = g[j] => i = j
  /\ \A k \in Counted(t) : \E i \in Counted(s) : g[i] = k

\* The same values, in other places, have the same percentiles.
LEMMA SameSamples ==
  ASSUME NEW s, NEW t, IsFiniteSet(DOMAIN s), NEW g, Rearranges(g, s, t)
  PROVE  /\ Counted(s) = {} <=> Counted(t) = {}
         /\ \A x, q : IsNearestRank(x, t, q) => IsNearestRank(x, s, q)
<1>0. /\ \A i \in Counted(s) : g[i] \in Counted(t) /\ t[g[i]] = s[i]
      /\ \A i, j \in Counted(s) : g[i] = g[j] => i = j
      /\ \A k \in Counted(t) : \E i \in Counted(s) : g[i] = k
  BY DEF Rearranges
<1>1. IsFiniteSet(Counted(s))
  BY FS_Subset DEF Counted
<1>2. Cardinality(Counted(t)) = Cardinality(Counted(s))
  BY <1>0, <1>1, AsMany
<1> SUFFICES ASSUME NEW x, NEW q, IsNearestRank(x, t, q) PROVE IsNearestRank(x, s, q)
  BY <1>0
<1>3. Cardinality({k \in Counted(t) : t[k] <= x}) = Cardinality({i \in Counted(s) : s[i] <= x})
  <2> DEFINE A == {i \in Counted(s) : s[i] <= x}
             B == {k \in Counted(t) : t[k] <= x}
  <2>1. IsFiniteSet(A) /\ (\A a \in A : g[a] \in B) /\ \A a, b \in A : g[a] = g[b] => a = b
    BY <1>0, <1>1, FS_Subset
  <2>2. \A k \in B : \E a \in A : g[a] = k
    BY <1>0
  <2> HIDE DEF A, B
  <2>3. Cardinality(B) = Cardinality(A)
    BY <2>1, <2>2, AsMany
  <2> QED BY <2>3 DEF A, B
<1>4. Cardinality({k \in Counted(t) : t[k] < x}) = Cardinality({i \in Counted(s) : s[i] < x})
  <2> DEFINE A == {i \in Counted(s) : s[i] < x}
             B == {k \in Counted(t) : t[k] < x}
  <2>1. IsFiniteSet(A) /\ (\A a \in A : g[a] \in B) /\ \A a, b \in A : g[a] = g[b] => a = b
    BY <1>0, <1>1, FS_Subset
  <2>2. \A k \in B : \E a \in A : g[a] = k
    BY <1>0
  <2> HIDE DEF A, B
  <2>3. Cardinality(B) = Cardinality(A)
    BY <2>1, <2>2, AsMany
  <2> QED BY <2>3 DEF A, B
<1>5. \E i \in Counted(s) : s[i] = x
  BY <1>0 DEF IsNearestRank
<1> QED BY <1>2, <1>3, <1>4, <1>5 DEF IsNearestRank

\* g takes each place of the sequence last to a place of t, a ring of samples,
\* with the same sample, and every sample of t that counts is one of these.
Matches(g, last, t) ==
  /\ IsFiniteSet(DOMAIN last) /\ DOMAIN t = 1 .. Slots
  /\ \A k \in 1 .. Slots : t[k] \in Nat
  /\ \A i \in DOMAIN last : g[i] \in 1 .. Slots /\ t[g[i]] = last[i]
  /\ \A i, j \in DOMAIN last : g[i] = g[j] => i = j
  /\ \A k \in 1 .. Slots : t[k] > 0 => \E i \in DOMAIN last : g[i] = k

\* When nothing is being stored and no sample is a late one, the ring holds the
\* samples of the last round, each in its slot, and nothing else that counts.
LEMMA RingHoldsLatest ==
  ASSUME RingOK, NEW o \in Object, storing[o] = {}, late[o] = {},
         NEW n, n = Len(taken[o]), NEW first, first = Less(n, Slots),
         NEW last, last = SubSeq(taken[o], 1 + first, n)
  PROVE  \E g : Matches(g, last, Samples(o))
<1>1. Slots \in Nat \ {0}
  BY DashboardAssumption
<1>2. n \in Nat /\ taken[o] \in Seq(Nat) /\ DOMAIN taken[o] = 1 .. n /\ next[o] = n
  BY DEF RingOK
<1>3. PICK d : d = n - first
  OBVIOUS
<1>a. /\ first \in Nat /\ d \in Nat /\ d <= Slots /\ n = first + d
      /\ (n < Slots => first = 0) /\ (~ (n < Slots) => d = Slots)
  BY <1>1, <1>2, <1>3 DEF Less
<1>4. /\ DOMAIN last = 1 .. d
      /\ \A i \in 1 .. d : last[i] = taken[o][i + first]
  <2>1. 1 + first \in Int /\ n \in Int /\ n - (1 + first) + 1 = d
        /\ (1 + first <= n => n - (1 + first) + 1 = d) /\ (~ (1 + first <= n) => d = 0)
    BY ONLY <1>a, <1>2
  <2>2. \A i \in 1 + first .. n : taken[o][i] \in Nat
    <3>1. \A i \in 1 + first .. n : i \in 1 .. n
      BY ONLY <1>a, <1>2
    <3> QED BY <1>2, <3>1
  <2>3. /\ last \in Seq(Nat) /\ Len(last) = IF 1 + first <= n THEN n - (1 + first) + 1 ELSE 0
        /\ \A i \in 1 .. n - (1 + first) + 1 : last[i] = taken[o][1 + first + i - 1]
    BY <2>1, <2>2, SubSeqProperties
  <2>4. Len(last) = d
    BY <2>1, <2>3
  <2>5. \A i \in 1 .. d : 1 + first + i - 1 = i + first
    BY <1>a
  <2>6. DOMAIN last = 1 .. d
    BY <2>3, <2>4
  <2>7. \A i \in 1 .. d : last[i] = taken[o][1 + first + i - 1]
    BY <2>1, <2>3
  <2>8. ASSUME NEW i \in 1 .. d PROVE last[i] = taken[o][i + first]
    <3>1. PICK k : k = i + first
      OBVIOUS
    <3>2. 1 + first + i - 1 = k
      BY <2>5, <3>1
    <3>3. last[i] = taken[o][k]
      BY <2>7, <3>2
    <3> QED BY <3>1, <3>3
  <2> QED BY <2>6, <2>8
<1>5. IsFiniteSet(1 .. d) /\ Cardinality(1 .. d) = d
  <2>1. 1 \in Int /\ d \in Int
    BY <1>a
  <2>2. IsFiniteSet(1 .. d) /\ Cardinality(1 .. d) = IF 1 > d THEN 0 ELSE d - 1 + 1
    BY <2>1, FS_Interval
  <2>3. Cardinality(1 .. d) = d
    BY <1>a, <2>2
  <2> QED BY <2>2, <2>3
\* The number of the sample at place i.
<1> DEFINE number(i) == i + first - 1
           D == 1 .. d
           g == [i \in D |-> Slot(number(i)) + 1]
<1>6. \A i \in D : /\ i \in Nat /\ i + first \in 1 .. n /\ n < i + first + Slots
                   /\ number(i) \in Nat /\ number(i) = i + first - 1
  BY ONLY <1>1, <1>2, <1>a
<1>b. \A i, j \in D : number(i) < number(j) + Slots /\ (number(i) = number(j) => i = j)
  BY ONLY <1>1, <1>a
<1>c. \A i \in D : i + first \in Latest(o)
  BY <1>2, <1>6 DEF Latest
<1>7. /\ DOMAIN Samples(o) = 1 .. Slots
      /\ \A k \in 1 .. Slots : k - 1 \in 0 .. Slots - 1 /\ Samples(o)[k] = ring[o][k - 1]
      /\ \A k \in 0 .. Slots - 1 : ring[o][k] \in Nat
  <2>1. Samples(o) = [k \in 1 .. Slots |-> ring[o][k - 1]]
    BY DEF Samples
  <2>2. \A k \in 1 .. Slots : k - 1 \in 0 .. Slots - 1
    BY <1>1
  <2>3. \A k \in 0 .. Slots - 1 : ring[o][k] \in Nat
    BY DEF RingOK
  <2> QED BY <2>1, <2>2, <2>3
<1> HIDE DEF number
<1>8. ASSUME NEW i \in D
      PROVE  g[i] \in 1 .. Slots /\ Samples(o)[g[i]] = last[i] /\ g[i] = Slot(number(i)) + 1
  <2>1. PICK s : s = Slot(number(i))
    OBVIOUS
  <2>2. s \in 0 .. Slots - 1
    BY <1>6, <2>1, SlotType
  <2>3. g[i] = s + 1
    BY <2>1
  <2>4. s + 1 \in 1 .. Slots /\ s + 1 - 1 = s
    BY <1>1, <2>2
  <2>5. ring[o][s] = taken[o][i + first]
    <3>1. ring[o][Slot((i + first) - 1)] = taken[o][i + first]
      BY <1>c DEF RingOK
    <3>2. i \in D
      OBVIOUS
    <3>3. number(i) = (i + first) - 1
      BY ONLY <1>6, <1>a, <3>2
    <3> QED BY <2>1, <3>1, <3>3
  <2>6. Samples(o)[s + 1] = ring[o][s]
    <3>1. PICK k : k = s + 1
      OBVIOUS
    <3>2. k \in 1 .. Slots /\ k - 1 = s
      BY ONLY <1>1, <2>2, <3>1
    <3>3. Samples(o)[k] = ring[o][k - 1]
      BY <1>7, <3>2
    <3> QED BY <3>1, <3>2, <3>3
  <2> HIDE DEF g
  <2> QED BY <1>4, <2>1, <2>3, <2>4, <2>5, <2>6
<1> HIDE DEF g
<1>9. ASSUME NEW i \in D, NEW j \in D, g[i] = g[j]
      PROVE  i = j
  <2>1. number(i) \in Nat /\ number(j) \in Nat
    BY <1>6
  <2>2. Slot(number(i)) \in Nat /\ Slot(number(j)) \in Nat
    BY <2>1, SlotType
  <2>3. Slot(number(i)) = Slot(number(j))
    <3>1. Slot(number(i)) + 1 = Slot(number(j)) + 1
      BY <1>8, <1>9
    <3> QED BY <2>2, <3>1
  <2>4. number(i) = number(j)
    BY <1>b, <2>1, <2>3, OneRound
  <2> QED BY <1>b, <2>4
<1>10. ASSUME NEW k \in 1 .. Slots, Samples(o)[k] > 0
       PROVE  \E i \in D : g[i] = k
  <2>1. CASE n < Slots
    <3>1. ~ (n <= k - 1)
      <4>1. k - 1 \in 0 .. Slots - 1 /\ ring[o][k - 1] \in Nat /\ ring[o][k - 1] > 0
        BY <1>7, <1>10
      <4>2. n <= k - 1 => ring[o][k - 1] = 0
        BY <1>2, <4>1 DEF RingOK
      <4> QED BY <4>1, <4>2
    <3>2. /\ k \in D /\ number(k) = k - 1 /\ k - 1 \in Nat
          /\ k - 1 < Slots /\ (k - 1) + 1 = k
      <4>1. k \in 1 .. Slots /\ first = 0 /\ n = d /\ d \in Nat
        BY <1>a, <1>2, <2>1
      <4>2. /\ k \in 1 .. d /\ k - 1 \in Nat /\ k - 1 < Slots
            /\ k + 0 - 1 = k - 1 /\ (k - 1) + 1 = k
        BY ONLY <1>1, <3>1, <4>1
      <4> QED BY <4>1, <4>2 DEF number
    <3>3. Slot(number(k)) = k - 1
      BY <3>2, FirstRound
    <3>4. g[k] = k
      BY <1>8, <3>2, <3>3
    <3> QED BY <3>2, <3>4
  <2>2. CASE ~ (n < Slots)
    <3>1. g \in Injection(D, 1 .. Slots)
      <4>1. g \in [D -> 1 .. Slots]
        <5>1. \A i \in D : g[i] \in 1 .. Slots
          BY <1>8
        <5>2. g = [i \in D |-> g[i]]
          BY DEF g
        <5> QED BY <5>1, <5>2
      <4> QED BY <1>9, <4>1, Fun_IsInj
    <3>2. d = Slots
      BY <1>a, <2>2
    <3>3. IsFiniteSet(1 .. Slots) /\ Cardinality(D) = Cardinality(1 .. Slots)
      BY <1>5, <3>2
    <3>4. g \in Surjection(D, 1 .. Slots)
      BY <3>1, <3>3, FS_Injection
    <3> QED BY <3>4 DEF Surjection
  <2> QED BY <2>1, <2>2
<1>11. \A k \in 1 .. Slots : Samples(o)[k] \in Nat
  BY <1>7
<1>12. DOMAIN last = D /\ IsFiniteSet(D)
  BY <1>4, <1>5
<1> HIDE DEF D
<1>13. Matches(g, last, Samples(o))
  BY <1>7, <1>8, <1>9, <1>10, <1>11, <1>12 DEF Matches
<1> QED BY <1>13

\* What a backend reports as its median and 95th percentile is the nearest-rank
\* percentile of the last samples taken of it, for a ring of any size, however
\* many tasks store samples at a time and in whatever order they do (lib.rs,
\* record_latency_us and latency_percentiles_us).
THEOREM PercentilesAreExact == Spec => []PercentileIsNearestRank
<1>1. Init => RingOK
  BY NothingTaken DEF Init
<1>2. RingOK => PercentileIsNearestRank
  <2> SUFFICES ASSUME RingOK, NEW o \in Object, NEW q \in {50, 95},
                      storing[o] = {}, late[o] = {}
               PROVE  LET n == Len(taken[o])
                          last == SubSeq(taken[o], 1 + Less(n, Slots), n)
                      IN  IF Counted(last) = {} THEN Percentile(Samples(o), q) = None
                          ELSE IsNearestRank(Percentile(Samples(o), q), last, q)
    BY DEF PercentileIsNearestRank
  <2>0. PICK n, first, last, t :
          /\ n = Len(taken[o]) /\ first = Less(n, Slots)
          /\ last = SubSeq(taken[o], 1 + first, n) /\ t = Samples(o)
    OBVIOUS
  <2>a. PICK g : Matches(g, last, t)
    BY <2>0, RingHoldsLatest
  <2>1. /\ IsFiniteSet(DOMAIN last) /\ DOMAIN t = 1 .. Slots
        /\ \A k \in 1 .. Slots : t[k] \in Nat
        /\ \A i \in DOMAIN last : g[i] \in 1 .. Slots /\ t[g[i]] = last[i]
        /\ \A i, j \in DOMAIN last : g[i] = g[j] => i = j
        /\ \A k \in 1 .. Slots : t[k] > 0 => \E i \in DOMAIN last : g[i] = k
    BY <2>a DEF Matches
  <2>2. IsFiniteSet(DOMAIN t)
    <3>1. 1 \in Int /\ Slots \in Int
      BY DashboardAssumption
    <3>2. IsFiniteSet(1 .. Slots)
      BY <3>1, FS_Interval
    <3> QED BY <2>1, <3>2
  <2>3. q \in 1 .. 100
    OBVIOUS
  <2>4. IF Counted(t) = {} THEN Percentile(t, q) = None
        ELSE IsNearestRank(Percentile(t, q), t, q)
    BY <2>1, <2>2, <2>3, PercentileIsRight
  <2>5. /\ Counted(last) = {} <=> Counted(t) = {}
        /\ \A x : IsNearestRank(x, t, q) => IsNearestRank(x, last, q)
    <3>1. \A i \in Counted(last) : g[i] \in Counted(t) /\ t[g[i]] = last[i]
      BY <2>1 DEF Counted
    <3>2. \A i, j \in Counted(last) : g[i] = g[j] => i = j
      BY <2>1 DEF Counted
    <3>3. \A k \in Counted(t) : \E i \in Counted(last) : g[i] = k
      BY <2>1 DEF Counted
    <3>4. Rearranges(g, last, t)
      BY <3>1, <3>2, <3>3 DEF Rearranges
    <3> QED BY <2>1, <3>4, SameSamples
  <2>6. IF Counted(last) = {} THEN Percentile(t, q) = None
        ELSE IsNearestRank(Percentile(t, q), last, q)
    BY <2>4, <2>5
  <2> QED BY <2>0, <2>6
<1> QED BY <1>1, <1>2, RingNext, PTL DEF Spec
=============================================================================
