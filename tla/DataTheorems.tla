------------------------------- MODULE DataTheorems -------------------------------
(*****************************************************************************)
(* Sums over finite sets, of any functions: that the recursion they are      *)
(* defined by has one value, found by induction over the subsets of the set, *)
(* and what changes, additions and injections do to it. With them the        *)
(* arithmetic of products and quotients the proofs share, and least members. *)
(* Then the members of a sequence that are in a set, by the recursion that   *)
(* picks them, and the places and counts of members.                         *)
(*****************************************************************************)
EXTENDS Sums, Filters, FiniteSetTheorems, SequenceTheorems, TLAPS

-----------------------------------------------------------------------------

\* The member a sum takes next.
Pick(T) == CHOOSE x \in T : TRUE

\* g is the recursion by which f is summed over the subsets of S.
Adds(g, f, S) ==
  g = [T \in SUBSET S |-> IF T = {} THEN 0 ELSE f[Pick(T)] + g[T \ {Pick(T)}]]

\* A sum is what its recursion gives for the whole set.
LEMMA SumIsIter ==
  ASSUME NEW f, NEW S
  PROVE  SumOf(f, S) = (CHOOSE g : Adds(g, f, S))[S]
BY DEF SumOf, FoldFunctionOnSet, MapThenFoldSet, Adds, Pick

\* What holds of a set whenever it holds of its smaller subsets holds of any finite set.
LEMMA SetInduction ==
  ASSUME NEW S, IsFiniteSet(S), NEW Good \in SUBSET SUBSET S,
         \A T \in SUBSET S : (\A U \in SUBSET T : U # T => U \in Good) => T \in Good
  PROVE  S \in Good
<1> DEFINE Bad == (SUBSET S) \ Good
<1> SUFFICES ASSUME S \notin Good PROVE FALSE
  OBVIOUS
<1>1. IsWellFoundedOn(StrictSubsetOrdering(S), SUBSET S)
  <2>1. IsWellFoundedOn(StrictSubsetOrdering(S), FiniteSubsetsOf(S))
    BY FS_StrictSubsetOrderingWellFounded
  <2>2. FiniteSubsetsOf(S) = SUBSET S
    BY FS_FiniteSubsetsOfFinite
  <2>. QED
    BY <2>1, <2>2
<1>2. Bad \subseteq SUBSET S /\ Bad # {}
  OBVIOUS
<1>3. PICK T \in Bad : \A U \in Bad : ~ (<<U, T>> \in StrictSubsetOrdering(S))
  <2> HIDE DEF Bad
  <2>. QED BY <1>1, <1>2, WFMin
<1>4. \A U \in SUBSET T : U # T => U \in Good
  BY <1>3 DEF StrictSubsetOrdering
<1>. QED
  BY <1>3, <1>4

-----------------------------------------------------------------------------
\* Two solutions of the sum's recursion agree where both are defined.
LEMMA AddsAgree ==
  ASSUME NEW f, NEW S, NEW R, NEW g, NEW h, Adds(g, f, S), Adds(h, f, R),
         NEW T, T \subseteq S, T \subseteq R, IsFiniteSet(T)
  PROVE  g[T] = h[T]
<1> DEFINE Good == {U \in SUBSET T : g[U] = h[U]}
<1>1. ASSUME NEW U \in SUBSET T, \A V \in SUBSET U : V # U => V \in Good
      PROVE  U \in Good
  <2>1. CASE U = {}
    BY <2>1 DEF Adds
  <2>2. CASE U # {}
    <3>1. Pick(U) \in U
      BY <2>2 DEF Pick
    <3>2. g[U \ {Pick(U)}] = h[U \ {Pick(U)}]
      BY <1>1, <3>1
    <3>3. g[U] = f[Pick(U)] + g[U \ {Pick(U)}]
      BY <2>2 DEF Adds
    <3>4. h[U] = f[Pick(U)] + h[U \ {Pick(U)}]
      BY <2>2 DEF Adds
    <3>. QED
      BY <3>2, <3>3, <3>4
  <2>. QED
    BY <2>1, <2>2
<1>2. T \in Good
  <2> HIDE DEF Good
  <2>1. Good \in SUBSET SUBSET T
    BY DEF Good
  <2>. QED
    BY <1>1, <2>1, SetInduction
<1>. QED
  BY <1>2

\* There is a solution for every finite set.
LEMMA AddsExists ==
  ASSUME NEW f, NEW S, IsFiniteSet(S)
  PROVE  \E g : Adds(g, f, S)
<1> DEFINE Good == {T \in SUBSET S : \E g : Adds(g, f, T)}
           Part(U) == CHOOSE g : Adds(g, f, U)
<1>1. ASSUME NEW T \in SUBSET S, \A U \in SUBSET T : U # T => U \in Good
      PROVE  T \in Good
  <2> DEFINE G == [U \in SUBSET T |->
                     IF U = {} THEN 0
                     ELSE f[Pick(U)] + Part(U \ {Pick(U)})[U \ {Pick(U)}]]
  <2>1. ASSUME NEW U \in SUBSET T, U # T PROVE Adds(Part(U), f, U)
    BY <1>1, <2>1
  <2>2. ASSUME NEW V \in SUBSET T, V # T PROVE G[V] = Part(V)[V]
    <3>1. Adds(Part(V), f, V)
      BY <2>1, <2>2
    <3>2. CASE V = {}
      BY <3>1, <3>2 DEF Adds
    <3>3. CASE V # {}
      <4> DEFINE W == V \ {Pick(V)}
      <4>1. Pick(V) \in V
        BY <3>3 DEF Pick
      <4>2. W \in SUBSET T /\ W # T /\ W \subseteq V
        BY <4>1
      <4>3. Adds(Part(W), f, W)
        BY <2>1, <4>2
      <4>4. IsFiniteSet(W)
        BY FS_Subset
      <4>5. Part(V)[W] = Part(W)[W]
        <5> HIDE DEF W, Part
        <5>. QED
          BY <3>1, <4>2, <4>3, <4>4, AddsAgree
      <4>6. Part(V)[V] = f[Pick(V)] + Part(V)[W]
        <5> HIDE DEF Part
        <5>. QED
          BY <3>1, <3>3 DEF Adds
      <4>7. G[V] = f[Pick(V)] + Part(W)[W]
        <5> HIDE DEF Part
        <5>. QED
          BY <3>3
      <4>. QED
        BY <4>5, <4>6, <4>7
    <3>. QED
      BY <3>2, <3>3
  <2>3. ASSUME NEW U \in SUBSET T, U # {}
        PROVE  Part(U \ {Pick(U)})[U \ {Pick(U)}] = G[U \ {Pick(U)}]
    <3> DEFINE V == U \ {Pick(U)}
    <3>1. Pick(U) \in U
      BY <2>3 DEF Pick
    <3>2. V \in SUBSET T /\ V # T
      BY <3>1
    <3> HIDE DEF G, Part, V
    <3>3. Part(V)[V] = G[V]
      BY <2>2, <3>2
    <3>. QED
      BY <3>3 DEF V
  <2>4. Adds(G, f, T)
    <3>1. G = [U \in SUBSET T |-> IF U = {} THEN 0 ELSE f[Pick(U)] + G[U \ {Pick(U)}]]
      <4>1. \A U \in SUBSET T : G[U] = IF U = {} THEN 0 ELSE f[Pick(U)] + G[U \ {Pick(U)}]
        <5>1. \A U \in SUBSET T : G[U] = IF U = {} THEN 0 ELSE f[Pick(U)] + Part(U \ {Pick(U)})[U \ {Pick(U)}]
          <6> HIDE DEF Part
          <6>. QED
            OBVIOUS
        <5> HIDE DEF G, Part
        <5>. QED
          BY <5>1, <2>3
      <4>2. G = [U \in SUBSET T |-> G[U]]
        OBVIOUS
      <4> HIDE DEF G
      <4>. QED
        BY <4>1, <4>2
    <3> HIDE DEF G
    <3>. QED
      BY <3>1 DEF Adds
  <2> HIDE DEF G
  <2>. QED
    BY <2>4
<1>2. S \in Good
  <2> HIDE DEF Good
  <2>1. Good \in SUBSET SUBSET S
    BY DEF Good
  <2>. QED
    BY <1>1, <2>1, SetInduction
<1>. QED
  BY <1>2

\* The sum is one element's value and the sum over the rest.
LEMMA SumEquation ==
  ASSUME NEW f, NEW S, IsFiniteSet(S)
  PROVE  SumOf(f, S) = IF S = {} THEN 0 ELSE f[Pick(S)] + SumOf(f, S \ {Pick(S)})
<1> DEFINE Part(U) == CHOOSE g : Adds(g, f, U)
           R == S \ {Pick(S)}
<1>1. IsFiniteSet(R)
  BY FS_Subset
<1>2. Adds(Part(S), f, S) /\ Adds(Part(R), f, R)
  <2>1. (\E g : Adds(g, f, S)) /\ (\E g : Adds(g, f, R))
    <3> HIDE DEF R
    <3>. QED
      BY <1>1, AddsExists
  <2>. QED
    BY <2>1
<1>3. SumOf(f, S) = Part(S)[S] /\ SumOf(f, R) = Part(R)[R]
  BY SumIsIter
<1>4. Part(S)[R] = Part(R)[R]
  <2>1. R \subseteq S /\ R \subseteq R
    OBVIOUS
  <2> HIDE DEF Part, R
  <2>. QED
    BY <1>1, <1>2, <2>1, AddsAgree
<1>5. Part(S)[S] = IF S = {} THEN 0 ELSE f[Pick(S)] + Part(S)[R]
  <2> HIDE DEF Part
  <2>. QED
    BY <1>2 DEF Adds
<1> HIDE DEF Part
<1>. QED
  BY <1>3, <1>4, <1>5

-----------------------------------------------------------------------------
\* The sum over nothing, and the type of a sum.
LEMMA SumEmpty == ASSUME NEW f PROVE SumOf(f, {}) = 0
BY SumEquation, FS_EmptySet

\* Int or Nat, as the values are.
LEMMA SumType ==
  ASSUME NEW f, NEW S, IsFiniteSet(S), NEW Numbers \in {Nat, Int}, \A x \in S : f[x] \in Numbers
  PROVE  SumOf(f, S) \in Numbers
<1> DEFINE Good == {T \in SUBSET S : SumOf(f, T) \in Numbers}
<1>1. ASSUME NEW T \in SUBSET S, \A U \in SUBSET T : U # T => U \in Good
      PROVE  T \in Good
  <2>1. IsFiniteSet(T)
    BY FS_Subset
  <2>2. CASE T = {}
    BY <2>2, SumEmpty
  <2>3. CASE T # {}
    <3>1. Pick(T) \in T
      BY <2>3 DEF Pick
    <3>2. SumOf(f, T \ {Pick(T)}) \in Numbers
      BY <1>1, <3>1
    <3>3. SumOf(f, T) = f[Pick(T)] + SumOf(f, T \ {Pick(T)})
      BY <2>1, <2>3, SumEquation
    <3>4. f[Pick(T)] \in Numbers
      BY <3>1
    <3>5. \A a, b \in Numbers : a + b \in Numbers
      OBVIOUS
    <3>6. f[Pick(T)] + SumOf(f, T \ {Pick(T)}) \in Numbers
      BY <3>2, <3>4, <3>5
    <3>. QED
      BY <3>3, <3>6
  <2>. QED
    BY <2>2, <2>3
<1>2. S \in Good
  <2> HIDE DEF Good
  <2>1. Good \in SUBSET SUBSET S
    BY DEF Good
  <2>. QED
    BY <1>1, <2>1, SetInduction
<1>. QED
  BY <1>2

\* A sum of integers is an integer, and one of natural numbers is one.
LEMMA SumInt ==
  ASSUME NEW f, NEW S, IsFiniteSet(S), \A x \in S : f[x] \in Int
  PROVE  SumOf(f, S) \in Int
BY SumType

\* A sum of naturals is a natural.
LEMMA SumNat ==
  ASSUME NEW f, NEW S, IsFiniteSet(S), \A x \in S : f[x] \in Nat
  PROVE  SumOf(f, S) \in Nat
BY SumType

\* Any element can be taken out.
LEMMA SumTake ==
  ASSUME NEW f, NEW S, IsFiniteSet(S), \A x \in S : f[x] \in Int, NEW e \in S
  PROVE  SumOf(f, S) = f[e] + SumOf(f, S \ {e})
<1> DEFINE Good == {T \in SUBSET S : \A x \in T : SumOf(f, T) = f[x] + SumOf(f, T \ {x})}
<1>1. ASSUME NEW T \in SUBSET S, \A U \in SUBSET T : U # T => U \in Good
      PROVE  T \in Good
  <2> SUFFICES ASSUME NEW x \in T PROVE SumOf(f, T) = f[x] + SumOf(f, T \ {x})
    OBVIOUS
  <2> DEFINE p == Pick(T)
             R == (T \ {p}) \ {x}
  <2>1. IsFiniteSet(T) /\ IsFiniteSet(T \ {x}) /\ IsFiniteSet(T \ {p}) /\ IsFiniteSet(R)
    BY FS_Subset
  <2>2. p \in T
    BY DEF Pick
  <2>3. SumOf(f, T) = f[p] + SumOf(f, T \ {p})
    BY <2>1, SumEquation
  <2>4. CASE x = p
    BY <2>3, <2>4
  <2>5. CASE x # p
    <3> HIDE DEF p
    <3>1. T \ {p} \in Good /\ T \ {x} \in Good
      BY <1>1, <2>2
    <3>2. SumOf(f, T \ {p}) = f[x] + SumOf(f, R)
      BY <3>1, <2>5
    <3>3. (T \ {x}) \ {p} = R
      OBVIOUS
    <3>4. SumOf(f, T \ {x}) = f[p] + SumOf(f, R)
      <4>1. SumOf(f, T \ {x}) = f[p] + SumOf(f, (T \ {x}) \ {p})
        BY <3>1, <2>2, <2>5
      <4>. QED
        BY <4>1, <3>3
    <3>5. SumOf(f, R) \in Int
      BY <2>1, SumInt
    <3>6. f[x] \in Int /\ f[p] \in Int
      BY <2>2
    <3> HIDE DEF R, Good
    <3>. QED
      BY <2>3, <3>2, <3>4, <3>5, <3>6
  <2>. QED
    BY <2>4, <2>5
<1>2. S \in Good
  <2> HIDE DEF Good
  <2>1. Good \in SUBSET SUBSET S
    BY DEF Good
  <2>. QED
    BY <1>1, <2>1, SetInduction
<1>. QED
  BY <1>2

\* An element more is its value more.
LEMMA SumAdd ==
  ASSUME NEW f, NEW S, IsFiniteSet(S), NEW e, e \notin S, \A x \in S \cup {e} : f[x] \in Int
  PROVE  SumOf(f, S \cup {e}) = f[e] + SumOf(f, S)
<1>1. IsFiniteSet(S \cup {e}) /\ (S \cup {e}) \ {e} = S
  BY FS_AddElement
<1>2. SumOf(f, S \cup {e}) = f[e] + SumOf(f, (S \cup {e}) \ {e})
  BY <1>1, SumTake
<1>. QED
  BY <1>1, <1>2

\* Only the values on the set matter.
LEMMA SumSame ==
  ASSUME NEW f, NEW g, NEW S, IsFiniteSet(S), \A x \in S : f[x] = g[x]
  PROVE  SumOf(f, S) = SumOf(g, S)
<1> DEFINE Good == {T \in SUBSET S : SumOf(f, T) = SumOf(g, T)}
<1>1. ASSUME NEW T \in SUBSET S, \A U \in SUBSET T : U # T => U \in Good
      PROVE  T \in Good
  <2>1. IsFiniteSet(T)
    BY FS_Subset
  <2>2. CASE T = {}
    BY <2>2, SumEmpty
  <2>3. CASE T # {}
    <3>1. Pick(T) \in T
      BY <2>3 DEF Pick
    <3>2. SumOf(f, T \ {Pick(T)}) = SumOf(g, T \ {Pick(T)})
      BY <1>1, <3>1
    <3>3. /\ SumOf(f, T) = f[Pick(T)] + SumOf(f, T \ {Pick(T)})
          /\ SumOf(g, T) = g[Pick(T)] + SumOf(g, T \ {Pick(T)})
      BY <2>1, <2>3, SumEquation
    <3>. QED
      BY <3>1, <3>2, <3>3
  <2>. QED
    BY <2>2, <2>3
<1>2. S \in Good
  <2> HIDE DEF Good
  <2>1. Good \in SUBSET SUBSET S
    BY DEF Good
  <2>. QED
    BY <1>1, <2>1, SetInduction
<1>. QED
  BY <1>2

\* Zeros add up to zero.
LEMMA SumZero ==
  ASSUME NEW f, NEW S, IsFiniteSet(S), \A x \in S : f[x] = 0
  PROVE  SumOf(f, S) = 0
<1> DEFINE Good == {T \in SUBSET S : SumOf(f, T) = 0}
<1>1. ASSUME NEW T \in SUBSET S, \A U \in SUBSET T : U # T => U \in Good
      PROVE  T \in Good
  <2>1. IsFiniteSet(T)
    BY FS_Subset
  <2>2. CASE T = {}
    BY <2>2, SumEmpty
  <2>3. CASE T # {}
    <3>1. Pick(T) \in T
      BY <2>3 DEF Pick
    <3>2. SumOf(f, T \ {Pick(T)}) = 0
      BY <1>1, <3>1
    <3>3. SumOf(f, T) = f[Pick(T)] + SumOf(f, T \ {Pick(T)})
      BY <2>1, <2>3, SumEquation
    <3> QED BY <3>1, <3>2, <3>3
  <2> QED BY <2>2, <2>3
<1>2. S \in Good
  <2> HIDE DEF Good
  <2>1. Good \in SUBSET SUBSET S
    BY DEF Good
  <2> QED BY <1>1, <2>1, SetInduction
<1> QED BY <1>2

\* A value changed changes the sum by as much.
LEMMA SumChange ==
  ASSUME NEW f, NEW g, NEW S, IsFiniteSet(S), NEW e \in S,
         \A x \in S : f[x] \in Int /\ g[x] \in Int, \A x \in S \ {e} : f[x] = g[x]
  PROVE  SumOf(g, S) = SumOf(f, S) - f[e] + g[e]
<1>1. IsFiniteSet(S \ {e})
  BY FS_Subset
<1>2. SumOf(f, S \ {e}) = SumOf(g, S \ {e})
  BY <1>1, SumSame
<1>3. SumOf(f, S) = f[e] + SumOf(f, S \ {e}) /\ SumOf(g, S) = g[e] + SumOf(g, S \ {e})
  BY SumTake
<1>4. SumOf(f, S \ {e}) \in Int
  BY <1>1, SumInt
<1>. QED
  BY <1>2, <1>3, <1>4

\* Fewer natural numbers add up to no more.
LEMMA SumSubset ==
  ASSUME NEW f, NEW S, IsFiniteSet(S), \A x \in S : f[x] \in Nat, NEW T \in SUBSET S
  PROVE  SumOf(f, T) <= SumOf(f, S)
<1> DEFINE Good == {U \in SUBSET S : SumOf(f, U \cap T) <= SumOf(f, U)}
<1>1. ASSUME NEW U \in SUBSET S, \A V \in SUBSET U : V # U => V \in Good
      PROVE  U \in Good
  <2>1. IsFiniteSet(U) /\ IsFiniteSet(U \cap T)
    BY FS_Subset
  <2>2. CASE U = {}
    <3>1. U \cap T = {}
      BY <2>2
    <3>. QED
      BY <2>2, <3>1, SumEmpty
  <2>3. ASSUME NEW e \in U PROVE U \in Good
    <3> DEFINE R == U \ {e}
    <3>1. IsFiniteSet(R) /\ IsFiniteSet(R \cap T)
      BY <2>1, FS_Subset
    <3>2. SumOf(f, R \cap T) <= SumOf(f, R)
      BY <1>1
    <3>3. SumOf(f, U) = f[e] + SumOf(f, R)
      BY <2>1, SumTake
    <3>4. /\ f[e] \in Nat /\ SumOf(f, R) \in Nat
          /\ SumOf(f, R \cap T) \in Nat
      BY <3>1, SumNat
    <3>5. CASE e \in T
      <4>1. U \cap T = (R \cap T) \cup {e} /\ e \notin R \cap T
        BY <3>5
      <4>2. \A x \in (R \cap T) \cup {e} : f[x] \in Int
        OBVIOUS
      <4> HIDE DEF R
      <4>3. SumOf(f, U \cap T) = f[e] + SumOf(f, R \cap T)
        BY <3>1, <4>1, <4>2, SumAdd
      <4>. QED
        BY <3>2, <3>3, <3>4, <4>3
    <3>6. CASE e \notin T
      <4>1. U \cap T = R \cap T
        BY <3>6
      <4> HIDE DEF R
      <4>. QED
        BY <3>2, <3>3, <3>4, <4>1
    <3>. QED
      BY <3>5, <3>6
  <2>. QED
    BY <2>2, <2>3
<1>2. S \in Good
  <2> HIDE DEF Good
  <2>1. Good \in SUBSET SUBSET S
    BY DEF Good
  <2>. QED
    BY <1>1, <2>1, SetInduction
<1>3. S \cap T = T
  OBVIOUS
<1>. QED
  BY <1>2, <1>3

\* Zeros do not count.
LEMMA SumSupport ==
  ASSUME NEW f, NEW S, IsFiniteSet(S), \A x \in S : f[x] \in Int,
         NEW T \in SUBSET S, \A x \in S \ T : f[x] = 0
  PROVE  SumOf(f, S) = SumOf(f, T)
<1> DEFINE Good == {U \in SUBSET S : SumOf(f, U) = SumOf(f, U \cap T)}
<1>1. ASSUME NEW U \in SUBSET S, \A V \in SUBSET U : V # U => V \in Good
      PROVE  U \in Good
  <2>1. IsFiniteSet(U) /\ IsFiniteSet(U \cap T)
    BY FS_Subset
  <2>2. CASE U = {}
    <3>1. U \cap T = {}
      BY <2>2
    <3> QED BY <2>2, <3>1
  <2>3. ASSUME NEW e \in U PROVE U \in Good
    <3> DEFINE R == U \ {e}
    <3>1. IsFiniteSet(R) /\ IsFiniteSet(R \cap T)
      BY <2>1, FS_Subset
    <3>2. SumOf(f, R) = SumOf(f, R \cap T)
      BY <1>1
    <3>3. SumOf(f, U) = f[e] + SumOf(f, R)
      BY <2>1, SumTake
    <3>4. f[e] \in Int /\ SumOf(f, R) \in Int
      BY <3>1, SumInt
    <3>5. CASE e \in T
      <4>1. U \cap T = (R \cap T) \cup {e} /\ e \notin R \cap T
        BY <3>5
      <4>2. \A x \in (R \cap T) \cup {e} : f[x] \in Int
        OBVIOUS
      <4> HIDE DEF R
      <4>3. SumOf(f, U \cap T) = f[e] + SumOf(f, R \cap T)
        BY <3>1, <4>1, <4>2, SumAdd
      <4> QED BY <3>2, <3>3, <4>3
    <3>6. CASE e \notin T
      <4>1. U \cap T = R \cap T /\ f[e] = 0
        BY <3>6
      <4> HIDE DEF R
      <4>2. 0 + SumOf(f, R) = SumOf(f, R)
        BY <3>4
      <4>3. SumOf(f, U) = SumOf(f, R)
        BY <3>3, <4>1, <4>2
      <4>4. SumOf(f, U) = SumOf(f, U \cap T)
        BY <3>2, <4>1, <4>3
      <4> QED BY <4>4
    <3> QED BY <3>5, <3>6
  <2> QED BY <2>2, <2>3
<1>2. S \in Good
  <2> HIDE DEF Good
  <2>1. Good \in SUBSET SUBSET S
    BY DEF Good
  <2> QED BY <1>1, <2>1, SetInduction
<1>3. S \cap T = T
  OBVIOUS
<1> QED BY <1>2, <1>3

\* What a function makes of a finite set is finite.
LEMMA ImageFinite ==
  ASSUME NEW m, NEW S, IsFiniteSet(S)
  PROVE  IsFiniteSet({m[x] : x \in S})
<1> DEFINE T == {m[x] : x \in S}
           f == [x \in S |-> m[x]]
<1>1. f \in Surjection(S, T)
  BY DEF Surjection
<1> HIDE DEF f, T
<1>2. IsFiniteSet(T)
  BY <1>1, FS_Surjection
<1> QED BY <1>2 DEF T

\* What is renamed one to one adds up to the same.
LEMMA SumImage ==
  ASSUME NEW f, NEW g, NEW m, NEW S, IsFiniteSet(S), \A x \in S : f[x] \in Int,
         \A x, y \in S : m[x] = m[y] => x = y, \A x \in S : g[m[x]] = f[x]
  PROVE  SumOf(g, {m[x] : x \in S}) = SumOf(f, S)
<1> DEFINE Im(U) == {m[x] : x \in U}
           Good == {U \in SUBSET S : SumOf(g, Im(U)) = SumOf(f, U)}
<1>1. ASSUME NEW U \in SUBSET S, \A V \in SUBSET U : V # U => V \in Good
      PROVE  U \in Good
  <2>1. IsFiniteSet(U)
    BY FS_Subset
  <2>2. CASE U = {}
    <3>1. Im(U) = {}
      BY <2>2
    <3> QED BY <2>2, <3>1, SumEmpty
  <2>3. ASSUME NEW e \in U PROVE U \in Good
    <3> DEFINE R == U \ {e}
    <3>1. IsFiniteSet(R)
      BY <2>1, FS_Subset
    <3>2. IsFiniteSet(Im(R))
      <4> HIDE DEF R
      <4> QED BY <3>1, ImageFinite
    <3>3. SumOf(g, Im(R)) = SumOf(f, R)
      BY <1>1
    <3>4. Im(U) = Im(R) \cup {m[e]} /\ m[e] \notin Im(R)
      OBVIOUS
    <3>5. \A y \in Im(R) \cup {m[e]} : g[y] \in Int
      OBVIOUS
    <3>6. SumOf(f, U) = f[e] + SumOf(f, R)
      BY <2>1, SumTake
    <3>7. g[m[e]] = f[e]
      OBVIOUS
    <3> HIDE DEF Im, R
    <3>8. SumOf(g, Im(R) \cup {m[e]}) = g[m[e]] + SumOf(g, Im(R))
      BY <3>2, <3>4, <3>5, SumAdd
    <3>9. SumOf(g, Im(U)) = SumOf(f, U)
      BY <3>3, <3>4, <3>6, <3>7, <3>8
    <3> QED BY <3>9
  <2> QED BY <2>2, <2>3
<1>2. S \in Good
  <2> HIDE DEF Good
  <2>1. Good \in SUBSET SUBSET S
    BY DEF Good
  <2> QED BY <1>1, <2>1, SetInduction
<1> QED BY <1>2

\* A finite set of integers that is not empty has a least member.
LEMMA LeastMember ==
  ASSUME NEW S, IsFiniteSet(S), S # {}, S \subseteq Int
  PROVE  \E i \in S : \A j \in S : i <= j
<1> DEFINE Good == {T \in SUBSET S : T = {} \/ \E i \in T : \A j \in T : i <= j}
<1>1. ASSUME NEW T \in SUBSET S, \A U \in SUBSET T : U # T => U \in Good
      PROVE  T \in Good
  <2>1. ASSUME NEW e \in T PROVE \E i \in T : \A j \in T : i <= j
    <3>1. T \ {e} = {} \/ \E i \in T \ {e} : \A j \in T \ {e} : i <= j
      BY <1>1
    <3>2. CASE T \ {e} = {}
      <4>1. \A j \in T : e <= j
        BY <3>2
      <4> QED BY <4>1
    <3>3. ASSUME NEW i \in T \ {e}, \A j \in T \ {e} : i <= j
          PROVE  \E k \in T : \A j \in T : k <= j
      <4>1. CASE i <= e
        BY <3>3, <4>1
      <4>2. CASE ~(i <= e)
        <5>1. \A j \in T : e <= j
          BY <3>3, <4>2
        <5> QED BY <5>1
      <4> QED BY <4>1, <4>2
    <3> QED BY <3>1, <3>2, <3>3
  <2> QED BY <2>1
<1>2. S \in Good
  <2> HIDE DEF Good
  <2>1. Good \in SUBSET SUBSET S
    BY DEF Good
  <2> QED BY <1>1, <2>1, SetInduction
<1> QED BY <1>2

-----------------------------------------------------------------------------
(* Products and quotients *)

\* What integer division leaves.
LEMMA Division ==
  ASSUME NEW x \in Nat, NEW d \in Nat \ {0}
  PROVE  /\ x \div d \in Nat
         /\ d * (x \div d) <= x
         /\ x <= d * (x \div d) + (d - 1)
PROOF BY Z3

\* Products of naturals are naturals.
LEMMA Products ==
  ASSUME NEW x \in Nat, NEW y \in Nat
  PROVE  x * y \in Nat
PROOF BY Z3

\* Of two products with a positive factor in common, the other factors compare alike.
LEMMA CancelFactor ==
  ASSUME NEW x \in Nat, NEW y \in Nat, NEW d \in Nat \ {0}, d * x <= d * y
  PROVE  x <= y
PROOF BY Z3

\* A product grows with its factor.
LEMMA Monotone ==
  ASSUME NEW x \in Nat, NEW y \in Nat, NEW d \in Nat, x <= y
  PROVE  d * x <= d * y
PROOF BY Z3

\* Multiplication distributes over addition.
LEMMA Distributes ==
  ASSUME NEW x \in Int, NEW y \in Int, NEW d \in Int
  PROVE  d * (x + y) = d * x + d * y
PROOF BY Z3

\* Multiplication commutes.
LEMMA Commutes ==
  ASSUME NEW x \in Int, NEW y \in Int
  PROVE  x * y = y * x
PROOF BY Z3

\* ... strictly, if the other one is positive.
LEMMA StrictlyMonotone ==
  ASSUME NEW x \in Nat, NEW y \in Nat, NEW d \in Nat \ {0}, x < y
  PROVE  d * x < d * y
BY Z3

\* A quotient is below what times the divisor is above the dividend.
LEMMA QuotientBelow ==
  ASSUME NEW x \in Nat, NEW d \in Nat \ {0}, NEW y \in Nat, x < d * y
  PROVE  x \div d < y
<1>1. x \div d \in Nat /\ d * (x \div d) <= x
  BY Division
<1> DEFINE q == x \div d
<1> HIDE DEF q
<1>2. q \in Nat /\ d * q < d * y /\ d * q \in Nat /\ d * y \in Nat
  BY <1>1, Products DEF q
<1>3. SUFFICES ASSUME y <= q PROVE FALSE
  BY <1>2 DEF q
<1>4. d * y <= d * q
  BY <1>2, <1>3, Monotone
<1> QED BY <1>2, <1>4

\* A quotient is at most what times the divisor is at least the dividend.
LEMMA QuotientAtMost ==
  ASSUME NEW x \in Nat, NEW d \in Nat \ {0}, NEW y \in Nat, x <= d * y
  PROVE  x \div d <= y
<1> DEFINE z == y + 1
<1>1. d * z = d * y + d /\ d * y \in Nat
  BY Z3
<1>2. z \in Nat
  OBVIOUS
<1> HIDE DEF z
<1>3. x < d * z
  BY <1>1
<1>4. x \div d < z /\ x \div d \in Nat
  BY <1>2, <1>3, QuotientBelow, Division
<1> QED BY <1>4 DEF z

\* A multiple of the divisor is divided without a rest.
LEMMA QuotientWhole ==
  ASSUME NEW y \in Nat, NEW d \in Nat \ {0}
  PROVE  (d * y) \div d = y
BY Z3

\* A share of what was added is no more than that.
LEMMA ShareBound ==
  ASSUME NEW m \in Nat, NEW r \in Nat, NEW g \in Nat, NEW l \in Nat \ {0}, m * r < (g + 1) * l
  PROVE  (m * (r + g)) \div (l + m) <= g
<1>1. m * (r + g) = m * r + m * g /\ (l + m) * (g + 1) = (g + 1) * l + m * g + m
  BY Z3
<1>2. m * (r + g) \in Nat /\ m * r \in Nat /\ m * g \in Nat /\ (g + 1) * l \in Nat
  BY Products
<1>3. m * (r + g) < (l + m) * (g + 1)
  BY <1>1, <1>2
<1> DEFINE x == m * (r + g)
           d == l + m
           y == g + 1
<1>4. x \in Nat /\ d \in Nat \ {0} /\ y \in Nat /\ x < d * y
  BY <1>2, <1>3
<1> HIDE DEF x, d, y
<1>5. x \div d < y /\ x \div d \in Nat
  BY <1>4, QuotientBelow, Division
<1> QED BY <1>5 DEF x, d, y

\* What is minted for one coin in the ratio of both is within the other.
LEMMA RatioBound ==
  ASSUME NEW m \in Nat, NEW r1 \in Nat \ {0}, NEW r2 \in Nat, NEW d \in Nat, NEW e \in Nat, NEW l \in Nat \ {0},
         r1 * m <= d * l, d * r2 < e * r1
  PROVE  m * r2 < e * l
<1>1. m * r2 \in Nat /\ e * l \in Nat /\ r1 * m \in Nat /\ d * l \in Nat /\ d * r2 \in Nat /\ e * r1 \in Nat
  BY Products
<1>2. SUFFICES ASSUME e * l <= m * r2 PROVE FALSE
  BY <1>1
<1>3. r1 * (e * l) <= r1 * (m * r2)
  BY <1>1, <1>2, Monotone
<1>4. r2 * (r1 * m) <= r2 * (d * l)
  BY <1>1, Monotone
<1>5. l * (d * r2) < l * (e * r1)
  BY <1>1, StrictlyMonotone
<1>6. r1 * (m * r2) = r2 * (r1 * m) /\ r2 * (d * l) = l * (d * r2) /\ l * (e * r1) = r1 * (e * l)
  BY Z3
<1>7. r1 * (e * l) \in Nat /\ r2 * (r1 * m) \in Nat /\ l * (d * r2) \in Nat
  BY <1>1, Products
<1> QED BY <1>3, <1>4, <1>5, <1>6, <1>7

-----------------------------------------------------------------------------
(* Filters *)

\* What a filter f goes on to at position i.
FilterFrom(f, s, T, i) ==
  IF i = 0 THEN <<>> ELSE IF s[i] \in T THEN Append(f[i - 1], s[i]) ELSE f[i - 1]

\* f filters the first n members of s.
FiltersUpTo(f, s, T, n) == f = [i \in 0..n |-> FilterFrom(f, s, T, i)]

\* q is what the first n members of s hold of T: as many positions of s, in their
\* order, and none of T left out.
HoldsOf(q, s, T, n) ==
  \E place \in [1..Len(q) -> 1..n] :
    /\ \A i, j \in 1..Len(q) : i < j => place[i] < place[j]
    /\ \A i \in 1..Len(q) : q[i] = s[place[i]] /\ q[i] \in T
    /\ \A m \in 1..n : s[m] \in T => \E i \in 1..Len(q) : place[i] = m

\* Selected is what a filter has at the end.
LEMMA KeptIsFilter ==
  ASSUME NEW s, NEW T
  PROVE  Selected(s, T) = (CHOOSE f : FiltersUpTo(f, s, T, Len(s)))[Len(s)]
BY DEF Selected, FiltersUpTo, FilterFrom

\* A filter of the first k members is part of one of the next.
LEMMA FilterGrows ==
  ASSUME NEW s, NEW T, NEW k \in Nat, NEW g, FiltersUpTo(g, s, T, k)
  PROVE  \E h : FiltersUpTo(h, s, T, k + 1)
<1> DEFINE h == [i \in 0..(k + 1) |-> IF i <= k THEN g[i] ELSE FilterFrom(g, s, T, i)]
<1>1. \A i \in 0..(k + 1) : h[i] = FilterFrom(h, s, T, i)
  <2> SUFFICES ASSUME NEW i \in 0..(k + 1) PROVE h[i] = FilterFrom(h, s, T, i)
    OBVIOUS
  <2>1. h[i] = FilterFrom(g, s, T, i)
    BY DEF FiltersUpTo
  <2>2. i # 0 => h[i - 1] = g[i - 1]
    OBVIOUS
  <2>3. FilterFrom(h, s, T, i) = FilterFrom(g, s, T, i)
    BY <2>2 DEF FilterFrom
  <2> QED BY <2>1, <2>3
<1>2. h = [i \in 0..(k + 1) |-> h[i]]
  OBVIOUS
<1> HIDE DEF h
<1>3. FiltersUpTo(h, s, T, k + 1)
  BY <1>1, <1>2 DEF FiltersUpTo
<1> QED BY <1>3

\* There is a filter of any length.
LEMMA FilterExists ==
  ASSUME NEW s, NEW T, NEW n \in Nat
  PROVE  \E f : FiltersUpTo(f, s, T, n)
<1> DEFINE Short == {k \in 0..n : ~ \E g : FiltersUpTo(g, s, T, k)}
<1>1. Short = {}
  <2> SUFFICES ASSUME Short # {} PROVE FALSE
    OBVIOUS
  <2>1. IsFiniteSet(0..n)
    BY FS_Interval
  <2>2. IsFiniteSet(Short)
    BY <2>1, FS_Subset
  <2>3. Short \subseteq Int
    OBVIOUS
  <2>4. PICK k \in Short : \A j \in Short : k <= j
    <3> HIDE DEF Short
    <3> QED BY <2>2, <2>3, LeastMember
  <2>5. k # 0
    <3> DEFINE g == [i \in 0..0 |-> <<>>]
    <3>1. g = [i \in 0..0 |-> FilterFrom(g, s, T, i)]
      BY DEF FilterFrom
    <3> HIDE DEF g
    <3>2. FiltersUpTo(g, s, T, 0)
      BY <3>1 DEF FiltersUpTo
    <3> QED BY <3>2
  <2>6. k - 1 \in 0..n /\ k - 1 \in Nat /\ (k - 1) + 1 = k
    BY <2>5
  <2>7. PICK g : FiltersUpTo(g, s, T, k - 1)
    BY <2>4, <2>6
  <2>8. \E h : FiltersUpTo(h, s, T, (k - 1) + 1)
    BY <2>6, <2>7, FilterGrows
  <2> QED BY <2>6, <2>8
<1>2. n \in 0..n
  OBVIOUS
<1> QED BY <1>1, <1>2

\* One member more.
LEMMA HoldsOneMore ==
  ASSUME NEW S, NEW s \in Seq(S), NEW T, NEW n \in 1..Len(s), NEW q \in Seq(S), HoldsOf(q, s, T, n - 1)
  PROVE  LET r == IF s[n] \in T THEN Append(q, s[n]) ELSE q IN r \in Seq(S) /\ HoldsOf(r, s, T, n)
<1> DEFINE r == IF s[n] \in T THEN Append(q, s[n]) ELSE q
<1>1. /\ n \in Nat /\ n - 1 \in Nat /\ n - 1 < n /\ s[n] \in S
      /\ \A m : m \in 1..n <=> m = n \/ m \in 1..(n - 1)
      /\ \A m \in 1..(n - 1) : m < n
  BY LenProperties
<1>2. PICK place \in [1..Len(q) -> 1..(n - 1)] :
        /\ \A i, j \in 1..Len(q) : i < j => place[i] < place[j]
        /\ \A i \in 1..Len(q) : q[i] = s[place[i]] /\ q[i] \in T
        /\ \A m \in 1..(n - 1) : s[m] \in T => \E i \in 1..Len(q) : place[i] = m
  BY DEF HoldsOf
<1>3. Len(q) \in Nat
  OBVIOUS
<1>4. CASE s[n] \notin T
  <2>1. place \in [1..Len(q) -> 1..n]
    BY <1>1
  <2>2. \A m \in 1..n : s[m] \in T => \E i \in 1..Len(q) : place[i] = m
    BY <1>1, <1>2, <1>4
  <2>3. HoldsOf(q, s, T, n)
    BY <1>2, <2>1, <2>2 DEF HoldsOf
  <2> QED BY <1>4, <2>3
<1>5. CASE s[n] \in T
  <2> DEFINE a == Append(q, s[n])
             l == Len(q) + 1
             more == [i \in 1..l |-> IF i = l THEN n ELSE place[i]]
  <2>1. a \in Seq(S) /\ Len(a) = l /\ a[l] = s[n] /\ \A i \in 1..Len(q) : a[i] = q[i]
    BY <1>1, AppendProperties
  <2>2. l \in Nat /\ l \in 1..l /\ \A i : i \in 1..l <=> i = l \/ i \in 1..Len(q)
    BY <1>3
  <2>3. \A i \in 1..Len(q) : i < l /\ i # l
    BY <1>3
  <2> HIDE DEF l, a
  <2>4. more \in [1..l -> 1..n] /\ more[l] = n /\ \A i \in 1..Len(q) : more[i] = place[i]
    BY <1>1, <2>2, <2>3
  <2> HIDE DEF more
  <2>5. \A i, j \in 1..l : i < j => more[i] < more[j]
    <3> SUFFICES ASSUME NEW i \in 1..l, NEW j \in 1..l, i < j PROVE more[i] < more[j]
      OBVIOUS
    <3>1. i # l /\ i \in 1..Len(q)
      BY <2>2
    <3>2. CASE j = l
      BY <1>1, <2>4, <3>1, <3>2
    <3>3. CASE j # l
      BY <1>2, <2>2, <2>4, <3>1, <3>3
    <3> QED BY <3>2, <3>3
  <2>6. \A i \in 1..l : a[i] = s[more[i]] /\ a[i] \in T
    BY <1>2, <1>5, <2>1, <2>2, <2>4
  <2>7. \A m \in 1..n : s[m] \in T => \E i \in 1..l : more[i] = m
    BY <1>1, <1>2, <2>2, <2>4
  <2>8. HoldsOf(a, s, T, n)
    <3>1. Len(a) = l
      BY <2>1
    <3>2. /\ more \in [1..Len(a) -> 1..n]
          /\ \A i, j \in 1..Len(a) : i < j => more[i] < more[j]
          /\ \A i \in 1..Len(a) : a[i] = s[more[i]] /\ a[i] \in T
          /\ \A m \in 1..n : s[m] \in T => \E i \in 1..Len(a) : more[i] = m
      BY <2>4, <2>5, <2>6, <2>7, <3>1, Zenon
    <3> QED BY <3>2, Zenon DEF HoldsOf
  <2> QED BY <1>5, <2>1, <2>8 DEF a
<1> QED BY <1>4, <1>5

\* What is kept is what the sequence holds of the set.
LEMMA KeptHolds ==
  ASSUME NEW S, NEW s \in Seq(S), NEW T
  PROVE  Selected(s, T) \in Seq(S) /\ HoldsOf(Selected(s, T), s, T, Len(s))
<1> DEFINE n == Len(s)
           f == CHOOSE g : FiltersUpTo(g, s, T, n)
           Wrong == {i \in 0..n : ~ (f[i] \in Seq(S) /\ HoldsOf(f[i], s, T, i))}
<1>1. n \in Nat
  OBVIOUS
<1>2. FiltersUpTo(f, s, T, n)
  BY <1>1, FilterExists
<1>3. Selected(s, T) = f[n]
  BY KeptIsFilter
<1> HIDE DEF f, n
<1>4. \A i \in 0..n : f[i] = FilterFrom(f, s, T, i)
  BY <1>2 DEF FiltersUpTo
<1>5. Wrong = {}
  <2> SUFFICES ASSUME Wrong # {} PROVE FALSE
    OBVIOUS
  <2>1. IsFiniteSet(0..n)
    BY <1>1, FS_Interval
  <2>2. IsFiniteSet(Wrong)
    BY <2>1, FS_Subset
  <2>3. Wrong \subseteq Int
    OBVIOUS
  <2>4. PICK k \in Wrong : \A j \in Wrong : k <= j
    <3> HIDE DEF Wrong
    <3> QED BY <2>2, <2>3, LeastMember
  <2>5. CASE k = 0
    <3>1. f[0] = <<>>
      BY <1>1, <1>4 DEF FilterFrom
    <3>2. <<>> \in Seq(S) /\ HoldsOf(<<>>, s, T, 0)
      <4>1. Len(<<>>) = 0 /\ 1..0 = {} /\ <<>> \in Seq(S)
        OBVIOUS
      <4>2. <<>> \in [{} -> {}]
        OBVIOUS
      <4>3. /\ <<>> \in [1..Len(<<>>) -> 1..0]
            /\ \A i \in 1..Len(<<>>) : FALSE
            /\ \A i \in 1..0 : FALSE
        BY <4>1, <4>2
      <4> QED BY <4>1, <4>3, Zenon DEF HoldsOf
    <3> QED BY <2>4, <2>5, <3>1, <3>2
  <2>6. CASE k # 0
    <3>1. k \in 1..n /\ k - 1 \in 0..n /\ ~ (k <= k - 1)
      BY <1>1, <2>6
    <3>2. f[k - 1] \in Seq(S) /\ HoldsOf(f[k - 1], s, T, k - 1)
      BY <2>4, <3>1
    <3>3. f[k] = IF s[k] \in T THEN Append(f[k - 1], s[k]) ELSE f[k - 1]
      BY <1>4, <2>6 DEF FilterFrom
    <3>4. k \in 1..Len(s)
      BY <3>1 DEF n
    <3>5. f[k] \in Seq(S) /\ HoldsOf(f[k], s, T, k)
      BY <3>2, <3>3, <3>4, HoldsOneMore
    <3> QED BY <2>4, <3>5
  <2> QED BY <2>5, <2>6
<1>6. n \in 0..n
  BY <1>1
<1> QED BY <1>3, <1>5, <1>6 DEF n

-----------------------------------------------------------------------------
(* Members, places and counts *)

\* What is in a sequence, by place.
LEMMA RangeOf ==
  ASSUME NEW S, NEW s \in Seq(S)
  PROVE  /\ Range(s) \subseteq S
         /\ \A p \in 1..Len(s) : s[p] \in Range(s)
         /\ \A e \in Range(s) : \E p \in 1..Len(s) : s[p] = e
<1>1. Len(s) \in Nat /\ DOMAIN s = 1..Len(s) /\ \A p \in 1..Len(s) : s[p] \in S
  BY LenProperties
<1> QED BY <1>1 DEF Range

\* What stays in order moves forward at most.
LEMMA PlacesGrow ==
  ASSUME NEW k \in Nat, NEW n \in Nat, NEW place \in [1..k -> 1..n],
         \A i, j \in 1..k : i < j => place[i] < place[j]
  PROVE  \A i \in 1..k : i <= place[i]
<1> DEFINE Wrong == {i \in 1..k : ~ (i <= place[i])}
<1> SUFFICES ASSUME Wrong # {} PROVE FALSE
  OBVIOUS
<1>1. IsFiniteSet(1..k)
  BY FS_Interval
<1>2. IsFiniteSet(Wrong)
  BY <1>1, FS_Subset
<1>3. Wrong \subseteq Int
  OBVIOUS
<1>4. PICK w \in Wrong : \A i \in Wrong : w <= i
  <2> HIDE DEF Wrong
  <2> QED BY <1>2, <1>3, LeastMember
<1>5. w \in 1..k /\ place[w] \in 1..n /\ ~ (w <= place[w])
  OBVIOUS
<1>6. w # 1
  BY <1>5
<1>7. w - 1 \in 1..k /\ w - 1 < w /\ ~ (w <= w - 1)
  BY <1>5, <1>6
<1>8. w - 1 <= place[w - 1] /\ place[w - 1] \in 1..n
  BY <1>4, <1>7
<1>9. place[w - 1] < place[w]
  BY <1>5, <1>7
<1> QED BY <1>5, <1>7, <1>8, <1>9

\* Two sets that share nothing have the members of both.
LEMMA DisjointCount ==
  ASSUME NEW S, IsFiniteSet(S), NEW T, IsFiniteSet(T), S \cap T = {}
  PROVE  IsFiniteSet(S \cup T) /\ Cardinality(S \cup T) = Cardinality(S) + Cardinality(T)
<1>1. Cardinality(S \cap T) = 0
  BY FS_EmptySet
<1>2. Cardinality(S) \in Nat /\ Cardinality(T) \in Nat
  BY FS_CardinalityType
<1>3. IsFiniteSet(S \cup T) /\ Cardinality(S \cup T) = Cardinality(S) + Cardinality(T) - Cardinality(S \cap T)
  BY FS_Union
<1> QED BY <1>1, <1>2, <1>3
=============================================================================
