-------------------------------- MODULE Sums --------------------------------
(***************************************************************************)
(* Facts about SumFunctionOnSet, the sum of the values of a function over  *)
(* a finite set of its arguments, with which the totals of the tables are  *)
(* stated.                                                                 *)
(*                                                                         *)
(* The community modules define the sum by a recursive function on the     *)
(* subsets of the set.  That such a function exists, and what holds of it  *)
(* for every set, is proved by induction over the subsets: if something    *)
(* fails for some of them, it fails for a smallest one.                    *)
(***************************************************************************)
EXTENDS Functions, FiniteSetTheorems, TLAPS

Some(S) == CHOOSE x \in S : TRUE

\* g gives the sums of f over the subsets of S.
GivesSums(g, f, S) ==
    g = [T \in SUBSET S |-> IF T = {} THEN 0 ELSE f[Some(T)] + g[T \ {Some(T)}]]

-----------------------------------------------------------------------------
\* A set of subsets of a finite set has a smallest one: no other is inside it.
LEMMA SmallestSubset ==
    ASSUME NEW S, IsFiniteSet(S), NEW Bad \in SUBSET (SUBSET S), Bad # {}
    PROVE  \E T \in Bad : \A U \in Bad : U \subseteq T => U = T
  <1>1. IsWellFoundedOn(StrictSubsetOrdering(S), SUBSET S)
    BY FS_StrictSubsetOrderingWellFounded, FS_FiniteSubsetsOfFinite
  <1>2. PICK T \in Bad : \A U \in Bad : ~ (<<U, T>> \in StrictSubsetOrdering(S))
    BY <1>1, WFMin
  <1> QED BY <1>2 DEF StrictSubsetOrdering

\* What holds of the empty set, and of a set with one element more whenever it
\* holds of the set without it, holds of all: "Good" are the sets it holds of.
LEMMA SubsetsInduction ==
    ASSUME NEW S, IsFiniteSet(S), NEW Good, {} \in Good,
           \A T \in SUBSET S : T # {} /\ (\A x \in T : T \ {x} \in Good) => T \in Good
    PROVE  \A T \in SUBSET S : T \in Good
  <1> DEFINE Bad == {T \in SUBSET S : T \notin Good}
  <1> SUFFICES ASSUME Bad # {} PROVE FALSE
    OBVIOUS
  <1>1. Bad \in SUBSET (SUBSET S)
    OBVIOUS
  <1> HIDE DEF Bad
  <1>2. PICK T \in Bad : \A U \in Bad : U \subseteq T => U = T
    BY <1>1, SmallestSubset
  <1>3. ASSUME NEW x \in T
        PROVE  T \ {x} \notin Bad
    <2>1. T \ {x} # T
      OBVIOUS
    <2> QED BY <1>2, <2>1
  <1> USE DEF Bad
  <1>4. T \in SUBSET S /\ T # {} /\ T \notin Good
    OBVIOUS
  <1>5. \A x \in T : T \ {x} \in Good
    BY <1>3, <1>4
  <1> QED BY <1>4, <1>5

-----------------------------------------------------------------------------
LEMMA SomeIsMember == ASSUME NEW S, S # {} PROVE Some(S) \in S
  BY DEF Some

LEMMA GivesSumsOfSubset ==
    ASSUME NEW f, NEW S, NEW g, GivesSums(g, f, S), NEW T \in SUBSET S
    PROVE  GivesSums([U \in SUBSET T |-> g[U]], f, T)
  <1> DEFINE h == [U \in SUBSET T |-> g[U]]
  <1>1. ASSUME NEW U \in SUBSET T
        PROVE  h[U] = IF U = {} THEN 0 ELSE f[Some(U)] + h[U \ {Some(U)}]
    BY SomeIsMember DEF GivesSums
  <1> QED BY <1>1 DEF GivesSums

LEMMA SumsAreUnique ==
    ASSUME NEW f, NEW S, IsFiniteSet(S), NEW g, NEW h, GivesSums(g, f, S), GivesSums(h, f, S)
    PROVE  g = h
  <1> DEFINE Good == {T \in SUBSET S : g[T] = h[T]}
  <1>1. {} \in Good
    BY DEF GivesSums
  <1>2. ASSUME NEW T \in SUBSET S, T # {}, \A x \in T : T \ {x} \in Good
        PROVE  T \in Good
    BY <1>2, SomeIsMember DEF GivesSums
  <1> HIDE DEF Good
  <1>3. \A T \in SUBSET S : T \in Good
    BY <1>1, <1>2, SubsetsInduction
  <1> USE DEF Good
  <1> QED BY <1>3 DEF GivesSums

\* The function on the subsets of a set consists of those on the subsets of
\* the sets inside it, which agree.
LEMMA SumsExist ==
    ASSUME NEW f, NEW S, IsFiniteSet(S)
    PROVE  \E g : GivesSums(g, f, S)
  <1> DEFINE Good == {T \in SUBSET S : \E g : GivesSums(g, f, T)}
             sums(T) == CHOOSE g : GivesSums(g, f, T)
             value(T) == sums(T)[T]
  <1>1. ASSUME NEW T \in SUBSET S, GivesSums(sums(T), f, T), T # {}
        PROVE  value(T) = f[Some(T)] + value(T \ {Some(T)})
    <2> DEFINE U == T \ {Some(T)}
               h == [W \in SUBSET U |-> sums(T)[W]]
    <2>1. GivesSums(h, f, U)
      BY <1>1, GivesSumsOfSubset
    <2>2. GivesSums(sums(U), f, U)
      BY <2>1
    <2>3. IsFiniteSet(U)
      BY FS_Subset
    <2> HIDE DEF sums
    <2>4. sums(U) = h
      BY <2>1, <2>2, <2>3, SumsAreUnique
    <2> QED BY <1>1, <2>4 DEF GivesSums
  <1>2. {} \in Good
    <2>1. GivesSums([T \in SUBSET {} |-> 0], f, {})
      BY DEF GivesSums
    <2> QED BY <2>1
  <1>3. value({}) = 0
    BY <1>2 DEF GivesSums
  <1>4. ASSUME NEW T \in SUBSET S, T # {}, \A x \in T : T \ {x} \in Good
        PROVE  T \in Good
    <2> DEFINE v(U) == IF U = T THEN f[Some(T)] + value(T \ {Some(T)}) ELSE value(U)
               g == [U \in SUBSET T |-> v(U)]
    <2>1. ASSUME NEW U \in SUBSET T
          PROVE  g[U] = IF U = {} THEN 0 ELSE f[Some(U)] + g[U \ {Some(U)}]
      <3>1. CASE U = {}
        BY <1>3, <1>4, <3>1
      <3>2. CASE U = T
        BY <1>4, <3>2, SomeIsMember
      <3>3. CASE U # {} /\ U # T
        <4>1. PICK x \in T : x \notin U
          BY <3>3
        <4>2. PICK w : GivesSums(w, f, T \ {x})
          BY <1>4, <4>1
        <4>3. U \in SUBSET (T \ {x})
          BY <4>1
        <4>4. \E w2 : GivesSums(w2, f, U)
          BY <4>2, <4>3, GivesSumsOfSubset
        <4>5. GivesSums(sums(U), f, U)
          BY <4>4
        <4> HIDE DEF value, sums
        <4>6. value(U) = f[Some(U)] + value(U \ {Some(U)})
          BY <1>1, <3>3, <4>5
        <4>7. Some(U) \in U
          BY <3>3, SomeIsMember
        <4> QED BY <3>3, <4>6, <4>7
      <3> QED BY <3>1, <3>2, <3>3
    <2> HIDE DEF v
    <2>2. GivesSums(g, f, T)
      BY <2>1 DEF GivesSums
    <2> QED BY <2>2
  <1> HIDE DEF Good
  <1>5. \A T \in SUBSET S : T \in Good
    BY <1>2, <1>4, SubsetsInduction
  <1> USE DEF Good
  <1> QED BY <1>5

-----------------------------------------------------------------------------
\* The definition of the sum, as an equation.
LEMMA SumEquation ==
    ASSUME NEW f, NEW S, IsFiniteSet(S)
    PROVE  SumFunctionOnSet(f, S) =
               IF S = {} THEN 0 ELSE f[Some(S)] + SumFunctionOnSet(f, S \ {Some(S)})
  <1> DEFINE sums(T) == CHOOSE g : GivesSums(g, f, T)
             U == S \ {Some(S)}
  <1>1. \A T : SumFunctionOnSet(f, T) = sums(T)[T]
    BY DEF SumFunctionOnSet, FoldFunctionOnSet, MapThenFoldSet, GivesSums, Some
  <1>2. GivesSums(sums(S), f, S)
    BY SumsExist
  <1>3. CASE S = {}
    <2>1. sums(S)[S] = 0
      BY <1>2, <1>3 DEF GivesSums
    <2> QED BY <1>1, <1>3, <2>1
  <1>4. CASE S # {}
    <2> DEFINE h == [T \in SUBSET U |-> sums(S)[T]]
    <2>1. GivesSums(h, f, U)
      BY <1>2, GivesSumsOfSubset
    <2>2. GivesSums(sums(U), f, U)
      BY <2>1
    <2>3. IsFiniteSet(U)
      BY FS_Subset
    <2> HIDE DEF sums
    <2>4. sums(U) = h
      BY <2>1, <2>2, <2>3, SumsAreUnique
    <2>5. sums(S)[S] = f[Some(S)] + sums(S)[U]
      BY <1>2, <1>4 DEF GivesSums
    <2>6. sums(S)[U] = sums(U)[U]
      BY <2>4
    <2> QED BY <1>1, <1>4, <2>5, <2>6
  <1> QED BY <1>3, <1>4

LEMMA SumEmpty == ASSUME NEW f PROVE SumFunctionOnSet(f, {}) = 0
  BY SumEquation, FS_EmptySet

\* A sum depends on the values over its set only.
LEMMA SumAgree ==
    ASSUME NEW S, IsFiniteSet(S), NEW f, NEW g, \A x \in S : f[x] = g[x]
    PROVE  SumFunctionOnSet(f, S) = SumFunctionOnSet(g, S)
  <1> DEFINE Good == {T \in SUBSET S : SumFunctionOnSet(f, T) = SumFunctionOnSet(g, T)}
  <1>1. {} \in Good
    BY SumEmpty
  <1>2. ASSUME NEW T \in SUBSET S, T # {}, \A x \in T : T \ {x} \in Good
        PROVE  T \in Good
    <2>1. IsFiniteSet(T) /\ Some(T) \in T
      BY <1>2, FS_Subset, SomeIsMember
    <2>2. /\ SumFunctionOnSet(f, T) = f[Some(T)] + SumFunctionOnSet(f, T \ {Some(T)})
          /\ SumFunctionOnSet(g, T) = g[Some(T)] + SumFunctionOnSet(g, T \ {Some(T)})
      BY <1>2, <2>1, SumEquation
    <2>3. f[Some(T)] = g[Some(T)]
      BY <2>1
    <2>4. SumFunctionOnSet(f, T \ {Some(T)}) = SumFunctionOnSet(g, T \ {Some(T)})
      BY <1>2, <2>1
    <2> QED BY <2>2, <2>3, <2>4
  <1> HIDE DEF Good
  <1>3. \A T \in SUBSET S : T \in Good
    BY <1>1, <1>2, SubsetsInduction
  <1> USE DEF Good
  <1> QED BY <1>3

LEMMA SumInt ==
    ASSUME NEW S, IsFiniteSet(S), NEW f, \A x \in S : f[x] \in Int
    PROVE  SumFunctionOnSet(f, S) \in Int
  <1> DEFINE Good == {T \in SUBSET S : SumFunctionOnSet(f, T) \in Int}
  <1>1. {} \in Good
    BY SumEmpty
  <1>2. ASSUME NEW T \in SUBSET S, T # {}, \A x \in T : T \ {x} \in Good
        PROVE  T \in Good
    <2>1. IsFiniteSet(T) /\ Some(T) \in T
      BY <1>2, FS_Subset, SomeIsMember
    <2>2. f[Some(T)] \in Int /\ SumFunctionOnSet(f, T \ {Some(T)}) \in Int
      BY <1>2, <2>1
    <2>3. SumFunctionOnSet(f, T) = f[Some(T)] + SumFunctionOnSet(f, T \ {Some(T)})
      BY <1>2, <2>1, SumEquation
    <2> QED BY <2>2, <2>3
  <1> HIDE DEF Good
  <1>3. \A T \in SUBSET S : T \in Good
    BY <1>1, <1>2, SubsetsInduction
  <1> USE DEF Good
  <1> QED BY <1>3

\* The order in which the values are added does not matter: any of them may
\* be taken out first.
LEMMA SumRemove ==
    ASSUME NEW S, IsFiniteSet(S), NEW f, \A x \in S : f[x] \in Int, NEW x \in S
    PROVE  SumFunctionOnSet(f, S) = f[x] + SumFunctionOnSet(f, S \ {x})
  <1> DEFINE sum(T) == SumFunctionOnSet(f, T)
             Good == {T \in SUBSET S : \A y \in T : sum(T) = f[y] + sum(T \ {y})}
  <1>1. {} \in Good
    OBVIOUS
  <1>2. ASSUME NEW T \in SUBSET S, T # {}, \A y \in T : T \ {y} \in Good
        PROVE  T \in Good
    <2>1. SUFFICES ASSUME NEW y \in T PROVE sum(T) = f[y] + sum(T \ {y})
      OBVIOUS
    <2> DEFINE z == Some(T)
    <2>2. z \in T /\ IsFiniteSet(T) /\ IsFiniteSet(T \ {y})
      BY <1>2, FS_Subset, SomeIsMember
    <2>3. sum(T) = f[z] + sum(T \ {z})
      BY <1>2, <2>2, SumEquation
    <2>4. CASE y = z
      BY <2>3, <2>4
    <2>5. CASE y # z
      <3>1. sum(T \ {z}) = f[y] + sum((T \ {z}) \ {y})
        BY <1>2, <2>2, <2>5
      <3>2. sum(T \ {y}) = f[z] + sum((T \ {y}) \ {z})
        BY <1>2, <2>2, <2>5
      <3>3. (T \ {z}) \ {y} = (T \ {y}) \ {z}
        OBVIOUS
      <3>4. sum((T \ {y}) \ {z}) \in Int
        <4>1. IsFiniteSet((T \ {y}) \ {z}) /\ \A u \in (T \ {y}) \ {z} : f[u] \in Int
          BY <2>2, FS_Subset
        <4> QED BY <4>1, SumInt
      <3>5. f[y] \in Int /\ f[z] \in Int
        BY <2>2
      <3>6. sum((T \ {z}) \ {y}) = sum((T \ {y}) \ {z})
        BY <3>3
      <3> HIDE DEF sum, z
      <3> QED BY <2>3, <3>1, <3>2, <3>4, <3>5, <3>6
    <2> QED BY <2>4, <2>5
  <1> HIDE DEF Good
  <1>3. \A T \in SUBSET S : T \in Good
    BY <1>1, <1>2, SubsetsInduction
  <1> USE DEF Good
  <1> QED BY <1>3

-----------------------------------------------------------------------------
LEMMA SumNat ==
    ASSUME NEW S, IsFiniteSet(S), NEW f, \A x \in S : f[x] \in Nat
    PROVE  SumFunctionOnSet(f, S) \in Nat
  <1> DEFINE Good == {T \in SUBSET S : SumFunctionOnSet(f, T) \in Nat}
  <1>1. {} \in Good
    BY SumEmpty
  <1>2. ASSUME NEW T \in SUBSET S, T # {}, \A x \in T : T \ {x} \in Good
        PROVE  T \in Good
    <2>1. IsFiniteSet(T) /\ Some(T) \in T
      BY <1>2, FS_Subset, SomeIsMember
    <2>2. f[Some(T)] \in Nat /\ SumFunctionOnSet(f, T \ {Some(T)}) \in Nat
      BY <1>2, <2>1
    <2>3. SumFunctionOnSet(f, T) = f[Some(T)] + SumFunctionOnSet(f, T \ {Some(T)})
      BY <1>2, <2>1, SumEquation
    <2> QED BY <2>2, <2>3
  <1> HIDE DEF Good
  <1>3. \A T \in SUBSET S : T \in Good
    BY <1>1, <1>2, SubsetsInduction
  <1> USE DEF Good
  <1> QED BY <1>3

\* None of several natural numbers is greater than their sum.
LEMMA SumBounds ==
    ASSUME NEW S, IsFiniteSet(S), NEW f, \A x \in S : f[x] \in Nat, NEW x \in S
    PROVE  f[x] <= SumFunctionOnSet(f, S)
  <1>1. IsFiniteSet(S \ {x})
    BY FS_Subset
  <1>2. SumFunctionOnSet(f, S \ {x}) \in Nat
    BY <1>1, SumNat
  <1>3. SumFunctionOnSet(f, S) = f[x] + SumFunctionOnSet(f, S \ {x})
    BY SumRemove
  <1> QED BY <1>2, <1>3

\* Two functions, on sets that differ at most in x, with the same values but
\* at x: so a row is added, changed or erased, and the sum changes by as much.
LEMMA SumDiffer ==
    ASSUME NEW S, IsFiniteSet(S), NEW f, \A y \in S : f[y] \in Int,
           NEW T, NEW g, \A y \in T : g[y] \in Int,
           NEW x, S \ {x} = T \ {x}, \A y \in S \ {x} : f[y] = g[y]
    PROVE  /\ IsFiniteSet(T)
           /\ SumFunctionOnSet(f, S) \in Int /\ SumFunctionOnSet(g, T) \in Int
           /\ SumFunctionOnSet(g, T) = SumFunctionOnSet(f, S)
                  + (IF x \in T THEN g[x] ELSE 0) - (IF x \in S THEN f[x] ELSE 0)
  <1> DEFINE U == S \ {x}
  <1>1. IsFiniteSet(U)
    BY FS_Subset
  <1>2. IsFiniteSet(T)
    <2>1. T = U \/ T = U \cup {x}
      OBVIOUS
    <2> HIDE DEF U
    <2>2. IsFiniteSet(U \cup {x})
      BY <1>1, FS_AddElement
    <2> QED BY <1>1, <2>1, <2>2
  <1>3. SumFunctionOnSet(f, U) = SumFunctionOnSet(g, U)
    BY <1>1, SumAgree
  <1>4. SumFunctionOnSet(f, S) = SumFunctionOnSet(f, U) + IF x \in S THEN f[x] ELSE 0
    <2>1. CASE x \in S
      BY <1>1, <2>1, SumRemove, SumInt
    <2>2. CASE x \notin S
      <3>1. U = S
        BY <2>2
      <3>2. SumFunctionOnSet(f, S) \in Int
        BY SumInt
      <3> HIDE DEF U
      <3> QED BY <2>2, <3>1, <3>2
    <2> QED BY <2>1, <2>2
  <1>5. SumFunctionOnSet(g, T) = SumFunctionOnSet(g, U) + IF x \in T THEN g[x] ELSE 0
    <2>1. CASE x \in T
      <3>1. T \ {x} = U
        OBVIOUS
      <3> QED BY <1>1, <1>2, <2>1, <3>1, SumRemove, SumInt
    <2>2. CASE x \notin T
      <3>1. U = T
        BY <2>2
      <3>2. SumFunctionOnSet(g, T) \in Int
        BY <1>2, SumInt
      <3> HIDE DEF U
      <3> QED BY <2>2, <3>1, <3>2
    <2> QED BY <2>1, <2>2
  <1>6. SumFunctionOnSet(f, U) \in Int
    BY <1>1, SumInt
  <1> QED BY <1>2, <1>3, <1>4, <1>5, <1>6

\* What a function has at x, or nothing.
At(f, x) == IF x \in DOMAIN f THEN f[x] ELSE 0

\* A total goes from old to new as one of the values it is the total of goes
\* from before to after.
Moves(old, new, before, after) ==
    /\ old \in Int /\ new \in Int /\ before \in Int /\ after \in Int
    /\ new = old + after - before

\* The same of functions and their whole domains, the form of the ledgers'
\* sums: a table in which one row changes.
LEMMA SumChanges ==
    ASSUME NEW f, IsFiniteSet(DOMAIN f), \A y \in DOMAIN f : f[y] \in Int,
           NEW g, \A y \in DOMAIN g : g[y] \in Int,
           NEW x, DOMAIN f \ {x} = DOMAIN g \ {x}, \A y \in DOMAIN f \ {x} : f[y] = g[y]
    PROVE  Moves(SumFunction(f), SumFunction(g), At(f, x), At(g, x))
  <1>1. /\ SumFunctionOnSet(f, DOMAIN f) \in Int /\ SumFunctionOnSet(g, DOMAIN g) \in Int
        /\ SumFunctionOnSet(g, DOMAIN g) = SumFunctionOnSet(f, DOMAIN f)
               + (IF x \in DOMAIN g THEN g[x] ELSE 0) - (IF x \in DOMAIN f THEN f[x] ELSE 0)
    BY SumDiffer
  <1>2. At(f, x) \in Int /\ At(g, x) \in Int
    BY DEF At
  <1> QED BY <1>1, <1>2 DEF SumFunction, At, Moves

\* The sum of a table without rows.
LEMMA SumOfNone == ASSUME NEW f, DOMAIN f = {} PROVE SumFunction(f) = 0
  BY SumEmpty DEF SumFunction

\* The sum of sums.
LEMMA SumPlus ==
    ASSUME NEW S, IsFiniteSet(S), NEW f, NEW g, NEW h,
           \A x \in S : f[x] \in Int /\ g[x] \in Int /\ h[x] = f[x] + g[x]
    PROVE  SumFunctionOnSet(h, S) = SumFunctionOnSet(f, S) + SumFunctionOnSet(g, S)
  <1> DEFINE Good == {T \in SUBSET S :
                 SumFunctionOnSet(h, T) = SumFunctionOnSet(f, T) + SumFunctionOnSet(g, T)}
  <1>1. {} \in Good
    BY SumEmpty
  <1>2. ASSUME NEW T \in SUBSET S, T # {}, \A x \in T : T \ {x} \in Good
        PROVE  T \in Good
    <2> DEFINE x == Some(T)
    <2>1. IsFiniteSet(T) /\ x \in T /\ IsFiniteSet(T \ {x})
      BY <1>2, FS_Subset, SomeIsMember
    <2>2. /\ SumFunctionOnSet(h, T) = h[x] + SumFunctionOnSet(h, T \ {x})
          /\ SumFunctionOnSet(f, T) = f[x] + SumFunctionOnSet(f, T \ {x})
          /\ SumFunctionOnSet(g, T) = g[x] + SumFunctionOnSet(g, T \ {x})
      BY <1>2, <2>1, SumEquation
    <2>3. SumFunctionOnSet(f, T \ {x}) \in Int /\ SumFunctionOnSet(g, T \ {x}) \in Int
      BY <2>1, SumInt
    <2>4. SumFunctionOnSet(h, T \ {x})
              = SumFunctionOnSet(f, T \ {x}) + SumFunctionOnSet(g, T \ {x})
      BY <1>2, <2>1
    <2>5. f[x] \in Int /\ g[x] \in Int /\ h[x] = f[x] + g[x]
      BY <2>1
    <2> HIDE DEF x
    <2> QED BY <2>2, <2>3, <2>4, <2>5
  <1> HIDE DEF Good
  <1>3. \A T \in SUBSET S : T \in Good
    BY <1>1, <1>2, SubsetsInduction
  <1> USE DEF Good
  <1> QED BY <1>3

\* Nothing added up is nothing.
LEMMA SumZero ==
    ASSUME NEW S, IsFiniteSet(S), NEW f, \A x \in S : f[x] = 0
    PROVE  SumFunctionOnSet(f, S) = 0
  <1> DEFINE Good == {T \in SUBSET S : SumFunctionOnSet(f, T) = 0}
  <1>1. {} \in Good
    BY SumEmpty
  <1>2. ASSUME NEW T \in SUBSET S, T # {}, \A x \in T : T \ {x} \in Good
        PROVE  T \in Good
    <2>1. IsFiniteSet(T) /\ Some(T) \in T
      BY <1>2, FS_Subset, SomeIsMember
    <2>2. SumFunctionOnSet(f, T) = f[Some(T)] + SumFunctionOnSet(f, T \ {Some(T)})
      BY <1>2, <2>1, SumEquation
    <2>3. f[Some(T)] = 0 /\ SumFunctionOnSet(f, T \ {Some(T)}) = 0
      BY <1>2, <2>1
    <2> QED BY <2>2, <2>3
  <1> HIDE DEF Good
  <1>3. \A T \in SUBSET S : T \in Good
    BY <1>1, <1>2, SubsetsInduction
  <1> USE DEF Good
  <1> QED BY <1>3

-----------------------------------------------------------------------------
\* A set of numbers has a smallest one; so what holds of 0, and of a number if
\* it holds of the one before, holds of all up to N.
LEMMA SmallestNumber ==
    ASSUME NEW Bad \in SUBSET Nat, Bad # {}
    PROVE  \E n \in Bad : \A m \in Bad : ~(m < n)
  <1>1. PICK n \in Bad : \A m \in Bad : ~(<<m, n>> \in OpToRel(<, Nat))
    BY NatLessThanWellFounded, WFMin, Zenon
  <1> QED BY <1>1 DEF OpToRel

LEMMA NumbersInduction ==
    ASSUME NEW N \in Nat, NEW Good, 0 \in Good,
           \A i \in 1..N : i - 1 \in Good => i \in Good
    PROVE  \A i \in 0..N : i \in Good
  <1> DEFINE Bad == {i \in 0..N : i \notin Good}
  <1> SUFFICES ASSUME Bad # {} PROVE FALSE
    OBVIOUS
  <1>1. Bad \in SUBSET Nat
    OBVIOUS
  <1>2. PICK i \in Bad : \A j \in Bad : ~(j < i)
    <2> HIDE DEF Bad
    <2> QED BY <1>1, SmallestNumber
  <1>3. i \in 1..N
    OBVIOUS
  <1>4. i - 1 \notin Bad
    BY <1>2, <1>3
  <1> QED BY <1>3, <1>4

\* A sum over a larger set, of a function that is zero on what is added.
LEMMA SumExtends ==
    ASSUME NEW S, IsFiniteSet(S), NEW T \in SUBSET S, NEW f, NEW g,
           \A x \in S : f[x] \in Int /\ g[x] = IF x \in T THEN f[x] ELSE 0
    PROVE  SumFunctionOnSet(g, S) = SumFunctionOnSet(f, T)
  <1> DEFINE Good == {U \in SUBSET S : SumFunctionOnSet(g, U) = SumFunctionOnSet(f, U \cap T)}
  <1>1. {} \in Good
    <2>1. {} \cap T = {}
      OBVIOUS
    <2> QED BY <2>1, SumEmpty
  <1>2. ASSUME NEW U \in SUBSET S, U # {}, \A x \in U : U \ {x} \in Good
        PROVE  U \in Good
    <2>1. PICK x \in U : TRUE
      BY <1>2
    <2>2. IsFiniteSet(U) /\ IsFiniteSet(U \cap T) /\ IsFiniteSet((U \ {x}) \cap T)
      BY FS_Subset
    <2>3. SumFunctionOnSet(g, U) = g[x] + SumFunctionOnSet(g, U \ {x})
      BY <2>2, SumRemove
    <2>4. SumFunctionOnSet(g, U \ {x}) = SumFunctionOnSet(f, (U \ {x}) \cap T)
      BY <1>2, <2>1
    <2>5. SumFunctionOnSet(f, (U \ {x}) \cap T) \in Int
      BY <2>2, SumInt
    <2>6. CASE x \in T
      <3>1. (U \ {x}) \cap T = (U \cap T) \ {x} /\ x \in U \cap T
        BY <2>6
      <3>2. SumFunctionOnSet(f, U \cap T) = f[x] + SumFunctionOnSet(f, (U \cap T) \ {x})
        BY <2>2, <3>1, SumRemove
      <3> QED BY <2>3, <2>4, <2>6, <3>1, <3>2
    <2>7. CASE x \notin T
      <3>1. (U \ {x}) \cap T = U \cap T /\ g[x] = 0
        BY <2>7
      <3> HIDE DEF Good
      <3>2. PICK sum \in Int : sum = SumFunctionOnSet(f, U \cap T)
        BY <2>5, <3>1
      <3>3. SumFunctionOnSet(g, U \ {x}) = sum
        BY <2>4, <3>1, <3>2
      <3>4. SumFunctionOnSet(g, U) = sum
        BY <2>3, <3>1, <3>3
      <3> USE DEF Good
      <3> QED BY <3>2, <3>4
    <2> QED BY <2>6, <2>7
  <1> HIDE DEF Good
  <1>3. \A U \in SUBSET S : U \in Good
    BY <1>1, <1>2, SubsetsInduction
  <1>4. S \cap T = T
    OBVIOUS
  <1>5. SumFunctionOnSet(g, S) = SumFunctionOnSet(f, S \cap T)
    BY <1>3 DEF Good
  <1> QED BY <1>4, <1>5

\* The sum of one number for every element.
LEMMA SumConstant ==
    ASSUME NEW S, IsFiniteSet(S), NEW c \in Nat, NEW f, \A x \in S : f[x] = c
    PROVE  SumFunctionOnSet(f, S) = Cardinality(S) * c
  <1> DEFINE Good == {T \in SUBSET S : SumFunctionOnSet(f, T) = Cardinality(T) * c}
  <1>1. {} \in Good
    <2>1. Cardinality({}) = 0
      BY FS_EmptySet
    <2> QED BY <2>1, SumEmpty
  <1>2. ASSUME NEW T \in SUBSET S, T # {}, \A x \in T : T \ {x} \in Good
        PROVE  T \in Good
    <2>1. PICK x \in T : TRUE
      BY <1>2
    <2>2. IsFiniteSet(T) /\ IsFiniteSet(T \ {x})
      BY FS_Subset
    <2>3. Cardinality(T) \in Nat /\ Cardinality(T \ {x}) \in Nat
          /\ Cardinality(T \ {x}) = Cardinality(T) - 1
      BY <2>2, FS_CardinalityType, FS_RemoveElement
    <2>4. SumFunctionOnSet(f, T) = c + SumFunctionOnSet(f, T \ {x})
      BY <2>2, SumRemove
    <2>5. SumFunctionOnSet(f, T \ {x}) = Cardinality(T \ {x}) * c
      BY <1>2, <2>1
    <2>6. \A n, m \in Nat : m = n - 1 => c + m * c = n * c
      OBVIOUS
    <2> QED BY <2>3, <2>4, <2>5, <2>6
  <1> HIDE DEF Good
  <1>3. \A T \in SUBSET S : T \in Good
    BY <1>1, <1>2, SubsetsInduction
  <1> QED BY <1>3 DEF Good

\* If each summand is at most a part u/t of another, then so is the sum.
LEMMA SumParts ==
    ASSUME NEW S, IsFiniteSet(S), NEW t \in Nat, NEW u \in Nat, NEW f, NEW g,
           \A x \in S : f[x] \in Nat /\ g[x] \in Nat /\ f[x] * t <= g[x] * u
    PROVE  SumFunctionOnSet(f, S) * t <= SumFunctionOnSet(g, S) * u
  <1> DEFINE Good == {T \in SUBSET S : SumFunctionOnSet(f, T) * t <= SumFunctionOnSet(g, T) * u}
  <1>1. {} \in Good
    BY SumEmpty
  <1>2. ASSUME NEW T \in SUBSET S, T # {}, \A x \in T : T \ {x} \in Good
        PROVE  T \in Good
    <2>1. PICK x \in T : TRUE
      BY <1>2
    <2>2. IsFiniteSet(T) /\ IsFiniteSet(T \ {x})
      BY FS_Subset
    <2>3. /\ SumFunctionOnSet(f, T) = f[x] + SumFunctionOnSet(f, T \ {x})
          /\ SumFunctionOnSet(g, T) = g[x] + SumFunctionOnSet(g, T \ {x})
      BY <2>2, SumRemove
    <2>4. SumFunctionOnSet(f, T \ {x}) \in Nat /\ SumFunctionOnSet(g, T \ {x}) \in Nat
      BY <2>2, SumNat
    <2>5. SumFunctionOnSet(f, T \ {x}) * t <= SumFunctionOnSet(g, T \ {x}) * u
      BY <1>2, <2>1
    <2>6. \A a, b, c, d \in Nat : a * t <= b * u /\ c * t <= d * u => (a + c) * t <= (b + d) * u
      OBVIOUS
    <2>7. f[x] \in Nat /\ g[x] \in Nat /\ f[x] * t <= g[x] * u
      OBVIOUS
    <2> QED BY <2>3, <2>4, <2>5, <2>6, <2>7
  <1> HIDE DEF Good
  <1>3. \A T \in SUBSET S : T \in Good
    BY <1>1, <1>2, SubsetsInduction
  <1> QED BY <1>3 DEF Good

\* A sum of naturals over a subset is not larger.
LEMMA SumOfSubset ==
    ASSUME NEW S, IsFiniteSet(S), NEW T \in SUBSET S, NEW f, \A x \in S : f[x] \in Nat
    PROVE  SumFunctionOnSet(f, T) <= SumFunctionOnSet(f, S)
  <1> DEFINE g == [x \in S |-> IF x \in T THEN f[x] ELSE 0]
  <1>1. SumFunctionOnSet(g, S) = SumFunctionOnSet(f, T)
    BY SumExtends
  <1>2. SumFunctionOnSet(g, S) * 1 <= SumFunctionOnSet(f, S) * 1
    BY SumParts
  <1>3. SumFunctionOnSet(g, S) \in Nat /\ SumFunctionOnSet(f, S) \in Nat
    BY SumNat
  <1> QED BY <1>1, <1>2, <1>3

\* A sum in which some values get more.
LEMMA SumAdded ==
    ASSUME NEW S, IsFiniteSet(S), NEW T \in SUBSET S, NEW f, NEW g, NEW h,
           \A x \in S : f[x] \in Int, \A x \in T : h[x] \in Int,
           \A x \in S : g[x] = f[x] + IF x \in T THEN h[x] ELSE 0
    PROVE  SumFunctionOnSet(g, S) = SumFunctionOnSet(f, S) + SumFunctionOnSet(h, T)
  <1> DEFINE e == [x \in S |-> IF x \in T THEN h[x] ELSE 0]
  <1>1. \A x \in S : f[x] \in Int /\ e[x] \in Int /\ g[x] = f[x] + e[x]
    OBVIOUS
  <1>2. SumFunctionOnSet(g, S) = SumFunctionOnSet(f, S) + SumFunctionOnSet(e, S)
    <2> HIDE DEF e
    <2> QED BY <1>1, SumPlus
  <1>3. \A x \in S : e[x] = IF x \in T THEN e[x] ELSE 0
    OBVIOUS
  <1>4. SumFunctionOnSet(e, S) = SumFunctionOnSet(e, T)
    <2> HIDE DEF e
    <2> QED BY <1>1, <1>3, SumExtends
  <1>5. IsFiniteSet(T) /\ \A x \in T : e[x] = h[x]
    BY FS_Subset
  <1>6. SumFunctionOnSet(e, T) = SumFunctionOnSet(h, T)
    <2> HIDE DEF e
    <2> QED BY <1>5, SumAgree
  <1> QED BY <1>2, <1>4, <1>6
=============================================================================
