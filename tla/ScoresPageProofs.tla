-------------------------- MODULE ScoresPageProofs ---------------------------
(***************************************************************************)
(* Proofs about ScoresPage and the boards it serves, for any collection,   *)
(* any number of requests and a database that may fail.                    *)
(***************************************************************************)
EXTENDS ScoresPage, FiniteSetTheorems, FunctionTheorems, SequenceTheorems, WellFoundedInduction, TLAPS

\* A board that was made is not taken for null.
LEMMA BoardMade == \A d, k : [docs |-> d, ranks |-> k] # NoBoard
<1> SUFFICES ASSUME NEW d, NEW k, [docs |-> d, ranks |-> k] = NoBoard PROVE FALSE
  OBVIOUS
<1>1. DOMAIN [docs |-> d, ranks |-> k] = {"docs", "ranks"}
  OBVIOUS
<1>2. DOMAIN NoBoard = {"none"}
  BY DEF NoBoard
<1> QED BY <1>1, <1>2

LEMMA InvInit == Init => CacheInv
BY DEF Init, CacheInv, CacheInOrder

LEMMA InvStep == CacheInv /\ [Next]_vars => CacheInv'
<1> SUFFICES ASSUME CacheInv, [Next]_vars PROVE CacheInv'
  OBVIOUS
<1> USE DEF CacheInv, CacheInOrder
<1>1. CASE Change
  BY <1>1 DEF Change, pageVars
<1>2. ASSUME NEW r \in Reqs, Ask(r) PROVE CacheInv'
  <2>1. CASE cached # NoBoard
    BY <1>2, <2>1 DEF Ask
  <2>2. CASE cached = NoBoard /\ generating
    BY <1>2, <2>2 DEF Ask, MayGenerate
  <2>3. CASE cached = NoBoard /\ ~generating
    <3>1. generating' = TRUE /\ scans' = {NewScan} /\ cached' = cached /\ timers' = timers
      BY <1>2, <2>3 DEF Ask, MayGenerate
    <3> QED BY <2>3, <3>1
  <2> QED BY <2>1, <2>2, <2>3
<1>3. ASSUME NEW s \in scans, CursorFails(s) PROVE CacheInv'
  BY <1>3 DEF CursorFails
<1>4. ASSUME NEW s \in scans, Finish(s) PROVE CacheInv'
  <2>1. cached' # NoBoard
    BY <1>4, BoardMade DEF Finish, Stored
  <2>2. generating /\ cached = NoBoard /\ timers = 0 /\ scans \ {s} = {}
    OBVIOUS
  <2>3. /\ waiting' = {} /\ scans' = scans \ {s}
        /\ timers' = timers + 1 /\ generating' = FALSE
    BY <1>4 DEF Finish, Stored
  <2>4. timers' = 1 /\ scans' = {}
    BY <2>2, <2>3
  <2> QED BY <2>1, <2>3, <2>4
<1>5. ASSUME NEW s \in scans, NEW f \in s.left, ReadDoc(s, f) PROVE CacheInv'
  <2> DEFINE read == [s EXCEPT !.left = @ \ {f}, !.docs = @ \cup {Document(docs, f)}]
  <2>1. /\ scans' = (scans \ {s}) \cup {read}
        /\ UNCHANGED <<waiting, generating, cached, timers>>
    BY <1>5 DEF ReadDoc
  <2>2. scans' = {read}
    BY <2>1
  <2> HIDE DEF read
  <2> QED BY <2>1, <2>2
<1>6. CASE Expire
  BY <1>6 DEF Expire
<1>7. CASE UNCHANGED vars
  BY <1>7 DEF vars, pageVars
<1> QED BY <1>1, <1>2, <1>3, <1>4, <1>5, <1>6, <1>7 DEF Next

\* Whatever happens to the collection while boards are made of it: a board is kept
\* for as long as one timer runs, while it is kept nobody waits and none is made,
\* and who waits waits for the one generation under way.
THEOREM CacheStaysInOrder == Spec => []CacheInOrder
<1>1. CacheInv => CacheInOrder BY DEF CacheInv
<1> QED BY InvInit, InvStep, <1>1, PTL DEF Spec
-----------------------------------------------------------------------------
(***************************************************************************)
(* Finite sets: what holds of a set when it holds of all smaller ones, and *)
(* folds.  A fold takes one element after the other, AnyOf(s) first.       *)
(***************************************************************************)

LEMMA FirstOf ==
  ASSUME NEW S \in SUBSET Nat, S # {}
  PROVE  \E i \in S : \A j \in S : i <= j
<1> DEFINE R == OpToRel(<, Nat)
<1>1. \E i \in S : \A j \in S : ~(<<j, i>> \in R)
  BY NatLessThanWellFounded, WFMin
<1>2. \A i, j \in Nat : j < i => <<j, i>> \in R
  BY DEF OpToRel
<1> HIDE DEF R
<1>3. PICK i \in S : \A j \in S : ~(<<j, i>> \in R)
  BY <1>1
<1>4. \A j \in S : ~(j < i)
  BY <1>2, <1>3
<1>5. i \in Int /\ \A j \in S : j \in Int
  OBVIOUS
<1> QED BY <1>4, <1>5

\* Among sets of elements of a finite set there is one with no smaller one in it.
LEMMA SmallestSet ==
  ASSUME NEW S, IsFiniteSet(S), NEW B \in SUBSET SUBSET S, B # {}
  PROVE  \E T \in B : \A x \in T : T \ {x} \notin B
<1> DEFINE sizes == {Cardinality(T) : T \in B}
<1>1. \A T \in B : IsFiniteSet(T) /\ Cardinality(T) \in Nat
  BY FS_Subset, FS_CardinalityType
<1>2. sizes \in SUBSET Nat /\ sizes # {}
  BY <1>1
<1> HIDE DEF sizes
<1>3. PICK n \in sizes : \A j \in sizes : n <= j
  BY <1>2, FirstOf
<1>4. PICK T \in B : Cardinality(T) = n
  BY DEF sizes
<1>5. ASSUME NEW x \in T, T \ {x} \in B PROVE FALSE
  <2>1. Cardinality(T \ {x}) = Cardinality(T) - 1
    BY <1>1, FS_RemoveElement
  <2>2. n <= Cardinality(T \ {x})
    BY <1>3, <1>5 DEF sizes
  <2>3. n \in Nat
    BY <1>1, <1>4
  <2> QED BY <1>4, <2>1, <2>2, <2>3
<1> QED BY <1>5

AnyOf(s) == CHOOSE x \in s : TRUE

\* One element [x] more: of a sum of the values of [h], or for an observer of the
\* documents or of the challenges.
More(kind, h, x, v) ==
  IF kind = "sum" THEN h[x] + v
  ELSE IF kind = "flags" THEN ScoresFlag(x, v)
  ELSE IF kind = "cumulative" THEN CumulativeFlag(x, v)
  ELSE IF kind = "losses" THEN LossesFlag(x, v)
  ELSE IF kind = "steals" THEN StealsFlag(x, v)
  ELSE IF kind = "both" THEN BothFlag(x, v)
  ELSE IF kind = "services" THEN ServiceFlag(x, v)
  ELSE ScoresChallenge(x, v)

IsFold(kind, h, base, S, g) ==
  g = [s \in SUBSET S |-> IF s = {} THEN base ELSE More(kind, h, AnyOf(s), g[s \ {AnyOf(s)}])]

LEMMA AnyIsIn == \A s : s # {} => AnyOf(s) \in s
BY DEF AnyOf

LEMMA FoldExists ==
  ASSUME NEW kind, NEW h, NEW base, NEW S, IsFiniteSet(S)
  PROVE  \E g : IsFold(kind, h, base, S, g)
<1> DEFINE Part(n) == {s \in SUBSET S : Cardinality(s) <= n}
           UpTo(n, g) == g = [s \in Part(n) |-> IF s = {} THEN base
                                                ELSE More(kind, h, AnyOf(s), g[s \ {AnyOf(s)}])]
           none == {n \in Nat : ~ \E g : UpTo(n, g)}
<1>1. \A s \in SUBSET S : IsFiniteSet(s) /\ Cardinality(s) \in Nat /\ Cardinality(s) <= Cardinality(S)
  BY FS_Subset, FS_CardinalityType
<1>2. \A n \in Nat : \A s \in Part(n) : s # {} => /\ AnyOf(s) \in s
                                                 /\ s \ {AnyOf(s)} \in Part(n) /\ n # 0
                                                 /\ s \ {AnyOf(s)} \in Part(n - 1)
  <2> SUFFICES ASSUME NEW n \in Nat, NEW s \in Part(n), s # {}
               PROVE  /\ AnyOf(s) \in s
                      /\ s \ {AnyOf(s)} \in Part(n) /\ n # 0 /\ s \ {AnyOf(s)} \in Part(n - 1)
    OBVIOUS
  <2>1. AnyOf(s) \in s
    BY AnyIsIn
  <2>2. IsFiniteSet(s) /\ Cardinality(s) \in Nat /\ Cardinality(s) <= n
    BY <1>1
  <2>3. Cardinality(s \ {AnyOf(s)}) = Cardinality(s) - 1
    BY <2>1, <2>2, FS_RemoveElement
  <2>4. Cardinality(s) # 0
    BY <2>2, FS_EmptySet
  <2> QED BY <2>1, <2>2, <2>3, <2>4
<1>3. none = {}
  <2> SUFFICES ASSUME none # {} PROVE FALSE
    OBVIOUS
  <2>1. PICK n \in none : \A j \in none : n <= j
    <3>1. none \in SUBSET Nat
      OBVIOUS
    <3> HIDE DEF none
    <3> QED BY <3>1, FirstOf
  <2>2. CASE n = 0
    <3>1. \A s \in Part(0) : s = {}
      BY <1>2
    <3>2. UpTo(0, [s \in Part(0) |-> base])
      <4> HIDE DEF Part
      <4> QED BY <3>1
    <3> QED BY <2>1, <2>2, <3>2
  <2>3. CASE n # 0
    <3>0. n \in Nat /\ n - 1 \in Nat /\ ~(n <= n - 1)
      BY <2>1, <2>3
    <3>1. PICK g : UpTo(n - 1, g)
      <4>1. n - 1 \notin none
        BY <2>1, <3>0
      <4> HIDE DEF UpTo
      <4> QED BY <3>0, <4>1
    <3> DEFINE f == [s \in Part(n) |-> IF s = {} THEN base ELSE More(kind, h, AnyOf(s), g[s \ {AnyOf(s)}])]
    <3>2. n \in Nat /\ n - 1 \in Nat
      BY <3>0
    <3>3. \A s \in Part(n - 1) : s \in Part(n)
      BY <1>1, <3>2
    <3>4. \A s \in Part(n) : s # {} => s \ {AnyOf(s)} \in Part(n - 1)
      BY <1>2, <3>2
    <3> HIDE DEF Part
    <3>5. \A s \in Part(n - 1) : f[s] = g[s]
      BY <3>1, <3>3
    <3>6. \A s \in Part(n) : s # {} => f[s \ {AnyOf(s)}] = g[s \ {AnyOf(s)}]
      BY <3>4, <3>5
    <3>7. UpTo(n, f)
      BY <3>6
    <3> QED BY <2>1, <3>7
  <2> QED BY <2>2, <2>3
<1>4. PICK g : UpTo(Cardinality(S), g)
  BY <1>3, FS_CardinalityType
<1>5. Part(Cardinality(S)) = SUBSET S
  BY <1>1
<1> HIDE DEF Part
<1>6. IsFold(kind, h, base, S, g)
  BY <1>4, <1>5 DEF IsFold
<1> QED BY <1>6

LEMMA FoldUnique ==
  ASSUME NEW kind, NEW h, NEW base, NEW S, IsFiniteSet(S), NEW T \in SUBSET S,
         NEW f, IsFold(kind, h, base, S, f), NEW g, IsFold(kind, h, base, T, g)
  PROVE  \A s \in SUBSET T : f[s] = g[s]
<1> DEFINE B == {s \in SUBSET T : f[s] # g[s]}
<1> SUFFICES ASSUME B # {} PROVE FALSE
  OBVIOUS
<1>1. IsFiniteSet(T) /\ B \in SUBSET SUBSET T
  BY FS_Subset
<1> HIDE DEF B
<1>2. PICK s \in B : \A x \in s : s \ {x} \notin B
  BY <1>1, SmallestSet
<1>3. s \in SUBSET T /\ f[s] # g[s] /\ s \in SUBSET S
  BY DEF B
<1>4. s # {} => AnyOf(s) \in s /\ f[s \ {AnyOf(s)}] = g[s \ {AnyOf(s)}]
  BY <1>2, <1>3, AnyIsIn DEF B
<1>5. /\ f[s] = IF s = {} THEN base ELSE More(kind, h, AnyOf(s), f[s \ {AnyOf(s)}])
      /\ g[s] = IF s = {} THEN base ELSE More(kind, h, AnyOf(s), g[s \ {AnyOf(s)}])
  BY <1>3 DEF IsFold
<1> QED BY <1>3, <1>4, <1>5

-----------------------------------------------------------------------------
(***************************************************************************)
(* Sums of natural numbers over finite sets.                               *)
(***************************************************************************)

Sum(h, S) == MapThenSumSet(LAMBDA x : h[x], S)

LEMMA SumIsFold ==
  ASSUME NEW h, NEW S, IsFiniteSet(S)
  PROVE  \E g : IsFold("sum", h, 0, S, g) /\ Sum(h, S) = g[S]
<1> DEFINE Is(f) == f = [s \in SUBSET S |-> IF s = {} THEN 0 ELSE h[AnyOf(s)] + f[s \ {AnyOf(s)}]]
<1>1. \A f : Is(f) <=> IsFold("sum", h, 0, S, f)
  BY DEF IsFold, More
<1>2. \E f : Is(f)
  BY <1>1, FoldExists
<1>3. PICK g : g = CHOOSE f : Is(f)
  OBVIOUS
<1>4. Is(g)
  BY <1>2, <1>3
<1>5. Sum(h, S) = MapThenFoldSet(+, 0, LAMBDA x : h[x], LAMBDA s : CHOOSE x \in s : TRUE, S)
  BY DEF Sum, MapThenSumSet
<1>6. MapThenFoldSet(+, 0, LAMBDA x : h[x], LAMBDA s : CHOOSE x \in s : TRUE, S) = g[S]
  BY <1>3 DEF MapThenFoldSet, AnyOf
<1> QED BY <1>1, <1>4, <1>5, <1>6

LEMMA SumOfAny ==
  ASSUME NEW h, NEW S, IsFiniteSet(S)
  PROVE  Sum(h, S) = IF S = {} THEN 0 ELSE h[AnyOf(S)] + Sum(h, S \ {AnyOf(S)})
<1> DEFINE T == S \ {AnyOf(S)}
<1>1. PICK f : IsFold("sum", h, 0, S, f) /\ Sum(h, S) = f[S]
  BY SumIsFold
<1>2. T \in SUBSET S /\ IsFiniteSet(T)
  BY FS_Subset
<1>3. PICK g : IsFold("sum", h, 0, T, g) /\ Sum(h, T) = g[T]
  BY <1>2, SumIsFold
<1> HIDE DEF T
<1>4. f[T] = g[T]
  BY <1>1, <1>2, <1>3, FoldUnique
<1>5. f[S] = IF S = {} THEN 0 ELSE h[AnyOf(S)] + f[T]
  BY <1>1 DEF IsFold, More, T
<1> QED BY <1>1, <1>3, <1>4, <1>5 DEF T

LEMMA SumOfNone == \A h : Sum(h, {}) = 0
BY SumOfAny, FS_EmptySet

LEMMA SumIsNat ==
  ASSUME NEW h, NEW S, IsFiniteSet(S), \A x \in S : h[x] \in Nat
  PROVE  Sum(h, S) \in Nat
<1> DEFINE B == {T \in SUBSET S : Sum(h, T) \notin Nat}
<1> SUFFICES ASSUME B # {} PROVE FALSE
  BY DEF B
<1>1. B \in SUBSET SUBSET S
  OBVIOUS
<1>2. PICK T \in B : \A x \in T : T \ {x} \notin B
  <2> HIDE DEF B
  <2> QED BY <1>1, SmallestSet
<1>3. T \in SUBSET S /\ IsFiniteSet(T)
  BY FS_Subset
<1>4. T # {}
  BY SumOfNone
<1>5. AnyOf(T) \in T /\ Sum(h, T \ {AnyOf(T)}) \in Nat
  BY <1>2, <1>3, <1>4, AnyIsIn
<1>6. Sum(h, T) = h[AnyOf(T)] + Sum(h, T \ {AnyOf(T)})
  BY <1>3, <1>4, SumOfAny
<1>7. h[AnyOf(T)] \in Nat
  BY <1>3, <1>5
<1> QED BY <1>5, <1>6, <1>7

\* Any element may come first.
LEMMA SumOfOne ==
  ASSUME NEW h, NEW S, IsFiniteSet(S), \A x \in S : h[x] \in Nat
  PROVE  \A x \in S : Sum(h, S) = h[x] + Sum(h, S \ {x})
<1> DEFINE B == {T \in SUBSET S : \E x \in T : Sum(h, T) # h[x] + Sum(h, T \ {x})}
<1> SUFFICES ASSUME B # {} PROVE FALSE
  BY DEF B
<1>1. B \in SUBSET SUBSET S
  OBVIOUS
<1>2. PICK T \in B : \A x \in T : T \ {x} \notin B
  <2> HIDE DEF B
  <2> QED BY <1>1, SmallestSet
<1>3. PICK x \in T : Sum(h, T) # h[x] + Sum(h, T \ {x})
  BY <1>2
<1>4. T \in SUBSET S /\ IsFiniteSet(T) /\ T # {}
  BY <1>3, FS_Subset
<1>5. PICK a : a = AnyOf(T)
  OBVIOUS
<1>6. a \in T /\ Sum(h, T) = h[a] + Sum(h, T \ {a})
  BY <1>4, <1>5, AnyIsIn, SumOfAny
<1>7. a # x
  BY <1>3, <1>6
<1>8. Sum(h, T \ {a}) = h[x] + Sum(h, (T \ {a}) \ {x})
  BY <1>2, <1>4, <1>6, <1>7
<1>9. Sum(h, T \ {x}) = h[a] + Sum(h, (T \ {x}) \ {a})
  BY <1>2, <1>4, <1>6, <1>7
<1>10. (T \ {a}) \ {x} = (T \ {x}) \ {a}
  OBVIOUS
<1>11. PICK rest : rest = Sum(h, (T \ {x}) \ {a})
  OBVIOUS
<1>12. rest \in Nat /\ h[a] \in Nat /\ h[x] \in Nat
  <2>1. IsFiniteSet((T \ {x}) \ {a}) /\ \A y \in (T \ {x}) \ {a} : h[y] \in Nat
    BY <1>4, FS_Subset
  <2> QED BY <1>4, <1>6, <1>11, <2>1, SumIsNat
<1> QED BY <1>3, <1>6, <1>8, <1>9, <1>10, <1>11, <1>12

\* Only the values on the set count.
LEMMA SumDepends ==
  ASSUME NEW h, NEW g, NEW S, IsFiniteSet(S), \A x \in S : h[x] = g[x]
  PROVE  Sum(h, S) = Sum(g, S)
<1> DEFINE B == {T \in SUBSET S : Sum(h, T) # Sum(g, T)}
<1> SUFFICES ASSUME B # {} PROVE FALSE
  BY DEF B
<1>1. B \in SUBSET SUBSET S
  OBVIOUS
<1>2. PICK T \in B : \A x \in T : T \ {x} \notin B
  <2> HIDE DEF B
  <2> QED BY <1>1, SmallestSet
<1>3. T \in SUBSET S /\ IsFiniteSet(T)
  BY FS_Subset
<1>4. T # {}
  BY SumOfNone
<1>5. AnyOf(T) \in T /\ Sum(h, T \ {AnyOf(T)}) = Sum(g, T \ {AnyOf(T)})
  BY <1>2, <1>3, <1>4, AnyIsIn
<1> QED BY <1>2, <1>3, <1>4, <1>5, SumOfAny

\* An injection into another set, under which no value decreases.
LEMMA SumInjected ==
  ASSUME NEW h, NEW S, IsFiniteSet(S), \A x \in S : h[x] \in Nat,
         NEW g, NEW R, IsFiniteSet(R), \A y \in R : g[y] \in Nat,
         NEW e, \A x \in S : e[x] \in R /\ h[x] <= g[e[x]],
         \A x, y \in S : e[x] = e[y] => x = y
  PROVE  Sum(h, S) <= Sum(g, R)
<1> DEFINE Into(T, Q) == \A x \in T : e[x] \in Q
           B == {T \in SUBSET S : \E Q \in SUBSET R : Into(T, Q) /\ ~(Sum(h, T) <= Sum(g, Q))}
<1> SUFFICES ASSUME B # {} PROVE FALSE
  BY DEF B
<1>1. B \in SUBSET SUBSET S
  OBVIOUS
<1>2. PICK T \in B : \A x \in T : T \ {x} \notin B
  <2> HIDE DEF B
  <2> QED BY <1>1, SmallestSet
<1>3. T \in SUBSET S /\ IsFiniteSet(T)
  BY FS_Subset
<1>4. PICK Q \in SUBSET R : Into(T, Q) /\ ~(Sum(h, T) <= Sum(g, Q))
  BY <1>2
<1>5. IsFiniteSet(Q) /\ \A y \in Q : g[y] \in Nat
  BY FS_Subset
<1>6. Sum(g, Q) \in Nat
  BY <1>5, SumIsNat
<1>7. T # {}
  <2>1. Sum(h, {}) = 0 /\ 0 <= Sum(g, Q)
    BY <1>6, SumOfNone
  <2> QED BY <1>4, <2>1
<1>8. PICK x \in T : TRUE
  BY <1>7
<1>9. Into(T \ {x}, Q \ {e[x]})
  BY <1>3, <1>4
<1>10. Sum(h, T \ {x}) <= Sum(g, Q \ {e[x]})
  <2>1. Q \ {e[x]} \in SUBSET R /\ T \ {x} \in SUBSET S
    BY <1>3
  <2> HIDE DEF Into
  <2> QED BY <1>2, <1>9, <2>1
<1>11. Sum(h, T) = h[x] + Sum(h, T \ {x})
  BY <1>3, SumOfOne
<1>12. Sum(g, Q) = g[e[x]] + Sum(g, Q \ {e[x]})
  BY <1>4, <1>5, SumOfOne
<1>13. h[x] \in Nat /\ g[e[x]] \in Nat /\ h[x] <= g[e[x]]
  BY <1>3
<1>14. Sum(h, T \ {x}) \in Nat /\ Sum(g, Q \ {e[x]}) \in Nat
  <2>1. IsFiniteSet(T \ {x}) /\ IsFiniteSet(Q \ {e[x]})
    BY <1>3, <1>5, FS_RemoveElement
  <2>2. (\A y \in T \ {x} : h[y] \in Nat) /\ \A y \in Q \ {e[x]} : g[y] \in Nat
    BY <1>3
  <2> QED BY <2>1, <2>2, SumIsNat
<1> QED BY <1>4, <1>10, <1>11, <1>12, <1>13, <1>14

\* Term by term.
LEMMA SumOfSums ==
  ASSUME NEW h, NEW g, NEW k, NEW S, IsFiniteSet(S),
         \A x \in S : h[x] \in Nat /\ g[x] \in Nat /\ k[x] = h[x] + g[x]
  PROVE  Sum(k, S) = Sum(h, S) + Sum(g, S)
<1> DEFINE B == {T \in SUBSET S : Sum(k, T) # Sum(h, T) + Sum(g, T)}
<1> SUFFICES ASSUME B # {} PROVE FALSE
  BY DEF B
<1>1. B \in SUBSET SUBSET S
  OBVIOUS
<1>2. PICK T \in B : \A x \in T : T \ {x} \notin B
  <2> HIDE DEF B
  <2> QED BY <1>1, SmallestSet
<1>3. T \in SUBSET S /\ IsFiniteSet(T)
  BY FS_Subset
<1>4. T # {}
  <2>1. Sum(k, {}) = 0 /\ Sum(h, {}) = 0 /\ Sum(g, {}) = 0
    BY SumOfNone
  <2>2. Sum(k, T) # Sum(h, T) + Sum(g, T)
    BY <1>2
  <2>3. T = {} => Sum(k, T) = 0 /\ Sum(h, T) + Sum(g, T) = 0
    BY <2>1
  <2> QED BY <2>2, <2>3, Zenon
<1>5. PICK a : a = AnyOf(T)
  OBVIOUS
<1>6. a \in T /\ Sum(k, T \ {a}) = Sum(h, T \ {a}) + Sum(g, T \ {a})
  BY <1>2, <1>3, <1>4, <1>5, AnyIsIn
<1>7. /\ Sum(k, T) = k[a] + Sum(k, T \ {a}) /\ Sum(h, T) = h[a] + Sum(h, T \ {a})
      /\ Sum(g, T) = g[a] + Sum(g, T \ {a})
  BY <1>3, <1>4, <1>5, SumOfAny
<1>8. h[a] \in Nat /\ g[a] \in Nat /\ k[a] = h[a] + g[a]
  BY <1>3, <1>6
<1>9. Sum(h, T \ {a}) \in Nat /\ Sum(g, T \ {a}) \in Nat
  <2>1. IsFiniteSet(T \ {a}) /\ \A x \in T \ {a} : h[x] \in Nat /\ g[x] \in Nat
    BY <1>3, FS_RemoveElement
  <2> QED BY <2>1, SumIsNat
<1>10. Sum(k, T) # Sum(h, T) + Sum(g, T)
  BY <1>2
<1> QED BY <1>6, <1>7, <1>8, <1>9, <1>10

LEMMA SumOfUnion ==
  ASSUME NEW h, NEW S, NEW R, IsFiniteSet(S), IsFiniteSet(R), S \cap R = {},
         \A x \in S \cup R : h[x] \in Nat
  PROVE  Sum(h, S \cup R) = Sum(h, S) + Sum(h, R)
<1> DEFINE B == {T \in SUBSET R : Sum(h, S \cup T) # Sum(h, S) + Sum(h, T)}
<1> SUFFICES ASSUME B # {} PROVE FALSE
  BY DEF B
<1>1. B \in SUBSET SUBSET R
  OBVIOUS
<1>2. PICK T \in B : \A x \in T : T \ {x} \notin B
  <2> HIDE DEF B
  <2> QED BY <1>1, SmallestSet
<1>3. T \in SUBSET R /\ IsFiniteSet(T) /\ IsFiniteSet(S \cup T) /\ \A x \in S \cup T : h[x] \in Nat
  BY FS_Subset, FS_Union
<1>4. Sum(h, S) \in Nat
  BY SumIsNat
<1>5. Sum(h, S \cup T) # Sum(h, S) + Sum(h, T)
  BY <1>2
<1>6. T # {}
  <2>1. T = {} => S \cup T = S /\ Sum(h, T) = 0
    BY SumOfNone
  <2>2. Sum(h, S) = Sum(h, S) + 0
    BY <1>4
  <2> QED BY <1>5, <2>1, <2>2
<1>7. PICK a : a \in T
  BY <1>6
<1>8. Sum(h, S \cup (T \ {a})) = Sum(h, S) + Sum(h, T \ {a})
  BY <1>2, <1>3, <1>7
<1>9. S \cup (T \ {a}) = (S \cup T) \ {a}
  BY <1>3, <1>7
<1>10. Sum(h, S \cup T) = h[a] + Sum(h, (S \cup T) \ {a})
  BY <1>3, <1>7, SumOfOne
<1>11. Sum(h, T) = h[a] + Sum(h, T \ {a})
  BY <1>3, <1>7, SumOfOne
<1>12. h[a] \in Nat
  BY <1>3, <1>7
<1>13. Sum(h, T \ {a}) \in Nat
  <2>1. IsFiniteSet(T \ {a}) /\ \A x \in T \ {a} : h[x] \in Nat
    BY <1>3, FS_RemoveElement
  <2> QED BY <2>1, SumIsNat
<1>14. Sum(h, S \cup T) = h[a] + (Sum(h, S) + Sum(h, T \ {a}))
  BY <1>8, <1>9, <1>10
<1>15. PICK x, y : x = Sum(h, S) /\ y = Sum(h, T \ {a})
  OBVIOUS
<1>16. h[a] + (x + y) = x + (h[a] + y)
  BY <1>4, <1>12, <1>13, <1>15
<1> QED BY <1>5, <1>11, <1>14, <1>15, <1>16

\* The elements may have other names.
LEMMA SumRenamed ==
  ASSUME NEW h, NEW S, IsFiniteSet(S), \A x \in S : h[x] \in Nat,
         NEW g, NEW R, IsFiniteSet(R), NEW e, NEW d,
         \A x \in S : e[x] \in R /\ d[e[x]] = x /\ h[x] = g[e[x]],
         \A y \in R : d[y] \in S /\ e[d[y]] = y
  PROVE  Sum(h, S) = Sum(g, R)
<1>1. \A y \in R : g[y] \in Nat /\ h[d[y]] = g[y]
  OBVIOUS
<1>2. Sum(h, S) \in Nat /\ Sum(g, R) \in Nat
  BY <1>1, SumIsNat
<1>3. Sum(h, S) <= Sum(g, R)
  <2>1. \A x \in S : e[x] \in R /\ h[x] <= g[e[x]]
    OBVIOUS
  <2>2. \A x, y \in S : e[x] = e[y] => x = y
    OBVIOUS
  <2> QED BY <1>1, <2>1, <2>2, SumInjected
<1>4. Sum(g, R) <= Sum(h, S)
  <2>1. \A y \in R : d[y] \in S /\ g[y] <= h[d[y]]
    BY <1>1
  <2>2. \A x, y \in R : d[x] = d[y] => x = y
    OBVIOUS
  <2> QED BY <1>1, <2>1, <2>2, SumInjected
<1> QED BY <1>2, <1>3, <1>4

LEMMA SumOfSame ==
  ASSUME NEW h, NEW p \in Nat, NEW S, IsFiniteSet(S), \A x \in S : h[x] = p
  PROVE  Sum(h, S) = Cardinality(S) * p
<1> DEFINE B == {T \in SUBSET S : Sum(h, T) # Cardinality(T) * p}
<1> SUFFICES ASSUME B # {} PROVE FALSE
  BY DEF B
<1>1. B \in SUBSET SUBSET S
  OBVIOUS
<1>2. PICK T \in B : \A x \in T : T \ {x} \notin B
  <2> HIDE DEF B
  <2> QED BY <1>1, SmallestSet
<1>3. T \in SUBSET S /\ IsFiniteSet(T)
  BY FS_Subset
<1>4. Sum(h, T) # Cardinality(T) * p
  BY <1>2
<1>5. T # {}
  <2>1. T = {} => Sum(h, T) = 0 /\ Cardinality(T) = 0
    BY SumOfNone, FS_EmptySet
  <2>2. 0 * p = 0
    OBVIOUS
  <2> QED BY <1>4, <2>1, <2>2
<1>6. PICK a : a \in T
  BY <1>5
<1>7. Sum(h, T \ {a}) = Cardinality(T \ {a}) * p
  BY <1>2, <1>3, <1>6
<1>8. Cardinality(T \ {a}) = Cardinality(T) - 1 /\ Cardinality(T) \in Nat
  BY <1>3, <1>6, FS_RemoveElement, FS_CardinalityType
<1>9. Sum(h, T) = p + Sum(h, T \ {a})
  <2>1. \A x \in T : h[x] \in Nat
    BY <1>3
  <2>2. h[a] = p
    BY <1>3, <1>6
  <2> QED BY <1>3, <1>6, <2>1, <2>2, SumOfOne
<1>10. PICK n : n = Cardinality(T)
  OBVIOUS
<1>11. n \in Nat /\ p + (n - 1) * p = n * p
  BY <1>8, <1>10
<1> QED BY <1>4, <1>7, <1>8, <1>9, <1>10, <1>11

-----------------------------------------------------------------------------
(***************************************************************************)
(* Points of the entries of a list.                                        *)
(***************************************************************************)

Entries == [time : Nat, points : Nat]
PointsIn(e) == MapThenSumSet(LAMBDA i : e[i].points, DOMAIN e)
EntryPoints(e) == [i \in DOMAIN e |-> e[i].points]

LEMMA PointsAreSum ==
  ASSUME NEW e, IsFiniteSet(DOMAIN e)
  PROVE  PointsIn(e) = Sum(EntryPoints(e), DOMAIN e)
<1> DEFINE S == DOMAIN e
           Is(f) == f = [s \in SUBSET S |-> IF s = {} THEN 0 ELSE e[AnyOf(s)].points + f[s \ {AnyOf(s)}]]
<1>1. PICK k : k = EntryPoints(e)
  OBVIOUS
<1>2. \A s \in SUBSET S : s # {} => k[AnyOf(s)] = e[AnyOf(s)].points
  BY <1>1, AnyIsIn DEF EntryPoints
<1>3. PICK f : IsFold("sum", k, 0, S, f) /\ Sum(k, S) = f[S]
  BY SumIsFold
<1> HIDE DEF S
<1>4. \A g : Is(g) => IsFold("sum", k, 0, S, g)
  BY <1>2 DEF IsFold, More
<1>5. Is(f)
  BY <1>2, <1>3 DEF IsFold, More
<1>6. PICK g : g = CHOOSE z : Is(z)
  OBVIOUS
<1>7. Is(g)
  BY <1>5, <1>6
<1>8. g[S] = f[S]
  <2>1. IsFold("sum", k, 0, S, g) /\ IsFold("sum", k, 0, S, f)
    BY <1>3, <1>4, <1>7
  <2>2. IsFiniteSet(S) /\ S \in SUBSET S
    BY DEF S
  <2> HIDE DEF Is
  <2> QED BY <2>1, <2>2, FoldUnique
<1>9. PointsIn(e) = MapThenFoldSet(+, 0, LAMBDA i : e[i].points, LAMBDA s : CHOOSE x \in s : TRUE, S)
  BY DEF PointsIn, MapThenSumSet, S
<1>10. MapThenFoldSet(+, 0, LAMBDA i : e[i].points, LAMBDA s : CHOOSE x \in s : TRUE, S) = g[S]
  BY <1>6 DEF MapThenFoldSet, AnyOf
<1> QED BY <1>1, <1>3, <1>8, <1>9, <1>10 DEF S

LEMMA SumShifted ==
  ASSUME NEW m \in Nat, NEW n \in Nat, NEW h, NEW g,
         \A i \in 1 .. n : h[i] \in Nat /\ h[i] = g[m + i]
  PROVE  Sum(h, 1 .. n) = Sum(g, m + 1 .. m + n)
<1>1. PICK S, R : S = 1 .. n /\ R = m + 1 .. m + n
  OBVIOUS
<1>2. PICK e, d : e = [i \in 1 .. n |-> m + i] /\ d = [i \in m + 1 .. m + n |-> i - m]
  OBVIOUS
<1>3. \A i \in S : e[i] = m + i /\ m + i \in R /\ i \in Nat
  BY <1>1, <1>2
<1>4. \A i \in R : d[i] = i - m /\ i - m \in S /\ i \in Nat
  BY <1>1, <1>2
<1>5. \A i \in S : e[i] \in R /\ d[e[i]] = i /\ h[i] = g[e[i]]
  BY <1>1, <1>3, <1>4
<1>6. \A i \in R : d[i] \in S /\ e[d[i]] = i
  BY <1>3, <1>4
<1>7. \A i \in S : h[i] \in Nat
  BY <1>1
<1>8. IsFiniteSet(S)
  <2>1. 1 \in Int /\ n \in Int
    OBVIOUS
  <2> QED BY <1>1, <2>1, FS_Interval
<1>9. IsFiniteSet(R)
  <2>1. m + 1 \in Int /\ m + n \in Int
    OBVIOUS
  <2> QED BY <1>1, <2>1, FS_Interval
<1>10. Sum(h, S) = Sum(g, R)
  BY <1>5, <1>6, <1>7, <1>8, <1>9, SumRenamed
<1> QED BY <1>1, <1>10

LEMMA PointsOfConcat ==
  ASSUME NEW a \in Seq(Entries), NEW b \in Seq(Entries)
  PROVE  PointsIn(a \o b) = PointsIn(a) + PointsIn(b)
<1>0. PICK m \in Nat, n \in Nat : m = Len(a) /\ n = Len(b)
  OBVIOUS
<1>1. DOMAIN a = 1 .. m /\ DOMAIN b = 1 .. n
  BY <1>0
<1>2. PICK c : c = a \o b
  OBVIOUS
<1>3. /\ c \in Seq(Entries) /\ Len(c) = m + n
      /\ \A i \in 1 .. m + n : c[i] = IF i <= m THEN a[i] ELSE b[i - m]
  BY <1>0, <1>2, ConcatProperties
<1>4. DOMAIN c = 1 .. m + n
  BY <1>3
<1>5. (\A i \in 1 .. m : c[i] = a[i]) /\ \A i \in 1 .. n : c[m + i] = b[i]
  <2>1. \A i \in 1 .. m : i \in 1 .. m + n /\ i <= m
    BY <1>1
  <2>2. \A i \in 1 .. n : m + i \in 1 .. m + n /\ ~(m + i <= m) /\ (m + i) - m = i
    BY <1>1
  <2> QED BY <1>3, <2>1, <2>2
<1>6. PICK kc, ka, kb : kc = EntryPoints(c) /\ ka = EntryPoints(a) /\ kb = EntryPoints(b)
  OBVIOUS
<1>7. /\ \A i \in 1 .. m + n : kc[i] \in Nat
      /\ \A i \in 1 .. m : ka[i] \in Nat /\ kc[i] = ka[i]
      /\ \A i \in 1 .. n : kb[i] \in Nat /\ kc[m + i] = kb[i]
  <2>1. \A x \in Entries : x.points \in Nat
    BY DEF Entries
  <2>2. (\A i \in 1 .. m + n : c[i] \in Entries) /\ (\A i \in 1 .. m : a[i] \in Entries)
        /\ \A i \in 1 .. n : b[i] \in Entries
    BY <1>1, <1>3, <1>4
  <2>3. (\A i \in 1 .. m : i \in 1 .. m + n) /\ \A i \in 1 .. n : m + i \in 1 .. m + n
    BY <1>1
  <2>4. /\ \A i \in 1 .. m + n : kc[i] = c[i].points
        /\ \A i \in 1 .. m : ka[i] = a[i].points
        /\ \A i \in 1 .. n : kb[i] = b[i].points
    BY <1>1, <1>4, <1>6 DEF EntryPoints
  <2> QED BY <1>5, <2>1, <2>2, <2>3, <2>4
<1>8. /\ IsFiniteSet(1 .. m) /\ IsFiniteSet(1 .. n) /\ IsFiniteSet(m + 1 .. m + n)
      /\ IsFiniteSet(1 .. m + n)
  <2>1. 1 \in Int /\ m \in Int /\ n \in Int /\ m + 1 \in Int /\ m + n \in Int
    OBVIOUS
  <2> QED BY <2>1, FS_Interval
<1>9. PointsIn(c) = Sum(kc, 1 .. m + n) /\ PointsIn(a) = Sum(ka, 1 .. m) /\ PointsIn(b) = Sum(kb, 1 .. n)
  BY <1>1, <1>4, <1>6, <1>8, PointsAreSum
<1>10. Sum(kc, 1 .. m + n) = Sum(kc, 1 .. m) + Sum(kc, m + 1 .. m + n)
  <2>1. 1 .. m + n = (1 .. m) \cup (m + 1 .. m + n) /\ (1 .. m) \cap (m + 1 .. m + n) = {}
    BY <1>1
  <2>2. PICK S, R : S = 1 .. m /\ R = m + 1 .. m + n
    OBVIOUS
  <2>3. \A x \in S \cup R : kc[x] \in Nat
    BY <1>7, <2>1, <2>2
  <2>4. IsFiniteSet(S) /\ IsFiniteSet(R) /\ S \cap R = {}
    BY <1>8, <2>1, <2>2
  <2>5. Sum(kc, S \cup R) = Sum(kc, S) + Sum(kc, R)
    BY <2>3, <2>4, SumOfUnion
  <2> QED BY <2>1, <2>2, <2>5
<1>11. Sum(kc, 1 .. m) = Sum(ka, 1 .. m)
  BY <1>7, <1>8, SumDepends
<1>12. Sum(kb, 1 .. n) = Sum(kc, m + 1 .. m + n)
  <2>1. \A i \in 1 .. n : kb[i] \in Nat /\ kb[i] = kc[m + i]
    BY <1>7
  <2> QED BY <2>1, SumShifted
<1> QED BY <1>2, <1>9, <1>10, <1>11, <1>12

-----------------------------------------------------------------------------
(***************************************************************************)
(* The entries of a list with a value in a field.                          *)
(***************************************************************************)

IsKept(list, field, value, n, k) ==
  k = [i \in 0 .. n |-> IF i = 0 THEN << >>
                        ELSE IF list[i][field] = value THEN Append(k[i - 1], list[i])
                        ELSE k[i - 1]]

LEMMA KeptExists ==
  ASSUME NEW list, NEW field, NEW value, NEW n \in Nat
  PROVE  \E k : IsKept(list, field, value, n, k)
<1> DEFINE none == {m \in Nat : ~ \E k : IsKept(list, field, value, m, k)}
<1> SUFFICES ASSUME none # {} PROVE FALSE
  OBVIOUS
<1>1. PICK m \in none : \A j \in none : m <= j
  <2>1. none \in SUBSET Nat
    OBVIOUS
  <2> HIDE DEF none
  <2> QED BY <2>1, FirstOf
<1>2. CASE m = 0
  <2>1. IsKept(list, field, value, 0, [i \in 0 .. 0 |-> << >>])
    BY DEF IsKept
  <2> QED BY <1>1, <1>2, <2>1
<1>3. CASE m # 0
  <2>1. m \in Nat /\ m - 1 \in Nat /\ ~(m <= m - 1)
    BY <1>1, <1>3
  <2>2. m - 1 \notin none
    BY <1>1, <2>1
  <2>3. PICK f : IsKept(list, field, value, m - 1, f)
    BY <2>1, <2>2
  <2>4. PICK e : e = IF list[m][field] = value THEN Append(f[m - 1], list[m]) ELSE f[m - 1]
    OBVIOUS
  <2>5. PICK k : k = [i \in 0 .. m |-> IF i = m THEN e ELSE f[i]]
    OBVIOUS
  <2>6. \A i \in 0 .. m - 1 : k[i] = f[i]
    BY <2>1, <2>5
  <2>7. \A i \in 0 .. m - 1 : i # 0 => i - 1 \in 0 .. m - 1
    BY <2>1
  <2>8. \A i \in 0 .. m - 1 : k[i] = IF i = 0 THEN << >>
                                     ELSE IF list[i][field] = value THEN Append(k[i - 1], list[i])
                                     ELSE k[i - 1]
    BY <2>3, <2>6, <2>7 DEF IsKept
  <2>9. k[m] = IF list[m][field] = value THEN Append(k[m - 1], list[m]) ELSE k[m - 1]
    BY <2>1, <2>4, <2>5, <2>6
  <2>10. \A i \in 0 .. m : i \in 0 .. m - 1 \/ i = m
    BY <2>1
  <2>11. IsKept(list, field, value, m, k)
    BY <1>3, <2>5, <2>8, <2>9, <2>10 DEF IsKept
  <2> QED BY <1>1, <2>11
<1> QED BY <1>2, <1>3

LEMMA WithIsKept ==
  ASSUME NEW list, NEW field, NEW value, Len(list) \in Nat
  PROVE  \E k : IsKept(list, field, value, Len(list), k) /\ With(list, field, value) = k[Len(list)]
<1> DEFINE Is(k) == k = [i \in 0 .. Len(list) |-> IF i = 0 THEN << >>
                        ELSE IF list[i][field] = value THEN Append(k[i - 1], list[i])
                        ELSE k[i - 1]]
<1>1. \A k : Is(k) <=> IsKept(list, field, value, Len(list), k)
  BY DEF IsKept
<1>2. \E k : Is(k)
  BY <1>1, KeptExists
<1>3. PICK k : k = CHOOSE f : Is(f)
  OBVIOUS
<1>4. Is(k)
  BY <1>2, <1>3
<1>5. With(list, field, value) = k[Len(list)]
  BY <1>3 DEF With
<1> QED BY <1>1, <1>4, <1>5

LEMMA WithIsList ==
  ASSUME NEW S, NEW list \in Seq(S), NEW field, NEW value
  PROVE  /\ With(list, field, value) \in Seq(S)
         /\ \A i \in DOMAIN With(list, field, value) : With(list, field, value)[i][field] = value
<1>1. PICK n \in Nat : n = Len(list)
  OBVIOUS
<1>2. PICK k : IsKept(list, field, value, n, k) /\ With(list, field, value) = k[n]
  BY <1>1, WithIsKept
<1> DEFINE Good(s) == s \in Seq(S) /\ \A i \in DOMAIN s : s[i][field] = value
           bad == {i \in 0 .. n : ~Good(k[i])}
<1>3. bad = {}
  <2> SUFFICES ASSUME bad # {} PROVE FALSE
    OBVIOUS
  <2>1. PICK i \in bad : \A j \in bad : i <= j
    <3>1. bad \in SUBSET Nat
      OBVIOUS
    <3> HIDE DEF bad
    <3> QED BY <3>1, FirstOf
  <2>2. i \in 0 .. n /\ ~Good(k[i])
    OBVIOUS
  <2>3. i # 0
    <3>1. Good(<< >>)
      OBVIOUS
    <3>2. k[0] = << >>
      BY <1>2 DEF IsKept
    <3> HIDE DEF Good
    <3> QED BY <2>2, <3>1, <3>2
  <2>4. i - 1 \in 0 .. n /\ ~(i <= i - 1) /\ i \in 1 .. n
    BY <2>2, <2>3
  <2>5. Good(k[i - 1])
    <3>1. i - 1 \notin bad
      BY <2>1, <2>4
    <3> HIDE DEF Good
    <3> QED BY <2>4, <3>1
  <2>6. k[i] = IF list[i][field] = value THEN Append(k[i - 1], list[i]) ELSE k[i - 1]
    BY <1>2, <2>3, <2>4 DEF IsKept
  <2>7. list[i] \in S
    BY <1>1, <2>4
  <2>8. PICK s, x : s = k[i - 1] /\ x = list[i]
    OBVIOUS
  <2>9. s \in Seq(S) /\ x \in S /\ \A j \in DOMAIN s : s[j][field] = value
    BY <2>5, <2>7, <2>8
  <2>10. x[field] = value => Good(Append(s, x))
    <3> SUFFICES ASSUME x[field] = value PROVE Good(Append(s, x))
      OBVIOUS
    <3>1. /\ Append(s, x) \in Seq(S) /\ Len(Append(s, x)) = Len(s) + 1
          /\ Append(s, x)[Len(s) + 1] = x /\ \A j \in 1 .. Len(s) : Append(s, x)[j] = s[j]
      BY <2>9
    <3>2. DOMAIN Append(s, x) = 1 .. Len(s) + 1 /\ DOMAIN s = 1 .. Len(s) /\ Len(s) \in Nat
      BY <2>9, <3>1
    <3>3. \A j \in 1 .. Len(s) + 1 : j \in 1 .. Len(s) \/ j = Len(s) + 1
      BY <3>2
    <3> QED BY <2>9, <3>1, <3>2, <3>3
  <2> HIDE DEF Good
  <2> QED BY <2>2, <2>5, <2>6, <2>8, <2>10
<1>4. n \in 0 .. n
  OBVIOUS
<1> QED BY <1>2, <1>3, <1>4

\* Of a longer list the same and perhaps the last one.
LEMMA WithOneMore ==
  ASSUME NEW S, NEW list \in Seq(S), NEW x \in S, NEW field, NEW value
  PROVE  With(Append(list, x), field, value) =
           IF x[field] = value THEN Append(With(list, field, value), x)
           ELSE With(list, field, value)
<1>1. PICK n \in Nat : n = Len(list)
  OBVIOUS
<1>2. PICK longer : longer = Append(list, x)
  OBVIOUS
<1>3. Len(longer) = n + 1 /\ longer[n + 1] = x /\ \A i \in 1 .. n : longer[i] = list[i]
  BY <1>1, <1>2
<1>4. PICK f : IsKept(list, field, value, n, f) /\ With(list, field, value) = f[n]
  BY <1>1, WithIsKept
<1>5. PICK g : IsKept(longer, field, value, n + 1, g) /\ With(longer, field, value) = g[n + 1]
  BY <1>3, WithIsKept
<1> DEFINE differ == {i \in 0 .. n : f[i] # g[i]}
<1>6. differ = {}
  <2> SUFFICES ASSUME differ # {} PROVE FALSE
    OBVIOUS
  <2>1. PICK i \in differ : \A j \in differ : i <= j
    <3>1. differ \in SUBSET Nat
      OBVIOUS
    <3> HIDE DEF differ
    <3> QED BY <3>1, FirstOf
  <2>2. i \in 0 .. n /\ f[i] # g[i] /\ i \in 0 .. n + 1
    OBVIOUS
  <2>3. i # 0
    BY <1>4, <1>5, <2>2 DEF IsKept
  <2>4. i - 1 \in 0 .. n /\ ~(i <= i - 1) /\ i \in 1 .. n
    BY <2>2, <2>3
  <2>5. f[i - 1] = g[i - 1]
    BY <2>1, <2>4
  <2>6. f[i] = IF list[i][field] = value THEN Append(f[i - 1], list[i]) ELSE f[i - 1]
    BY <1>4, <2>2, <2>3 DEF IsKept
  <2>7. g[i] = IF longer[i][field] = value THEN Append(g[i - 1], longer[i]) ELSE g[i - 1]
    BY <1>5, <2>2, <2>3 DEF IsKept
  <2>8. longer[i] = list[i]
    BY <1>3, <2>4
  <2> QED BY <2>2, <2>5, <2>6, <2>7, <2>8
<1>7. f[n] = g[n]
  BY <1>6
<1>8. g[n + 1] = IF longer[n + 1][field] = value THEN Append(g[n], longer[n + 1]) ELSE g[n]
  <2>1. n + 1 \in 0 .. n + 1 /\ n + 1 # 0 /\ (n + 1) - 1 = n
    OBVIOUS
  <2> QED BY <1>5, <2>1 DEF IsKept
<1> QED BY <1>2, <1>3, <1>4, <1>5, <1>7, <1>8

-----------------------------------------------------------------------------
(***************************************************************************)
(* What a document is worth to a team.                                     *)
(***************************************************************************)

Stolen == [team : Teams, time : Nat]
Checked == [time : Nat, result : BOOLEAN]
Services == {f.service : f \in Flags}
Docs == [team : Teams, service : Services, time : Nat, delivered : BOOLEAN,
         captures : Seq(Stolen), checks : Seq(Checked)]

LEMMA PointsOfNone == PointsIn(<< >>) = 0
<1>1. DOMAIN << >> = {}
  OBVIOUS
<1> QED BY <1>1, FS_EmptySet, PointsAreSum, SumOfNone

\* [n] entries of the same points.
LEMMA PointsOfSame ==
  ASSUME NEW n \in Nat, NEW p \in Nat, NEW e \in Seq(Entries), Len(e) = n,
         \A i \in 1 .. n : e[i].points = p
  PROVE  PointsIn(e) = n * p
<1>2. IsFiniteSet(1 .. n)
  BY FS_Interval
<1>3. Cardinality(1 .. n) = n
  <2>1. CASE n = 0
    BY <2>1, FS_EmptySet
  <2>2. CASE n # 0
    <3>1. 1 \in Int /\ n \in Int /\ ~(1 > n)
      BY <2>2
    <3>2. Cardinality(1 .. n) = IF 1 > n THEN 0 ELSE n - 1 + 1
      BY <3>1, FS_Interval
    <3> QED BY <3>1, <3>2
  <2> QED BY <2>1, <2>2
<1>4. PICK k : k = EntryPoints(e)
  OBVIOUS
<1>5. DOMAIN e = 1 .. n
  OBVIOUS
<1>6. \A i \in 1 .. n : k[i] = p
  BY <1>4, <1>5 DEF EntryPoints
<1>7. PointsIn(e) = Sum(k, 1 .. n)
  BY <1>2, <1>4, <1>5, PointsAreSum
<1>8. Sum(k, 1 .. n) = Cardinality(1 .. n) * p
  BY <1>2, <1>6, SumOfSame
<1> QED BY <1>3, <1>7, <1>8

LEMMA PointTypes ==
  /\ Points.deliver \in Nat /\ Points.capture \in Nat
  /\ Points.defend \in Nat /\ Points.check \in Nat
BY PointsAssumption

LEMMA ListsOfDoc ==
  ASSUME NEW doc \in Docs, NEW t
  PROVE  /\ CapturesBy(doc, t) \in Seq(Stolen) /\ Len(CapturesBy(doc, t)) \in Nat
         /\ Successes(doc) \in Seq(Checked) /\ Len(Successes(doc)) \in Nat
<1>1. doc.captures \in Seq(Stolen) /\ doc.checks \in Seq(Checked)
  BY DEF Docs
<1>2. With(doc.captures, "team", t) \in Seq(Stolen)
  BY <1>1, WithIsList
<1>3. With(doc.checks, "result", TRUE) \in Seq(Checked)
  BY <1>1, WithIsList
<1> QED BY <1>2, <1>3, LenProperties DEF CapturesBy, Successes

\* The row of a team counts what is paid to it.
OwnDelivered(doc, t) == One(t = doc.team /\ doc.delivered)
OwnDefended(doc, t) == One(t = doc.team /\ doc.delivered /\ doc.captures = << >>)
OwnChecked(doc, t) == IF t = doc.team THEN Len(Successes(doc)) ELSE 0
Captured(doc, t) == Len(CapturesBy(doc, t))

LEMMA CountTypes ==
  ASSUME NEW doc \in Docs, NEW t
  PROVE  /\ OwnDelivered(doc, t) \in {0, 1} /\ OwnDefended(doc, t) \in {0, 1}
         /\ OwnChecked(doc, t) \in Nat /\ Captured(doc, t) \in Nat
BY ListsOfDoc DEF OwnDelivered, OwnDefended, OwnChecked, Captured, One

LEMMA EarnedIsCounted ==
  ASSUME NEW doc \in Docs, NEW t
  PROVE  /\ Earned(doc, t) \in Seq(Entries)
         /\ PointsIn(Earned(doc, t)) =
              OwnDelivered(doc, t) * Points.deliver + Captured(doc, t) * Points.capture
                + OwnDefended(doc, t) * Points.defend + OwnChecked(doc, t) * Points.check
<1>1. PICK a : a = IF t = doc.team /\ OwnPoints(doc) > 0
                   THEN <<[time |-> doc.time, points |-> OwnPoints(doc)]>> ELSE << >>
  OBVIOUS
<1>2. PICK b : b = IF t = doc.team
                   THEN [i \in DOMAIN Successes(doc) |->
                           [time |-> Successes(doc)[i].time, points |-> Points.check]]
                   ELSE << >>
  OBVIOUS
<1>3. PICK c : c = [i \in DOMAIN CapturesBy(doc, t) |->
                      [time |-> CapturesBy(doc, t)[i].time, points |-> Points.capture]]
  OBVIOUS
<1>4. Earned(doc, t) = a \o b \o c
  BY <1>1, <1>2, <1>3 DEF Earned
<1>5. /\ doc.time \in Nat /\ doc.delivered \in BOOLEAN
      /\ CapturesBy(doc, t) \in Seq(Stolen) /\ Successes(doc) \in Seq(Checked)
  BY ListsOfDoc DEF Docs
<1>6. << >> \in Seq(Entries) /\ PointsIn(<< >>) = 0
  BY PointsOfNone
<1>7. a \in Seq(Entries)
      /\ PointsIn(a) = OwnDelivered(doc, t) * Points.deliver + OwnDefended(doc, t) * Points.defend
  <2>1. PICK p : p = OwnPoints(doc)
    OBVIOUS
  <2>2. PICK own, held \in {0, 1} : own = OwnDelivered(doc, t) /\ held = OwnDefended(doc, t)
    BY CountTypes
  <2>3. p \in Nat
    BY <2>1, PointTypes DEF OwnPoints
  <2>4. t # doc.team => own = 0 /\ held = 0
    BY <2>2 DEF OwnDelivered, OwnDefended, One
  <2>5. t = doc.team => p = own * Points.deliver + held * Points.defend
    <3> SUFFICES ASSUME t = doc.team PROVE p = own * Points.deliver + held * Points.defend
      OBVIOUS
    <3>1. CASE ~doc.delivered
      <4>1. p = 0 /\ own = 0 /\ held = 0
        BY <2>1, <2>2, <3>1 DEF OwnPoints, OwnDelivered, OwnDefended, One
      <4> QED BY <4>1, PointTypes
    <3>2. CASE doc.delivered /\ doc.captures = << >>
      <4>1. p = Points.deliver + Points.defend /\ own = 1 /\ held = 1
        BY <2>1, <2>2, <3>2 DEF OwnPoints, OwnDelivered, OwnDefended, One
      <4> QED BY <4>1, PointTypes
    <3>3. CASE doc.delivered /\ doc.captures # << >>
      <4>1. p = Points.deliver + 0 /\ own = 1 /\ held = 0
        BY <2>1, <2>2, <3>3 DEF OwnPoints, OwnDelivered, OwnDefended, One
      <4> QED BY <4>1, PointTypes
    <3> QED BY <3>1, <3>2, <3>3
  <2>6. CASE t = doc.team /\ p > 0
    <3>1. PICK x : x = [time |-> doc.time, points |-> p]
      OBVIOUS
    <3>2. x \in Entries /\ x.points = p
      BY <1>5, <2>3, <3>1 DEF Entries
    <3>3. a = <<x>>
      BY <1>1, <2>1, <2>6, <3>1
    <3>4. a \in Seq(Entries) /\ Len(a) = 1 /\ a[1] = x
      BY <3>2, <3>3
    <3>5. \A i \in 1 .. 1 : a[i].points = p
      BY <3>2, <3>4
    <3>6. PointsIn(a) = 1 * p
      BY <2>3, <3>4, <3>5, PointsOfSame
    <3> QED BY <2>2, <2>3, <2>5, <2>6, <3>4, <3>6
  <2>7. CASE ~(t = doc.team /\ p > 0)
    <3>1. a = << >>
      BY <1>1, <2>1, <2>7
    <3>2. own * Points.deliver + held * Points.defend = 0
      <4>1. CASE t = doc.team
        BY <2>3, <2>5, <2>7, <4>1
      <4>2. CASE t # doc.team
        BY <2>4, <4>2, PointTypes
      <4> QED BY <4>1, <4>2
    <3> QED BY <1>6, <2>2, <3>1, <3>2
  <2> QED BY <2>6, <2>7
<1>8. b \in Seq(Entries) /\ PointsIn(b) = OwnChecked(doc, t) * Points.check
  <2>1. CASE t = doc.team
    <3>1. PICK s : s = Successes(doc)
      OBVIOUS
    <3>2. s \in Seq(Checked) /\ Len(s) \in Nat /\ DOMAIN s = 1 .. Len(s)
      BY <1>5, <3>1
    <3>3. b = [i \in 1 .. Len(s) |-> [time |-> s[i].time, points |-> Points.check]]
      BY <1>2, <2>1, <3>1, <3>2
    <3>4. \A i \in 1 .. Len(s) : s[i].time \in Nat
      <4>1. \A i \in 1 .. Len(s) : s[i] \in Checked
        BY <3>2
      <4>2. \A x \in Checked : x.time \in Nat
        BY DEF Checked
      <4> QED BY <4>1, <4>2
    <3>5. \A i \in 1 .. Len(s) : b[i] \in Entries /\ b[i].points = Points.check
      BY <3>3, <3>4, PointTypes DEF Entries
    <3>6. b \in Seq(Entries) /\ Len(b) = Len(s)
      BY <3>2, <3>3, <3>5
    <3>7. PointsIn(b) = Len(s) * Points.check
      BY <3>2, <3>5, <3>6, PointTypes, PointsOfSame
    <3>8. OwnChecked(doc, t) = Len(s)
      BY <2>1, <3>1 DEF OwnChecked
    <3> QED BY <3>6, <3>7, <3>8
  <2>2. CASE t # doc.team
    <3>1. b = << >> /\ OwnChecked(doc, t) = 0 /\ 0 * Points.check = 0
      BY <1>2, <2>2, PointTypes DEF OwnChecked
    <3> QED BY <1>6, <3>1
  <2> QED BY <2>1, <2>2
<1>9. c \in Seq(Entries) /\ PointsIn(c) = Captured(doc, t) * Points.capture
  <2>1. PICK s : s = CapturesBy(doc, t)
    OBVIOUS
  <2>2. s \in Seq(Stolen) /\ Len(s) \in Nat /\ DOMAIN s = 1 .. Len(s)
    BY <1>5, <2>1
  <2>3. c = [i \in 1 .. Len(s) |-> [time |-> s[i].time, points |-> Points.capture]]
    BY <1>3, <2>1, <2>2
  <2>4. \A i \in 1 .. Len(s) : s[i].time \in Nat
    <3>1. \A i \in 1 .. Len(s) : s[i] \in Stolen
      BY <2>2
    <3>2. \A x \in Stolen : x.time \in Nat
      BY DEF Stolen
    <3> QED BY <3>1, <3>2
  <2>5. \A i \in 1 .. Len(s) : c[i] \in Entries /\ c[i].points = Points.capture
    BY <2>3, <2>4, PointTypes DEF Entries
  <2>6. c \in Seq(Entries) /\ Len(c) = Len(s)
    BY <2>2, <2>3, <2>5
  <2>7. PointsIn(c) = Len(s) * Points.capture
    BY <2>2, <2>5, <2>6, PointTypes, PointsOfSame
  <2> QED BY <2>1, <2>6, <2>7 DEF Captured
<1>10. a \o b \in Seq(Entries) /\ PointsIn(a \o b) = PointsIn(a) + PointsIn(b)
  BY <1>7, <1>8, ConcatProperties, PointsOfConcat
<1>11. /\ a \o b \o c \in Seq(Entries)
       /\ PointsIn(a \o b \o c) = PointsIn(a \o b) + PointsIn(c)
  BY <1>9, <1>10, ConcatProperties, PointsOfConcat
<1>12. PICK p, q, r, s : /\ p = OwnDelivered(doc, t) * Points.deliver
                         /\ q = OwnDefended(doc, t) * Points.defend
                         /\ r = OwnChecked(doc, t) * Points.check
                         /\ s = Captured(doc, t) * Points.capture
  OBVIOUS
<1>13. p \in Nat /\ q \in Nat /\ r \in Nat /\ s \in Nat
  BY <1>12, PointTypes, CountTypes
<1>14. (p + q) + r + s = p + s + q + r
  BY <1>13
<1> QED BY <1>4, <1>7, <1>8, <1>9, <1>10, <1>11, <1>12, <1>14

-----------------------------------------------------------------------------
(***************************************************************************)
(* What the observer of the scores gathers, as sums over the documents and *)
(* the entries of the ranks it was handed.                                 *)
(***************************************************************************)

Counts(field, t) ==
  [d \in Docs |-> IF field = "deliver" THEN OwnDelivered(d, t)
                  ELSE IF field = "defend" THEN OwnDefended(d, t)
                  ELSE IF field = "check" THEN OwnChecked(d, t)
                  ELSE Captured(d, t)]
Paid(t) == [r \in Challenges |-> IF t = r.team THEN r.points ELSE 0]

RowOf(D, R, t) ==
  [deliver |-> Sum(Counts("deliver", t), D), capture |-> Sum(Counts("capture", t), D),
   defend |-> Sum(Counts("defend", t), D), check |-> Sum(Counts("check", t), D),
   challenge |-> Sum(Paid(t), R), points |-> 0]

Told(D) == UNION {{d.team} \cup Thieves(d) : d \in D}
Ranked(R) == {r.team : r \in R}
TeamsOf(D, R) == Told(D) \cup Ranked(R)

LEMMA TeamIsTold ==
  ASSUME NEW D, NEW R, NEW t
  PROVE  t \in TeamsOf(D, R) <=> \/ \E d \in D : t = d.team \/ t \in Thieves(d)
                                 \/ \E r \in R : t = r.team
<1>1. t \in Told(D) <=> \E d \in D : t \in {d.team} \cup Thieves(d)
  BY Zenon DEF Told
<1>2. t \in Ranked(R) <=> \E r \in R : t = r.team
  BY DEF Ranked
<1>3. \A d : t \in {d.team} \cup Thieves(d) <=> t = d.team \/ t \in Thieves(d)
  OBVIOUS
<1>4. t \in TeamsOf(D, R) <=> t \in Told(D) \/ t \in Ranked(R)
  BY DEF TeamsOf
<1> QED BY <1>1, <1>2, <1>3, <1>4

GatheredIs(v, D, R) ==
  /\ DOMAIN v.table = TeamsOf(D, R) /\ DOMAIN v.data = TeamsOf(D, R)
  /\ \A t \in TeamsOf(D, R) :
       /\ v.table[t] = RowOf(D, R, t)
       /\ v.data[t] \in Seq(Entries)
       /\ PointsIn(v.data[t]) = TablePoints(RowOf(D, R, t))

LEMMA CountsAreNat ==
  ASSUME NEW field, NEW t
  PROVE  \A d \in Docs : Counts(field, t)[d] \in Nat
BY CountTypes DEF Counts

LEMMA PaidIsNat == \A t : \A r \in Challenges : Paid(t)[r] \in Nat
BY PageAssumption DEF Paid

LEMMA SumsAreNat ==
  ASSUME NEW t, NEW D \in SUBSET Docs, IsFiniteSet(D), NEW R \in SUBSET Challenges, IsFiniteSet(R)
  PROVE  /\ \A field : Sum(Counts(field, t), D) \in Nat
         /\ Sum(Paid(t), R) \in Nat
<1>1. ASSUME NEW field PROVE Sum(Counts(field, t), D) \in Nat
  <2>1. \A d \in D : Counts(field, t)[d] \in Nat
    BY CountsAreNat
  <2> QED BY <2>1, SumIsNat
<1>2. Sum(Paid(t), R) \in Nat
  <2>1. \A r \in R : Paid(t)[r] \in Nat
    BY PaidIsNat
  <2> QED BY <2>1, SumIsNat
<1> QED BY <1>1, <1>2

LEMMA NobodyCaptured ==
  ASSUME NEW doc \in Docs, NEW t, t \notin Thieves(doc)
  PROVE  Captured(doc, t) = 0
<1>1. PICK s : s = doc.captures
  OBVIOUS
<1>2. PICK S : S = {s[i] : i \in DOMAIN s}
  OBVIOUS
<1>3. s \in Seq(S)
  <2>1. s \in Seq(Stolen)
    BY <1>1 DEF Docs
  <2> QED BY <1>2, <2>1
<1>4. PICK k : k = With(s, "team", t)
  OBVIOUS
<1>5. k \in Seq(S) /\ \A i \in DOMAIN k : k[i]["team"] = t
  BY <1>3, <1>4, WithIsList
<1>6. Len(k) = 0
  <2> SUFFICES ASSUME Len(k) # 0 PROVE FALSE
    OBVIOUS
  <2>1. 1 \in DOMAIN k /\ k[1] \in S /\ k[1]["team"] = t
    BY <1>5
  <2>2. PICK i \in DOMAIN s : k[1] = s[i]
    BY <1>2, <2>1
  <2>3. doc.captures[i].team = t /\ i \in DOMAIN doc.captures
    BY <1>1, <2>1, <2>2
  <2> QED BY <2>3 DEF Thieves
<1> QED BY <1>1, <1>4, <1>6 DEF Captured, CapturesBy

\* A team nobody told of has earned nothing.
LEMMA NothingOfStrangers ==
  ASSUME NEW D \in SUBSET Docs, IsFiniteSet(D), NEW R \in SUBSET Challenges, IsFiniteSet(R),
         NEW t, t \notin TeamsOf(D, R)
  PROVE  RowOf(D, R, t) = EmptyRow
<1>1. \A d \in D : t # d.team /\ t \notin Thieves(d)
  BY TeamIsTold
<1>2. \A r \in R : t # r.team
  BY TeamIsTold
<1>3. \A n \in Nat : n * 0 = 0
  OBVIOUS
<1>4. ASSUME NEW field PROVE Sum(Counts(field, t), D) = 0
  <2>1. \A d \in D : Counts(field, t)[d] = 0
    BY <1>1, NobodyCaptured DEF Counts, OwnDelivered, OwnDefended, OwnChecked, One
  <2>2. Sum(Counts(field, t), D) = Cardinality(D) * 0
    BY <2>1, SumOfSame
  <2> QED BY <1>3, <2>2, FS_CardinalityType
<1>5. Sum(Paid(t), R) = 0
  <2>1. \A r \in R : Paid(t)[r] = 0
    BY <1>2 DEF Paid
  <2>2. Sum(Paid(t), R) = Cardinality(R) * 0
    BY <2>1, SumOfSame
  <2> QED BY <1>3, <2>2, FS_CardinalityType
<1> QED BY <1>4, <1>5 DEF RowOf, EmptyRow

LEMMA EmptyRowIsWorthNothing == TablePoints(EmptyRow) = 0
<1>1. 0 * Points.deliver = 0 /\ 0 * Points.capture = 0 /\ 0 * Points.defend = 0 /\ 0 * Points.check = 0
  BY PointTypes
<1> QED BY <1>1 DEF TablePoints, EmptyRow

\* What is known of any team, also of one that is not there yet.
LEMMA GatheredSoFar ==
  ASSUME NEW D \in SUBSET Docs, IsFiniteSet(D), NEW R \in SUBSET Challenges, IsFiniteSet(R),
         NEW v, GatheredIs(v, D, R), NEW t
  PROVE  /\ At(v.table, t, EmptyRow) = RowOf(D, R, t)
         /\ At(v.data, t, << >>) \in Seq(Entries)
         /\ PointsIn(At(v.data, t, << >>)) = TablePoints(RowOf(D, R, t))
<1>1. CASE t \in TeamsOf(D, R)
  BY <1>1 DEF GatheredIs, At
<1>2. CASE t \notin TeamsOf(D, R)
  <2>1. RowOf(D, R, t) = EmptyRow
    BY <1>2, NothingOfStrangers
  <2>2. At(v.table, t, EmptyRow) = EmptyRow /\ At(v.data, t, << >>) = << >>
    BY <1>2 DEF GatheredIs, At
  <2>3. At(v.data, t, << >>) \in Seq(Entries)
    <3>1. << >> \in Seq(Entries)
      OBVIOUS
    <3> QED BY <2>2, <3>1, Zenon
  <2>4. PointsIn(At(v.data, t, << >>)) = 0
    BY <2>2, PointsOfNone
  <2>5. TablePoints(RowOf(D, R, t)) = 0
    BY <2>1, EmptyRowIsWorthNothing
  <2> QED BY <2>1, <2>2, <2>3, <2>4, <2>5
<1> QED BY <1>1, <1>2

LEMMA OneFlagMore ==
  ASSUME NEW D \in SUBSET Docs, IsFiniteSet(D), NEW R \in SUBSET Challenges, IsFiniteSet(R),
         NEW v, GatheredIs(v, D, R), NEW a \in Docs, a \notin D
  PROVE  GatheredIs(ScoresFlag(a, v), D \cup {a}, R)
<1>1. PICK T : T = DOMAIN v.table \cup {a.team} \cup Thieves(a)
  OBVIOUS
<1>2. PICK w : w = ScoresFlag(a, v)
  OBVIOUS
<1>3. /\ w.table = [t \in T |-> Counted(a, t, At(v.table, t, EmptyRow))]
      /\ w.data = [t \in T |-> At(v.data, t, << >>) \o Earned(a, t)]
  BY <1>1, <1>2 DEF ScoresFlag
<1>4. PICK E : E = D \cup {a}
  OBVIOUS
<1>5. T = TeamsOf(E, R)
  <2> SUFFICES ASSUME NEW t PROVE t \in T <=> t \in TeamsOf(E, R)
    OBVIOUS
  <2>1. t \in TeamsOf(E, R) <=> \/ \E d \in E : t = d.team \/ t \in Thieves(d)
                                \/ \E r \in R : t = r.team
    BY TeamIsTold
  <2>2. t \in TeamsOf(D, R) <=> \/ \E d \in D : t = d.team \/ t \in Thieves(d)
                                \/ \E r \in R : t = r.team
    BY TeamIsTold
  <2>3. t \in T <=> t \in TeamsOf(D, R) \/ t = a.team \/ t \in Thieves(a)
    BY <1>1 DEF GatheredIs
  <2> QED BY <1>4, <2>1, <2>2, <2>3
<1>6. IsFiniteSet(E) /\ E \in SUBSET Docs /\ a \in E /\ E \ {a} = D
  BY <1>4, FS_AddElement
<1>7. ASSUME NEW t \in T
      PROVE  /\ w.table[t] = RowOf(E, R, t)
             /\ w.data[t] \in Seq(Entries)
             /\ PointsIn(w.data[t]) = TablePoints(RowOf(E, R, t))
  <2>1. PICK row, list : row = At(v.table, t, EmptyRow) /\ list = At(v.data, t, << >>)
    OBVIOUS
  <2>2. /\ row = RowOf(D, R, t) /\ list \in Seq(Entries)
        /\ PointsIn(list) = TablePoints(RowOf(D, R, t))
    BY <2>1, GatheredSoFar
  <2>3. ASSUME NEW field
        PROVE  Sum(Counts(field, t), E) = Sum(Counts(field, t), D) + Counts(field, t)[a]
               /\ Sum(Counts(field, t), D) \in Nat /\ Counts(field, t)[a] \in Nat
    <3>1. \A d \in E : Counts(field, t)[d] \in Nat
      BY <1>6, CountsAreNat
    <3>2. Sum(Counts(field, t), E) = Counts(field, t)[a] + Sum(Counts(field, t), E \ {a})
      BY <1>6, <3>1, SumOfOne
    <3>3. Sum(Counts(field, t), D) \in Nat /\ Counts(field, t)[a] \in Nat
      BY SumsAreNat, CountsAreNat
    <3>4. PICK x, y : x = Sum(Counts(field, t), D) /\ y = Counts(field, t)[a]
      OBVIOUS
    <3>5. Sum(Counts(field, t), E) = y + x
      BY <1>6, <3>2, <3>4
    <3> QED BY <3>3, <3>4, <3>5
  <2>4. PICK dl, cp, df, ck, ch : /\ dl = Sum(Counts("deliver", t), D)
                                  /\ cp = Sum(Counts("capture", t), D)
                                  /\ df = Sum(Counts("defend", t), D)
                                  /\ ck = Sum(Counts("check", t), D)
                                  /\ ch = Sum(Paid(t), R)
    OBVIOUS
  <2>5. PICK dl1, cp1, df1, ck1 : /\ dl1 = OwnDelivered(a, t) /\ cp1 = Captured(a, t)
                                  /\ df1 = OwnDefended(a, t) /\ ck1 = OwnChecked(a, t)
    OBVIOUS
  <2>6. /\ Counts("deliver", t)[a] = dl1 /\ Counts("capture", t)[a] = cp1
        /\ Counts("defend", t)[a] = df1 /\ Counts("check", t)[a] = ck1
    BY <2>5 DEF Counts
  <2>7. /\ dl \in Nat /\ cp \in Nat /\ df \in Nat /\ ck \in Nat /\ ch \in Nat
        /\ dl1 \in Nat /\ cp1 \in Nat /\ df1 \in Nat /\ ck1 \in Nat
    BY <2>4, <2>5, SumsAreNat, CountTypes
  <2>8. /\ Sum(Counts("deliver", t), E) = dl + dl1 /\ Sum(Counts("capture", t), E) = cp + cp1
        /\ Sum(Counts("defend", t), E) = df + df1 /\ Sum(Counts("check", t), E) = ck + ck1
    BY <2>3, <2>4, <2>6
  <2>9. row = [deliver |-> dl, capture |-> cp, defend |-> df, check |-> ck,
               challenge |-> ch, points |-> 0]
    BY <2>2, <2>4 DEF RowOf
  <2>10. RowOf(E, R, t) = [deliver |-> dl + dl1, capture |-> cp + cp1, defend |-> df + df1,
                           check |-> ck + ck1, challenge |-> ch, points |-> 0]
    BY <2>4, <2>8 DEF RowOf
  <2>11. w.table[t] = RowOf(E, R, t)
    <3>1. w.table[t] = Counted(a, t, row)
      BY <1>3, <2>1
    <3>2. /\ dl1 = One(t = a.team /\ a.delivered)
          /\ df1 = One(t = a.team /\ a.delivered /\ a.captures = << >>)
          /\ ck1 = IF t = a.team THEN Len(Successes(a)) ELSE 0
          /\ cp1 = Len(CapturesBy(a, t))
      BY <2>5 DEF OwnDelivered, OwnDefended, OwnChecked, Captured
    <3>3. Counted(a, t, row) = [row EXCEPT !.deliver = @ + dl1, !.defend = @ + df1,
                                           !.check = @ + ck1, !.capture = @ + cp1]
      BY <3>2 DEF Counted
    <3> QED BY <2>9, <2>10, <3>1, <3>3
  <2>12. w.data[t] = list \o Earned(a, t)
    BY <1>3, <2>1
  <2>13. Earned(a, t) \in Seq(Entries)
         /\ PointsIn(Earned(a, t)) = dl1 * Points.deliver + cp1 * Points.capture
                                       + df1 * Points.defend + ck1 * Points.check
    BY <2>5, EarnedIsCounted
  <2>14. w.data[t] \in Seq(Entries) /\ PointsIn(w.data[t]) = PointsIn(list) + PointsIn(Earned(a, t))
    BY <2>2, <2>12, <2>13, ConcatProperties, PointsOfConcat
  <2>15. PointsIn(list) = dl * Points.deliver + cp * Points.capture
                            + df * Points.defend + ck * Points.check + ch
    BY <2>2, <2>9 DEF TablePoints
  <2>16. TablePoints(RowOf(E, R, t)) = (dl + dl1) * Points.deliver + (cp + cp1) * Points.capture
                            + (df + df1) * Points.defend + (ck + ck1) * Points.check + ch
    BY <2>10 DEF TablePoints
  <2>17. PICK pd, pc, pf, pk \in Nat : /\ pd = Points.deliver /\ pc = Points.capture
                                       /\ pf = Points.defend /\ pk = Points.check
    BY PointTypes
  <2>18. /\ (dl + dl1) * pd = dl * pd + dl1 * pd /\ (cp + cp1) * pc = cp * pc + cp1 * pc
         /\ (df + df1) * pf = df * pf + df1 * pf /\ (ck + ck1) * pk = ck * pk + ck1 * pk
    BY <2>7
  <2>19. /\ dl * pd \in Nat /\ dl1 * pd \in Nat /\ cp * pc \in Nat /\ cp1 * pc \in Nat
         /\ df * pf \in Nat /\ df1 * pf \in Nat /\ ck * pk \in Nat /\ ck1 * pk \in Nat
    BY <2>7
  <2>20. PICK x1, x2, x3, x4, y1, y2, y3, y4 :
           /\ x1 = dl * pd /\ x2 = cp * pc /\ x3 = df * pf /\ x4 = ck * pk
           /\ y1 = dl1 * pd /\ y2 = cp1 * pc /\ y3 = df1 * pf /\ y4 = ck1 * pk
    OBVIOUS
  <2>21. PointsIn(list) = x1 + x2 + x3 + x4 + ch
    BY <2>15, <2>17, <2>20
  <2>22. PointsIn(Earned(a, t)) = y1 + y2 + y3 + y4
    BY <2>13, <2>17, <2>20
  <2>23. TablePoints(RowOf(E, R, t)) = (x1 + y1) + (x2 + y2) + (x3 + y3) + (x4 + y4) + ch
    BY <2>16, <2>17, <2>18, <2>20
  <2>24. (x1 + x2 + x3 + x4 + ch) + (y1 + y2 + y3 + y4) = (x1 + y1) + (x2 + y2) + (x3 + y3) + (x4 + y4) + ch
    BY <2>7, <2>19, <2>20
  <2> QED BY <2>11, <2>14, <2>21, <2>22, <2>23, <2>24
<1>8. DOMAIN w.table = TeamsOf(E, R) /\ DOMAIN w.data = TeamsOf(E, R)
  BY <1>3, <1>5
<1>9. GatheredIs(w, E, R)
  BY <1>5, <1>7, <1>8 DEF GatheredIs
<1> QED BY <1>2, <1>4, <1>9

LEMMA OneChallengeMore ==
  ASSUME NEW D \in SUBSET Docs, IsFiniteSet(D), NEW R \in SUBSET Challenges, IsFiniteSet(R),
         NEW v, GatheredIs(v, D, R), NEW a \in Challenges, a \notin R
  PROVE  GatheredIs(ScoresChallenge(a, v), D, R \cup {a})
<1>1. PICK T : T = DOMAIN v.table \cup {a.team}
  OBVIOUS
<1>2. PICK w : w = ScoresChallenge(a, v)
  OBVIOUS
<1>3. /\ w.table = [t \in T |-> [At(v.table, t, EmptyRow) EXCEPT
                                   !.challenge = @ + (IF t = a.team THEN a.points ELSE 0)]]
      /\ w.data = [t \in T |-> At(v.data, t, << >>) \o
                     (IF t = a.team THEN <<[time |-> a.time, points |-> a.points]>> ELSE << >>)]
  BY <1>1, <1>2 DEF ScoresChallenge
<1>4. PICK E : E = R \cup {a}
  OBVIOUS
<1>5. T = TeamsOf(D, E)
  <2> SUFFICES ASSUME NEW t PROVE t \in T <=> t \in TeamsOf(D, E)
    OBVIOUS
  <2>1. t \in TeamsOf(D, E) <=> \/ \E d \in D : t = d.team \/ t \in Thieves(d)
                                \/ \E r \in E : t = r.team
    BY TeamIsTold
  <2>2. t \in TeamsOf(D, R) <=> \/ \E d \in D : t = d.team \/ t \in Thieves(d)
                                \/ \E r \in R : t = r.team
    BY TeamIsTold
  <2>3. t \in T <=> t \in TeamsOf(D, R) \/ t = a.team
    BY <1>1 DEF GatheredIs
  <2> QED BY <1>4, <2>1, <2>2, <2>3
<1>6. IsFiniteSet(E) /\ E \in SUBSET Challenges /\ a \in E /\ E \ {a} = R
  BY <1>4, FS_AddElement
<1>7. ASSUME NEW t \in T
      PROVE  /\ w.table[t] = RowOf(D, E, t)
             /\ w.data[t] \in Seq(Entries)
             /\ PointsIn(w.data[t]) = TablePoints(RowOf(D, E, t))
  <2>1. PICK row, list : row = At(v.table, t, EmptyRow) /\ list = At(v.data, t, << >>)
    OBVIOUS
  <2>2. /\ row = RowOf(D, R, t) /\ list \in Seq(Entries)
        /\ PointsIn(list) = TablePoints(RowOf(D, R, t))
    BY <2>1, GatheredSoFar
  <2>3. PICK p : p = Paid(t)[a]
    OBVIOUS
  <2>4. p \in Nat /\ p = IF t = a.team THEN a.points ELSE 0
    BY <2>3, PaidIsNat DEF Paid
  <2>5. PICK ch : ch = Sum(Paid(t), R)
    OBVIOUS
  <2>6. Sum(Paid(t), E) = p + ch /\ ch \in Nat
    <3>1. \A r \in E : Paid(t)[r] \in Nat
      BY <1>6, PaidIsNat
    <3>2. Sum(Paid(t), E) = Paid(t)[a] + Sum(Paid(t), E \ {a})
      BY <1>6, <3>1, SumOfOne
    <3> QED BY <1>6, <2>3, <2>5, <3>2, SumsAreNat
  <2>7. PICK dl, cp, df, ck : /\ dl = Sum(Counts("deliver", t), D)
                              /\ cp = Sum(Counts("capture", t), D)
                              /\ df = Sum(Counts("defend", t), D)
                              /\ ck = Sum(Counts("check", t), D)
    OBVIOUS
  <2>8. dl \in Nat /\ cp \in Nat /\ df \in Nat /\ ck \in Nat
    BY <2>7, SumsAreNat
  <2>9. row = [deliver |-> dl, capture |-> cp, defend |-> df, check |-> ck,
               challenge |-> ch, points |-> 0]
    BY <2>2, <2>5, <2>7 DEF RowOf
  <2>10. RowOf(D, E, t) = [deliver |-> dl, capture |-> cp, defend |-> df, check |-> ck,
                           challenge |-> ch + p, points |-> 0]
    <3>1. p + ch = ch + p
      BY <2>4, <2>6
    <3> QED BY <2>6, <2>7, <3>1 DEF RowOf
  <2>11. w.table[t] = RowOf(D, E, t)
    <3>1. w.table[t] = [row EXCEPT !.challenge = @ + p]
      BY <1>3, <2>1, <2>4
    <3> QED BY <2>9, <2>10, <3>1
  <2>12. PICK more : more = IF t = a.team THEN <<[time |-> a.time, points |-> a.points]>> ELSE << >>
    OBVIOUS
  <2>13. more \in Seq(Entries) /\ PointsIn(more) = p
    <3>1. CASE t = a.team
      <4>1. PICK x : x = [time |-> a.time, points |-> a.points]
        OBVIOUS
      <4>2. x \in Entries /\ x.points = p
        BY <2>4, <3>1, <4>1, PageAssumption DEF Entries
      <4>3. more = <<x>>
        BY <2>12, <3>1, <4>1
      <4>4. more \in Seq(Entries) /\ Len(more) = 1 /\ more[1] = x
        BY <4>2, <4>3
      <4>5. \A i \in 1 .. 1 : more[i].points = p
        BY <4>2, <4>4
      <4>6. PointsIn(more) = 1 * p
        BY <2>4, <4>4, <4>5, PointsOfSame
      <4> QED BY <2>4, <4>4, <4>6
    <3>2. CASE t # a.team
      <4>1. more = << >> /\ p = 0
        BY <2>4, <2>12, <3>2
      <4>2. << >> \in Seq(Entries)
        OBVIOUS
      <4> QED BY <4>1, <4>2, PointsOfNone
    <3> QED BY <3>1, <3>2
  <2>14. w.data[t] = list \o more
    BY <1>3, <2>1, <2>12
  <2>15. w.data[t] \in Seq(Entries) /\ PointsIn(w.data[t]) = PointsIn(list) + p
    BY <2>2, <2>13, <2>14, ConcatProperties, PointsOfConcat
  <2>16. PICK x : x = dl * Points.deliver + cp * Points.capture + df * Points.defend + ck * Points.check
    OBVIOUS
  <2>17. x \in Nat
    BY <2>8, <2>16, PointTypes
  <2>18. PointsIn(list) = x + ch
    BY <2>2, <2>9, <2>16 DEF TablePoints
  <2>19. TablePoints(RowOf(D, E, t)) = x + (ch + p)
    BY <2>10, <2>16 DEF TablePoints
  <2> QED BY <2>4, <2>6, <2>11, <2>15, <2>17, <2>18, <2>19
<1>8. DOMAIN w.table = TeamsOf(D, E) /\ DOMAIN w.data = TeamsOf(D, E)
  BY <1>3, <1>5
<1>9. GatheredIs(w, D, E)
  BY <1>5, <1>7, <1>8 DEF GatheredIs
<1> QED BY <1>2, <1>4, <1>9

\* The observer is handed the documents one after the other, then the challenges.
LEMMA FlagsFold ==
  ASSUME NEW S, IsFiniteSet(S)
  PROVE  \E g : IsFold("flags", << >>, ScoresStart, S, g) /\ FoldSet(ScoresFlag, ScoresStart, S) = g[S]
<1> DEFINE Is(f) == f = [s \in SUBSET S |-> IF s = {} THEN ScoresStart
                                            ELSE ScoresFlag(AnyOf(s), f[s \ {AnyOf(s)}])]
<1>1. \A f : Is(f) <=> IsFold("flags", << >>, ScoresStart, S, f)
  BY DEF IsFold, More
<1>2. \E f : Is(f)
  BY <1>1, FoldExists
<1>3. PICK g : g = CHOOSE f : Is(f)
  OBVIOUS
<1>4. Is(g)
  BY <1>2, <1>3
<1>5. FoldSet(ScoresFlag, ScoresStart, S)
        = MapThenFoldSet(ScoresFlag, ScoresStart, LAMBDA x : x, LAMBDA s : CHOOSE x \in s : TRUE, S)
  BY DEF FoldSet
<1>6. MapThenFoldSet(ScoresFlag, ScoresStart, LAMBDA x : x, LAMBDA s : CHOOSE x \in s : TRUE, S) = g[S]
  BY <1>3 DEF MapThenFoldSet, AnyOf
<1> QED BY <1>1, <1>4, <1>5, <1>6

LEMMA ChallengesFold ==
  ASSUME NEW v, NEW S, IsFiniteSet(S)
  PROVE  \E g : IsFold("challenges", << >>, v, S, g) /\ FoldSet(ScoresChallenge, v, S) = g[S]
<1> DEFINE Is(f) == f = [s \in SUBSET S |-> IF s = {} THEN v
                                            ELSE ScoresChallenge(AnyOf(s), f[s \ {AnyOf(s)}])]
<1>1. \A f : Is(f) <=> IsFold("challenges", << >>, v, S, f)
  BY DEF IsFold, More
<1>2. \E f : Is(f)
  BY <1>1, FoldExists
<1>3. PICK g : g = CHOOSE f : Is(f)
  OBVIOUS
<1>4. Is(g)
  BY <1>2, <1>3
<1>5. FoldSet(ScoresChallenge, v, S)
        = MapThenFoldSet(ScoresChallenge, v, LAMBDA x : x, LAMBDA s : CHOOSE x \in s : TRUE, S)
  BY DEF FoldSet
<1>6. MapThenFoldSet(ScoresChallenge, v, LAMBDA x : x, LAMBDA s : CHOOSE x \in s : TRUE, S) = g[S]
  BY <1>3 DEF MapThenFoldSet, AnyOf
<1> QED BY <1>1, <1>4, <1>5, <1>6

LEMMA StartIsGathered == GatheredIs(ScoresStart, {}, {})
<1>1. TeamsOf({}, {}) = {}
  <2>1. \A t : t \notin TeamsOf({}, {})
    BY TeamIsTold
  <2> QED BY <2>1
<1>2. DOMAIN ScoresStart.table = {} /\ DOMAIN ScoresStart.data = {}
  BY DEF ScoresStart
<1> QED BY <1>1, <1>2 DEF GatheredIs

LEMMA FlagsGathered ==
  ASSUME NEW D \in SUBSET Docs, IsFiniteSet(D)
  PROVE  GatheredIs(FoldSet(ScoresFlag, ScoresStart, D), D, {})
<1>1. PICK g : IsFold("flags", << >>, ScoresStart, D, g) /\ FoldSet(ScoresFlag, ScoresStart, D) = g[D]
  BY FlagsFold
<1> DEFINE B == {S \in SUBSET D : ~GatheredIs(g[S], S, {})}
<1> SUFFICES ASSUME B # {} PROVE FALSE
  <2>1. D \in SUBSET D
    OBVIOUS
  <2> QED BY <1>1, <2>1
<1>2. B \in SUBSET SUBSET D
  OBVIOUS
<1>3. PICK S \in B : \A x \in S : S \ {x} \notin B
  <2> HIDE DEF B
  <2> QED BY <1>2, SmallestSet
<1>4. S \in SUBSET D /\ IsFiniteSet(S) /\ ~GatheredIs(g[S], S, {})
  BY <1>3, FS_Subset
<1>5. CASE S = {}
  <2>1. g[S] = ScoresStart
    BY <1>1, <1>4, <1>5 DEF IsFold
  <2> QED BY <1>4, <1>5, <2>1, StartIsGathered
<1>6. CASE S # {}
  <2>1. PICK a, rest : a = AnyOf(S) /\ rest = S \ {AnyOf(S)}
    OBVIOUS
  <2>2. a \in S /\ rest \in SUBSET D /\ a \notin rest /\ rest \cup {a} = S /\ IsFiniteSet(rest)
        /\ a \in Docs /\ rest \in SUBSET Docs
    <3>1. a \in S
      BY <1>6, <2>1, AnyIsIn
    <3>2. IsFiniteSet(S \ {a})
      BY <1>4, FS_Subset
    <3> QED BY <1>4, <2>1, <3>1, <3>2
  <2>3. GatheredIs(g[rest], rest, {})
    <3>1. rest \notin B
      BY <1>3, <2>1, <2>2
    <3> QED BY <2>2, <3>1
  <2>4. g[S] = ScoresFlag(a, g[rest])
    BY <1>1, <1>4, <1>6, <2>1 DEF IsFold, More
  <2>5. {} \in SUBSET Challenges /\ IsFiniteSet({})
    BY FS_EmptySet
  <2>6. GatheredIs(ScoresFlag(a, g[rest]), rest \cup {a}, {})
    BY <2>2, <2>3, <2>5, OneFlagMore
  <2> QED BY <1>4, <2>2, <2>4, <2>6
<1> QED BY <1>5, <1>6

LEMMA AllGathered ==
  ASSUME NEW D \in SUBSET Docs, IsFiniteSet(D), NEW R \in SUBSET Challenges, IsFiniteSet(R)
  PROVE  GatheredIs(Gathered(D, R), D, R)
<1>1. PICK v : v = FoldSet(ScoresFlag, ScoresStart, D)
  OBVIOUS
<1>2. GatheredIs(v, D, {})
  BY <1>1, FlagsGathered
<1>3. Gathered(D, R) = FoldSet(ScoresChallenge, v, R)
  BY <1>1 DEF Gathered
<1>4. PICK g : IsFold("challenges", << >>, v, R, g) /\ FoldSet(ScoresChallenge, v, R) = g[R]
  BY ChallengesFold
<1> DEFINE B == {S \in SUBSET R : ~GatheredIs(g[S], D, S)}
<1> SUFFICES ASSUME B # {} PROVE FALSE
  <2>1. R \in SUBSET R
    OBVIOUS
  <2> QED BY <1>3, <1>4, <2>1
<1>5. B \in SUBSET SUBSET R
  OBVIOUS
<1>6. PICK S \in B : \A x \in S : S \ {x} \notin B
  <2> HIDE DEF B
  <2> QED BY <1>5, SmallestSet
<1>7. S \in SUBSET R /\ IsFiniteSet(S) /\ ~GatheredIs(g[S], D, S)
  BY <1>6, FS_Subset
<1>8. CASE S = {}
  <2>1. g[S] = v
    BY <1>4, <1>7, <1>8 DEF IsFold
  <2> QED BY <1>2, <1>7, <1>8, <2>1
<1>9. CASE S # {}
  <2>1. PICK a, rest : a = AnyOf(S) /\ rest = S \ {AnyOf(S)}
    OBVIOUS
  <2>2. a \in S /\ rest \in SUBSET R /\ a \notin rest /\ rest \cup {a} = S /\ IsFiniteSet(rest)
        /\ a \in Challenges /\ rest \in SUBSET Challenges
    <3>1. a \in S
      BY <1>9, <2>1, AnyIsIn
    <3>2. IsFiniteSet(S \ {a})
      BY <1>7, FS_Subset
    <3> QED BY <1>7, <2>1, <3>1, <3>2
  <2>3. GatheredIs(g[rest], D, rest)
    <3>1. rest \notin B
      BY <1>6, <2>1, <2>2
    <3> QED BY <2>2, <3>1
  <2>4. g[S] = ScoresChallenge(a, g[rest])
    BY <1>4, <1>7, <1>9, <2>1 DEF IsFold, More
  <2>5. GatheredIs(ScoresChallenge(a, g[rest]), D, rest \cup {a})
    BY <2>2, <2>3, OneChallengeMore
  <2> QED BY <1>7, <2>2, <2>4, <2>5
<1> QED BY <1>8, <1>9

-----------------------------------------------------------------------------
(***************************************************************************)
(* The curve ends at everything that was earned.                           *)
(***************************************************************************)

LEMMA ListOfSet ==
  ASSUME NEW S, IsFiniteSet(S)
  PROVE  /\ Cardinality(S) \in Nat
         /\ SetToSeq(S) \in [1 .. Cardinality(S) -> S] /\ IsInjective(SetToSeq(S))
<1>1. Cardinality(S) \in Nat /\ ExistsBijection(1 .. Cardinality(S), S)
  BY FS_CardinalityType
<1>2. \E f \in [1 .. Cardinality(S) -> S] : IsInjective(f)
  BY <1>1 DEF ExistsBijection, Bijection, Injection
<1> QED BY <1>1, <1>2 DEF SetToSeq

LEMMA TimesFinite ==
  ASSUME NEW e \in Seq(Entries)
  PROVE  IsFiniteSet({e[i].time : i \in DOMAIN e})
<1>1. PICK n \in Nat : n = Len(e) /\ DOMAIN e = 1 .. n
  OBVIOUS
<1>2. PICK T : T = {e[i].time : i \in DOMAIN e}
  OBVIOUS
<1>3. PICK f : f = [i \in 1 .. n |-> e[i].time]
  OBVIOUS
<1>4. f \in [1 .. n -> T] /\ \A x \in T : \E i \in 1 .. n : f[i] = x
  BY <1>1, <1>2, <1>3
<1>5. ExistsSurjection(1 .. n, T)
  BY <1>4 DEF ExistsSurjection, Surjection
<1> QED BY <1>1, <1>2, <1>5, FS_NatSurjection

\* Whatever is drawn in between.
LEMMA LastOfThree ==
  ASSUME NEW x, NEW y, NEW n \in Nat, NEW b, DOMAIN b = 1 .. n, b = [i \in 1 .. n |-> b[i]]
  PROVE  Last(<<x>> \o b \o <<y>>) = y
<1>1. PICK S : S = {x, y} \cup {b[i] : i \in 1 .. n}
  OBVIOUS
<1>2. PICK a, c : a = <<x>> /\ c = <<y>>
  OBVIOUS
<1>3. a \in Seq(S) /\ c \in Seq(S) /\ Len(a) = 1 /\ Len(c) = 1 /\ c[1] = y
  BY <1>1, <1>2
<1>4. b \in Seq(S) /\ Len(b) = n
  <2>1. \A i \in 1 .. n : b[i] \in S
    BY <1>1
  <2>2. b \in [1 .. n -> S]
    BY <2>1
  <2> QED BY <2>2
<1>5. a \o b \in Seq(S) /\ Len(a \o b) = 1 + n
  <2>1. a \o b \in Seq(S) /\ Len(a \o b) = Len(a) + Len(b)
    BY <1>3, <1>4, ConcatProperties
  <2> QED BY <1>3, <1>4, <2>1
<1>6. PICK d : d = a \o b
  OBVIOUS
<1>7. d \in Seq(S) /\ Len(d) = 1 + n
  BY <1>5, <1>6
<1>8. /\ d \o c \in Seq(S) /\ Len(d \o c) = (1 + n) + 1
      /\ \A i \in 1 .. (1 + n) + 1 : (d \o c)[i] = IF i <= 1 + n THEN d[i] ELSE c[i - (1 + n)]
  <2>1. /\ d \o c \in Seq(S) /\ Len(d \o c) = Len(d) + Len(c)
        /\ \A i \in 1 .. Len(d) + Len(c) : (d \o c)[i] = IF i <= Len(d) THEN d[i] ELSE c[i - Len(d)]
    BY <1>3, <1>7, ConcatProperties
  <2> QED BY <1>3, <1>7, <2>1
<1>9. (1 + n) + 1 \in 1 .. (1 + n) + 1 /\ ~((1 + n) + 1 <= 1 + n) /\ ((1 + n) + 1) - (1 + n) = 1
  OBVIOUS
<1>10. (d \o c)[(1 + n) + 1] = y
  BY <1>3, <1>8, <1>9
<1>11. Last(d \o c) = y
  BY <1>8, <1>10 DEF Last
<1> QED BY <1>2, <1>6, <1>11

LEMMA CurveEnd ==
  ASSUME NEW e \in Seq(Entries), NEW dates
  PROVE  Last(Curve(e, dates)).total = PointsIn(e)
<1>1. PICK T : T = {e[i].time : i \in DOMAIN e}
  OBVIOUS
<1>2. PICK times : times = Sorted(SetToSeq({e[i].time : i \in DOMAIN e}))
  OBVIOUS
<1>3. DOMAIN times = 1 .. Cardinality(T) /\ Cardinality(T) \in Nat
  <2>1. IsFiniteSet(T)
    BY <1>1, TimesFinite
  <2>2. Cardinality(T) \in Nat /\ DOMAIN SetToSeq(T) = 1 .. Cardinality(T)
    BY <2>1, ListOfSet
  <2>3. DOMAIN times = DOMAIN SetToSeq(T)
    BY <1>1, <1>2 DEF Sorted
  <2> QED BY <2>2, <2>3
<1>4. PICK x, y, b : /\ x = [time |-> Min(dates), total |-> 0]
                     /\ y = [time |-> Max(dates), total |-> PointsIn(e)]
                     /\ b = [i \in DOMAIN times |->
                              [time |-> times[i],
                               total |-> MapThenSumSet(LAMBDA j : e[j].points,
                                           {j \in DOMAIN e : e[j].time <= times[i]})]]
  OBVIOUS
<1>5. Curve(e, dates) = <<x>> \o b \o <<y>>
  BY <1>2, <1>4 DEF Curve, PointsIn
<1>6. Last(<<x>> \o b \o <<y>>) = y
  <2>1. DOMAIN b = 1 .. Cardinality(T) /\ b = [i \in 1 .. Cardinality(T) |-> b[i]]
    BY <1>3, <1>4
  <2> QED BY <1>3, <2>1, LastOfThree
<1>7. y.total = PointsIn(e)
  BY <1>4
<1> QED BY <1>5, <1>6, <1>7

LEMMA BoardEndsAtTable ==
  ASSUME NEW D \in SUBSET Docs, IsFiniteSet(D), NEW R \in SUBSET Challenges, IsFiniteSet(R)
  PROVE  GraphEndsAtTable(Board(D, R))
<1>1. PICK v : v = Gathered(D, R)
  OBVIOUS
<1>2. GatheredIs(v, D, R)
  BY <1>1, AllGathered
<1>3. PICK b : b = Board(D, R)
  OBVIOUS
<1>4. /\ b.table = [t \in DOMAIN v.table |-> [v.table[t] EXCEPT !.points = TablePoints(v.table[t])]]
      /\ b.score_over_time = [t \in DOMAIN v.data |-> Curve(v.data[t], v.dates)]
  BY <1>1, <1>3 DEF Board, ScoreOverTime
<1>5. DOMAIN b.table = TeamsOf(D, R) /\ DOMAIN b.score_over_time = TeamsOf(D, R)
  BY <1>2, <1>4 DEF GatheredIs
<1>6. ASSUME NEW t \in TeamsOf(D, R)
      PROVE  Last(b.score_over_time[t]).total = b.table[t].points
  <2>1. v.table[t] = RowOf(D, R, t) /\ v.data[t] \in Seq(Entries)
        /\ PointsIn(v.data[t]) = TablePoints(RowOf(D, R, t))
    BY <1>2 DEF GatheredIs
  <2>2. b.score_over_time[t] = Curve(v.data[t], v.dates)
    BY <1>4, <1>5
  <2>3. b.table[t] = [v.table[t] EXCEPT !.points = TablePoints(v.table[t])]
    BY <1>4, <1>5
  <2>4. b.table[t].points = TablePoints(RowOf(D, R, t))
    BY <2>1, <2>3 DEF RowOf
  <2> QED BY <2>1, <2>2, <2>4, CurveEnd
<1> QED BY <1>3, <1>5, <1>6 DEF GraphEndsAtTable

-----------------------------------------------------------------------------
(***************************************************************************)
(* Collections that have grown.                                            *)
(***************************************************************************)

\* [x] is [d] at a later time.
Extends(x, d) ==
  /\ Same(x, d)
  /\ d.delivered => x.delivered
  /\ Thieves(d) \subseteq Thieves(x)
  /\ \A t : Captured(d, t) <= Captured(x, t)
  /\ Len(Successes(d)) <= Len(Successes(x))

Grown(D, E) == \A d \in D : \E x \in E : Extends(x, d)

\* As the collection of documents is: no two are of the same team, service and time.
Collection(D) ==
  /\ D \in SUBSET Docs /\ IsFiniteSet(D)
  /\ \A x, y \in D : Same(x, y) => x = y

LEMMA DocCounts ==
  ASSUME NEW d \in Docs
  PROVE  Len(Successes(d)) \in Nat /\ \A t : Captured(d, t) \in Nat
BY ListsOfDoc, CountTypes

LEMMA ExtendsItself == \A d \in Docs : Extends(d, d)
BY DocCounts DEF Extends, Same

LEMMA ExtendsFurther ==
  ASSUME NEW d \in Docs, NEW x \in Docs, NEW y \in Docs, Extends(x, d), Extends(y, x)
  PROVE  Extends(y, d)
<1>1. Same(y, d) /\ (d.delivered => y.delivered) /\ Thieves(d) \subseteq Thieves(y)
  BY DEF Extends, Same
<1>2. ASSUME NEW t PROVE Captured(d, t) <= Captured(y, t)
  <2>1. Captured(d, t) \in Nat /\ Captured(x, t) \in Nat /\ Captured(y, t) \in Nat
    BY DocCounts
  <2>2. Captured(d, t) <= Captured(x, t) /\ Captured(x, t) <= Captured(y, t)
    BY DEF Extends
  <2> QED BY <2>1, <2>2
<1>3. Len(Successes(d)) <= Len(Successes(y))
  <2>1. PICK a, b, c \in Nat :
          a = Len(Successes(d)) /\ b = Len(Successes(x)) /\ c = Len(Successes(y))
    BY DocCounts
  <2>2. a <= b /\ b <= c
    BY <2>1 DEF Extends
  <2> QED BY <2>1, <2>2
<1> QED BY <1>1, <1>2, <1>3 DEF Extends

LEMMA GrownItself == \A D \in SUBSET Docs : Grown(D, D)
BY ExtendsItself DEF Grown

LEMMA GrownFurther ==
  ASSUME NEW D \in SUBSET Docs, NEW E \in SUBSET Docs, NEW F \in SUBSET Docs,
         Grown(D, E), Grown(E, F)
  PROVE  Grown(D, F)
<1> SUFFICES ASSUME NEW d \in D PROVE \E y \in F : Extends(y, d)
  BY DEF Grown
<1>1. PICK x \in E : Extends(x, d)
  BY DEF Grown
<1>2. PICK y \in F : Extends(y, x)
  BY DEF Grown
<1>3. d \in Docs /\ x \in Docs /\ y \in Docs
  OBVIOUS
<1> QED BY <1>1, <1>2, <1>3, ExtendsFurther

\* Counts that do not decrease from one document to its later self do not
\* decrease from one collection to the next.
LEMMA CountsGrow ==
  ASSUME NEW D, Collection(D), NEW E, Collection(E), Grown(D, E), NEW t,
         NEW field \in {"deliver", "capture", "check"}
  PROVE  Sum(Counts(field, t), D) <= Sum(Counts(field, t), E)
<1>1. PICK e : e = [d \in D |-> CHOOSE x \in E : Extends(x, d)]
  OBVIOUS
<1>2. \A d \in D : e[d] \in E /\ Extends(e[d], d)
  BY <1>1 DEF Grown
<1>3. D \in SUBSET Docs /\ E \in SUBSET Docs /\ IsFiniteSet(D) /\ IsFiniteSet(E)
  BY DEF Collection
<1>4. PICK k : k = Counts(field, t)
  OBVIOUS
<1>5. \A d \in Docs : k[d] \in Nat
  BY <1>4, CountsAreNat
<1>6. ASSUME NEW d \in Docs, NEW x \in Docs, Extends(x, d) PROVE k[d] <= k[x]
  <2>1. CASE field = "deliver"
    <3>1. k[d] = OwnDelivered(d, t) /\ k[x] = OwnDelivered(x, t)
      BY <1>4, <2>1 DEF Counts
    <3>2. t = d.team /\ d.delivered => t = x.team /\ x.delivered
      BY <1>6 DEF Extends, Same
    <3> QED BY <3>1, <3>2 DEF OwnDelivered, One
  <2>2. CASE field = "capture"
    <3>1. k[d] = Captured(d, t) /\ k[x] = Captured(x, t)
      BY <1>4, <2>2 DEF Counts
    <3> QED BY <1>6, <3>1 DEF Extends
  <2>3. CASE field = "check"
    <3>1. k[d] = OwnChecked(d, t) /\ k[x] = OwnChecked(x, t)
      BY <1>4, <2>3 DEF Counts
    <3>2. t = d.team <=> t = x.team
      BY <1>6 DEF Extends, Same
    <3>3. Len(Successes(d)) <= Len(Successes(x))
      BY <1>6 DEF Extends
    <3> QED BY <3>1, <3>2, <3>3 DEF OwnChecked
  <2> QED BY <2>1, <2>2, <2>3
<1>7. \A d \in D : k[d] \in Nat
  BY <1>3, <1>5
<1>8. \A x \in E : k[x] \in Nat
  BY <1>3, <1>5
<1>9. \A d \in D : e[d] \in E /\ k[d] <= k[e[d]]
  BY <1>2, <1>3, <1>6
<1>10. \A x, y \in D : e[x] = e[y] => x = y
  BY <1>2 DEF Extends, Same, Collection
<1> QED BY <1>3, <1>4, <1>7, <1>8, <1>9, <1>10, SumInjected

LEMMA RanksGrow ==
  ASSUME NEW R \in SUBSET Challenges, NEW Q \in SUBSET Challenges, R \subseteq Q, IsFiniteSet(Q), NEW t
  PROVE  Sum(Paid(t), R) <= Sum(Paid(t), Q)
<1>1. PICK e : e = [x \in R |-> x]
  OBVIOUS
<1>2. IsFiniteSet(R)
  BY FS_Subset
<1>3. PICK k : k = Paid(t)
  OBVIOUS
<1>4. (\A x \in R : k[x] \in Nat) /\ (\A x \in Q : k[x] \in Nat)
  BY <1>3, PaidIsNat
<1>5. (\A x \in R : e[x] \in Q /\ k[x] <= k[e[x]]) /\ \A x, y \in R : e[x] = e[y] => x = y
  BY <1>1, <1>4
<1> QED BY <1>2, <1>3, <1>4, <1>5, SumInjected

\* No team disappears, and of what it has nothing is taken back.
LEMMA LaterBoard ==
  ASSUME NEW D, Collection(D), NEW E, Collection(E), Grown(D, E),
         NEW R \in SUBSET Challenges, NEW Q \in SUBSET Challenges, R \subseteq Q, IsFiniteSet(Q)
  PROVE  NotTakenBack(Board(D, R), Board(E, Q))
<1>1. PICK v, w : v = Gathered(D, R) /\ w = Gathered(E, Q)
  OBVIOUS
<1>2. D \in SUBSET Docs /\ E \in SUBSET Docs /\ IsFiniteSet(D) /\ IsFiniteSet(E) /\ IsFiniteSet(R)
  BY FS_Subset DEF Collection
<1>3. GatheredIs(v, D, R) /\ GatheredIs(w, E, Q)
  BY <1>1, <1>2, AllGathered
<1>4. PICK a, b : a = Board(D, R) /\ b = Board(E, Q)
  OBVIOUS
<1>5. /\ a.table = [t \in DOMAIN v.table |-> [v.table[t] EXCEPT !.points = TablePoints(v.table[t])]]
      /\ b.table = [t \in DOMAIN w.table |-> [w.table[t] EXCEPT !.points = TablePoints(w.table[t])]]
  BY <1>1, <1>4 DEF Board
<1>6. DOMAIN a.table = TeamsOf(D, R) /\ DOMAIN b.table = TeamsOf(E, Q)
  BY <1>3, <1>5 DEF GatheredIs
<1>7. TeamsOf(D, R) \subseteq TeamsOf(E, Q)
  <2> SUFFICES ASSUME NEW t \in TeamsOf(D, R) PROVE t \in TeamsOf(E, Q)
    OBVIOUS
  <2>1. \/ \E d \in D : t = d.team \/ t \in Thieves(d)
        \/ \E r \in R : t = r.team
    BY TeamIsTold
  <2>2. CASE \E d \in D : t = d.team \/ t \in Thieves(d)
    <3>1. PICK d \in D : t = d.team \/ t \in Thieves(d)
      BY <2>2
    <3>2. PICK x \in E : Extends(x, d)
      BY DEF Grown
    <3>3. t = x.team \/ t \in Thieves(x)
      BY <3>1, <3>2 DEF Extends, Same
    <3> QED BY <3>3, TeamIsTold
  <2>3. CASE \E r \in R : t = r.team
    BY <2>3, TeamIsTold
  <2> QED BY <2>1, <2>2, <2>3
<1>8. ASSUME NEW t \in TeamsOf(D, R), NEW old, old = a.table[t], NEW new, new = b.table[t]
      PROVE  /\ old.capture <= new.capture /\ old.check <= new.check
             /\ old.deliver <= new.deliver /\ old.challenge <= new.challenge
             /\ new.points >= old.points - Points.defend * (old.defend + new.deliver - old.deliver - new.defend)
  <2>1. t \in TeamsOf(E, Q)
    BY <1>7
  <2>2. v.table[t] = RowOf(D, R, t) /\ w.table[t] = RowOf(E, Q, t)
    BY <1>3, <2>1 DEF GatheredIs
  <2>3. /\ old = [RowOf(D, R, t) EXCEPT !.points = TablePoints(RowOf(D, R, t))]
        /\ new = [RowOf(E, Q, t) EXCEPT !.points = TablePoints(RowOf(E, Q, t))]
    BY <1>5, <1>6, <1>8, <2>1, <2>2
  <2>4. PICK d1, c1, f1, k1, h1 \in Nat :
          /\ d1 = Sum(Counts("deliver", t), D) /\ c1 = Sum(Counts("capture", t), D)
          /\ f1 = Sum(Counts("defend", t), D) /\ k1 = Sum(Counts("check", t), D)
          /\ h1 = Sum(Paid(t), R)
    BY <1>2, SumsAreNat
  <2>5. PICK d2, c2, f2, k2, h2 \in Nat :
          /\ d2 = Sum(Counts("deliver", t), E) /\ c2 = Sum(Counts("capture", t), E)
          /\ f2 = Sum(Counts("defend", t), E) /\ k2 = Sum(Counts("check", t), E)
          /\ h2 = Sum(Paid(t), Q)
    BY <1>2, SumsAreNat
  <2>6. d1 <= d2 /\ c1 <= c2 /\ k1 <= k2
    BY <2>4, <2>5, CountsGrow
  <2>7. h1 <= h2
    BY <2>4, <2>5, RanksGrow
  <2>8. PICK pd, pc, pf, pk \in Nat : /\ pd = Points.deliver /\ pc = Points.capture
                                      /\ pf = Points.defend /\ pk = Points.check
    BY PointTypes
  <2>9. /\ old.deliver = d1 /\ old.capture = c1 /\ old.defend = f1 /\ old.check = k1
        /\ old.challenge = h1 /\ old.points = d1 * pd + c1 * pc + f1 * pf + k1 * pk + h1
    BY <2>3, <2>4, <2>8 DEF RowOf, TablePoints
  <2>10. /\ new.deliver = d2 /\ new.capture = c2 /\ new.defend = f2 /\ new.check = k2
         /\ new.challenge = h2 /\ new.points = d2 * pd + c2 * pc + f2 * pf + k2 * pk + h2
    BY <2>3, <2>5, <2>8 DEF RowOf, TablePoints
  <2>11. PICK dd, dc, dk, dh \in Nat : d2 = d1 + dd /\ c2 = c1 + dc /\ k2 = k1 + dk /\ h2 = h1 + dh
    <3>1. d2 - d1 \in Nat /\ c2 - c1 \in Nat /\ k2 - k1 \in Nat /\ h2 - h1 \in Nat
      BY <2>6, <2>7
    <3>2. d2 = d1 + (d2 - d1) /\ c2 = c1 + (c2 - c1) /\ k2 = k1 + (k2 - k1) /\ h2 = h1 + (h2 - h1)
      OBVIOUS
    <3> QED BY <3>1, <3>2
  <2>12. /\ d2 * pd = d1 * pd + dd * pd /\ c2 * pc = c1 * pc + dc * pc /\ k2 * pk = k1 * pk + dk * pk
    BY <2>11
  <2>13. pf * (f1 + d2 - d1 - f2) = f1 * pf + dd * pf - f2 * pf
    <3>1. f1 + d2 - d1 - f2 = f1 + dd - f2
      BY <2>11
    <3>2. pf * (f1 + dd - f2) = f1 * pf + dd * pf - f2 * pf
      OBVIOUS
    <3> QED BY <3>1, <3>2
  <2>14. PICK x1, x2, x3, x4, y1, y2, y3, y4, z \in Nat :
           /\ x1 = d1 * pd /\ x2 = c1 * pc /\ x3 = f1 * pf /\ x4 = k1 * pk
           /\ y1 = dd * pd /\ y2 = dc * pc /\ y3 = dd * pf /\ y4 = dk * pk /\ z = f2 * pf
    <3>1. /\ d1 * pd \in Nat /\ c1 * pc \in Nat /\ f1 * pf \in Nat /\ k1 * pk \in Nat
          /\ dd * pd \in Nat /\ dc * pc \in Nat /\ dd * pf \in Nat /\ dk * pk \in Nat /\ f2 * pf \in Nat
      OBVIOUS
    <3> QED BY <3>1
  <2>15. old.points = x1 + x2 + x3 + x4 + h1
    BY <2>9, <2>14
  <2>16. new.points = (x1 + y1) + (x2 + y2) + z + (x4 + y4) + (h1 + dh)
    BY <2>10, <2>11, <2>12, <2>14
  <2>17. Points.defend * (old.defend + new.deliver - old.deliver - new.defend) = x3 + y3 - z
    BY <2>8, <2>9, <2>10, <2>13, <2>14
  <2>18. (x1 + y1) + (x2 + y2) + z + (x4 + y4) + (h1 + dh) >= (x1 + x2 + x3 + x4 + h1) - (x3 + y3 - z)
    OBVIOUS
  <2>19. new.points >= old.points - Points.defend * (old.defend + new.deliver - old.deliver - new.defend)
    BY <2>15, <2>16, <2>17, <2>18
  <2> QED BY <2>6, <2>7, <2>9, <2>10, <2>19
<1> QED BY <1>4, <1>6, <1>7, <1>8 DEF NotTakenBack

-----------------------------------------------------------------------------
(***************************************************************************)
(* How the collection changes.                                             *)
(***************************************************************************)

LEMMA DocumentHeld ==
  ASSUME NEW S, NEW f, Holds(S, f)
  PROVE  Document(S, f) \in S /\ Same(Document(S, f), f)
BY DEF Holds, Document

LEMMA FreshDoc ==
  ASSUME NEW f \in Flags, NEW d,
         d = [team |-> f.team, service |-> f.service, time |-> f.time,
              delivered |-> FALSE, captures |-> << >>, checks |-> << >>]
  PROVE  d \in Docs /\ Same(d, f)
<1>1. f.team \in Teams /\ f.time \in Nat /\ f.service \in Services
  BY PageAssumption DEF Services
<1>2. << >> \in Seq(Stolen) /\ << >> \in Seq(Checked)
  OBVIOUS
<1> QED BY <1>1, <1>2 DEF Docs, Same

LEMMA DocDelivered ==
  ASSUME NEW d \in Docs, NEW x, x = [d EXCEPT !.delivered = TRUE]
  PROVE  x \in Docs /\ Extends(x, d)
<1>1. /\ x \in Docs /\ x.team = d.team /\ x.service = d.service /\ x.time = d.time
      /\ x.delivered = TRUE /\ x.captures = d.captures /\ x.checks = d.checks
  BY DEF Docs
<1>2. Successes(x) = Successes(d) /\ Thieves(x) = Thieves(d) /\ \A t : Captured(x, t) = Captured(d, t)
  BY <1>1 DEF Successes, Thieves, Captured, CapturesBy
<1>3. Same(x, d) /\ (d.delivered => x.delivered)
  BY <1>1 DEF Same
<1>4. Thieves(d) \subseteq Thieves(x) /\ Len(Successes(d)) <= Len(Successes(x))
  BY <1>2, DocCounts
<1>5. ASSUME NEW t PROVE Captured(d, t) <= Captured(x, t)
  <2>1. Captured(x, t) = Captured(d, t) /\ Captured(d, t) \in Nat
    BY <1>2, DocCounts
  <2> QED BY <2>1
<1> QED BY <1>1, <1>3, <1>4, <1>5 DEF Extends

LEMMA DocCaptured ==
  ASSUME NEW d \in Docs, NEW t \in Teams, NEW n \in Nat, NEW x,
         x = [d EXCEPT !.captures = Append(@, [team |-> t, time |-> n])]
  PROVE  x \in Docs /\ Extends(x, d)
<1>1. PICK c : c = [team |-> t, time |-> n]
  OBVIOUS
<1>2. PICK s : s = d.captures
  OBVIOUS
<1>3. c \in Stolen /\ s \in Seq(Stolen)
  BY <1>1, <1>2 DEF Docs, Stolen
<1>4. Append(s, c) \in Seq(Stolen)
  BY <1>3
<1>5. x = [d EXCEPT !.captures = Append(s, c)]
  BY <1>1, <1>2
<1>6. /\ x \in Docs /\ x.team = d.team /\ x.service = d.service /\ x.time = d.time
      /\ x.delivered = d.delivered /\ x.captures = Append(s, c) /\ x.checks = d.checks
  BY <1>4, <1>5 DEF Docs
<1>7. Successes(x) = Successes(d)
  BY <1>6 DEF Successes
<1>8. Thieves(d) \subseteq Thieves(x)
  <2>1. /\ DOMAIN s \subseteq DOMAIN Append(s, c)
        /\ \A i \in DOMAIN s : Append(s, c)[i] = s[i]
    BY <1>3
  <2>2. Thieves(d) = {s[i].team : i \in DOMAIN s}
    BY <1>2 DEF Thieves
  <2>3. Thieves(x) = {Append(s, c)[i].team : i \in DOMAIN Append(s, c)}
    BY <1>6 DEF Thieves
  <2> QED BY <2>1, <2>2, <2>3
<1>9. ASSUME NEW u PROVE Captured(d, u) <= Captured(x, u)
  <2>1. PICK k, l : k = CapturesBy(d, u) /\ l = CapturesBy(x, u)
    OBVIOUS
  <2>2. k = With(s, "team", u) /\ l = With(Append(s, c), "team", u)
    BY <1>2, <1>6, <2>1 DEF CapturesBy
  <2>3. l = IF c["team"] = u THEN Append(k, c) ELSE k
    BY <1>3, <2>2, WithOneMore
  <2>4. k \in Seq(Stolen)
    BY <2>1, ListsOfDoc
  <2>5. Len(k) <= Len(l)
    <3>1. CASE l = k
      BY <2>4, <3>1
    <3>2. CASE l = Append(k, c)
      <4>1. Len(Append(k, c)) = Len(k) + 1 /\ Len(k) \in Nat
        BY <1>3, <2>4
      <4> QED BY <3>2, <4>1
    <3> QED BY <2>3, <3>1, <3>2
  <2> QED BY <2>1, <2>5 DEF Captured
<1>10. Same(x, d) /\ (d.delivered => x.delivered)
  BY <1>6 DEF Same
<1>11. Len(Successes(d)) <= Len(Successes(x))
  BY <1>7, DocCounts
<1> QED BY <1>6, <1>8, <1>9, <1>10, <1>11 DEF Extends

LEMMA DocChecked ==
  ASSUME NEW d \in Docs, NEW ok \in BOOLEAN, NEW n \in Nat, NEW x,
         x = [d EXCEPT !.checks = Append(@, [time |-> n, result |-> ok])]
  PROVE  x \in Docs /\ Extends(x, d)
<1>1. PICK c : c = [time |-> n, result |-> ok]
  OBVIOUS
<1>2. PICK s : s = d.checks
  OBVIOUS
<1>3. c \in Checked /\ s \in Seq(Checked)
  BY <1>1, <1>2 DEF Docs, Checked
<1>4. Append(s, c) \in Seq(Checked)
  BY <1>3
<1>5. x = [d EXCEPT !.checks = Append(s, c)]
  BY <1>1, <1>2
<1>6. /\ x \in Docs /\ x.team = d.team /\ x.service = d.service /\ x.time = d.time
      /\ x.delivered = d.delivered /\ x.captures = d.captures /\ x.checks = Append(s, c)
  BY <1>4, <1>5 DEF Docs
<1>7. Thieves(x) = Thieves(d) /\ \A t : Captured(x, t) = Captured(d, t)
  BY <1>6 DEF Thieves, Captured, CapturesBy
<1>8. Len(Successes(d)) <= Len(Successes(x))
  <2>1. PICK k, l : k = Successes(d) /\ l = Successes(x)
    OBVIOUS
  <2>2. PICK yes : yes = TRUE
    OBVIOUS
  <2>3. l = Append(k, c) \/ l = k
    <3>1. k = With(d.checks, "result", yes) /\ l = With(x.checks, "result", yes)
      BY <2>1, <2>2, Zenon DEF Successes
    <3>2. k = With(s, "result", yes) /\ l = With(Append(s, c), "result", yes)
      BY <1>2, <1>6, <3>1
    <3>3. \/ With(Append(s, c), "result", yes) = Append(With(s, "result", yes), c)
          \/ With(Append(s, c), "result", yes) = With(s, "result", yes)
      BY <1>3, WithOneMore
    <3> QED BY <3>2, <3>3
  <2>4. k \in Seq(Checked)
    BY <2>1, ListsOfDoc
  <2>5. Len(k) <= Len(l)
    <3>1. CASE l = k
      BY <2>4, <3>1
    <3>2. CASE l = Append(k, c)
      <4>1. Len(Append(k, c)) = Len(k) + 1 /\ Len(k) \in Nat
        BY <1>3, <2>4
      <4> QED BY <3>2, <4>1
    <3> QED BY <2>3, <3>1, <3>2
  <2> QED BY <2>1, <2>5
<1>9. Same(x, d) /\ (d.delivered => x.delivered)
  BY <1>6 DEF Same
<1>10. ASSUME NEW t PROVE Captured(d, t) <= Captured(x, t)
  <2>1. Captured(x, t) = Captured(d, t) /\ Captured(d, t) \in Nat
    BY <1>7, DocCounts
  <2> QED BY <2>1
<1> QED BY <1>6, <1>7, <1>8, <1>9, <1>10 DEF Extends

\* Of every document there is a flag.
Planted(D) == \A d \in D : \E f \in Flags : Same(d, f)

LEMMA DocAdded ==
  ASSUME NEW D, Collection(D), Planted(D), NEW f \in Flags, ~Holds(D, f),
         NEW d \in Docs, Same(d, f), NEW E, E = D \cup {d}
  PROVE  Collection(E) /\ Planted(E) /\ Grown(D, E)
<1>1. IsFiniteSet(E)
  BY FS_AddElement DEF Collection
<1>2. \A x \in D : ~Same(x, d) /\ ~Same(d, x)
  BY DEF Holds, Same
<1>3. Collection(E)
  BY <1>1, <1>2 DEF Collection
<1>4. Planted(E)
  BY DEF Planted
<1>5. Grown(D, E)
  BY ExtendsItself DEF Grown, Collection
<1> QED BY <1>3, <1>4, <1>5

LEMMA DocReplaced ==
  ASSUME NEW D, Collection(D), Planted(D), NEW d \in D, NEW x \in Docs, Extends(x, d),
         NEW E, E = (D \ {d}) \cup {x}
  PROVE  Collection(E) /\ Planted(E) /\ Grown(D, E)
<1>1. IsFiniteSet(E)
  <2>1. IsFiniteSet(D \ {d})
    BY FS_RemoveElement DEF Collection
  <2> QED BY <2>1, FS_AddElement
<1>2. Same(x, d)
  BY DEF Extends
<1>3. \A y \in D \ {d} : ~Same(x, y) /\ ~Same(y, x)
  BY <1>2 DEF Same, Collection
<1>4. Collection(E)
  <2>1. E \in SUBSET Docs
    BY DEF Collection
  <2>2. \A y, z \in E : Same(y, z) => y = z
    BY <1>3 DEF Collection
  <2> QED BY <1>1, <2>1, <2>2 DEF Collection
<1>5. Planted(E)
  BY <1>2 DEF Planted, Same
<1>6. Grown(D, E)
  <2>1. \A y \in D : Extends(y, y)
    BY ExtendsItself DEF Collection
  <2> QED BY <2>1 DEF Grown
<1> QED BY <1>4, <1>5, <1>6

LEMMA CollectionGrows ==
  ASSUME Collection(docs), Planted(docs), changes \in Nat, Change
  PROVE  Collection(docs') /\ Planted(docs') /\ Grown(docs, docs')
<1>1. docs \in SUBSET Docs
  BY DEF Collection
<1>2. CASE docs' = docs
  BY <1>1, <1>2, GrownItself
<1>3. ASSUME NEW f \in Flags, ~Holds(docs, f),
             docs' = docs \cup {[team |-> f.team, service |-> f.service, time |-> f.time,
                                 delivered |-> FALSE, captures |-> << >>, checks |-> << >>]}
      PROVE  Collection(docs') /\ Planted(docs') /\ Grown(docs, docs')
  <2>1. PICK d : d = [team |-> f.team, service |-> f.service, time |-> f.time,
                      delivered |-> FALSE, captures |-> << >>, checks |-> << >>]
    OBVIOUS
  <2>2. d \in Docs /\ Same(d, f)
    BY <2>1, FreshDoc
  <2>3. docs' = docs \cup {d}
    BY <1>3, <2>1
  <2> QED BY <1>3, <2>2, <2>3, DocAdded
<1>4. ASSUME NEW f \in Flags, Holds(docs, f), NEW x, Replace(f, x),
             x \in Docs /\ Extends(x, Document(docs, f))
      PROVE  Collection(docs') /\ Planted(docs') /\ Grown(docs, docs')
  <2>1. PICK d \in docs : d = Document(docs, f)
    BY <1>4, DocumentHeld
  <2>2. docs' = (docs \ {d}) \cup {x}
    BY <1>4, <2>1 DEF Replace
  <2>3. x \in Docs /\ Extends(x, d)
    BY <1>4, <2>1
  <2> QED BY <2>2, <2>3, DocReplaced
<1>5. ASSUME NEW f \in Flags, Holds(docs, f) PROVE Document(docs, f) \in Docs
  BY <1>1, <1>5, DocumentHeld
<1>6. ASSUME NEW f \in Flags, Holds(docs, f),
             Replace(f, [Document(docs, f) EXCEPT !.delivered = TRUE])
      PROVE  Collection(docs') /\ Planted(docs') /\ Grown(docs, docs')
  <2>1. PICK x : x = [Document(docs, f) EXCEPT !.delivered = TRUE]
    OBVIOUS
  <2>2. x \in Docs /\ Extends(x, Document(docs, f))
    BY <1>5, <1>6, <2>1, DocDelivered
  <2>3. Replace(f, x)
    BY <1>6, <2>1
  <2> QED BY <1>4, <1>6, <2>2, <2>3
<1>7. ASSUME NEW f \in Flags, Holds(docs, f), NEW t \in Teams \ {f.team},
             Replace(f, [Document(docs, f) EXCEPT !.captures = Append(@, [team |-> t, time |-> changes])])
      PROVE  Collection(docs') /\ Planted(docs') /\ Grown(docs, docs')
  <2>1. PICK x : x = [Document(docs, f) EXCEPT !.captures = Append(@, [team |-> t, time |-> changes])]
    OBVIOUS
  <2>2. x \in Docs /\ Extends(x, Document(docs, f))
    <3>1. t \in Teams /\ Document(docs, f) \in Docs
      BY <1>5, <1>7
    <3> QED BY <2>1, <3>1, DocCaptured
  <2>3. Replace(f, x)
    BY <1>7, <2>1
  <2> QED BY <1>4, <1>7, <2>2, <2>3
<1>8. ASSUME NEW f \in Flags, Holds(docs, f), NEW ok \in BOOLEAN,
             Replace(f, [Document(docs, f) EXCEPT !.checks = Append(@, [time |-> changes, result |-> ok])])
      PROVE  Collection(docs') /\ Planted(docs') /\ Grown(docs, docs')
  <2>1. PICK x : x = [Document(docs, f) EXCEPT !.checks = Append(@, [time |-> changes, result |-> ok])]
    OBVIOUS
  <2>2. x \in Docs /\ Extends(x, Document(docs, f))
    BY <1>5, <1>8, <2>1, DocChecked
  <2>3. Replace(f, x)
    BY <1>8, <2>1
  <2> QED BY <1>4, <1>8, <2>2, <2>3
<1>9. \/ docs' = docs
      \/ \E f \in Flags :
           IF ~Holds(docs, f)
           THEN docs' = docs \cup {[team |-> f.team, service |-> f.service, time |-> f.time,
                                    delivered |-> FALSE, captures |-> << >>, checks |-> << >>]}
           ELSE \/ Replace(f, [Document(docs, f) EXCEPT !.delivered = TRUE])
                \/ \E t \in Teams \ {f.team} :
                     Replace(f, [Document(docs, f) EXCEPT
                                   !.captures = Append(@, [team |-> t, time |-> changes])])
                \/ \E ok \in BOOLEAN :
                     Replace(f, [Document(docs, f) EXCEPT
                                   !.checks = Append(@, [time |-> changes, result |-> ok])])
  BY DEF Change
<1> QED BY <1>2, <1>3, <1>6, <1>7, <1>8, <1>9

-----------------------------------------------------------------------------
(***************************************************************************)
(* While boards are made: what a scan has read and has still to read, and  *)
(* what the boards made so far are to the collection [D], the ranks [R]    *)
(* and the scans [S].                                                      *)
(***************************************************************************)

ScanIs(s, D) ==
  /\ s = [left |-> s.left, docs |-> s.docs, must |-> s.must]
  /\ s.left \in SUBSET Flags
  /\ Collection(s.docs) /\ Planted(s.docs) /\ Grown(s.docs, D)
  /\ Collection(s.must) /\ Planted(s.must) /\ Grown(s.must, D)
  /\ \A f \in s.left : ~Holds(s.docs, f)
  /\ \A d \in s.must : \A f \in Flags :
       Same(d, f) => f \in s.left \/ \E x \in s.docs : Extends(x, d)

BoardIs(b, D, R, S) ==
  /\ Collection(b.docs) /\ Grown(b.docs, D)
  /\ b.ranks \in SUBSET Challenges /\ IsFiniteSet(b.ranks) /\ b.ranks \subseteq R
  /\ \A s \in S : Grown(b.docs, s.must)

Older(a, b) == Grown(a.docs, b.docs) /\ a.ranks \subseteq b.ranks

BoardsInv ==
  /\ \A r \in Reqs : served[r] # NoBoard =>
       /\ BoardIs(served[r], docs, ranks, scans)
       /\ cached # NoBoard => Older(served[r], cached)
  /\ cached # NoBoard => BoardIs(cached, docs, ranks, scans)

PageInv ==
  /\ Collection(docs) /\ Planted(docs) /\ changes \in Nat
  /\ ranks \in SUBSET Challenges /\ IsFiniteSet(ranks)
  /\ DOMAIN served = Reqs
  /\ \A s \in scans : ScanIs(s, docs)
  /\ BoardsInv

LEMMA ScanLater ==
  ASSUME NEW s, NEW D, NEW E, ScanIs(s, D), D \in SUBSET Docs, E \in SUBSET Docs, Grown(D, E)
  PROVE  ScanIs(s, E)
<1>1. s.docs \in SUBSET Docs /\ s.must \in SUBSET Docs /\ Grown(s.docs, D) /\ Grown(s.must, D)
  BY DEF ScanIs, Collection
<1>2. Grown(s.docs, E) /\ Grown(s.must, E)
  BY <1>1, GrownFurther
<1> QED BY <1>2 DEF ScanIs

LEMMA BoardLater ==
  ASSUME NEW b, NEW D, NEW E, NEW R, NEW Q, NEW S, NEW T, BoardIs(b, D, R, S),
         D \in SUBSET Docs, E \in SUBSET Docs, Grown(D, E), R \subseteq Q,
         \A s \in T : s \in S \/ s.must = D \/ \E z \in S : s.must = z.must
  PROVE  BoardIs(b, E, Q, T)
<1>1. b.docs \in SUBSET Docs /\ Grown(b.docs, D)
  BY DEF BoardIs, Collection
<1>2. Grown(b.docs, E)
  BY <1>1, GrownFurther
<1>3. \A s \in T : Grown(b.docs, s.must)
  BY <1>1 DEF BoardIs
<1> QED BY <1>2, <1>3 DEF BoardIs

LEMMA NewScanIs ==
  ASSUME Collection(docs), Planted(docs)
  PROVE  ScanIs(NewScan, docs) /\ NewScan.must = docs
<1>1. NewScan.left = Flags /\ NewScan.docs = {} /\ NewScan.must = docs
      /\ NewScan = [left |-> Flags, docs |-> {}, must |-> docs]
  BY DEF NewScan
<1>2. Collection({}) /\ Planted({}) /\ Grown({}, docs) /\ \A f \in Flags : ~Holds({}, f)
  BY FS_EmptySet DEF Collection, Planted, Grown, Holds
<1>3. Grown(docs, docs)
  BY GrownItself DEF Collection
<1> QED BY <1>1, <1>2, <1>3 DEF ScanIs

LEMMA ScanRead ==
  ASSUME Collection(docs), NEW s, ScanIs(s, docs), NEW f \in s.left, Holds(docs, f),
         NEW z, z = [s EXCEPT !.left = @ \ {f}, !.docs = @ \cup {Document(docs, f)}]
  PROVE  ScanIs(z, docs) /\ z.must = s.must
<1>1. PICK x \in docs : x = Document(docs, f) /\ Same(x, f)
  BY DocumentHeld
<1>2. z.left = s.left \ {f} /\ z.docs = s.docs \cup {x} /\ z.must = s.must
      /\ z = [left |-> z.left, docs |-> z.docs, must |-> z.must]
  BY <1>1 DEF ScanIs
<1>3. f \in Flags /\ x \in Docs
  BY DEF ScanIs, Collection
<1>4. Collection(z.docs) /\ Planted(z.docs)
  <2>1. ~Holds(s.docs, f) /\ Collection(s.docs) /\ Planted(s.docs)
    BY DEF ScanIs
  <2> QED BY <1>1, <1>2, <1>3, <2>1, DocAdded
<1>5. Grown(z.docs, docs)
  <2>1. Extends(x, x)
    BY <1>3, ExtendsItself
  <2>2. Grown(s.docs, docs)
    BY DEF ScanIs
  <2> QED BY <1>2, <2>1, <2>2 DEF Grown
<1>6. \A g \in z.left : ~Holds(z.docs, g)
  <2> SUFFICES ASSUME NEW g \in z.left, NEW y \in z.docs, Same(y, g) PROVE FALSE
    BY DEF Holds
  <2>1. g \in s.left /\ g # f /\ g \in Flags
    BY <1>2 DEF ScanIs
  <2>2. y \notin s.docs
    BY <2>1 DEF ScanIs, Holds
  <2>3. Same(x, g)
    BY <1>2, <2>2
  <2> QED BY <1>1, <1>3, <2>1, <2>3, PageAssumption DEF Same
<1>7. ASSUME NEW d \in z.must, NEW g \in Flags, Same(d, g)
      PROVE  g \in z.left \/ \E y \in z.docs : Extends(y, d)
  <2>1. CASE g # f
    <3>1. g \in s.left \/ \E y \in s.docs : Extends(y, d)
      BY <1>2, <1>7 DEF ScanIs
    <3> QED BY <1>2, <2>1, <3>1
  <2>2. CASE g = f
    <3>1. PICK y \in docs : Extends(y, d)
      BY <1>2 DEF ScanIs, Grown
    <3>2. Same(y, x)
      BY <1>1, <1>7, <2>2, <3>1 DEF Extends, Same
    <3>3. y = x
      BY <3>2 DEF Collection
    <3> QED BY <1>2, <3>1, <3>3
  <2> QED BY <2>1, <2>2
<1>8. /\ z.left \in SUBSET Flags /\ Collection(z.must) /\ Planted(z.must) /\ Grown(z.must, docs)
  BY <1>2 DEF ScanIs
<1> QED BY <1>2, <1>4, <1>5, <1>6, <1>7, <1>8 DEF ScanIs

LEMMA ScanComplete ==
  ASSUME NEW s, ScanIs(s, docs), AllRead(s)
  PROVE  Grown(s.must, s.docs)
<1> SUFFICES ASSUME NEW d \in s.must PROVE \E x \in s.docs : Extends(x, d)
  BY DEF Grown
<1>1. PICK f \in Flags : Same(d, f)
  BY DEF ScanIs, Planted
<1>2. f \notin s.left
  BY <1>1 DEF AllRead, Holds
<1> QED BY <1>1, <1>2 DEF ScanIs

LEMMA PageInit == Init => PageInv
<1> SUFFICES ASSUME Init PROVE PageInv
  OBVIOUS
<1>1. Collection(docs) /\ Planted(docs) /\ IsFiniteSet(ranks)
  BY FS_EmptySet DEF Init, Collection, Planted
<1>2. BoardsInv
  BY DEF Init, BoardsInv
<1> QED BY <1>1, <1>2 DEF Init, PageInv

\* Nothing happens to the boards that were made.
LEMMA BoardsStay ==
  ASSUME PageInv, UNCHANGED <<served, cached>>, docs' \in SUBSET Docs, Grown(docs, docs'),
         ranks \subseteq ranks',
         \A s \in scans' : s \in scans \/ s.must = docs \/ \E z \in scans : s.must = z.must
  PROVE  BoardsInv'
<1>1. docs \in SUBSET Docs
  BY DEF PageInv, Collection
<1>2. ASSUME NEW b, BoardIs(b, docs, ranks, scans) PROVE BoardIs(b, docs', ranks', scans')
  BY <1>1, <1>2, BoardLater
<1> QED BY <1>2 DEF PageInv, BoardsInv

LEMMA PageStep == CacheInv /\ PageInv /\ [Next]_vars => PageInv'
<1> SUFFICES ASSUME CacheInv, PageInv, [Next]_vars PROVE PageInv'
  OBVIOUS
<1>1. /\ Collection(docs) /\ Planted(docs) /\ changes \in Nat /\ docs \in SUBSET Docs
      /\ ranks \in SUBSET Challenges /\ IsFiniteSet(ranks) /\ Grown(docs, docs)
      /\ \A s \in scans : ScanIs(s, docs)
  BY GrownItself DEF PageInv, Collection
<1>2. CASE Change
  <2>1. Collection(docs') /\ Planted(docs') /\ Grown(docs, docs') /\ docs' \in SUBSET Docs
    BY <1>1, <1>2, CollectionGrows DEF Collection
  <2>2. ranks' \in SUBSET Challenges /\ IsFiniteSet(ranks') /\ ranks \subseteq ranks'
    <3>1. ranks' = ranks \/ \E c \in Challenges : ranks' = ranks \cup {c}
      BY <1>2 DEF Change
    <3>2. ASSUME NEW c PROVE IsFiniteSet(ranks \cup {c})
      BY <1>1, FS_AddElement
    <3> QED BY <1>1, <3>1, <3>2
  <2>3. changes' \in Nat /\ scans' = scans /\ served' = served /\ cached' = cached
    BY <1>1, <1>2 DEF Change, pageVars
  <2>4. \A s \in scans' : ScanIs(s, docs')
    BY <1>1, <2>1, <2>3, ScanLater
  <2>5. BoardsInv'
    BY <2>1, <2>2, <2>3, BoardsStay
  <2> QED BY <2>1, <2>2, <2>3, <2>4, <2>5 DEF PageInv
<1>3. ASSUME NEW r \in Reqs, Ask(r) PROVE PageInv'
  <2>1. docs' = docs /\ ranks' = ranks /\ changes' = changes /\ cached' = cached
    BY <1>3 DEF Ask, dbVars
  <2>2. scans' = scans \/ scans' = scans \cup {NewScan}
    BY <1>3 DEF Ask
  <2>3. \A s \in scans' : ScanIs(s, docs')
    BY <1>1, <2>1, <2>2, NewScanIs
  <2>4. \A s \in scans' : s \in scans \/ s.must = docs \/ \E z \in scans : s.must = z.must
    BY <1>1, <2>2, NewScanIs
  <2>5. ASSUME NEW b, BoardIs(b, docs, ranks, scans) PROVE BoardIs(b, docs', ranks', scans')
    BY <1>1, <2>1, <2>4, <2>5, BoardLater
  <2>6. DOMAIN served' = Reqs
    BY <1>3 DEF Ask, PageInv
  <2>7. CASE cached # NoBoard
    <3>1. served' = [served EXCEPT ![r] = cached]
      BY <1>3, <2>7 DEF Ask
    <3>2. \A q \in Reqs : served'[q] = served[q] \/ served'[q] = cached
      BY <3>1 DEF PageInv
    <3>3. Older(cached, cached) /\ BoardIs(cached, docs, ranks, scans)
      <4>1. BoardIs(cached, docs, ranks, scans)
        BY <2>7 DEF PageInv, BoardsInv
      <4>2. Grown(cached.docs, cached.docs)
        BY <4>1, GrownItself DEF BoardIs, Collection
      <4> QED BY <4>1, <4>2 DEF Older
    <3>4. BoardsInv'
      BY <2>1, <2>5, <3>2, <3>3 DEF PageInv, BoardsInv
    <3> QED BY <1>1, <2>1, <2>3, <2>6, <3>4 DEF PageInv
  <2>8. CASE cached = NoBoard
    <3>1. served' = [served EXCEPT ![r] = NoBoard]
      BY <1>3, <2>8 DEF Ask
    <3>2. \A q \in Reqs : served'[q] = served[q] \/ served'[q] = NoBoard
      BY <3>1 DEF PageInv
    <3>3. BoardsInv'
      BY <2>1, <2>5, <2>8, <3>2 DEF PageInv, BoardsInv
    <3> QED BY <1>1, <2>1, <2>3, <2>6, <3>3 DEF PageInv
  <2> QED BY <2>7, <2>8
<1>4. ASSUME NEW s \in scans, CursorFails(s) PROVE PageInv'
  <2>1. /\ docs' = docs /\ ranks' = ranks /\ changes' = changes /\ served' = served /\ cached' = cached
        /\ scans' = scans \ {s}
    BY <1>4 DEF CursorFails, dbVars
  <2>2. BoardsInv'
    BY <1>1, <2>1, BoardsStay
  <2> QED BY <1>1, <2>1, <2>2 DEF PageInv
<1>5. ASSUME NEW s \in scans, Finish(s) PROVE PageInv'
  <2>1. PICK b : b = [docs |-> s.docs, ranks |-> ranks]
    OBVIOUS
  <2>2. /\ docs' = docs /\ ranks' = ranks /\ changes' = changes /\ scans' = scans \ {s}
        /\ cached' = b /\ served' = [q \in Reqs |-> IF q \in waiting THEN b ELSE served[q]]
        /\ AllRead(s)
    BY <1>5, <2>1 DEF Finish, Stored, dbVars
  <2>3. scans' = {}
    BY <2>2 DEF CacheInv, CacheInOrder
  <2>4. Collection(s.docs) /\ Grown(s.docs, docs) /\ Grown(s.must, s.docs)
        /\ s.docs \in SUBSET Docs /\ s.must \in SUBSET Docs
    BY <1>1, <2>2, ScanComplete DEF ScanIs, Collection
  <2>5. b.docs = s.docs /\ b.ranks = ranks
    BY <2>1
  <2>6. BoardIs(b, docs', ranks', scans')
    BY <1>1, <2>2, <2>3, <2>4, <2>5 DEF BoardIs
  <2>7. Older(b, b)
    BY <2>4, <2>5, GrownItself DEF Older
  <2>8. ASSUME NEW a, BoardIs(a, docs, ranks, scans)
        PROVE  BoardIs(a, docs', ranks', scans') /\ Older(a, b)
    <3>1. a.docs \in SUBSET Docs /\ Grown(a.docs, s.must) /\ a.ranks \subseteq ranks
      BY <2>8 DEF BoardIs, Collection
    <3>2. Grown(a.docs, s.docs)
      BY <2>4, <3>1, GrownFurther
    <3>3. BoardIs(a, docs', ranks', scans')
      BY <2>2, <2>3, <2>8 DEF BoardIs
    <3> QED BY <2>5, <3>1, <3>2, <3>3 DEF Older
  <2>9. \A q \in Reqs : served'[q] = b \/ served'[q] = served[q]
    BY <2>2
  <2>10. BoardsInv'
    BY <2>2, <2>6, <2>7, <2>8, <2>9 DEF PageInv, BoardsInv
  <2>11. DOMAIN served' = Reqs
    BY <2>2
  <2> QED BY <1>1, <2>2, <2>3, <2>10, <2>11 DEF PageInv
<1>6. ASSUME NEW s \in scans, NEW f \in s.left, ReadDoc(s, f) PROVE PageInv'
  <2>1. PICK z : z = [s EXCEPT !.left = @ \ {f}, !.docs = @ \cup {Document(docs, f)}]
    OBVIOUS
  <2>2. /\ docs' = docs /\ ranks' = ranks /\ changes' = changes /\ served' = served /\ cached' = cached
        /\ scans' = (scans \ {s}) \cup {z} /\ Holds(docs, f)
    BY <1>6, <2>1 DEF ReadDoc, dbVars
  <2>3. ScanIs(z, docs) /\ z.must = s.must
    BY <1>1, <2>1, <2>2, ScanRead
  <2>4. \A y \in scans' : y \in scans \/ y.must = docs \/ \E x \in scans : y.must = x.must
    BY <2>2, <2>3
  <2>5. BoardsInv'
    BY <1>1, <2>2, <2>4, BoardsStay
  <2> QED BY <1>1, <2>2, <2>3, <2>5 DEF PageInv
<1>7. CASE Expire
  <2>1. /\ docs' = docs /\ ranks' = ranks /\ changes' = changes /\ served' = served
        /\ cached' = NoBoard /\ scans' = scans
    BY <1>7 DEF Expire, dbVars
  <2>2. BoardsInv'
    BY <2>1 DEF PageInv, BoardsInv
  <2> QED BY <1>1, <2>1, <2>2 DEF PageInv
<1>8. CASE UNCHANGED vars
  <2>1. /\ docs' = docs /\ ranks' = ranks /\ changes' = changes /\ served' = served
        /\ cached' = cached /\ scans' = scans
    BY <1>8 DEF vars, dbVars, pageVars
  <2>2. BoardsInv'
    BY <2>1 DEF PageInv, BoardsInv
  <2> QED BY <1>1, <2>1, <2>2 DEF PageInv
<1> QED BY <1>2, <1>3, <1>4, <1>5, <1>6, <1>7, <1>8 DEF Next

\* Whatever the collection holds and whatever is written to it while a board is
\* made: the curve of a team, the sum of dated points, ends at the points of its
\* row, which counts events.
THEOREM CurvesEndWhereTheTableSays == Spec => []CurvesEndAtTable
<1>1. PageInv => CurvesEndAtTable
  <2> SUFFICES ASSUME PageInv, NEW r \in Reqs, served[r] # NoBoard
               PROVE  GraphEndsAtTable(BoardOf(served[r]))
    BY DEF CurvesEndAtTable
  <2>1. BoardIs(served[r], docs, ranks, scans)
    BY DEF PageInv, BoardsInv
  <2> QED BY <2>1, BoardEndsAtTable DEF BoardIs, Collection, BoardOf
<1> QED BY InvInit, InvStep, PageInit, PageStep, <1>1, PTL DEF Spec

LEMMA OlderBoard ==
  ASSUME NEW a, NEW b, NEW D, NEW R, NEW S, NEW E, NEW Q, NEW T,
         BoardIs(a, D, R, S), BoardIs(b, E, Q, T), Older(a, b)
  PROVE  NotTakenBack(BoardOf(a), BoardOf(b))
<1>1. /\ Collection(a.docs) /\ Collection(b.docs) /\ Grown(a.docs, b.docs)
      /\ a.ranks \in SUBSET Challenges /\ b.ranks \in SUBSET Challenges
      /\ a.ranks \subseteq b.ranks /\ IsFiniteSet(b.ranks)
  BY DEF BoardIs, Older
<1> QED BY <1>1, LaterBoard DEF BoardOf

\* Of what a team had on a board, the next one it sees takes nothing back but
\* what was paid for defending flags that have been captured since.
THEOREM NothingTakenBack == Spec => BoardsGrow
<1> DEFINE Grows == \A r, q \in Reqs :
             served[r] # NoBoard /\ served'[q] # NoBoard /\ served'[q] # served[q]
               => NotTakenBack(BoardOf(served[r]), BoardOf(served'[q]))
<1>1. CacheInv /\ PageInv /\ [Next]_vars => [Grows]_vars
  <2> SUFFICES ASSUME CacheInv, PageInv, [Next]_vars,
                      NEW r \in Reqs, NEW q \in Reqs,
                      served[r] # NoBoard, served'[q] # NoBoard, served'[q] # served[q]
               PROVE  NotTakenBack(BoardOf(served[r]), BoardOf(served'[q]))
    OBVIOUS
  <2>1. PICK a, b : a = served[r] /\ b = served'[q]
    OBVIOUS
  <2>2. BoardIs(a, docs, ranks, scans)
    BY <2>1 DEF PageInv, BoardsInv
  <2>3. PageInv'
    BY PageStep
  <2>4. BoardIs(b, docs', ranks', scans')
    BY <2>1, <2>3 DEF PageInv, BoardsInv
  <2>5. Older(a, b)
    <3>1. ASSUME NEW p \in Reqs, Ask(p) PROVE Older(a, b)
      <4>1. served' = [served EXCEPT ![p] = cached] \/ served' = [served EXCEPT ![p] = NoBoard]
        BY <3>1 DEF Ask
      <4>2. \A u \in Reqs : served'[u] = served[u] \/ served'[u] = cached \/ served'[u] = NoBoard
        BY <4>1 DEF PageInv
      <4>3. b = cached /\ cached # NoBoard
        BY <2>1, <4>2
      <4> QED BY <2>1, <4>3 DEF PageInv, BoardsInv
    <3>2. ASSUME NEW s \in scans, Finish(s) PROVE Older(a, b)
      <4>1. PICK c : c = [docs |-> s.docs, ranks |-> ranks]
        OBVIOUS
      <4>2. AllRead(s) /\ served' = [u \in Reqs |-> IF u \in waiting THEN c ELSE served[u]]
        BY <3>2, <4>1 DEF Finish
      <4>3. b.docs = s.docs /\ b.ranks = ranks
        BY <2>1, <4>1, <4>2
      <4>4. ScanIs(s, docs)
        BY DEF PageInv
      <4>5. Grown(s.must, s.docs) /\ s.must \in SUBSET Docs /\ s.docs \in SUBSET Docs
        BY <4>2, <4>4, ScanComplete DEF ScanIs, Collection
      <4>6. a.docs \in SUBSET Docs /\ Grown(a.docs, s.must) /\ a.ranks \subseteq ranks
        BY <2>2 DEF BoardIs, Collection
      <4>7. Grown(a.docs, s.docs)
        BY <4>5, <4>6, GrownFurther
      <4> QED BY <4>3, <4>6, <4>7 DEF Older
    <3>3. CASE UNCHANGED served
      BY <3>3
    <3> QED BY <3>1, <3>2, <3>3 DEF Next, Change, CursorFails, ReadDoc, Expire, vars, pageVars
  <2> QED BY <2>1, <2>2, <2>4, <2>5, OlderBoard
<1> QED BY InvInit, InvStep, PageInit, PageStep, <1>1, PTL DEF Spec, BoardsGrow

-----------------------------------------------------------------------------
(***************************************************************************)
(* Sums over what was counted per team or per service.                     *)
(***************************************************************************)

LEMMA SumOfZeros ==
  ASSUME NEW h, NEW S, IsFiniteSet(S), \A x \in S : h[x] = 0
  PROVE  Sum(h, S) = 0
<1>1. Sum(h, S) = Cardinality(S) * 0
  BY SumOfSame
<1>2. \A n \in Nat : n * 0 = 0
  OBVIOUS
<1> QED BY <1>1, <1>2, FS_CardinalityType

LEMMA SumWithMore ==
  ASSUME NEW h, NEW S, IsFiniteSet(S), NEW a, a \notin S, \A x \in S \cup {a} : h[x] \in Nat
  PROVE  /\ Sum(h, S \cup {a}) = Sum(h, S) + h[a]
         /\ Sum(h, S) \in Nat /\ h[a] \in Nat
<1>1. PICK E : E = S \cup {a}
  OBVIOUS
<1>2. IsFiniteSet(E) /\ a \in E /\ E \ {a} = S /\ \A x \in E : h[x] \in Nat
  BY <1>1, FS_AddElement
<1>3. Sum(h, E) = h[a] + Sum(h, E \ {a})
  BY <1>2, SumOfOne
<1>4. Sum(h, S) \in Nat
  BY SumIsNat
<1>5. PICK x, y : x = Sum(h, S) /\ y = h[a]
  OBVIOUS
<1>6. x \in Nat /\ y \in Nat /\ Sum(h, E) = y + x
  BY <1>2, <1>3, <1>4, <1>5
<1> QED BY <1>1, <1>5, <1>6

\* One value, everything else is nothing.
LEMMA SumOfHit ==
  ASSUME NEW h, NEW S, IsFiniteSet(S), NEW a \in S, h[a] \in Nat, \A x \in S \ {a} : h[x] = 0
  PROVE  Sum(h, S) = h[a]
<1>1. \A x \in S : h[x] \in Nat
  OBVIOUS
<1>2. Sum(h, S) = h[a] + Sum(h, S \ {a})
  BY <1>1, SumOfOne
<1>3. Sum(h, S \ {a}) = 0
  BY FS_RemoveElement, SumOfZeros
<1> QED BY <1>2, <1>3

\* A table summed by rows and by columns.
LEMMA SumsSwapped ==
  ASSUME NEW T, IsFiniteSet(T), NEW S, IsFiniteSet(S), NEW m,
         \A t \in T : \A d \in S : m[t][d] \in Nat,
         NEW k, \A d \in S : k[d] = Sum([t \in T |-> m[t][d]], T)
  PROVE  Sum([t \in T |-> Sum(m[t], S)], T) = Sum(k, S)
<1> DEFINE Rows(U) == [t \in T |-> Sum(m[t], U)]
           B == {U \in SUBSET S : Sum(Rows(U), T) # Sum(k, U)}
<1> SUFFICES ASSUME B # {} PROVE FALSE
  BY DEF B
<1>1. B \in SUBSET SUBSET S
  OBVIOUS
<1>2. PICK U \in B : \A x \in U : U \ {x} \notin B
  <2> HIDE DEF B
  <2> QED BY <1>1, SmallestSet
<1>3. U \in SUBSET S /\ IsFiniteSet(U) /\ Sum(Rows(U), T) # Sum(k, U)
  BY <1>2, FS_Subset
<1>4. CASE U = {}
  <2>1. \A t \in T : Rows(U)[t] = 0
    BY <1>4, SumOfNone
  <2> HIDE DEF Rows
  <2>2. Sum(Rows(U), T) = 0
    BY <2>1, SumOfZeros
  <2> QED BY <1>3, <1>4, <2>2, SumOfNone
<1>5. CASE U # {}
  <2>1. PICK a : a \in U
    BY <1>5
  <2>2. PICK V : V = U \ {a}
    OBVIOUS
  <2>3. V \in SUBSET S /\ IsFiniteSet(V) /\ a \notin V /\ U = V \cup {a} /\ a \in S
    BY <1>3, <2>1, <2>2, FS_RemoveElement
  <2>4. Sum(Rows(V), T) = Sum(k, V)
    <3>1. V \notin B
      BY <1>2, <2>1, <2>2
    <3> QED BY <2>3, <3>1
  <2>5. PICK c : c = [t \in T |-> m[t][a]]
    OBVIOUS
  <2>6. \A t \in T : c[t] \in Nat /\ Rows(V)[t] \in Nat /\ Rows(U)[t] = Rows(V)[t] + c[t]
    <3> SUFFICES ASSUME NEW t \in T
                 PROVE  m[t][a] \in Nat /\ Sum(m[t], V) \in Nat /\ Sum(m[t], U) = Sum(m[t], V) + m[t][a]
      BY <2>5
    <3>1. \A d \in V \cup {a} : m[t][d] \in Nat
      BY <1>3, <2>3
    <3> QED BY <2>3, <3>1, SumWithMore
  <2>7. \A d \in S : k[d] \in Nat
    <3> SUFFICES ASSUME NEW d \in S PROVE Sum([t \in T |-> m[t][d]], T) \in Nat
      OBVIOUS
    <3>1. PICK f : f = [t \in T |-> m[t][d]]
      OBVIOUS
    <3>2. \A t \in T : f[t] \in Nat
      BY <3>1
    <3> QED BY <3>1, <3>2, SumIsNat
  <2>8. Sum(k, U) = Sum(k, V) + k[a]
    <3>1. \A d \in V \cup {a} : k[d] \in Nat
      BY <2>3, <2>7
    <3> QED BY <2>3, <3>1, SumWithMore
  <2>9. k[a] = Sum(c, T)
    BY <2>3, <2>5
  <2> HIDE DEF Rows
  <2>10. Sum(Rows(U), T) = Sum(Rows(V), T) + Sum(c, T)
    BY <2>6, SumOfSums
  <2> QED BY <1>3, <2>4, <2>8, <2>9, <2>10
<1> QED BY <1>4, <1>5

\* How many entries of a list have each value in a field.
Hits(list, field, T) == [t \in T |-> Len(With(list, field, t))]

\* Every entry has one.
LEMMA EntriesByValue ==
  ASSUME NEW S, NEW T, IsFiniteSet(T), NEW field, NEW list \in Seq(S),
         \A x \in S : x[field] \in T
  PROVE  Sum(Hits(list, field, T), T) = Len(list)
<1> DEFINE Wrong(l) == l \in Seq(S) /\ Sum(Hits(l, field, T), T) # Len(l)
           B == {n \in Nat : \E l : Wrong(l) /\ Len(l) = n}
<1> SUFFICES ASSUME B # {} PROVE FALSE
  <2>1. Len(list) \in Nat
    OBVIOUS
  <2> QED BY <2>1
<1>1. PICK n \in B : \A j \in B : n <= j
  <2>1. B \in SUBSET Nat
    OBVIOUS
  <2> HIDE DEF B
  <2> QED BY <2>1, FirstOf
<1>2. PICK l : Wrong(l) /\ Len(l) = n
  BY <1>1
<1>3. n \in Nat /\ l \in Seq(S) /\ Len(l) = n /\ Sum(Hits(l, field, T), T) # n
  <2>1. n \in Nat
    BY <1>1
  <2>2. Wrong(l) /\ Len(l) = n
    BY <1>2
  <2> QED BY <2>1, <2>2
<1>4. n # 0
  <2> SUFFICES ASSUME n = 0 PROVE FALSE
    OBVIOUS
  <2>1. l = << >>
    BY <1>3
  <2>2. ASSUME NEW t \in T PROVE Hits(l, field, T)[t] = 0
    <3>1. << >> \in Seq({})
      OBVIOUS
    <3>2. With(<< >>, field, t) \in Seq({})
      BY <3>1, WithIsList
    <3>3. With(<< >>, field, t) = << >>
      BY <3>2
    <3>4. Len(With(<< >>, field, t)) = 0
      BY <3>3
    <3> QED BY <2>1, <3>4 DEF Hits
  <2>3. Sum(Hits(l, field, T), T) = 0
    BY <2>2, SumOfZeros
  <2> QED BY <1>3, <2>3
<1>5. PICK front, x : front = [i \in 1 .. n - 1 |-> l[i]] /\ x = l[n]
  OBVIOUS
<1>6. n - 1 \in Nat /\ ~(n <= n - 1) /\ n \in 1 .. n /\ x \in S /\ x[field] \in T
  BY <1>3, <1>4, <1>5
<1>7. front \in Seq(S) /\ Len(front) = n - 1 /\ \A i \in 1 .. n - 1 : front[i] = l[i]
  BY <1>3, <1>5, <1>6
<1>8. l = Append(front, x)
  <2>1. PICK m : m = Append(front, x)
    OBVIOUS
  <2>2. m \in Seq(S) /\ Len(m) = n /\ m[n] = x /\ \A i \in 1 .. n - 1 : m[i] = l[i]
    BY <1>6, <1>7, <2>1
  <2>3. \A i \in 1 .. n : i \in 1 .. n - 1 \/ i = n
    BY <1>6
  <2>4. \A i \in 1 .. n : m[i] = l[i]
    BY <1>5, <2>2, <2>3
  <2>5. m = l
    BY <1>3, <2>2, <2>4, SeqEqual
  <2> QED BY <2>1, <2>5
<1>9. Sum(Hits(front, field, T), T) = n - 1
  <2>1. n - 1 \notin B
    BY <1>1, <1>6
  <2> QED BY <1>6, <1>7, <2>1
<1>10. PICK one : one = [t \in T |-> IF t = x[field] THEN 1 ELSE 0]
  OBVIOUS
<1>11. Sum(one, T) = 1
  <2>1. one[x[field]] = 1 /\ \A t \in T \ {x[field]} : one[t] = 0
    BY <1>6, <1>10
  <2> QED BY <1>6, <2>1, SumOfHit
<1>12. \A t \in T : Hits(front, field, T)[t] \in Nat /\ one[t] \in Nat /\ Hits(l, field, T)[t] = Hits(front, field, T)[t] + one[t]
  <2> SUFFICES ASSUME NEW t \in T
               PROVE  /\ Len(With(front, field, t)) \in Nat
                      /\ Len(With(l, field, t)) = Len(With(front, field, t)) + (IF t = x[field] THEN 1 ELSE 0)
    BY <1>10 DEF Hits
  <2>1. PICK w : w = With(front, field, t)
    OBVIOUS
  <2>2. w \in Seq(S)
    BY <1>7, <2>1, WithIsList
  <2>3. With(Append(front, x), field, t) = IF x[field] = t THEN Append(With(front, field, t), x)
                                           ELSE With(front, field, t)
    BY <1>6, <1>7, WithOneMore
  <2>4. With(l, field, t) = IF x[field] = t THEN Append(w, x) ELSE w
    BY <1>8, <2>1, <2>3
  <2>5. Len(w) \in Nat /\ Len(Append(w, x)) = Len(w) + 1 /\ Len(w) + 0 = Len(w)
    BY <1>6, <2>2
  <2> QED BY <2>1, <2>4, <2>5
<1>13. Sum(Hits(l, field, T), T) = Sum(Hits(front, field, T), T) + Sum(one, T)
  BY <1>12, SumOfSums
<1> QED BY <1>3, <1>6, <1>9, <1>11, <1>13

AllCaptures == [d \in Docs |-> Len(d.captures)]
Losses(t) == [d \in Docs |-> IF t = d.team THEN Len(d.captures) ELSE 0]
InService(s, k) == [d \in Docs |-> IF s = d.service THEN k[d] ELSE 0]

LEMMA CapturesAreNat ==
  /\ \A d \in Docs : AllCaptures[d] \in Nat
  /\ \A t : \A d \in Docs : Losses(t)[d] \in Nat
<1>1. \A d \in Docs : Len(d.captures) \in Nat
  BY DEF Docs
<1> QED BY <1>1 DEF AllCaptures, Losses

LEMMA StolenByTeams ==
  ASSUME NEW doc \in Docs, NEW T, IsFiniteSet(T), Thieves(doc) \subseteq T
  PROVE  Sum([t \in T |-> Counts("capture", t)[doc]], T) = AllCaptures[doc]
<1>1. PICK list, S : list = doc.captures /\ S = {doc.captures[i] : i \in DOMAIN doc.captures}
  OBVIOUS
<1>2. list \in Seq(S)
  <2>1. doc.captures \in Seq(Stolen)
    BY DEF Docs
  <2> QED BY <1>1, <2>1
<1>3. PICK field : field = "team"
  OBVIOUS
<1>4. \A x \in S : x[field] \in T
  BY <1>1, <1>3 DEF Thieves
<1>5. [t \in T |-> Counts("capture", t)[doc]] = Hits(list, field, T)
  <2>1. \A t : Counts("capture", t)[doc] = Len(With(list, field, t))
    BY <1>1, <1>3 DEF Counts, Captured, CapturesBy
  <2> QED BY <2>1 DEF Hits
<1>6. Sum(Hits(list, field, T), T) = Len(list)
  BY <1>2, <1>4, EntriesByValue
<1>7. AllCaptures[doc] = Len(list)
  BY <1>1 DEF AllCaptures
<1> QED BY <1>5, <1>6, <1>7

LEMMA LostByTeams ==
  ASSUME NEW doc \in Docs, NEW T, IsFiniteSet(T), doc.team \in T
  PROVE  Sum([t \in T |-> Losses(t)[doc]], T) = AllCaptures[doc]
<1>1. PICK h : h = [t \in T |-> Losses(t)[doc]]
  OBVIOUS
<1>2. \A t \in T : h[t] = IF t = doc.team THEN AllCaptures[doc] ELSE 0
  BY <1>1 DEF Losses, AllCaptures
<1>3. AllCaptures[doc] \in Nat
  BY CapturesAreNat
<1>4. h[doc.team] = AllCaptures[doc] /\ h[doc.team] \in Nat /\ \A t \in T \ {doc.team} : h[t] = 0
  BY <1>2, <1>3
<1>5. Sum(h, T) = h[doc.team]
  BY <1>4, SumOfHit
<1> QED BY <1>1, <1>4, <1>5

LEMMA ByServices ==
  ASSUME NEW doc \in Docs, NEW T, IsFiniteSet(T), doc.service \in T, NEW k, k[doc] \in Nat
  PROVE  Sum([s \in T |-> InService(s, k)[doc]], T) = k[doc]
<1>1. PICK h : h = [s \in T |-> InService(s, k)[doc]]
  OBVIOUS
<1>2. \A s \in T : h[s] = IF s = doc.service THEN k[doc] ELSE 0
  BY <1>1 DEF InService
<1>3. h[doc.service] = k[doc] /\ h[doc.service] \in Nat /\ \A s \in T \ {doc.service} : h[s] = 0
  BY <1>2
<1>4. Sum(h, T) = h[doc.service]
  BY <1>3, SumOfHit
<1> QED BY <1>1, <1>3, <1>4

-----------------------------------------------------------------------------
(***************************************************************************)
(* The observers of the captures are handed the same documents.            *)
(***************************************************************************)

LEMMA CumulativeFolds ==
  ASSUME NEW S, IsFiniteSet(S)
  PROVE  \E g : IsFold("cumulative", << >>, << >>, S, g) /\ FoldSet(CumulativeFlag, << >>, S) = g[S]
<1> DEFINE Is(f) == f = [s \in SUBSET S |-> IF s = {} THEN << >>
                                            ELSE CumulativeFlag(AnyOf(s), f[s \ {AnyOf(s)}])]
<1>1. \A f : Is(f) <=> IsFold("cumulative", << >>, << >>, S, f)
  BY DEF IsFold, More
<1>2. \E f : Is(f)
  BY <1>1, FoldExists
<1>3. PICK g : g = CHOOSE f : Is(f)
  OBVIOUS
<1>4. Is(g)
  BY <1>2, <1>3
<1>5. FoldSet(CumulativeFlag, << >>, S)
        = MapThenFoldSet(CumulativeFlag, << >>, LAMBDA x : x, LAMBDA s : CHOOSE x \in s : TRUE, S)
  BY DEF FoldSet
<1>6. MapThenFoldSet(CumulativeFlag, << >>, LAMBDA x : x, LAMBDA s : CHOOSE x \in s : TRUE, S) = g[S]
  BY <1>3 DEF MapThenFoldSet, AnyOf
<1> QED BY <1>1, <1>4, <1>5, <1>6

LEMMA LossesFolds ==
  ASSUME NEW S, IsFiniteSet(S)
  PROVE  \E g : IsFold("losses", << >>, NoBars, S, g) /\ FoldSet(LossesFlag, NoBars, S) = g[S]
<1> DEFINE Is(f) == f = [s \in SUBSET S |-> IF s = {} THEN NoBars
                                            ELSE LossesFlag(AnyOf(s), f[s \ {AnyOf(s)}])]
<1>1. \A f : Is(f) <=> IsFold("losses", << >>, NoBars, S, f)
  BY DEF IsFold, More
<1>2. \E f : Is(f)
  BY <1>1, FoldExists
<1>3. PICK g : g = CHOOSE f : Is(f)
  OBVIOUS
<1>4. Is(g)
  BY <1>2, <1>3
<1>5. FoldSet(LossesFlag, NoBars, S)
        = MapThenFoldSet(LossesFlag, NoBars, LAMBDA x : x, LAMBDA s : CHOOSE x \in s : TRUE, S)
  BY DEF FoldSet
<1>6. MapThenFoldSet(LossesFlag, NoBars, LAMBDA x : x, LAMBDA s : CHOOSE x \in s : TRUE, S) = g[S]
  BY <1>3 DEF MapThenFoldSet, AnyOf
<1> QED BY <1>1, <1>4, <1>5, <1>6

LEMMA StealsFolds ==
  ASSUME NEW S, IsFiniteSet(S)
  PROVE  \E g : IsFold("steals", << >>, NoBars, S, g) /\ FoldSet(StealsFlag, NoBars, S) = g[S]
<1> DEFINE Is(f) == f = [s \in SUBSET S |-> IF s = {} THEN NoBars
                                            ELSE StealsFlag(AnyOf(s), f[s \ {AnyOf(s)}])]
<1>1. \A f : Is(f) <=> IsFold("steals", << >>, NoBars, S, f)
  BY DEF IsFold, More
<1>2. \E f : Is(f)
  BY <1>1, FoldExists
<1>3. PICK g : g = CHOOSE f : Is(f)
  OBVIOUS
<1>4. Is(g)
  BY <1>2, <1>3
<1>5. FoldSet(StealsFlag, NoBars, S)
        = MapThenFoldSet(StealsFlag, NoBars, LAMBDA x : x, LAMBDA s : CHOOSE x \in s : TRUE, S)
  BY DEF FoldSet
<1>6. MapThenFoldSet(StealsFlag, NoBars, LAMBDA x : x, LAMBDA s : CHOOSE x \in s : TRUE, S) = g[S]
  BY <1>3 DEF MapThenFoldSet, AnyOf
<1> QED BY <1>1, <1>4, <1>5, <1>6

LEMMA BothFolds ==
  ASSUME NEW S, IsFiniteSet(S)
  PROVE  \E g : IsFold("both", << >>, << >>, S, g) /\ FoldSet(BothFlag, << >>, S) = g[S]
<1> DEFINE Is(f) == f = [s \in SUBSET S |-> IF s = {} THEN << >>
                                            ELSE BothFlag(AnyOf(s), f[s \ {AnyOf(s)}])]
<1>1. \A f : Is(f) <=> IsFold("both", << >>, << >>, S, f)
  BY DEF IsFold, More
<1>2. \E f : Is(f)
  BY <1>1, FoldExists
<1>3. PICK g : g = CHOOSE f : Is(f)
  OBVIOUS
<1>4. Is(g)
  BY <1>2, <1>3
<1>5. FoldSet(BothFlag, << >>, S)
        = MapThenFoldSet(BothFlag, << >>, LAMBDA x : x, LAMBDA s : CHOOSE x \in s : TRUE, S)
  BY DEF FoldSet
<1>6. MapThenFoldSet(BothFlag, << >>, LAMBDA x : x, LAMBDA s : CHOOSE x \in s : TRUE, S) = g[S]
  BY <1>3 DEF MapThenFoldSet, AnyOf
<1> QED BY <1>1, <1>4, <1>5, <1>6

LEMMA ServicesFolds ==
  ASSUME NEW S, IsFiniteSet(S)
  PROVE  \E g : IsFold("services", << >>, << >>, S, g) /\ FoldSet(ServiceFlag, << >>, S) = g[S]
<1> DEFINE Is(f) == f = [s \in SUBSET S |-> IF s = {} THEN << >>
                                            ELSE ServiceFlag(AnyOf(s), f[s \ {AnyOf(s)}])]
<1>1. \A f : Is(f) <=> IsFold("services", << >>, << >>, S, f)
  BY DEF IsFold, More
<1>2. \E f : Is(f)
  BY <1>1, FoldExists
<1>3. PICK g : g = CHOOSE f : Is(f)
  OBVIOUS
<1>4. Is(g)
  BY <1>2, <1>3
<1>5. FoldSet(ServiceFlag, << >>, S)
        = MapThenFoldSet(ServiceFlag, << >>, LAMBDA x : x, LAMBDA s : CHOOSE x \in s : TRUE, S)
  BY DEF FoldSet
<1>6. MapThenFoldSet(ServiceFlag, << >>, LAMBDA x : x, LAMBDA s : CHOOSE x \in s : TRUE, S) = g[S]
  BY <1>3 DEF MapThenFoldSet, AnyOf
<1> QED BY <1>1, <1>4, <1>5, <1>6

ServicesOf(D) == {d.service : d \in D}

\* What a team lost or stole, document by document.
Bar(kind, t) == IF kind = "losses" THEN Losses(t) ELSE Counts("capture", t)

\* What an observer has gathered from the documents of [D].
ObservedIs(kind, v, D) ==
  /\ kind = "cumulative" =>
       /\ DOMAIN v = Told(D)
       /\ \A t \in Told(D) : v[t] \in Seq(Nat) /\ Len(v[t]) = Sum(Counts("capture", t), D)
  /\ kind \in {"losses", "steals"} =>
       /\ v.services = ServicesOf(D) /\ DOMAIN v.bars = Told(D)
       /\ \A t \in Told(D) :
            v.bars[t] = [s \in ServicesOf(D) |-> Sum(InService(s, Bar(kind, t)), D)]
  /\ kind = "both" =>
       /\ DOMAIN v = Told(D)
       /\ \A t \in Told(D) :
            v[t] = [stolen |-> Sum(Counts("capture", t), D), lost |-> Sum(Losses(t), D)]
  /\ kind = "services" =>
       v = [s \in ServicesOf(D) |-> Sum(InService(s, AllCaptures), D)]

Observers == {"cumulative", "losses", "steals", "both", "services"}
StartOf(kind) == IF kind \in {"losses", "steals"} THEN NoBars ELSE << >>

LEMMA TeamIsToldOf ==
  ASSUME NEW D, NEW t
  PROVE  t \in Told(D) <=> \E d \in D : t = d.team \/ t \in Thieves(d)
<1>1. t \in Told(D) <=> \E d \in D : t \in {d.team} \cup Thieves(d)
  BY Zenon DEF Told
<1>2. \A d : t \in {d.team} \cup Thieves(d) <=> t = d.team \/ t \in Thieves(d)
  OBVIOUS
<1> QED BY <1>1, <1>2

LEMMA ToldWithMore ==
  ASSUME NEW D, NEW a
  PROVE  /\ Told(D \cup {a}) = Told(D) \cup {a.team} \cup Thieves(a)
         /\ ServicesOf(D \cup {a}) = ServicesOf(D) \cup {a.service}
<1>1. ASSUME NEW t PROVE t \in Told(D \cup {a}) <=> t \in Told(D) \cup {a.team} \cup Thieves(a)
  <2>1. t \in Told(D) <=> \E d \in D : t = d.team \/ t \in Thieves(d)
    BY TeamIsToldOf
  <2>2. t \in Told(D \cup {a}) <=> \E d \in D \cup {a} : t = d.team \/ t \in Thieves(d)
    BY TeamIsToldOf
  <2> QED BY <2>1, <2>2
<1> QED BY <1>1 DEF ServicesOf

LEMMA NothingTold == Told({}) = {} /\ ServicesOf({}) = {}
<1>1. \A t : t \notin Told({})
  BY TeamIsToldOf
<1> QED BY <1>1 DEF ServicesOf

\* Of teams and services nobody told of there is nothing to sum.
LEMMA NothingElsewhere ==
  ASSUME NEW D \in SUBSET Docs, IsFiniteSet(D)
  PROVE  /\ \A t : t \notin Told(D) => Sum(Counts("capture", t), D) = 0 /\ Sum(Losses(t), D) = 0
         /\ \A t, s, kind : t \notin Told(D) \/ s \notin ServicesOf(D)
                              => Sum(InService(s, Bar(kind, t)), D) = 0
         /\ \A s : s \notin ServicesOf(D) => Sum(InService(s, AllCaptures), D) = 0
<1>1. ASSUME NEW t, t \notin Told(D), NEW d \in D
      PROVE  Counts("capture", t)[d] = 0 /\ Losses(t)[d] = 0
  <2>1. t # d.team /\ t \notin Thieves(d) /\ d \in Docs
    BY <1>1, TeamIsToldOf
  <2>2. Captured(d, t) = 0
    BY <2>1, NobodyCaptured
  <2> QED BY <2>1, <2>2 DEF Counts, Losses
<1>2. ASSUME NEW t, t \notin Told(D) PROVE Sum(Counts("capture", t), D) = 0 /\ Sum(Losses(t), D) = 0
  <2>1. (\A d \in D : Counts("capture", t)[d] = 0) /\ \A d \in D : Losses(t)[d] = 0
    BY <1>1, <1>2
  <2> QED BY <2>1, SumOfZeros
<1>3. ASSUME NEW s, s \notin ServicesOf(D), NEW k PROVE Sum(InService(s, k), D) = 0
  <2>1. \A d \in D : InService(s, k)[d] = 0
    BY <1>3 DEF InService, ServicesOf
  <2> QED BY <2>1, SumOfZeros
<1>4. ASSUME NEW t, NEW s, NEW kind, t \notin Told(D) \/ s \notin ServicesOf(D)
      PROVE  Sum(InService(s, Bar(kind, t)), D) = 0
  <2>1. CASE s \notin ServicesOf(D)
    BY <1>3, <2>1
  <2>2. CASE t \notin Told(D)
    <3>1. \A d \in D : InService(s, Bar(kind, t))[d] = 0
      BY <1>1, <2>2 DEF InService, Bar
    <3> QED BY <3>1, SumOfZeros
  <2> QED BY <1>4, <2>1, <2>2
<1> QED BY <1>2, <1>3, <1>4

\* One document more: every sum grows by what it adds.
LEMMA SumWithDoc ==
  ASSUME NEW D \in SUBSET Docs, IsFiniteSet(D), NEW a \in Docs, a \notin D,
         NEW h, \A d \in Docs : h[d] \in Nat
  PROVE  Sum(h, D \cup {a}) = Sum(h, D) + h[a] /\ Sum(h, D) \in Nat
<1>1. \A d \in D \cup {a} : h[d] \in Nat
  OBVIOUS
<1> QED BY <1>1, SumWithMore

LEMMA BarWithDoc ==
  ASSUME NEW D \in SUBSET Docs, IsFiniteSet(D), NEW a \in Docs, a \notin D,
         NEW s, NEW t, NEW kind
  PROVE  /\ Sum(InService(s, Bar(kind, t)), D \cup {a})
              = Sum(InService(s, Bar(kind, t)), D) + (IF s = a.service THEN Bar(kind, t)[a] ELSE 0)
         /\ Sum(InService(s, Bar(kind, t)), D) \in Nat
<1>1. PICK h, k : h = InService(s, Bar(kind, t)) /\ k = Bar(kind, t)
  OBVIOUS
<1>2. \A d \in Docs : k[d] \in Nat
  BY <1>1, CountsAreNat, CapturesAreNat DEF Bar
<1>3. (\A d \in Docs : h[d] \in Nat) /\ h[a] = IF s = a.service THEN k[a] ELSE 0
  BY <1>1, <1>2 DEF InService
<1>4. Sum(h, D \cup {a}) = Sum(h, D) + h[a] /\ Sum(h, D) \in Nat
  BY <1>3, SumWithDoc
<1> QED BY <1>1, <1>3, <1>4

LEMMA SumsWithDoc ==
  ASSUME NEW D \in SUBSET Docs, IsFiniteSet(D), NEW a \in Docs, a \notin D
  PROVE  /\ \A t : /\ Sum(Counts("capture", t), D \cup {a}) = Sum(Counts("capture", t), D) + Captured(a, t)
                   /\ Sum(Counts("capture", t), D) \in Nat
         /\ \A t : /\ Sum(Losses(t), D \cup {a})
                        = Sum(Losses(t), D) + (IF t = a.team THEN Len(a.captures) ELSE 0)
                   /\ Sum(Losses(t), D) \in Nat
         /\ \A s : /\ Sum(InService(s, AllCaptures), D \cup {a})
                        = Sum(InService(s, AllCaptures), D) + (IF s = a.service THEN Len(a.captures) ELSE 0)
                   /\ Sum(InService(s, AllCaptures), D) \in Nat
<1>1. ASSUME NEW t
      PROVE  /\ Sum(Counts("capture", t), D \cup {a}) = Sum(Counts("capture", t), D) + Captured(a, t)
             /\ Sum(Counts("capture", t), D) \in Nat
             /\ Sum(Losses(t), D \cup {a})
                  = Sum(Losses(t), D) + (IF t = a.team THEN Len(a.captures) ELSE 0)
             /\ Sum(Losses(t), D) \in Nat
  <2>1. Counts("capture", t)[a] = Captured(a, t) /\ Losses(t)[a] = IF t = a.team THEN Len(a.captures) ELSE 0
    BY DEF Counts, Losses
  <2>2. Sum(Counts("capture", t), D \cup {a}) = Sum(Counts("capture", t), D) + Counts("capture", t)[a]
        /\ Sum(Counts("capture", t), D) \in Nat
    BY CountsAreNat, SumWithDoc
  <2>3. Sum(Losses(t), D \cup {a}) = Sum(Losses(t), D) + Losses(t)[a] /\ Sum(Losses(t), D) \in Nat
    BY CapturesAreNat, SumWithDoc
  <2> QED BY <2>1, <2>2, <2>3
<1>2. ASSUME NEW s
      PROVE  /\ Sum(InService(s, AllCaptures), D \cup {a})
                  = Sum(InService(s, AllCaptures), D) + (IF s = a.service THEN Len(a.captures) ELSE 0)
             /\ Sum(InService(s, AllCaptures), D) \in Nat
  <2>1. PICK h : h = InService(s, AllCaptures)
    OBVIOUS
  <2>2. AllCaptures[a] = Len(a.captures) /\ \A d \in Docs : AllCaptures[d] \in Nat
    BY CapturesAreNat DEF AllCaptures
  <2>3. (\A d \in Docs : h[d] \in Nat) /\ h[a] = IF s = a.service THEN Len(a.captures) ELSE 0
    BY <2>1, <2>2 DEF InService
  <2>4. Sum(h, D \cup {a}) = Sum(h, D) + h[a] /\ Sum(h, D) \in Nat
    BY <2>3, SumWithDoc
  <2> QED BY <2>1, <2>3, <2>4
<1> QED BY <1>1, <1>2

LEMMA CumulativeMore ==
  ASSUME NEW D \in SUBSET Docs, IsFiniteSet(D), NEW a \in Docs, a \notin D,
         NEW v, ObservedIs("cumulative", v, D)
  PROVE  ObservedIs("cumulative", CumulativeFlag(a, v), D \cup {a})
<1>1. PICK w, E : w = CumulativeFlag(a, v) /\ E = D \cup {a}
  OBVIOUS
<1>2. DOMAIN v = Told(D) /\ \A t \in Told(D) : v[t] \in Seq(Nat) /\ Len(v[t]) = Sum(Counts("capture", t), D)
  BY DEF ObservedIs
<1>3. Told(E) = Told(D) \cup {a.team} \cup Thieves(a)
  BY <1>1, ToldWithMore
<1>4. w = [t \in Told(E) |-> At(v, t, << >>)
             \o [i \in DOMAIN CapturesBy(a, t) |-> CapturesBy(a, t)[i].time]]
  BY <1>1, <1>2, <1>3 DEF CumulativeFlag
<1>5. ASSUME NEW t \in Told(E) PROVE w[t] \in Seq(Nat) /\ Len(w[t]) = Sum(Counts("capture", t), E)
  <2>1. PICK old, c : old = At(v, t, << >>) /\ c = CapturesBy(a, t)
    OBVIOUS
  <2>2. old \in Seq(Nat) /\ Len(old) = Sum(Counts("capture", t), D)
    <3>1. CASE t \in Told(D)
      BY <1>2, <2>1, <3>1 DEF At
    <3>2. CASE t \notin Told(D)
      <4>1. old = << >>
        BY <1>2, <2>1, <3>2 DEF At
      <4>2. Sum(Counts("capture", t), D) = 0
        BY <3>2, NothingElsewhere
      <4> QED BY <4>1, <4>2
    <3> QED BY <3>1, <3>2
  <2>3. c \in Seq(Stolen) /\ Len(c) = Captured(a, t)
    BY <2>1, ListsOfDoc DEF Captured
  <2>4. PICK new : new = [i \in DOMAIN c |-> c[i].time]
    OBVIOUS
  <2>5. new \in Seq(Nat) /\ Len(new) = Len(c)
    <3>1. \A i \in 1 .. Len(c) : c[i] \in Stolen
      BY <2>3
    <3>2. \A x \in Stolen : x.time \in Nat
      BY DEF Stolen
    <3>3. new = [i \in 1 .. Len(c) |-> c[i].time] /\ Len(c) \in Nat
      BY <2>3, <2>4
    <3>4. \A i \in 1 .. Len(c) : c[i].time \in Nat
      BY <3>1, <3>2
    <3> QED BY <3>3, <3>4
  <2>6. old \o new \in Seq(Nat) /\ Len(old \o new) = Len(old) + Len(new)
    BY <2>2, <2>5, ConcatProperties
  <2>7. w[t] = old \o new
    BY <1>4, <2>1, <2>4
  <2>8. Sum(Counts("capture", t), E) = Sum(Counts("capture", t), D) + Captured(a, t)
    BY <1>1, SumsWithDoc
  <2> QED BY <2>2, <2>3, <2>5, <2>6, <2>7, <2>8
<1>6. DOMAIN w = Told(E)
  BY <1>4
<1> QED BY <1>1, <1>5, <1>6 DEF ObservedIs

LEMMA BothMore ==
  ASSUME NEW D \in SUBSET Docs, IsFiniteSet(D), NEW a \in Docs, a \notin D,
         NEW v, ObservedIs("both", v, D)
  PROVE  ObservedIs("both", BothFlag(a, v), D \cup {a})
<1>1. PICK w, E : w = BothFlag(a, v) /\ E = D \cup {a}
  OBVIOUS
<1>2. DOMAIN v = Told(D) /\ \A t \in Told(D) :
        v[t] = [stolen |-> Sum(Counts("capture", t), D), lost |-> Sum(Losses(t), D)]
  BY DEF ObservedIs
<1>3. Told(E) = Told(D) \cup {a.team} \cup Thieves(a)
  BY <1>1, ToldWithMore
<1>4. w = [t \in Told(E) |->
             [stolen |-> At(v, t, [stolen |-> 0, lost |-> 0]).stolen + Len(CapturesBy(a, t)),
              lost |-> At(v, t, [stolen |-> 0, lost |-> 0]).lost
                         + (IF t = a.team THEN Len(a.captures) ELSE 0)]]
  BY <1>1, <1>2, <1>3 DEF BothFlag
<1>5. ASSUME NEW t \in Told(E)
      PROVE  w[t] = [stolen |-> Sum(Counts("capture", t), E), lost |-> Sum(Losses(t), E)]
  <2>1. PICK old : old = At(v, t, [stolen |-> 0, lost |-> 0])
    OBVIOUS
  <2>2. old.stolen = Sum(Counts("capture", t), D) /\ old.lost = Sum(Losses(t), D)
    <3>1. CASE t \in Told(D)
      BY <1>2, <2>1, <3>1 DEF At
    <3>2. CASE t \notin Told(D)
      <4>1. old = [stolen |-> 0, lost |-> 0]
        BY <1>2, <2>1, <3>2 DEF At
      <4> QED BY <3>2, <4>1, NothingElsewhere
    <3> QED BY <3>1, <3>2
  <2>3. w[t] = [stolen |-> old.stolen + Len(CapturesBy(a, t)),
                lost |-> old.lost + (IF t = a.team THEN Len(a.captures) ELSE 0)]
    BY <1>4, <2>1
  <2>4. /\ Sum(Counts("capture", t), E) = Sum(Counts("capture", t), D) + Len(CapturesBy(a, t))
        /\ Sum(Losses(t), E) = Sum(Losses(t), D) + (IF t = a.team THEN Len(a.captures) ELSE 0)
    BY <1>1, SumsWithDoc DEF Captured
  <2> QED BY <2>2, <2>3, <2>4
<1>6. DOMAIN w = Told(E)
  BY <1>4
<1> QED BY <1>1, <1>5, <1>6 DEF ObservedIs

LEMMA ServicesMore ==
  ASSUME NEW D \in SUBSET Docs, IsFiniteSet(D), NEW a \in Docs, a \notin D,
         NEW v, ObservedIs("services", v, D)
  PROVE  ObservedIs("services", ServiceFlag(a, v), D \cup {a})
<1>1. PICK w, E : w = ServiceFlag(a, v) /\ E = D \cup {a}
  OBVIOUS
<1>2. v = [s \in ServicesOf(D) |-> Sum(InService(s, AllCaptures), D)]
  BY DEF ObservedIs
<1>3. ServicesOf(E) = ServicesOf(D) \cup {a.service} /\ DOMAIN v = ServicesOf(D)
  BY <1>1, <1>2, ToldWithMore
<1>4. w = [s \in ServicesOf(E) |-> At(v, s, 0) + (IF s = a.service THEN Len(a.captures) ELSE 0)]
  BY <1>1, <1>3 DEF ServiceFlag
<1>5. ASSUME NEW s \in ServicesOf(E) PROVE w[s] = Sum(InService(s, AllCaptures), E)
  <2>1. At(v, s, 0) = Sum(InService(s, AllCaptures), D)
    <3>1. CASE s \in ServicesOf(D)
      BY <1>2, <1>3, <3>1 DEF At
    <3>2. CASE s \notin ServicesOf(D)
      <4>1. At(v, s, 0) = 0
        BY <1>3, <3>2 DEF At
      <4> QED BY <3>2, <4>1, NothingElsewhere
    <3> QED BY <3>1, <3>2
  <2>2. Sum(InService(s, AllCaptures), E)
          = Sum(InService(s, AllCaptures), D) + (IF s = a.service THEN Len(a.captures) ELSE 0)
    BY <1>1, SumsWithDoc
  <2> QED BY <1>4, <2>1, <2>2
<1>6. w = [s \in ServicesOf(E) |-> Sum(InService(s, AllCaptures), E)]
  BY <1>4, <1>5
<1> QED BY <1>1, <1>6 DEF ObservedIs

ColumnOf(kind, a, bars, services) ==
  [t \in DOMAIN bars \cup {a.team} \cup Thieves(a) |-> [s \in services |->
     At(At(bars, t, << >>), s, 0) + (IF s = a.service THEN Bar(kind, t)[a] ELSE 0)]]

LEMMA ColumnMore ==
  ASSUME NEW D \in SUBSET Docs, IsFiniteSet(D), NEW a \in Docs, a \notin D,
         NEW kind \in {"losses", "steals"}, NEW v, ObservedIs(kind, v, D),
         NEW w, w.services = v.services \cup {a.service},
         w.bars = ColumnOf(kind, a, v.bars, w.services)
  PROVE  ObservedIs(kind, w, D \cup {a})
<1>1. PICK E : E = D \cup {a}
  OBVIOUS
<1>2. /\ v.services = ServicesOf(D) /\ DOMAIN v.bars = Told(D)
      /\ \A t \in Told(D) : v.bars[t] = [s \in ServicesOf(D) |-> Sum(InService(s, Bar(kind, t)), D)]
  BY DEF ObservedIs
<1>3. Told(E) = Told(D) \cup {a.team} \cup Thieves(a) /\ ServicesOf(E) = ServicesOf(D) \cup {a.service}
  BY <1>1, ToldWithMore
<1>4. w.services = ServicesOf(E)
  BY <1>2, <1>3
<1>5. PICK T, S : T = Told(E) /\ S = ServicesOf(E)
  OBVIOUS
<1>6. w.bars = [t \in T |-> [s \in S |->
                 At(At(v.bars, t, << >>), s, 0) + (IF s = a.service THEN Bar(kind, t)[a] ELSE 0)]]
  BY <1>2, <1>3, <1>4, <1>5 DEF ColumnOf
<1>7. ASSUME NEW t \in T, NEW s \in S PROVE w.bars[t][s] = Sum(InService(s, Bar(kind, t)), E)
  <2>1. PICK old : old = At(At(v.bars, t, << >>), s, 0)
    OBVIOUS
  <2>2. old = Sum(InService(s, Bar(kind, t)), D)
    <3>1. CASE t \in Told(D) /\ s \in ServicesOf(D)
      <4>1. At(v.bars, t, << >>) = [z \in ServicesOf(D) |-> Sum(InService(z, Bar(kind, t)), D)]
        BY <1>2, <3>1 DEF At
      <4>2. PICK row : row = At(v.bars, t, << >>)
        OBVIOUS
      <4>3. DOMAIN row = ServicesOf(D) /\ row[s] = Sum(InService(s, Bar(kind, t)), D)
        BY <3>1, <4>1, <4>2
      <4> QED BY <2>1, <3>1, <4>2, <4>3 DEF At
    <3>2. CASE t \in Told(D) /\ s \notin ServicesOf(D)
      <4>1. At(v.bars, t, << >>) = [z \in ServicesOf(D) |-> Sum(InService(z, Bar(kind, t)), D)]
        BY <1>2, <3>2 DEF At
      <4>2. DOMAIN At(v.bars, t, << >>) = ServicesOf(D)
        BY <4>1
      <4>3. old = 0
        BY <2>1, <3>2, <4>2 DEF At
      <4> QED BY <3>2, <4>3, NothingElsewhere
    <3>3. CASE t \notin Told(D)
      <4>1. At(v.bars, t, << >>) = << >>
        BY <1>2, <3>3 DEF At
      <4>2. DOMAIN << >> = {}
        OBVIOUS
      <4>3. old = 0
        BY <2>1, <4>1, <4>2 DEF At
      <4> QED BY <3>3, <4>3, NothingElsewhere
    <3> QED BY <3>1, <3>2, <3>3
  <2>3. w.bars[t][s] = old + (IF s = a.service THEN Bar(kind, t)[a] ELSE 0)
    BY <1>6, <2>1
  <2>4. Sum(InService(s, Bar(kind, t)), E)
          = Sum(InService(s, Bar(kind, t)), D) + (IF s = a.service THEN Bar(kind, t)[a] ELSE 0)
    <3>1. Sum(InService(s, Bar(kind, t)), D \cup {a})
            = Sum(InService(s, Bar(kind, t)), D) + (IF s = a.service THEN Bar(kind, t)[a] ELSE 0)
      BY BarWithDoc
    <3> QED BY <1>1, <3>1
  <2> QED BY <2>2, <2>3, <2>4
<1>8. ASSUME NEW t \in T PROVE w.bars[t] = [s \in S |-> Sum(InService(s, Bar(kind, t)), E)]
  <2>1. \A s \in S : w.bars[t][s] = Sum(InService(s, Bar(kind, t)), E)
    BY <1>7
  <2>2. PICK row : row = w.bars[t]
    OBVIOUS
  <2>3. row = [s \in S |-> row[s]]
    BY <1>6, <2>2
  <2> QED BY <2>1, <2>2, <2>3
<1>9. DOMAIN w.bars = T
  BY <1>6
<1>10. kind # "cumulative" /\ kind # "both" /\ kind # "services"
  OBVIOUS
<1>11. \A t \in Told(E) : w.bars[t] = [s \in ServicesOf(E) |-> Sum(InService(s, Bar(kind, t)), E)]
  BY <1>5, <1>8
<1>12. ObservedIs(kind, w, E)
  BY <1>4, <1>5, <1>9, <1>10, <1>11 DEF ObservedIs
<1> QED BY <1>1, <1>12

LEMMA ObservedMore ==
  ASSUME NEW D \in SUBSET Docs, IsFiniteSet(D), NEW a \in Docs, a \notin D,
         NEW kind \in Observers, NEW v, ObservedIs(kind, v, D)
  PROVE  ObservedIs(kind, More(kind, << >>, a, v), D \cup {a})
<1>1. CASE kind = "cumulative"
  BY <1>1, CumulativeMore DEF More
<1>2. CASE kind = "both"
  BY <1>2, BothMore DEF More
<1>3. CASE kind = "services"
  BY <1>3, ServicesMore DEF More
<1>4. CASE kind = "losses"
  <2>1. PICK w : w = LossesFlag(a, v)
    OBVIOUS
  <2>2. w.services = v.services \cup {a.service}
    BY <2>1 DEF LossesFlag, AddColumn
  <2>3. w.bars = [t \in DOMAIN v.bars \cup {a.team} \cup Thieves(a) |-> [s \in w.services |->
                    At(At(v.bars, t, << >>), s, 0)
                      + (IF s = a.service THEN (IF t = a.team THEN Len(a.captures) ELSE 0) ELSE 0)]]
    BY <2>1, <2>2 DEF LossesFlag, AddColumn
  <2>4. \A t : Bar(kind, t)[a] = IF t = a.team THEN Len(a.captures) ELSE 0
    BY <1>4 DEF Bar, Losses
  <2>5. w.bars = ColumnOf(kind, a, v.bars, w.services)
    BY <2>3, <2>4 DEF ColumnOf
  <2>6. ObservedIs(kind, w, D \cup {a})
    BY <1>4, <2>2, <2>5, ColumnMore
  <2> QED BY <1>4, <2>1, <2>6 DEF More
<1>5. CASE kind = "steals"
  <2>1. PICK w : w = StealsFlag(a, v)
    OBVIOUS
  <2>2. w.services = v.services \cup {a.service}
    BY <2>1 DEF StealsFlag, AddColumn
  <2>3. w.bars = [t \in DOMAIN v.bars \cup {a.team} \cup Thieves(a) |-> [s \in w.services |->
                    At(At(v.bars, t, << >>), s, 0)
                      + (IF s = a.service THEN Len(CapturesBy(a, t)) ELSE 0)]]
    BY <2>1, <2>2 DEF StealsFlag, AddColumn
  <2>4. \A t : Bar(kind, t)[a] = Len(CapturesBy(a, t))
    BY <1>5 DEF Bar, Counts, Captured
  <2>5. w.bars = ColumnOf(kind, a, v.bars, w.services)
    BY <2>3, <2>4 DEF ColumnOf
  <2>6. ObservedIs(kind, w, D \cup {a})
    BY <1>5, <2>2, <2>5, ColumnMore
  <2> QED BY <1>5, <2>1, <2>6 DEF More
<1> QED BY <1>1, <1>2, <1>3, <1>4, <1>5 DEF Observers

LEMMA ObservedStart ==
  ASSUME NEW kind \in Observers
  PROVE  ObservedIs(kind, StartOf(kind), {})
<1>1. CASE kind \in {"losses", "steals"}
  BY <1>1, NothingTold DEF ObservedIs, StartOf, NoBars
<1>2. CASE kind \in {"cumulative", "both"}
  BY <1>2, NothingTold DEF ObservedIs, StartOf
<1>3. CASE kind = "services"
  BY <1>3, NothingTold DEF ObservedIs, StartOf
<1> QED BY <1>1, <1>2, <1>3 DEF Observers

LEMMA Observed ==
  ASSUME NEW D \in SUBSET Docs, IsFiniteSet(D), NEW kind \in Observers,
         NEW g, IsFold(kind, << >>, StartOf(kind), D, g)
  PROVE  ObservedIs(kind, g[D], D)
<1> DEFINE B == {S \in SUBSET D : ~ObservedIs(kind, g[S], S)}
<1> SUFFICES ASSUME B # {} PROVE FALSE
  BY DEF B
<1>1. B \in SUBSET SUBSET D
  OBVIOUS
<1>2. PICK S \in B : \A x \in S : S \ {x} \notin B
  <2> HIDE DEF B
  <2> QED BY <1>1, SmallestSet
<1>3. S \in SUBSET D /\ IsFiniteSet(S) /\ ~ObservedIs(kind, g[S], S)
  BY <1>2, FS_Subset
<1>4. CASE S = {}
  <2>1. g[S] = StartOf(kind)
    BY <1>3, <1>4 DEF IsFold
  <2> QED BY <1>3, <1>4, <2>1, ObservedStart
<1>5. CASE S # {}
  <2>1. PICK a, rest : a = AnyOf(S) /\ rest = S \ {AnyOf(S)}
    OBVIOUS
  <2>2. a \in S /\ rest \in SUBSET D /\ a \notin rest /\ rest \cup {a} = S /\ IsFiniteSet(rest)
        /\ a \in Docs /\ rest \in SUBSET Docs
    <3>1. a \in S
      BY <1>5, <2>1, AnyIsIn
    <3>2. IsFiniteSet(S \ {a})
      BY <1>3, FS_Subset
    <3> QED BY <1>3, <2>1, <3>1, <3>2
  <2>3. ObservedIs(kind, g[rest], rest)
    <3>1. rest \notin B
      BY <1>2, <2>1, <2>2
    <3> QED BY <2>2, <3>1
  <2>4. g[S] = More(kind, << >>, a, g[rest])
    BY <1>3, <1>5, <2>1 DEF IsFold
  <2>5. ObservedIs(kind, More(kind, << >>, a, g[rest]), rest \cup {a})
    BY <2>2, <2>3, ObservedMore
  <2> QED BY <1>3, <2>2, <2>4, <2>5
<1> QED BY <1>4, <1>5

-----------------------------------------------------------------------------
(***************************************************************************)
(* However the captures are added up, there are as many.                   *)
(***************************************************************************)

LEMMA ThievesFinite ==
  ASSUME NEW doc \in Docs
  PROVE  IsFiniteSet(Thieves(doc))
<1>1. PICK s, T : s = doc.captures /\ T = {s[i].team : i \in DOMAIN s}
  OBVIOUS
<1>2. s \in Seq(Stolen)
  <2>1. doc.captures \in Seq(Stolen)
    BY DEF Docs
  <2> QED BY <1>1, <2>1
<1>3. PICK n \in Nat : DOMAIN s = 1 .. n
  BY <1>2
<1>4. PICK f : f = [i \in 1 .. n |-> s[i].team]
  OBVIOUS
<1>5. f \in [1 .. n -> T] /\ \A x \in T : \E i \in 1 .. n : f[i] = x
  BY <1>1, <1>3, <1>4
<1>6. ExistsSurjection(1 .. n, T)
  BY <1>5 DEF ExistsSurjection, Surjection
<1>7. IsFiniteSet(T)
  BY <1>6, FS_NatSurjection
<1> QED BY <1>1, <1>7 DEF Thieves

LEMMA ToldFinite ==
  ASSUME NEW D \in SUBSET Docs, IsFiniteSet(D)
  PROVE  IsFiniteSet(Told(D)) /\ IsFiniteSet(ServicesOf(D))
<1> DEFINE B == {S \in SUBSET D : ~(IsFiniteSet(Told(S)) /\ IsFiniteSet(ServicesOf(S)))}
<1> SUFFICES ASSUME B # {} PROVE FALSE
  BY DEF B
<1>1. B \in SUBSET SUBSET D
  OBVIOUS
<1>2. PICK S \in B : \A x \in S : S \ {x} \notin B
  <2> HIDE DEF B
  <2> QED BY <1>1, SmallestSet
<1>3. S \in SUBSET D /\ ~(IsFiniteSet(Told(S)) /\ IsFiniteSet(ServicesOf(S)))
  BY <1>2
<1>4. S # {}
  BY <1>3, NothingTold, FS_EmptySet
<1>5. PICK a : a \in S
  BY <1>4
<1>6. PICK rest : rest = S \ {a}
  OBVIOUS
<1>7. rest \in SUBSET D /\ rest \cup {a} = S /\ a \in Docs
  BY <1>3, <1>5, <1>6
<1>8. IsFiniteSet(Told(rest)) /\ IsFiniteSet(ServicesOf(rest))
  <2>1. rest \notin B
    BY <1>2, <1>5, <1>6
  <2> QED BY <1>7, <2>1
<1>9. Told(S) = Told(rest) \cup {a.team} \cup Thieves(a) /\ ServicesOf(S) = ServicesOf(rest) \cup {a.service}
  BY <1>7, ToldWithMore
<1>10. IsFiniteSet(Told(rest) \cup {a.team}) /\ IsFiniteSet(ServicesOf(rest) \cup {a.service})
  BY <1>8, FS_AddElement
<1>11. IsFiniteSet((Told(rest) \cup {a.team}) \cup Thieves(a))
  BY <1>7, <1>10, ThievesFinite, FS_Union
<1> QED BY <1>3, <1>9, <1>10, <1>11

\* Those who stole and those who lost something are among the teams told of.
LEMMA ToldOf ==
  ASSUME NEW D, NEW d \in D
  PROVE  d.team \in Told(D) /\ Thieves(d) \subseteq Told(D) /\ d.service \in ServicesOf(D)
BY TeamIsToldOf DEF ServicesOf

StolenBy(D) == [t \in Told(D) |-> Sum(Counts("capture", t), D)]
LostBy(D) == [t \in Told(D) |-> Sum(Losses(t), D)]
InServices(D, k) == [s \in ServicesOf(D) |-> Sum(InService(s, k), D)]

LEMMA AllStolen ==
  ASSUME NEW D \in SUBSET Docs, IsFiniteSet(D)
  PROVE  Sum(StolenBy(D), Told(D)) = Sum(AllCaptures, D)
<1>1. PICK T : T = Told(D)
  OBVIOUS
<1>2. PICK m : m = [t \in T |-> Counts("capture", t)]
  OBVIOUS
<1>3. \A t \in T : \A d \in D : m[t][d] \in Nat
  BY <1>2, CountsAreNat
<1>4. ASSUME NEW d \in D PROVE AllCaptures[d] = Sum([t \in T |-> m[t][d]], T)
  <2>1. [t \in T |-> m[t][d]] = [t \in T |-> Counts("capture", t)[d]]
    BY <1>2
  <2>2. Sum([t \in T |-> Counts("capture", t)[d]], T) = AllCaptures[d]
    BY <1>1, ToldOf, ToldFinite, StolenByTeams
  <2> QED BY <2>1, <2>2
<1>5. Sum([t \in T |-> Sum(m[t], D)], T) = Sum(AllCaptures, D)
  BY <1>1, <1>3, <1>4, ToldFinite, SumsSwapped
<1>6. StolenBy(D) = [t \in T |-> Sum(m[t], D)]
  BY <1>1, <1>2 DEF StolenBy
<1> QED BY <1>1, <1>5, <1>6

LEMMA AllLost ==
  ASSUME NEW D \in SUBSET Docs, IsFiniteSet(D)
  PROVE  Sum(LostBy(D), Told(D)) = Sum(AllCaptures, D)
<1>1. PICK T : T = Told(D)
  OBVIOUS
<1>2. PICK m : m = [t \in T |-> Losses(t)]
  OBVIOUS
<1>3. \A t \in T : \A d \in D : m[t][d] \in Nat
  BY <1>2, CapturesAreNat
<1>4. ASSUME NEW d \in D PROVE AllCaptures[d] = Sum([t \in T |-> m[t][d]], T)
  <2>1. [t \in T |-> m[t][d]] = [t \in T |-> Losses(t)[d]]
    BY <1>2
  <2>2. Sum([t \in T |-> Losses(t)[d]], T) = AllCaptures[d]
    BY <1>1, ToldOf, ToldFinite, LostByTeams
  <2> QED BY <2>1, <2>2
<1>5. Sum([t \in T |-> Sum(m[t], D)], T) = Sum(AllCaptures, D)
  BY <1>1, <1>3, <1>4, ToldFinite, SumsSwapped
<1>6. LostBy(D) = [t \in T |-> Sum(m[t], D)]
  BY <1>1, <1>2 DEF LostBy
<1> QED BY <1>1, <1>5, <1>6

LEMMA AllServices ==
  ASSUME NEW D \in SUBSET Docs, IsFiniteSet(D), NEW k, \A d \in Docs : k[d] \in Nat
  PROVE  Sum(InServices(D, k), ServicesOf(D)) = Sum(k, D)
<1>1. PICK T : T = ServicesOf(D)
  OBVIOUS
<1>2. PICK m : m = [s \in T |-> InService(s, k)]
  OBVIOUS
<1>3. \A s \in T : \A d \in D : m[s][d] \in Nat
  BY <1>2 DEF InService
<1>4. ASSUME NEW d \in D PROVE k[d] = Sum([s \in T |-> m[s][d]], T)
  <2>1. [s \in T |-> m[s][d]] = [s \in T |-> InService(s, k)[d]]
    BY <1>2
  <2>2. Sum([s \in T |-> InService(s, k)[d]], T) = k[d]
    BY <1>1, ToldOf, ToldFinite, ByServices
  <2> QED BY <2>1, <2>2
<1>5. Sum([s \in T |-> Sum(m[s], D)], T) = Sum(k, D)
  BY <1>1, <1>3, <1>4, ToldFinite, SumsSwapped
<1>6. InServices(D, k) = [s \in T |-> Sum(m[s], D)]
  BY <1>1, <1>2 DEF InServices
<1> QED BY <1>1, <1>5, <1>6

-----------------------------------------------------------------------------
(***************************************************************************)
(* Charts.                                                                 *)
(***************************************************************************)

HeightOf(X) == [b \in X |-> b.height]

LEMMA HeightIsSum ==
  ASSUME NEW X, IsFiniteSet(X)
  PROVE  Height(X) = Sum(HeightOf(X), X)
<1> DEFINE Is(f) == f = [s \in SUBSET X |-> IF s = {} THEN 0 ELSE AnyOf(s).height + f[s \ {AnyOf(s)}]]
<1>1. PICK k : k = HeightOf(X)
  OBVIOUS
<1>2. \A s \in SUBSET X : s # {} => k[AnyOf(s)] = AnyOf(s).height
  BY <1>1, AnyIsIn DEF HeightOf
<1>3. PICK f : IsFold("sum", k, 0, X, f) /\ Sum(k, X) = f[X]
  BY SumIsFold
<1>4. \A g : Is(g) => IsFold("sum", k, 0, X, g)
  BY <1>2 DEF IsFold, More
<1>5. Is(f)
  BY <1>2, <1>3 DEF IsFold, More
<1>6. PICK g : g = CHOOSE z : Is(z)
  OBVIOUS
<1>7. Is(g)
  BY <1>5, <1>6
<1>8. g[X] = f[X]
  <2>1. IsFold("sum", k, 0, X, g) /\ IsFold("sum", k, 0, X, f)
    BY <1>3, <1>4, <1>7
  <2> HIDE DEF Is
  <2> QED BY <2>1, FoldUnique
<1>9. Height(X) = MapThenFoldSet(+, 0, LAMBDA b : b.height, LAMBDA s : CHOOSE x \in s : TRUE, X)
  BY DEF Height, MapThenSumSet
<1>10. MapThenFoldSet(+, 0, LAMBDA b : b.height, LAMBDA s : CHOOSE x \in s : TRUE, X) = g[X]
  BY <1>6 DEF MapThenFoldSet, AnyOf
<1> QED BY <1>1, <1>3, <1>8, <1>9, <1>10

\* Bars that stand for the elements of a set, one for each.
StandFor(X, P, k, f) ==
  /\ \A b \in X : f[b] \in P /\ b.height = k[f[b]]
  /\ \A b, c \in X : f[b] = f[c] => b = c
  /\ \A p \in P : k[p] \in Nat /\ \E b \in X : f[b] = p

LEMMA HeightOfBars ==
  ASSUME NEW X, NEW P, IsFiniteSet(P), NEW k, NEW f, StandFor(X, P, k, f)
  PROVE  Height(X) = Sum(k, P)
<1>1. PICK e : e = [b \in X |-> f[b]]
  OBVIOUS
<1>2. e \in Injection(X, P)
  BY <1>1 DEF StandFor, Injection, IsInjective
<1>3. IsFiniteSet(X)
  BY <1>2, FS_Injection
<1>4. PICK h : h = HeightOf(X)
  OBVIOUS
<1>5. \A b \in X : h[b] = b.height /\ h[b] \in Nat
  BY <1>4 DEF StandFor, HeightOf
<1>6. PICK d : d = [p \in P |-> CHOOSE b \in X : f[b] = p]
  OBVIOUS
<1>7. \A p \in P : d[p] \in X /\ f[d[p]] = p
  BY <1>6 DEF StandFor
<1>8. \A b \in X : e[b] \in P /\ d[e[b]] = b /\ h[b] = k[e[b]]
  BY <1>1, <1>5, <1>7 DEF StandFor
<1>9. \A p \in P : d[p] \in X /\ e[d[p]] = p
  BY <1>1, <1>7
<1>10. \A b \in X : h[b] \in Nat
  BY <1>5
<1>11. Sum(h, X) = Sum(k, P)
  BY <1>3, <1>8, <1>9, <1>10, SumRenamed
<1> QED BY <1>3, <1>4, <1>11, HeightIsSum

\* A chart that shows [m] of the groups of [G] and the parts of [P].
Shows(c, G, P, m) ==
  /\ \A b \in c.bars : b.group \in G /\ b.part \in P /\ b.height = m[b.group][b.part]
  /\ \A t \in G : \A p \in P : \E b \in c.bars : b.group = t /\ b.part = p
  /\ \A b, d \in c.bars : b.group = d.group /\ b.part = d.part => b = d
  /\ \A tick \in c.ticks : tick.group \in G
  /\ Readable(c)

\* The bars of a part, group by group.
Across(m, G, p) == [t \in G |-> m[t][p]]

LEMMA HeightOfGroup ==
  ASSUME NEW c, NEW G, IsFiniteSet(G), NEW P, IsFiniteSet(P), NEW m, Shows(c, G, P, m),
         \A t \in G : \A p \in P : m[t][p] \in Nat, NEW t \in G
  PROVE  Height(OfGroup(c, t)) = Sum(m[t], P)
<1>1. PICK X, f, k : X = OfGroup(c, t) /\ f = [b \in X |-> b.part] /\ k = m[t]
  OBVIOUS
<1>2. \A b : b \in X <=> b \in c.bars /\ b.group = t
  BY <1>1 DEF OfGroup
<1>3. \A b \in X : f[b] \in P /\ b.height = k[f[b]]
  BY <1>1, <1>2 DEF Shows
<1>4. \A b, d \in X : f[b] = f[d] => b = d
  BY <1>1, <1>2 DEF Shows
<1>5. \A p \in P : \E b \in X : f[b] = p
  BY <1>1, <1>2 DEF Shows
<1>6. \A p \in P : k[p] \in Nat
  BY <1>1
<1>7. Height(X) = Sum(k, P)
  BY <1>3, <1>4, <1>5, <1>6, HeightOfBars DEF StandFor
<1> QED BY <1>1, <1>7

LEMMA HeightOfPart ==
  ASSUME NEW c, NEW G, IsFiniteSet(G), NEW P, IsFiniteSet(P), NEW m, Shows(c, G, P, m),
         \A t \in G : \A p \in P : m[t][p] \in Nat, NEW p \in P
  PROVE  Height(OfPart(c, p)) = Sum(Across(m, G, p), G)
<1>1. PICK X, f, k : X = OfPart(c, p) /\ f = [b \in X |-> b.group] /\ k = Across(m, G, p)
  OBVIOUS
<1>2. \A b : b \in X <=> b \in c.bars /\ b.part = p
  BY <1>1 DEF OfPart
<1>3. \A b \in X : f[b] \in G /\ b.height = k[f[b]]
  BY <1>1, <1>2 DEF Shows, Across
<1>4. \A b, d \in X : f[b] = f[d] => b = d
  BY <1>1, <1>2 DEF Shows
<1>5. \A t \in G : \E b \in X : f[b] = t
  BY <1>1, <1>2 DEF Shows
<1>6. \A t \in G : k[t] \in Nat
  BY <1>1 DEF Across
<1>7. Height(X) = Sum(k, G)
  BY <1>3, <1>4, <1>5, <1>6, HeightOfBars DEF StandFor
<1> QED BY <1>1, <1>7

TheBar(c, t, p) == OfGroup(c, t) \cap OfPart(c, p)

LEMMA HeightOfOne ==
  ASSUME NEW c, NEW G, IsFiniteSet(G), NEW P, IsFiniteSet(P), NEW m, Shows(c, G, P, m),
         \A t \in G : \A p \in P : m[t][p] \in Nat, NEW t \in G, NEW p \in P
  PROVE  Height(TheBar(c, t, p)) = m[t][p]
<1>1. PICK X, f, k : X = TheBar(c, t, p) /\ f = [b \in X |-> b.part] /\ k = m[t]
  OBVIOUS
<1>2. \A b : b \in X <=> b \in c.bars /\ b.group = t /\ b.part = p
  BY <1>1 DEF TheBar, OfGroup, OfPart
<1>3. PICK one : one = {p}
  OBVIOUS
<1>4. \A b \in X : f[b] \in one /\ b.height = k[f[b]]
  BY <1>1, <1>2, <1>3 DEF Shows
<1>5. \A b, d \in X : f[b] = f[d] => b = d
  BY <1>1, <1>2 DEF Shows
<1>6. \A q \in one : \E b \in X : f[b] = q
  BY <1>1, <1>2, <1>3 DEF Shows
<1>7. IsFiniteSet(one) /\ p \in one /\ k[p] \in Nat /\ \A q \in one : k[q] \in Nat
  BY <1>1, <1>3, FS_Singleton
<1>8. Height(X) = Sum(k, one)
  BY <1>4, <1>5, <1>6, <1>7, HeightOfBars DEF StandFor
<1>9. Sum(k, one) = k[p]
  <2>1. \A q \in one \ {p} : k[q] = 0
    BY <1>3
  <2> QED BY <1>7, <2>1, SumOfHit
<1> QED BY <1>1, <1>8, <1>9

\* A list of all elements of a set, each of them once.
IsListOf(g, n, S) ==
  /\ n \in Nat /\ DOMAIN g = 1 .. n
  /\ \A i \in 1 .. n : g[i] \in S
  /\ \A i, j \in 1 .. n : g[i] = g[j] => i = j
  /\ \A x \in S : \E i \in 1 .. n : g[i] = x

LEMMA SetsAreLists ==
  ASSUME NEW S, IsFiniteSet(S)
  PROVE  IsListOf(SetToSeq(S), Cardinality(S), S)
<1>1. PICK g, n : g = SetToSeq(S) /\ n = Cardinality(S)
  OBVIOUS
<1>2. n \in Nat /\ g \in [1 .. n -> S] /\ IsInjective(g)
  BY <1>1, ListOfSet
<1>3. g \in Injection(1 .. n, S)
  BY <1>2 DEF Injection
<1>4. IsFiniteSet(1 .. n) /\ Cardinality(1 .. n) = n
  <2>1. 1 \in Int /\ n \in Int /\ (IF 1 > n THEN 0 ELSE n - 1 + 1) = n
    BY <1>2
  <2> QED BY <2>1, FS_Interval
<1>5. g \in Surjection(1 .. n, S)
  BY <1>1, <1>3, <1>4, FS_Injection
<1>6. \A x \in S : \E i \in 1 .. n : g[i] = x
  BY <1>5 DEF Surjection
<1>7. \A i, j \in 1 .. n : g[i] = g[j] => i = j
  BY <1>2 DEF IsInjective
<1> QED BY <1>1, <1>2, <1>6, <1>7 DEF IsListOf

BarAt(g, p, w, m, i, j) ==
  [group |-> g[i], part |-> p[j], at |-> (i - 1) * w + j - 1, height |-> m[g[i]][p[j]]]
TickAt(g, w, tick, i) == [group |-> g[i], twice |-> 2 * (i - 1) * w + tick]
Chart(g, p, w, m, tick) ==
  [bars |-> {BarAt(g, p, w, m, i, j) : i \in DOMAIN g, j \in DOMAIN p},
   ticks |-> {TickAt(g, w, tick, i) : i \in DOMAIN g}]

LEMMA GroupsApart ==
  ASSUME NEW a \in Nat, NEW b \in Nat, a < b, NEW w \in Nat
  PROVE  a * w + w <= b * w
<1>1. PICK q \in Nat : b = a + 1 + q
  <2>1. b - a - 1 \in Nat /\ b = a + 1 + (b - a - 1)
    OBVIOUS
  <2> QED BY <2>1
<1>2. (a + 1 + q) * w = a * w + w + q * w
  OBVIOUS
<1>3. a * w \in Nat /\ q * w \in Nat
  OBVIOUS
<1> QED BY <1>1, <1>2, <1>3

\* Bars of different groups, or of one group, are at different places.
LEMMA PlacesDiffer ==
  ASSUME NEW i \in Nat, NEW x \in Nat, NEW j \in Nat, NEW y \in Nat, NEW w \in Nat,
         1 <= i, 1 <= x, 1 <= j, 1 <= y, j <= w, y <= w,
         (i - 1) * w + j - 1 = (x - 1) * w + y - 1
  PROVE  i = x /\ j = y
<1>1. PICK a, b : a = i - 1 /\ b = x - 1
  OBVIOUS
<1>2. a \in Nat /\ b \in Nat
  BY <1>1
<1>3. PICK c, d : c = a * w /\ d = b * w
  OBVIOUS
<1>4. c \in Nat /\ d \in Nat
  BY <1>2, <1>3
<1>5. c + j = d + y
  BY <1>1, <1>3, <1>4
<1>6. ~(a < b)
  <2> SUFFICES ASSUME a < b PROVE FALSE
    OBVIOUS
  <2>1. c + w <= d
    BY <1>2, <1>3, GroupsApart
  <2> QED BY <1>4, <1>5, <2>1
<1>7. ~(b < a)
  <2> SUFFICES ASSUME b < a PROVE FALSE
    OBVIOUS
  <2>1. d + w <= c
    BY <1>2, <1>3, GroupsApart
  <2> QED BY <1>4, <1>5, <2>1
<1>8. a = b
  BY <1>2, <1>6, <1>7
<1>9. c = d
  BY <1>3, <1>8
<1> QED BY <1>1, <1>4, <1>5, <1>8, <1>9

LEMMA ChartShows ==
  ASSUME NEW G, NEW n, NEW g, IsListOf(g, n, G), NEW P, NEW k, NEW p, IsListOf(p, k, P),
         NEW w \in Nat, k <= w, k # 0 \/ n = 0, NEW m
  PROVE  Shows(Chart(g, p, w, m, k), G, P, m)
<1>1. PICK c : c = Chart(g, p, w, m, k)
  OBVIOUS
<1>2. n \in Nat /\ k \in Nat /\ DOMAIN g = 1 .. n /\ DOMAIN p = 1 .. k
  BY DEF IsListOf
<1>3. ASSUME NEW b \in c.bars
      PROVE  \E i \in 1 .. n : \E j \in 1 .. k : b = BarAt(g, p, w, m, i, j)
  BY <1>1, <1>2 DEF Chart
<1>4. \A i \in 1 .. n : \A j \in 1 .. k : BarAt(g, p, w, m, i, j) \in c.bars
  BY <1>1, <1>2 DEF Chart
<1>5. \A tick \in c.ticks : \E i \in 1 .. n : tick = TickAt(g, w, k, i)
  BY <1>1, <1>2 DEF Chart
<1>6. ASSUME NEW i \in 1 .. n, NEW j \in 1 .. k, NEW b, b = BarAt(g, p, w, m, i, j)
      PROVE  /\ b.group = g[i] /\ b.part = p[j] /\ b.at = (i - 1) * w + j - 1
             /\ b.height = m[g[i]][p[j]] /\ g[i] \in G /\ p[j] \in P
  BY <1>6 DEF BarAt, IsListOf
<1>7. \A b \in c.bars : b.group \in G /\ b.part \in P /\ b.height = m[b.group][b.part]
  BY <1>3, <1>6
<1>8. ASSUME NEW t \in G, NEW q \in P PROVE \E b \in c.bars : b.group = t /\ b.part = q
  <2>1. PICK i \in 1 .. n : g[i] = t
    BY DEF IsListOf
  <2>2. PICK j \in 1 .. k : p[j] = q
    BY DEF IsListOf
  <2> QED BY <1>4, <1>6, <2>1, <2>2
<1>9. ASSUME NEW b \in c.bars, NEW d \in c.bars, b.group = d.group, b.part = d.part PROVE b = d
  <2>1. PICK i \in 1 .. n : \E j \in 1 .. k : b = BarAt(g, p, w, m, i, j)
    BY <1>3
  <2>2. PICK j \in 1 .. k : b = BarAt(g, p, w, m, i, j)
    BY <2>1
  <2>3. PICK x \in 1 .. n : \E y \in 1 .. k : d = BarAt(g, p, w, m, x, y)
    BY <1>3
  <2>4. PICK y \in 1 .. k : d = BarAt(g, p, w, m, x, y)
    BY <2>3
  <2>5. g[i] = g[x] /\ p[j] = p[y]
    BY <1>6, <1>9, <2>2, <2>4
  <2>6. i = x /\ j = y
    BY <2>5 DEF IsListOf
  <2> QED BY <2>2, <2>4, <2>6
<1>10. ASSUME NEW b \in c.bars, NEW d \in c.bars, b.at = d.at PROVE b = d
  <2>1. PICK i \in 1 .. n : \E j \in 1 .. k : b = BarAt(g, p, w, m, i, j)
    BY <1>3
  <2>2. PICK j \in 1 .. k : b = BarAt(g, p, w, m, i, j)
    BY <2>1
  <2>3. PICK x \in 1 .. n : \E y \in 1 .. k : d = BarAt(g, p, w, m, x, y)
    BY <1>3
  <2>4. PICK y \in 1 .. k : d = BarAt(g, p, w, m, x, y)
    BY <2>3
  <2>5. (i - 1) * w + j - 1 = (x - 1) * w + y - 1
    <3>1. b.at = (i - 1) * w + j - 1
      BY <1>6, <2>2
    <3>2. d.at = (x - 1) * w + y - 1
      BY <1>6, <2>4
    <3> QED BY <1>10, <3>1, <3>2
  <2>6. i \in Nat /\ x \in Nat /\ j \in Nat /\ y \in Nat /\ 1 <= i /\ 1 <= x /\ 1 <= j /\ 1 <= y /\ j <= k /\ y <= k
    BY <1>2
  <2>7. j <= w /\ y <= w
    BY <1>2, <2>6
  <2>8. i = x /\ j = y
    BY <2>5, <2>6, <2>7, PlacesDiffer
  <2> QED BY <2>2, <2>4, <2>8
<1>11. ASSUME NEW tick \in c.ticks
       PROVE  /\ tick.group \in G
              /\ LET at == {b.at : b \in {z \in c.bars : z.group = tick.group}}
                 IN  tick.twice = Min(at) + Max(at) + 1
  <2>1. PICK i \in 1 .. n : tick = TickAt(g, w, k, i)
    BY <1>5
  <2>2. tick.group = g[i] /\ tick.twice = 2 * (i - 1) * w + k /\ g[i] \in G
    BY <2>1 DEF TickAt, IsListOf
  <2>3. PICK at : at = {b.at : b \in {z \in c.bars : z.group = tick.group}}
    OBVIOUS
  <2>4. PICK s : s = (i - 1) * w
    OBVIOUS
  <2>5. i - 1 \in Nat /\ s \in Nat
    <3>1. i - 1 \in Nat
      BY <1>2
    <3> QED BY <2>4, <3>1
  <2>6. \A j \in 1 .. k : s + j - 1 \in at
    <3> SUFFICES ASSUME NEW j \in 1 .. k PROVE s + j - 1 \in at
      OBVIOUS
    <3>1. PICK b : b = BarAt(g, p, w, m, i, j)
      OBVIOUS
    <3>2. b \in c.bars /\ b.group = tick.group /\ b.at = s + j - 1
      BY <1>4, <1>6, <2>2, <2>4, <3>1
    <3> QED BY <2>3, <3>2
  <2>7. \A v \in at : \E j \in 1 .. k : v = s + j - 1
    <3> SUFFICES ASSUME NEW v \in at PROVE \E j \in 1 .. k : v = s + j - 1
      OBVIOUS
    <3>1. PICK b \in c.bars : b.group = tick.group /\ v = b.at
      BY <2>3
    <3>2. PICK x \in 1 .. n : \E j \in 1 .. k : b = BarAt(g, p, w, m, x, j)
      BY <1>3
    <3>3. PICK j \in 1 .. k : b = BarAt(g, p, w, m, x, j)
      BY <3>2
    <3>4. g[x] = g[i]
      BY <1>6, <2>2, <3>1, <3>3
    <3>5. x = i
      BY <3>4 DEF IsListOf
    <3> QED BY <1>6, <2>4, <3>1, <3>3, <3>5
  <2>8. 1 \in 1 .. k /\ k \in 1 .. k
    BY <1>2
  <2>9. s \in at /\ s + k - 1 \in at
    <3>1. s + 1 - 1 \in at /\ s + k - 1 \in at
      BY <2>6, <2>8
    <3>2. s + 1 - 1 = s
      BY <2>5
    <3> QED BY <3>1, <3>2
  <2>10. \A v \in at : v \in Int /\ s <= v /\ v <= s + k - 1
    BY <1>2, <2>5, <2>7
  <2>11. Min(at) = s
    <3>1. \E v \in at : \A u \in at : v <= u
      BY <2>9, <2>10
    <3>2. Min(at) \in at /\ Min(at) <= s
      BY <2>9, <3>1 DEF Min
    <3> QED BY <2>5, <2>10, <3>2
  <2>12. Max(at) = s + k - 1
    <3>1. \A u \in at : s + k - 1 >= u
      BY <1>2, <2>5, <2>10
    <3>2. \E v \in at : \A u \in at : v >= u
      BY <2>9, <3>1
    <3>3. Max(at) \in at /\ Max(at) >= s + k - 1
      BY <2>9, <3>2 DEF Max
    <3>4. Max(at) <= s + k - 1 /\ Max(at) \in Int
      BY <2>10, <3>3
    <3> QED BY <1>2, <2>5, <3>3, <3>4
  <2>13. 2 * (i - 1) * w = s + s
    BY <1>2, <2>4, <2>5
  <2> QED BY <1>2, <2>2, <2>3, <2>5, <2>11, <2>12, <2>13
<1>12. Readable(c)
  BY <1>10, <1>11 DEF Readable
<1> QED BY <1>1, <1>7, <1>8, <1>9, <1>11, <1>12 DEF Shows

\* What the five observers of captures gather.
LEMMA ObserversGather ==
  ASSUME NEW D \in SUBSET Docs, IsFiniteSet(D)
  PROVE  /\ ObservedIs("cumulative", FoldSet(CumulativeFlag, << >>, D), D)
         /\ ObservedIs("losses", FoldSet(LossesFlag, NoBars, D), D)
         /\ ObservedIs("steals", FoldSet(StealsFlag, NoBars, D), D)
         /\ ObservedIs("both", FoldSet(BothFlag, << >>, D), D)
         /\ ObservedIs("services", FoldSet(ServiceFlag, << >>, D), D)
<1>1. ObservedIs("cumulative", FoldSet(CumulativeFlag, << >>, D), D)
  <2>1. PICK g : IsFold("cumulative", << >>, << >>, D, g) /\ FoldSet(CumulativeFlag, << >>, D) = g[D]
    BY CumulativeFolds
  <2>2. PICK kind : kind = "cumulative"
    OBVIOUS
  <2>3. kind \in Observers /\ StartOf(kind) = << >>
    BY <2>2 DEF Observers, StartOf
  <2>4. IsFold(kind, << >>, StartOf(kind), D, g)
    BY <2>1, <2>2, <2>3
  <2>5. ObservedIs(kind, g[D], D)
    BY <2>3, <2>4, Observed
  <2> QED BY <2>1, <2>2, <2>5
<1>2. ObservedIs("losses", FoldSet(LossesFlag, NoBars, D), D)
  <2>1. PICK g : IsFold("losses", << >>, NoBars, D, g) /\ FoldSet(LossesFlag, NoBars, D) = g[D]
    BY LossesFolds
  <2>2. PICK kind : kind = "losses"
    OBVIOUS
  <2>3. kind \in Observers /\ StartOf(kind) = NoBars
    BY <2>2 DEF Observers, StartOf
  <2>4. IsFold(kind, << >>, StartOf(kind), D, g)
    BY <2>1, <2>2, <2>3
  <2>5. ObservedIs(kind, g[D], D)
    BY <2>3, <2>4, Observed
  <2> QED BY <2>1, <2>2, <2>5
<1>3. ObservedIs("steals", FoldSet(StealsFlag, NoBars, D), D)
  <2>1. PICK g : IsFold("steals", << >>, NoBars, D, g) /\ FoldSet(StealsFlag, NoBars, D) = g[D]
    BY StealsFolds
  <2>2. PICK kind : kind = "steals"
    OBVIOUS
  <2>3. kind \in Observers /\ StartOf(kind) = NoBars
    BY <2>2 DEF Observers, StartOf
  <2>4. IsFold(kind, << >>, StartOf(kind), D, g)
    BY <2>1, <2>2, <2>3
  <2>5. ObservedIs(kind, g[D], D)
    BY <2>3, <2>4, Observed
  <2> QED BY <2>1, <2>2, <2>5
<1>4. ObservedIs("both", FoldSet(BothFlag, << >>, D), D)
  <2>1. PICK g : IsFold("both", << >>, << >>, D, g) /\ FoldSet(BothFlag, << >>, D) = g[D]
    BY BothFolds
  <2>2. PICK kind : kind = "both"
    OBVIOUS
  <2>3. kind \in Observers /\ StartOf(kind) = << >>
    BY <2>2 DEF Observers, StartOf
  <2>4. IsFold(kind, << >>, StartOf(kind), D, g)
    BY <2>1, <2>2, <2>3
  <2>5. ObservedIs(kind, g[D], D)
    BY <2>3, <2>4, Observed
  <2> QED BY <2>1, <2>2, <2>5
<1>5. ObservedIs("services", FoldSet(ServiceFlag, << >>, D), D)
  <2>1. PICK g : IsFold("services", << >>, << >>, D, g) /\ FoldSet(ServiceFlag, << >>, D) = g[D]
    BY ServicesFolds
  <2>2. PICK kind : kind = "services"
    OBVIOUS
  <2>3. kind \in Observers /\ StartOf(kind) = << >>
    BY <2>2 DEF Observers, StartOf
  <2>4. IsFold(kind, << >>, StartOf(kind), D, g)
    BY <2>1, <2>2, <2>3
  <2>5. ObservedIs(kind, g[D], D)
    BY <2>3, <2>4, Observed
  <2> QED BY <2>1, <2>2, <2>5
<1> QED BY <1>1, <1>2, <1>3, <1>4, <1>5

LEMMA ShortLists ==
  /\ IsListOf(<<"stolen", "lost">>, 2, {"stolen", "lost"}) /\ Len(<<"stolen", "lost">>) = 2
  /\ IsListOf(<<"captures">>, 1, {"captures"}) /\ Len(<<"captures">>) = 1
<1>1. \A i \in 1 .. 2 : i = 1 \/ i = 2
  OBVIOUS
<1>2. \A i \in 1 .. 1 : i = 1
  OBVIOUS
<1>3. IsListOf(<<"stolen", "lost">>, 2, {"stolen", "lost"})
  BY <1>1 DEF IsListOf
<1>4. IsListOf(<<"captures">>, 1, {"captures"})
  BY <1>2 DEF IsListOf
<1> QED BY <1>3, <1>4

LEMMA BothShows ==
  ASSUME NEW v, IsFiniteSet(DOMAIN v)
  PROVE  Shows(BothData(v), DOMAIN v, {"stolen", "lost"}, v)
<1>1. PICK G, g, p, P : /\ G = DOMAIN v /\ g = SetToSeq(DOMAIN v)
                        /\ p = <<"stolen", "lost">> /\ P = {"stolen", "lost"}
  OBVIOUS
<1>2. IsListOf(g, Cardinality(G), G) /\ IsListOf(p, 2, P) /\ Len(p) = 2
  BY <1>1, SetsAreLists, ShortLists
<1>3. BothData(v) = [bars |-> {[group |-> g[i], part |-> p[j], at |-> (i - 1) * (Len(p) + 1) + j - 1,
                                height |-> v[g[i]][p[j]]] : i \in DOMAIN g, j \in DOMAIN p},
                     ticks |-> {[group |-> g[i], twice |-> 2 * (i - 1) * (Len(p) + 1) + 2] : i \in DOMAIN g}]
  BY <1>1 DEF BothData, Grouped
<1>4. BothData(v) = Chart(g, p, Len(p) + 1, v, 2)
  BY <1>3 DEF Chart, BarAt, TickAt
<1>5. Len(p) + 1 = 3
  BY <1>2
<1>6. Shows(Chart(g, p, 3, v, 2), G, P, v)
  <2>1. 3 \in Nat /\ 2 <= 3 /\ 2 # 0
    OBVIOUS
  <2> QED BY <1>2, <2>1, ChartShows
<1> QED BY <1>1, <1>4, <1>5, <1>6

LEMMA PerTeamShows ==
  ASSUME NEW v, IsFiniteSet(DOMAIN v.bars), IsFiniteSet(v.services),
         v.services = {} => DOMAIN v.bars = {}
  PROVE  Shows(PerTeamData(v), DOMAIN v.bars, v.services, v.bars)
<1>1. PICK G, g, p, P : /\ G = DOMAIN v.bars /\ g = SetToSeq(DOMAIN v.bars)
                        /\ p = SetToSeq(v.services) /\ P = v.services
  OBVIOUS
<1>2. PICK n, k, m : n = Cardinality(G) /\ k = Cardinality(P) /\ m = v.bars
  OBVIOUS
<1>3. IsListOf(g, n, G) /\ IsListOf(p, k, P)
  BY <1>1, <1>2, SetsAreLists
<1>4. Len(p) = k /\ k \in Nat
  <2>1. k \in Nat /\ p \in [1 .. k -> P]
    BY <1>1, <1>2, ListOfSet
  <2> QED BY <2>1
<1>5. PerTeamData(v) = [bars |-> {[group |-> g[i], part |-> p[j], at |-> (i - 1) * (Len(p) + 2) + j - 1,
                                   height |-> m[g[i]][p[j]]] : i \in DOMAIN g, j \in DOMAIN p},
                        ticks |-> {[group |-> g[i], twice |-> 2 * (i - 1) * (Len(p) + 2) + k] : i \in DOMAIN g}]
  BY <1>1, <1>2 DEF PerTeamData, Grouped
<1>6. PerTeamData(v) = Chart(g, p, Len(p) + 2, m, k)
  BY <1>5 DEF Chart, BarAt, TickAt
<1>7. PICK w : w = k + 2
  OBVIOUS
<1>8. w \in Nat /\ k <= w
  BY <1>4, <1>7
<1>9. k # 0 \/ n = 0
  BY <1>1, <1>2, FS_EmptySet
<1>10. Shows(Chart(g, p, w, m, k), G, P, m)
  BY <1>3, <1>8, <1>9, ChartShows
<1> QED BY <1>1, <1>2, <1>4, <1>6, <1>7, <1>10

\* One bar for every service.
OneEach(v) == [s \in DOMAIN v |-> [what \in {"captures"} |-> v[s]]]

LEMMA ServicesShow ==
  ASSUME NEW v, IsFiniteSet(DOMAIN v)
  PROVE  Shows(ServiceData(v), DOMAIN v, {"captures"}, OneEach(v))
<1>1. PICK G, g, p, P : /\ G = DOMAIN v /\ g = SetToSeq(DOMAIN v)
                        /\ p = <<"captures">> /\ P = {"captures"}
  OBVIOUS
<1>2. PICK m : m = OneEach(v)
  OBVIOUS
<1>3. IsListOf(g, Cardinality(G), G) /\ IsListOf(p, 1, P) /\ Len(p) = 1
  BY <1>1, SetsAreLists, ShortLists
<1>4. ServiceData(v) = [bars |-> {[group |-> g[i], part |-> p[j], at |-> (i - 1) * (Len(p) + 0) + j - 1,
                                   height |-> v[g[i]]] : i \in DOMAIN g, j \in DOMAIN p},
                        ticks |-> {[group |-> g[i], twice |-> 2 * (i - 1) * (Len(p) + 0) + 1] : i \in DOMAIN g}]
  BY <1>1 DEF ServiceData, Grouped
<1>5. \A i \in DOMAIN g : \A j \in DOMAIN p : v[g[i]] = m[g[i]][p[j]]
  <2>1. \A i \in DOMAIN g : g[i] \in G
    BY <1>3 DEF IsListOf
  <2>2. \A j \in DOMAIN p : p[j] \in P
    BY <1>3 DEF IsListOf
  <2>3. \A s \in G : \A q \in P : m[s][q] = v[s]
    BY <1>1, <1>2 DEF OneEach
  <2> QED BY <2>1, <2>2, <2>3
<1>6. PICK w : w = Len(p) + 0
  OBVIOUS
<1>7. {[group |-> g[i], part |-> p[j], at |-> (i - 1) * w + j - 1, height |-> v[g[i]]] : i \in DOMAIN g, j \in DOMAIN p}
        = {BarAt(g, p, w, m, i, j) : i \in DOMAIN g, j \in DOMAIN p}
  BY <1>5 DEF BarAt
<1>8. ServiceData(v) = Chart(g, p, w, m, 1)
  <2>1. ServiceData(v).bars = {[group |-> g[i], part |-> p[j], at |-> (i - 1) * w + j - 1,
                                height |-> v[g[i]]] : i \in DOMAIN g, j \in DOMAIN p}
    BY <1>4, <1>6
  <2>2. ServiceData(v).ticks = {TickAt(g, w, 1, i) : i \in DOMAIN g}
    BY <1>4, <1>6 DEF TickAt
  <2>3. ServiceData(v) = [bars |-> ServiceData(v).bars, ticks |-> ServiceData(v).ticks]
    BY <1>4
  <2> QED BY <1>7, <2>1, <2>2, <2>3 DEF Chart
<1>9. w = 1
  BY <1>3, <1>6
<1>10. Shows(Chart(g, p, 1, m, 1), G, P, m)
  <2>1. 1 \in Nat /\ 1 <= 1 /\ 1 # 0
    OBVIOUS
  <2> QED BY <1>3, <2>1, ChartShows
<1> QED BY <1>1, <1>2, <1>8, <1>9, <1>10

LEMMA BoardAgrees ==
  ASSUME NEW D \in SUBSET Docs, IsFiniteSet(D), NEW R \in SUBSET Challenges, IsFiniteSet(R)
  PROVE  GraphsAgree(Board(D, R))
<1>1. PICK b : b = Board(D, R)
  OBVIOUS
<1>2. PICK T, S : T = Told(D) /\ S = ServicesOf(D)
  OBVIOUS
<1>3. IsFiniteSet(T) /\ IsFiniteSet(S) /\ (S = {} => T = {})
  <2>1. S = {} => D = {}
    BY <1>2 DEF ServicesOf
  <2> QED BY <1>2, <2>1, ToldFinite, NothingTold
<1>4. PICK cumulative, losses, steals, both, services :
        /\ cumulative = FoldSet(CumulativeFlag, << >>, D) /\ losses = FoldSet(LossesFlag, NoBars, D)
        /\ steals = FoldSet(StealsFlag, NoBars, D) /\ both = FoldSet(BothFlag, << >>, D)
        /\ services = FoldSet(ServiceFlag, << >>, D)
  OBVIOUS
<1>5. /\ ObservedIs("cumulative", cumulative, D) /\ ObservedIs("losses", losses, D)
      /\ ObservedIs("steals", steals, D) /\ ObservedIs("both", both, D)
      /\ ObservedIs("services", services, D)
  BY <1>4, ObserversGather
<1>6. /\ b.cumulative_steals = CumulativeSteals(cumulative)
      /\ b.losses_per_team = PerTeamData(losses) /\ b.steals_per_team = PerTeamData(steals)
      /\ b.steals_losses_per_team = BothData(both) /\ b.steals_per_service = ServiceData(services)
  BY <1>1, <1>4 DEF Board
<1>7. \A t : Sum(Counts("capture", t), D) \in Nat /\ Sum(Losses(t), D) \in Nat
  <2> SUFFICES ASSUME NEW t PROVE Sum(Counts("capture", t), D) \in Nat /\ Sum(Losses(t), D) \in Nat
    OBVIOUS
  <2>1. (\A d \in D : Counts("capture", t)[d] \in Nat) /\ \A d \in D : Losses(t)[d] \in Nat
    BY CountsAreNat, CapturesAreNat
  <2> QED BY <2>1, SumIsNat
<1>8. PICK c, what : c = BothData(both) /\ what = {"stolen", "lost"}
  OBVIOUS
<1>9. /\ Shows(c, T, what, both) /\ IsFiniteSet(what) /\ DOMAIN both = T
      /\ \A t \in T : /\ both[t]["stolen"] = Sum(Counts("capture", t), D)
                      /\ both[t]["lost"] = Sum(Losses(t), D)
  <2>1. DOMAIN both = T
    BY <1>2, <1>5 DEF ObservedIs
  <2>2. \A t \in T : both[t] = [stolen |-> Sum(Counts("capture", t), D), lost |-> Sum(Losses(t), D)]
    BY <1>2, <1>5 DEF ObservedIs
  <2>3. Shows(c, T, what, both)
    BY <1>3, <1>8, <2>1, BothShows
  <2>4. IsFiniteSet(what)
    <3>1. what = {"stolen"} \cup {"lost"}
      BY <1>8
    <3> QED BY <3>1, FS_Singleton, FS_Union
  <2> QED BY <2>1, <2>2, <2>3, <2>4
<1>10. \A t \in T : \A q \in what : both[t][q] \in Nat
  BY <1>7, <1>8, <1>9
<1>11. /\ \A t \in T : Height(OfGroup(c, t) \cap OfPart(c, "stolen")) = Sum(Counts("capture", t), D)
       /\ \A t \in T : Height(OfGroup(c, t) \cap OfPart(c, "lost")) = Sum(Losses(t), D)
  <2>1. ASSUME NEW t \in T, NEW q \in what
        PROVE  Height(OfGroup(c, t) \cap OfPart(c, q)) = both[t][q]
    <3>1. Shows(c, T, what, both) /\ IsFiniteSet(what)
      BY <1>9
    <3>2. Height(TheBar(c, t, q)) = both[t][q]
      BY <1>3, <1>10, <3>1, HeightOfOne
    <3> QED BY <3>2 DEF TheBar
  <2>2. "stolen" \in what /\ "lost" \in what
    BY <1>8
  <2> QED BY <1>9, <2>1, <2>2
<1>12. /\ Height(OfPart(c, "stolen")) = Sum(AllCaptures, D)
       /\ Height(OfPart(c, "lost")) = Sum(AllCaptures, D)
  <2>1. \A q \in what : Height(OfPart(c, q)) = Sum(Across(both, T, q), T)
    BY <1>3, <1>9, <1>10, HeightOfPart
  <2>2. Across(both, T, "stolen") = StolenBy(D) /\ Across(both, T, "lost") = LostBy(D)
    BY <1>2, <1>9 DEF Across, StolenBy, LostBy
  <2>3. "stolen" \in what /\ "lost" \in what
    BY <1>8
  <2> QED BY <1>2, <2>1, <2>2, <2>3, AllStolen, AllLost
<1>13. ASSUME NEW kind \in {"losses", "steals"}, NEW v, ObservedIs(kind, v, D)
       PROVE  /\ Readable(PerTeamData(v))
              /\ \A t \in T : Height(OfGroup(PerTeamData(v), t)) = Sum(Bar(kind, t), D)
  <2>1. v.services = S /\ DOMAIN v.bars = T /\ \A t \in T : v.bars[t] = InServices(D, Bar(kind, t))
    BY <1>2, <1>13 DEF ObservedIs, InServices
  <2>2. Shows(PerTeamData(v), T, S, v.bars)
    BY <1>3, <2>1, PerTeamShows
  <2>3. \A t : \A d \in Docs : Bar(kind, t)[d] \in Nat
    BY CountsAreNat, CapturesAreNat DEF Bar
  <2>4. ASSUME NEW t \in T, NEW s \in S PROVE v.bars[t][s] \in Nat
    <3>1. v.bars[t][s] = Sum(InService(s, Bar(kind, t)), D)
      BY <1>2, <2>1 DEF InServices
    <3>2. \A d \in D : InService(s, Bar(kind, t))[d] \in Nat
      BY <2>3 DEF InService
    <3>3. Sum(InService(s, Bar(kind, t)), D) \in Nat
      BY <3>2, SumIsNat
    <3> QED BY <3>1, <3>3
  <2>5. \A t \in T : Height(OfGroup(PerTeamData(v), t)) = Sum(v.bars[t], S)
    <3>1. PICK m : m = v.bars
      OBVIOUS
    <3>2. \A t \in T : \A s \in S : m[t][s] \in Nat
      BY <2>4, <3>1
    <3> QED BY <1>3, <2>2, <3>1, <3>2, HeightOfGroup
  <2>6. ASSUME NEW t \in T PROVE Sum(v.bars[t], S) = Sum(Bar(kind, t), D)
    BY <1>2, <2>1, <2>3, AllServices
  <2> QED BY <2>2, <2>5, <2>6 DEF Shows
<1>14. /\ Readable(b.steals_per_team) /\ Readable(b.losses_per_team)
       /\ \A t \in T : Height(OfGroup(b.steals_per_team, t)) = Sum(Counts("capture", t), D)
       /\ \A t \in T : Height(OfGroup(b.losses_per_team, t)) = Sum(Losses(t), D)
  <2>1. /\ Readable(PerTeamData(steals))
        /\ \A t \in T : Height(OfGroup(PerTeamData(steals), t)) = Sum(Bar("steals", t), D)
    BY <1>5, <1>13
  <2>2. /\ Readable(PerTeamData(losses))
        /\ \A t \in T : Height(OfGroup(PerTeamData(losses), t)) = Sum(Bar("losses", t), D)
    BY <1>5, <1>13
  <2>3. \A t : Bar("steals", t) = Counts("capture", t) /\ Bar("losses", t) = Losses(t)
    BY DEF Bar
  <2> QED BY <1>6, <2>1, <2>2, <2>3
<1>15. /\ Readable(b.steals_per_service)
       /\ Height(b.steals_per_service.bars) = Sum(AllCaptures, D)
  <2>1. DOMAIN services = S /\ services = InServices(D, AllCaptures)
    BY <1>2, <1>5 DEF ObservedIs, InServices
  <2>2. PICK v, one, m : v = ServiceData(services) /\ one = {"captures"} /\ m = OneEach(services)
    OBVIOUS
  <2>3. Shows(v, S, one, m) /\ IsFiniteSet(one)
    BY <1>3, <2>1, <2>2, ServicesShow, FS_Singleton
  <2>4. \A s \in S : \A q \in one : m[s][q] = services[s]
    BY <2>1, <2>2 DEF OneEach
  <2>5. \A s \in S : services[s] \in Nat
    <3> SUFFICES ASSUME NEW s \in S PROVE services[s] \in Nat
      OBVIOUS
    <3>1. services[s] = Sum(InService(s, AllCaptures), D)
      BY <1>2, <2>1 DEF InServices
    <3>2. \A d \in D : InService(s, AllCaptures)[d] \in Nat
      BY CapturesAreNat DEF InService
    <3>3. Sum(InService(s, AllCaptures), D) \in Nat
      BY <3>2, SumIsNat
    <3> QED BY <3>1, <3>3
  <2>6. \A s \in S : \A q \in one : m[s][q] \in Nat
    BY <2>4, <2>5
  <2>7. PICK q : q \in one
    BY <2>2
  <2>8. Height(OfPart(v, q)) = Sum(Across(m, S, q), S)
    BY <1>3, <2>3, <2>6, <2>7, HeightOfPart
  <2>9. OfPart(v, q) = v.bars
    <3>1. \A x \in v.bars : x.part \in one
      BY <2>3 DEF Shows
    <3> QED BY <2>2, <2>7, <3>1 DEF OfPart
  <2>10. Across(m, S, q) = InServices(D, AllCaptures)
    BY <1>2, <2>1, <2>4, <2>7 DEF Across, InServices
  <2>11. Sum(InServices(D, AllCaptures), S) = Sum(AllCaptures, D)
    BY <1>2, CapturesAreNat, AllServices
  <2> QED BY <1>6, <2>2, <2>3, <2>8, <2>9, <2>10, <2>11 DEF Shows
<1>16. ASSUME NEW t \in T
       PROVE  /\ b.table[t].capture = Sum(Counts("capture", t), D)
              /\ Len(b.cumulative_steals[t]) = Sum(Counts("capture", t), D)
  <2>1. PICK v : v = Gathered(D, R)
    OBVIOUS
  <2>2. t \in TeamsOf(D, R)
    BY <1>2 DEF TeamsOf
  <2>3. t \in DOMAIN v.table /\ v.table[t] = RowOf(D, R, t)
    BY <2>1, <2>2, AllGathered DEF GatheredIs
  <2>4. b.table[t] = [v.table[t] EXCEPT !.points = TablePoints(v.table[t])]
    BY <1>1, <2>1, <2>3 DEF Board
  <2>5. b.table[t].capture = Sum(Counts("capture", t), D)
    BY <2>3, <2>4 DEF RowOf
  <2>6. t \in DOMAIN cumulative /\ cumulative[t] \in Seq(Nat) /\ Len(cumulative[t]) = Sum(Counts("capture", t), D)
    BY <1>2, <1>5 DEF ObservedIs
  <2>7. PICK s, n : s = cumulative[t] /\ n = Len(cumulative[t])
    OBVIOUS
  <2>8. n \in Nat /\ DOMAIN s = 1 .. n
    BY <2>6, <2>7
  <2>9. b.cumulative_steals[t] = [i \in DOMAIN s |-> [time |-> Sorted(s)[i], total |-> i]]
    BY <1>6, <2>6, <2>7 DEF CumulativeSteals
  <2>10. Len(b.cumulative_steals[t]) = n
    BY <2>8, <2>9
  <2> QED BY <2>5, <2>6, <2>7, <2>10
<1>17. Readable(c) /\ \A tick \in c.ticks : tick.group \in T
  BY <1>9 DEF Shows
<1>18. c = b.steals_losses_per_team
  BY <1>6, <1>8
<1>19. GraphsAgree(b)
  <2>1. \A t \in {tick.group : tick \in c.ticks} :
           /\ b.table[t].capture = Height(OfGroup(c, t) \cap OfPart(c, "stolen"))
           /\ Len(b.cumulative_steals[t]) = Height(OfGroup(c, t) \cap OfPart(c, "stolen"))
           /\ Height(OfGroup(b.steals_per_team, t)) = Height(OfGroup(c, t) \cap OfPart(c, "stolen"))
           /\ Height(OfGroup(b.losses_per_team, t)) = Height(OfGroup(c, t) \cap OfPart(c, "lost"))
    BY <1>11, <1>14, <1>16, <1>17
  <2>2. /\ Height(OfPart(c, "stolen")) = Height(OfPart(c, "lost"))
        /\ Height(b.steals_per_service.bars) = Height(OfPart(c, "lost"))
    BY <1>12, <1>15
  <2>3. \A chart \in {c, b.steals_per_team, b.losses_per_team, b.steals_per_service} : Readable(chart)
    BY <1>14, <1>15, <1>17
  <2> QED BY <1>18, <2>1, <2>2, <2>3 DEF GraphsAgree
<1> QED BY <1>1, <1>19

\* Whatever is recorded while a board is made, its graphs tell of the same captures:
\* for every team the row, the curve of steals and the bars of the three charts by
\* team, and in all as many captures lost as stolen, by team and by service; no bar
\* is drawn over another and every tick is in the middle of its group.
THEOREM GraphsTellTheSame == Spec => []GraphsConsistent
<1>1. PageInv => GraphsConsistent
  <2> SUFFICES ASSUME PageInv, NEW r \in Reqs, served[r] # NoBoard
               PROVE  GraphsAgree(BoardOf(served[r]))
    BY DEF GraphsConsistent
  <2>1. BoardIs(served[r], docs, ranks, scans)
    BY DEF PageInv, BoardsInv
  <2> QED BY <2>1, BoardAgrees DEF BoardIs, Collection, BoardOf
<1> QED BY InvInit, InvStep, PageInit, PageStep, <1>1, PTL DEF Spec
=============================================================================
