-------------------------- MODULE UploadLimitsProofs -------------------------
(***************************************************************************)
(* Type correctness of UploadLimits; no upload uncounted; how many uploads *)
(* of a minute and bytes of an hour the limits let through, over Redis and *)
(* the memories of all processes.                                          *)
(***************************************************************************)
EXTENDS UploadLimits, FiniteSetTheorems, SequenceTheorems, TLAPS

-----------------------------------------------------------------------------
(* Sums over finite sets.  The sum of f over S is the number of pairs of an*)
(* element and a number below its value, so a sum is reasoned about as the *)
(* cardinality of a set.                                                   *)

\* The function that SumFunctionOnSet is defined by, and the pairs it counts.
Summing(f, S, g) ==
  g = [T \in SUBSET S |-> IF T = {} THEN 0 ELSE f[CHOOSE x \in T : TRUE] + g[T \ {CHOOSE x \in T : TRUE}]]

Pile(f, T) == {e \in T \X Nat : e[2] < f[e[1]]}

LEMMA OneSum ==
  ASSUME NEW f, NEW S, IsFiniteSet(S), NEW g, NEW h, Summing(f, S, g), Summing(f, S, h)
  PROVE  g = h
<1> DEFINE Differ == {T \in SUBSET S : g[T] # h[T]}
<1>1. SUFFICES ASSUME Differ # {} PROVE FALSE
  BY Zenon DEF Summing
<1>2. IsWellFoundedOn(StrictSubsetOrdering(S), SUBSET S)
  BY FS_StrictSubsetOrderingWellFounded, FS_FiniteSubsetsOfFinite
<1>3. Differ \subseteq SUBSET S
  OBVIOUS
<1> HIDE DEF Differ
<1>4. PICK T \in Differ : \A V \in Differ : <<V, T>> \notin StrictSubsetOrdering(S)
  BY <1>1, <1>2, <1>3, WFMin
<1> USE DEF Differ
<1> DEFINE c == CHOOSE x \in T : TRUE
<1>5. T \in SUBSET S /\ g[T] # h[T]
  OBVIOUS
<1>6. g[T] = IF T = {} THEN 0 ELSE f[c] + g[T \ {c}]
  BY <1>5, Zenon DEF Summing
<1>7. h[T] = IF T = {} THEN 0 ELSE f[c] + h[T \ {c}]
  BY <1>5, Zenon DEF Summing
<1>8. T # {} /\ g[T \ {c}] # h[T \ {c}]
  BY <1>5, <1>6, <1>7, Zenon
<1>9. c \in T
  BY <1>8, Zenon
<1>10. T \ {c} \in Differ
  BY <1>5, <1>8
<1>11. <<T \ {c}, T>> \in StrictSubsetOrdering(S)
  BY <1>5, <1>9 DEF StrictSubsetOrdering
<1> QED  BY <1>4, <1>10, <1>11

LEMMA PileSize ==
  ASSUME NEW f, NEW S, IsFiniteSet(S), \A x \in S : f[x] \in Nat
  PROVE  /\ IsFiniteSet(Pile(f, S)) /\ Cardinality(Pile(f, S)) \in Nat
         /\ \A x \in S : Cardinality(Pile(f, S)) = Cardinality(Pile(f, S \ {x})) + f[x]
<1>1. ASSUME NEW x \in S
      PROVE  /\ IsFiniteSet({x} \X (0 .. f[x] - 1)) /\ Cardinality({x} \X (0 .. f[x] - 1)) = f[x]
  <2>1. IsFiniteSet(0 .. f[x] - 1) /\ Cardinality(0 .. f[x] - 1) = f[x]
    BY FS_Interval
  <2>2. IsFiniteSet({x}) /\ Cardinality({x}) = 1
    BY FS_Singleton
  <2> DEFINE I == 0 .. f[x] - 1
  <2> HIDE DEF I
  <2>3. IsFiniteSet({x} \X I) /\ Cardinality({x} \X I) = Cardinality({x}) * Cardinality(I)
    BY <2>1, <2>2, FS_Product DEF I
  <2>4. Cardinality({x} \X I) = f[x]
    BY <2>1, <2>2, <2>3 DEF I
  <2> QED  BY <2>3, <2>4 DEF I
<1>2. IsFiniteSet(Pile(f, S))
  <2> DEFINE Layers == {{x} \X (0 .. f[x] - 1) : x \in S}
  <2>1. IsFiniteSet(Layers)
    <3> DEFINE F == [x \in S |-> {x} \X (0 .. f[x] - 1)]
    <3>1. F \in Surjection(S, Layers)
      BY DEF Surjection
    <3> QED  BY <3>1, FS_Surjection
  <2>2. \A T \in Layers : IsFiniteSet(T)
    BY <1>1
  <2>3. IsFiniteSet(UNION Layers)
    BY <2>1, <2>2, FS_UNION
  <2>4. ASSUME NEW e \in Pile(f, S) PROVE e \in UNION Layers
    <3>1. e \in S \X Nat /\ e[2] < f[e[1]]
      BY DEF Pile
    <3>2. e \in {e[1]} \X (0 .. f[e[1]] - 1)
      BY <3>1
    <3> QED  BY <3>1, <3>2
  <2> QED  BY <2>3, <2>4, FS_Subset, Zenon
<1>3. ASSUME NEW x \in S
      PROVE  Cardinality(Pile(f, S)) = Cardinality(Pile(f, S \ {x})) + f[x]
  <2> DEFINE L == {x} \X (0 .. f[x] - 1)
             R == Pile(f, S \ {x})
  <2>1. R \subseteq Pile(f, S)
    BY DEF Pile
  <2>2. IsFiniteSet(R) /\ Cardinality(R) \in Nat
    BY <2>1, <1>2, FS_Subset, FS_CardinalityType, Zenon
  <2>3. Pile(f, S) = R \cup L
    BY DEF Pile
  <2>4. R \cap L = {}
    BY DEF Pile
  <2>5. Cardinality(R \cup L) = Cardinality(R) + Cardinality(L) - Cardinality(R \cap L)
    BY <2>2, <1>1, FS_Union, Zenon
  <2>6. Cardinality(R \cap L) = 0 /\ Cardinality(L) = f[x]
    BY <2>4, <1>1, FS_EmptySet, Zenon
  <2> HIDE DEF L, R
  <2>7. Cardinality(Pile(f, S)) = Cardinality(R) + f[x] - 0
    BY <2>3, <2>5, <2>6, Zenon
  <2>8. f[x] \in Nat
    OBVIOUS
  <2>9. Cardinality(R) + f[x] - 0 = Cardinality(R) + f[x]
    BY <2>2, <2>8
  <2> QED  BY <2>7, <2>9, Zenon DEF R
<1> QED  BY <1>2, <1>3, FS_CardinalityType, Zenon

LEMMA SumIsPile ==
  ASSUME NEW f, NEW S, IsFiniteSet(S), \A x \in S : f[x] \in Nat
  PROVE  SumFunctionOnSet(f, S) = Cardinality(Pile(f, S))
<1> DEFINE G == [T \in SUBSET S |-> Cardinality(Pile(f, T))]
<1>1. ASSUME NEW T \in SUBSET S
      PROVE  G[T] = IF T = {} THEN 0
                    ELSE f[CHOOSE x \in T : TRUE] + G[T \ {CHOOSE x \in T : TRUE}]
  <2>1. CASE T = {}
    <3>1. Pile(f, T) = {}
      BY <2>1 DEF Pile
    <3> QED  BY <2>1, <3>1, FS_EmptySet
  <2>2. CASE T # {}
    <3> DEFINE c == CHOOSE x \in T : TRUE
    <3>1. c \in T
      BY <2>2, Zenon
    <3> HIDE DEF c
    <3>2. IsFiniteSet(T) /\ IsFiniteSet(T \ {c})
      BY FS_Subset, FS_RemoveElement, Zenon
    <3>3. Cardinality(Pile(f, T)) = Cardinality(Pile(f, T \ {c})) + f[c]
      BY <3>1, <3>2, PileSize
    <3>4. Cardinality(Pile(f, T \ {c})) \in Nat
      BY <3>2, PileSize
    <3>5. f[c] \in Nat
      BY <3>1
    <3>6. Cardinality(Pile(f, T)) = f[c] + Cardinality(Pile(f, T \ {c}))
      BY <3>3, <3>4, <3>5
    <3>7. G[T] = f[c] + G[T \ {c}]
      BY <3>6
    <3> QED  BY <2>2, <3>7 DEF c
  <2> QED  BY <2>1, <2>2
<1>2. Summing(f, S, G)
  <2> DEFINE H == [T \in SUBSET S |-> IF T = {} THEN 0
                    ELSE f[CHOOSE x \in T : TRUE] + G[T \ {CHOOSE x \in T : TRUE}]]
  <2>1. \A T \in SUBSET S : G[T] = H[T]
    BY <1>1
  <2>2. G = H
    BY <2>1
  <2> HIDE DEF G
  <2> QED  BY <2>2, Zenon DEF Summing
<1> HIDE DEF G
<1>3. \A g : Summing(f, S, g) => g = G
  BY <1>2, OneSum
<1>4. SumFunctionOnSet(f, S) = G[S]
  BY <1>2, <1>3, Zenon DEF SumFunctionOnSet, FoldFunctionOnSet, MapThenFoldSet, Summing
<1> QED  BY <1>4 DEF G

LEMMA SumNat ==
  ASSUME NEW f, NEW S, IsFiniteSet(S), \A x \in S : f[x] \in Nat
  PROVE  SumFunctionOnSet(f, S) \in Nat
BY SumIsPile, PileSize

LEMMA SumSplit ==
  ASSUME NEW f, NEW S, IsFiniteSet(S), \A x \in S : f[x] \in Nat, NEW x \in S
  PROVE  /\ SumFunctionOnSet(f, S) = SumFunctionOnSet(f, S \ {x}) + f[x]
         /\ SumFunctionOnSet(f, S \ {x}) \in Nat
<1>1. IsFiniteSet(S \ {x})
  BY FS_RemoveElement
<1>2. SumFunctionOnSet(f, S \ {x}) = Cardinality(Pile(f, S \ {x}))
  BY <1>1, SumIsPile
<1>3. SumFunctionOnSet(f, S) = Cardinality(Pile(f, S))
  BY SumIsPile
<1>4. Cardinality(Pile(f, S)) = Cardinality(Pile(f, S \ {x})) + f[x]
  BY PileSize
<1>5. SumFunctionOnSet(f, S \ {x}) \in Nat
  BY <1>1, SumNat
<1> QED  BY <1>2, <1>3, <1>4, <1>5, Zenon

LEMMA SumMono ==
  ASSUME NEW f, NEW g, NEW S, NEW T, IsFiniteSet(T), S \subseteq T,
         \A x \in S : f[x] \in Nat, \A x \in T : g[x] \in Nat, \A x \in S : f[x] <= g[x]
  PROVE  SumFunctionOnSet(f, S) <= SumFunctionOnSet(g, T)
<1>1. IsFiniteSet(S)
  BY FS_Subset
<1>2. Pile(f, S) \subseteq Pile(g, T)
  BY DEF Pile
<1>3. IsFiniteSet(Pile(g, T))
  BY PileSize
<1>4. Cardinality(Pile(f, S)) <= Cardinality(Pile(g, T))
  BY <1>2, <1>3, FS_Subset
<1> QED  BY <1>1, <1>4, SumIsPile

LEMMA SumSame ==
  ASSUME NEW f, NEW g, NEW S, IsFiniteSet(S),
         \A x \in S : f[x] \in Nat, \A x \in S : f[x] = g[x]
  PROVE  SumFunctionOnSet(f, S) = SumFunctionOnSet(g, S)
<1>1. Pile(f, S) = Pile(g, S)
  BY DEF Pile
<1>2. \A x \in S : g[x] \in Nat
  OBVIOUS
<1>3. SumFunctionOnSet(f, S) = Cardinality(Pile(f, S))
  BY SumIsPile
<1>4. SumFunctionOnSet(g, S) = Cardinality(Pile(g, S))
  BY <1>2, SumIsPile
<1> QED  BY <1>1, <1>3, <1>4, Zenon

LEMMA SumBelow ==
  ASSUME NEW f, NEW S, IsFiniteSet(S), NEW K \in Nat,
         \A x \in S : f[x] \in Nat /\ f[x] <= K
  PROVE  SumFunctionOnSet(f, S) <= Cardinality(S) * K
<1> DEFINE I == 0 .. K - 1
<1>1. IsFiniteSet(I) /\ Cardinality(I) = K
  BY FS_Interval
<1>2. Pile(f, S) \subseteq S \X I
  BY DEF Pile
<1> HIDE DEF I
<1>3. IsFiniteSet(S \X I) /\ Cardinality(S \X I) = Cardinality(S) * Cardinality(I)
  BY <1>1, FS_Product
<1>4. Cardinality(Pile(f, S)) <= Cardinality(S \X I)
  BY <1>2, <1>3, FS_Subset
<1>5. SumFunctionOnSet(f, S) = Cardinality(Pile(f, S))
  BY SumIsPile
<1> QED  BY <1>1, <1>3, <1>4, <1>5

\* One summand grows by d, the others stay.
LEMMA SumGrows ==
  ASSUME NEW f, NEW g, NEW S, IsFiniteSet(S), NEW x \in S, NEW d \in Nat,
         \A y \in S : f[y] \in Nat, g[x] = f[x] + d, \A y \in S \ {x} : g[y] = f[y]
  PROVE  SumFunctionOnSet(g, S) = SumFunctionOnSet(f, S) + d
<1>1. \A y \in S : g[y] \in Nat
  OBVIOUS
<1>2. SumFunctionOnSet(g, S) = SumFunctionOnSet(g, S \ {x}) + g[x]
  BY <1>1, SumSplit
<1>3. /\ SumFunctionOnSet(f, S) = SumFunctionOnSet(f, S \ {x}) + f[x]
      /\ SumFunctionOnSet(f, S \ {x}) \in Nat
  BY SumSplit
<1>4. SumFunctionOnSet(g, S \ {x}) = SumFunctionOnSet(f, S \ {x})
  <2>1. IsFiniteSet(S \ {x})
    BY FS_RemoveElement
  <2>2. \A y \in S \ {x} : f[y] \in Nat /\ f[y] = g[y]
    OBVIOUS
  <2> QED  BY <2>1, <2>2, SumSame
<1>5. ASSUME NEW a \in Nat, NEW b \in Nat
      PROVE  a + (b + d) = (a + b) + d
  OBVIOUS
<1>6. f[x] \in Nat
  OBVIOUS
<1> QED  BY <1>2, <1>3, <1>4, <1>5, <1>6, Zenon

LEMMA SumEmpty ==
  ASSUME NEW f PROVE SumFunctionOnSet(f, {}) = 0
<1>1. SumFunctionOnSet(f, {}) = Cardinality(Pile(f, {}))
  BY FS_EmptySet, SumIsPile
<1>2. Pile(f, {}) = {}
  BY DEF Pile
<1> QED  BY <1>1, <1>2, FS_EmptySet

\* A finite set of numbers that has a member has a greatest one.
LEMMA MaxIsGreatest ==
  ASSUME NEW S, IsFiniteSet(S), S # {}, S \subseteq Nat
  PROVE  \E x \in S : \A y \in S : y <= x
<1> DEFINE Without == {T \in SUBSET S : T # {} /\ ~ \E x \in T : \A y \in T : y <= x}
<1>1. SUFFICES ASSUME Without # {} PROVE FALSE
  OBVIOUS
<1>2. IsWellFoundedOn(StrictSubsetOrdering(S), SUBSET S)
  BY FS_StrictSubsetOrderingWellFounded, FS_FiniteSubsetsOfFinite
<1>3. Without \subseteq SUBSET S
  OBVIOUS
<1> HIDE DEF Without
<1>4. PICK T \in Without : \A V \in Without : <<V, T>> \notin StrictSubsetOrdering(S)
  BY <1>1, <1>2, <1>3, WFMin
<1> USE DEF Without
<1>5. PICK c \in T : TRUE
  OBVIOUS
<1>6. PICK d \in T : ~(d <= c)
  BY <1>5
<1>7. <<T \ {c}, T>> \in StrictSubsetOrdering(S)
  BY <1>5 DEF StrictSubsetOrdering
<1>8. T \ {c} \notin Without
  BY <1>4, <1>7
<1>9. PICK x \in T \ {c} : \A y \in T \ {c} : y <= x
  BY <1>6, <1>8
<1>10. d <= x /\ T \subseteq Nat
  <2>1. d # c
    <3>1. c \in Nat
      OBVIOUS
    <3> QED  BY <1>6, <3>1
  <2>2. d \in T \ {c}
    BY <2>1
  <2> QED  BY <1>9, <2>2
<1>11. c <= x
  BY <1>5, <1>6, <1>9, <1>10
<1>12. \A y \in T : y <= x
  BY <1>9, <1>11
<1> QED  BY <1>9, <1>12

-----------------------------------------------------------------------------
(* What a window keeps: PruneShape.                                        *)

\* What a WindowCounter keeps of an upload.
Event == [at : Minutes, size : Sizes]

LEMMA MinOf ==
  ASSUME NEW n \in Nat, NEW S, S \subseteq 0 .. n, S # {}
  PROVE  Min(S) \in S /\ \A y \in S : Min(S) <= y
<1> DEFINE D == {d \in 0 .. n : n - d \in S}
<1>1. D \subseteq 0 .. n /\ D \subseteq Nat
  OBVIOUS
<1>2. \A y \in S : n - y \in D /\ n - (n - y) = y
  OBVIOUS
<1>3. D # {}
  BY <1>2
<1>4. IsFiniteSet(D)
  <2>1. IsFiniteSet(0 .. n)
    BY FS_Interval
  <2> QED  BY <1>1, <2>1, FS_Subset, Zenon
<1>5. PICK d \in D : \A e \in D : e <= d
  <2> HIDE DEF D
  <2> QED  BY <1>1, <1>3, <1>4, MaxIsGreatest
<1>6. n - d \in S
  OBVIOUS
<1>7. ASSUME NEW y \in S PROVE n - d <= y
  <2>1. n - y <= d
    BY <1>2, <1>5
  <2> QED  BY <2>1, <1>1
<1> QED  BY <1>6, <1>7, Zenon DEF Min

\* What pruning leaves is the window without its first k entries, all of which
\* are older than a minute.
LEMMA PruneShape ==
  ASSUME NEW w \in Seq(Event), NEW t \in Nat
  PROVE  \E k \in 0 .. Len(w) :
           /\ Prune(w, t, 1) = SubSeq(w, k + 1, Len(w))
           /\ Prune(w, t, 1) \in Seq(Event)
           /\ Len(Prune(w, t, 1)) = Len(w) - k
           /\ \A i \in 1 .. Len(w) - k : Prune(w, t, 1)[i] = w[i + k]
           /\ \A i \in 1 .. k : w[i].at <= t - 1
<1> DEFINE I == {i \in 1 .. Len(w) : w[i].at > t - 1}
           m == IF I # {} THEN Min(I) ELSE 0
<1>1. Prune(w, t, 1) = IF m = 0 THEN <<>> ELSE SubSeq(w, m, Len(w))
  BY Zenon DEF Prune, SelectInSeq
<1>2. ASSUME NEW i \in 1 .. Len(w) PROVE w[i] \in Event /\ w[i].at \in Int
  <2>1. w[i] \in Event
    BY ElementOfSeq
  <2> QED  BY <2>1 DEF Event, Minutes
<1>3. Len(w) \in Nat
  BY LenProperties
<1>4. CASE I = {}
  <2>1. m = 0 /\ Prune(w, t, 1) = <<>>
    BY <1>1, <1>4, Zenon
  <2>2. SubSeq(w, Len(w) + 1, Len(w)) = <<>>
    BY <1>3, SubSeqEmpty
  <2>3. \A i \in 1 .. Len(w) : w[i].at <= t - 1
    BY <1>2, <1>4
  <2>4. <<>> \in Seq(Event) /\ Len(<<>>) = Len(w) - Len(w)
    BY <1>3, EmptySeq
  <2>5. Len(w) \in 0 .. Len(w) /\ \A i \in 1 .. Len(w) - Len(w) : FALSE
    BY <1>3
  <2> QED  BY <2>1, <2>2, <2>3, <2>4, <2>5, Zenon
<1>5. CASE I # {}
  <2>1. I \subseteq 0 .. Len(w)
    BY <1>3
  <2>2. Min(I) \in I /\ \A y \in I : Min(I) <= y
    BY <1>3, <1>5, <2>1, MinOf, Zenon
  <2> HIDE DEF I
  <2>3. m = Min(I)
    BY <1>5, Zenon
  <2> HIDE DEF m
  <2> USE DEF I
  <2>4. m \in 1 .. Len(w) /\ \A i \in 1 .. m - 1 : i \notin I
    <3>1. m \in I /\ \A y \in I : m <= y
      BY <2>2, <2>3, Zenon
    <3>2. I \subseteq 1 .. Len(w)
      OBVIOUS
    <3>3. m \in 1 .. Len(w)
      BY <3>1, <3>2
    <3> HIDE DEF I
    <3>4. \A i \in 1 .. m - 1 : i \notin I
      BY <3>1, <3>3, <1>3
    <3> QED  BY <3>3, <3>4
  <2>5. Prune(w, t, 1) = SubSeq(w, m, Len(w))
    BY <1>1, <2>4
  <2> HIDE DEF I
  <2>6. \A i \in m .. Len(w) : w[i] \in Event
    BY <2>4, <1>2
  <2>7. /\ SubSeq(w, m, Len(w)) \in Seq(Event)
        /\ Len(SubSeq(w, m, Len(w))) = IF m <= Len(w) THEN Len(w) - m + 1 ELSE 0
        /\ \A i \in 1 .. Len(w) - m + 1 : SubSeq(w, m, Len(w))[i] = w[m + i - 1]
    BY <1>3, <2>4, <2>6, SubSeqProperties
  <2>8. \A i \in 1 .. m - 1 : w[i].at <= t - 1
    BY <2>4, <1>2, <1>3 DEF I
  <2>9. PICK k : k = m - 1
    OBVIOUS
  <2>10. k \in 0 .. Len(w) /\ m = k + 1
    BY <2>4, <2>9, <1>3
  <2>11. Len(SubSeq(w, k + 1, Len(w))) = Len(w) - k
    BY <2>7, <2>10, <2>4, <1>3
  <2>12. \A i \in 1 .. Len(w) - k : SubSeq(w, k + 1, Len(w))[i] = w[i + k]
    <3>1. \A i \in 1 .. Len(w) - k : i \in 1 .. Len(w) - m + 1 /\ m + i - 1 = i + k
      BY <2>10, <1>3
    <3> QED  BY <2>7, <2>10, <3>1
  <2>13. \A i \in 1 .. k : w[i].at <= t - 1
    BY <2>8, <2>9
  <2> QED  BY <2>5, <2>7, <2>10, <2>11, <2>12, <2>13, Zenon
<1> QED  BY <1>4, <1>5

-----------------------------------------------------------------------------
(* The steps of a request, and the types of what they write.               *)

Stages == {"idle", "memory", "ask", "sum", "bump", "book"}

LEMMA BlankTyped == Blank \in Locals
<1>1. 0 \in Minutes
  BY LimitsAssumption DEF Minutes
<1> QED  BY <1>1, EmptySeq DEF Blank, Locals

LEMMA Went ==
  ASSUME TypeOK, NEW r \in Requests, NEW p, NEW l, Go(r, p, l), p \in Stages, l \in Locals
  PROVE  /\ pc' \in [Requests -> Stages] /\ loc' \in [Requests -> Locals]
         /\ pc'[r] = p /\ loc'[r] = l
         /\ \A q \in Requests \ {r} : pc'[q] = pc[q] /\ loc'[q] = loc[q]
BY DEF Go, TypeOK, Stages

LEMMA Answered ==
  ASSUME TypeOK, NEW p \in Procs, NEW last \in BOOLEAN, NEW o \in Outcomes,
         Command(p, FALSE, last, TRUE, o)
  PROVE  /\ HandleTypeOK'
         /\ enabled' = enabled
         /\ o = "answered" => faults' = faults
         /\ o # "answered" => faults' = faults + 1
         /\ o = "answered" /\ (\A q \in Procs : ~blocked[q]) => \A q \in Procs : ~blocked'[q]
<1>1. blocked \in [Procs -> BOOLEAN] /\ faults \in Nat /\ faults <= MaxFaults /\ MaxFaults \in Nat
  BY RedisAssumption DEF TypeOK, HandleTypeOK
<1>2. o = "answered" \/ (faults < MaxFaults /\ o \in {"lost", "failed"})
  BY DEF Command
<1>3. faults' = IF o \in {"lost", "failed"} THEN faults + 1 ELSE faults
  BY DEF Command
<1>4. faults' \in 0 .. MaxFaults
  BY <1>1, <1>2, <1>3
<1>5. blocked' \in [Procs -> BOOLEAN]
  <2> DEFINE v == (blocked[p] \/ (TRUE /\ o \in {"lost", "failed"})) /\ ~(TRUE /\ last /\ o = "answered")
  <2>1. blocked' = [blocked EXCEPT ![p] = v]
    BY Zenon DEF Command
  <2>2. v \in BOOLEAN
    OBVIOUS
  <2> HIDE DEF v
  <2> QED  BY <1>1, <2>1, <2>2
<1>6. o = "answered" /\ (\A q \in Procs : ~blocked[q]) => \A q \in Procs : ~blocked'[q]
  <2> SUFFICES ASSUME o = "answered", \A q \in Procs : ~blocked[q], NEW q \in Procs
               PROVE  ~blocked'[q]
    OBVIOUS
  <2> DEFINE v == (blocked[p] \/ (TRUE /\ o \in {"lost", "failed"})) /\ ~(TRUE /\ last /\ o = "answered")
  <2>1. blocked' = [blocked EXCEPT ![p] = v]
    BY Zenon DEF Command
  <2>2. ~v
    OBVIOUS
  <2> HIDE DEF v
  <2>3. CASE q = p
    BY <1>1, <2>1, <2>2, <2>3
  <2>4. CASE q # p
    BY <1>1, <2>1, <2>4
  <2> QED  BY <2>3, <2>4
<1>7. enabled' = enabled
  BY DEF Command
<1> QED  BY <1>2, <1>3, <1>4, <1>5, <1>6, <1>7 DEF HandleTypeOK, TypeOK

LEMMA ScopesTyped ==
  ASSUME NEW a \in Signed \cup Anons
  PROVE  ScopesOf(a) \in Seq(Scopes) /\ ScopesOf(a) # <<>>
<1>1. a \in Scopes /\ Global \in Scopes
  BY DEF Scopes
<1>2. CASE a \in Anons
  BY <1>1, <1>2 DEF ScopesOf
<1>3. CASE a \notin Anons
  BY <1>1, <1>3 DEF ScopesOf
<1> QED  BY <1>2, <1>3

LEMMA LocalsTyped ==
  ASSUME TypeOK, NEW r \in Requests
  PROVE  /\ loc[r] \in Locals
         /\ loc[r].proc \in Procs \cup {NoProc} /\ loc[r].todo \in Seq(Scopes)
         /\ loc[r].scopes \in Seq(Scopes) /\ loc[r].size \in Sizes \cup {0} /\ loc[r].at \in Minutes
         /\ loc[r].size \in Nat /\ loc[r].at \in Nat
<1>1. loc[r] \in Locals
  BY DEF TypeOK
<1>2. \A x \in Sizes \cup {0} : x \in Nat
  BY LimitsAssumption
<1>3. \A x \in Minutes : x \in Nat
  BY DEF Minutes
<1> QED  BY <1>1, <1>2, <1>3 DEF Locals

LEMMA FallbackTyped ==
  ASSUME TypeOK, NEW r \in Requests
  PROVE  [loc[r] EXCEPT !.todo = <<>>, !.at = now] \in Locals
<1>1. loc[r] \in Locals /\ now \in Minutes
  BY DEF TypeOK
<1> QED  BY <1>1, EmptySeq DEF Locals

LEMMA EnterTyped ==
  ASSUME NEW s \in Scopes
  PROVE  /\ Enter(s) \in Stages \ {"idle", "memory", "book"}
         /\ Enter(s) = "ask" => Rpm[s] > 0
         /\ Enter(s) \in {"sum", "bump"} => Rpm[s] = 0
         /\ Enter(s) = "bump" => ~(Bph[s] > 0)
<1>1. Rpm[s] > 0 \/ (Rpm[s] = 0 /\ Bph[s] > 0) \/ (Rpm[s] = 0 /\ ~(Bph[s] > 0))
  BY LimitsAssumption
<1>2. ~(Rpm[s] > 0 /\ Rpm[s] = 0)
  BY LimitsAssumption
<1> DEFINE P == Rpm[s] > 0
           Q == Rpm[s] = 0
           R == Bph[s] > 0
           e == CASE P -> "ask" [] Q /\ R -> "sum" [] OTHER -> "bump"
<1>3. e = Enter(s)
  BY Zenon DEF Enter
<1>4. (P \/ (Q /\ R) \/ (Q /\ ~R)) /\ ~(P /\ Q)
  BY <1>1, <1>2, Zenon
<1> HIDE DEF P, Q, R
<1>5. CASE P
  <2>1. e = "ask"
    BY <1>4, <1>5, Zenon
  <2> QED  BY <2>1, <1>3, <1>5 DEF Stages, P
<1>6. CASE Q /\ R
  <2>1. e = "sum"
    BY <1>4, <1>6, Zenon
  <2> QED  BY <2>1, <1>3, <1>6 DEF Stages, Q
<1>7. CASE Q /\ ~R
  <2>1. e = "bump"
    BY <1>4, <1>7, Zenon
  <2> QED  BY <2>1, <1>3, <1>7 DEF Stages, Q, R
<1> QED  BY <1>4, <1>5, <1>6, <1>7, Zenon

-----------------------------------------------------------------------------
(* What a command answers, and what it leaves in Redis.                    *)

\* A command with a fault (lost, or failed), and one without.
Faulted == faults' = faults + 1
Calmly == /\ faults' = faults
          /\ (\A q \in Procs : ~blocked[q]) => \A q \in Procs : ~blocked'[q]

LEMMA AskEffect ==
  ASSUME TypeOK, NEW r \in Requests, Proc(r) \in Procs, Ask(r)
  PROVE  /\ pc[r] = "ask" /\ HandleTypeOK' /\ enabled' = enabled
         /\ now' = now /\ count' = count /\ windows' = windows
         /\ begun' = begun /\ admitted' = admitted
         /\ \/ Faulted /\ Fallback(r)
            \/ Calmly /\ Done(r)
            \/ /\ Calmly /\ ~(count[Scope(r)][loc[r].at].n >= Rpm[Scope(r)])
               /\ Go(r, IF Bph[Scope(r)] > 0 THEN "sum" ELSE "bump", loc[r])
<1> DEFINE Over == count[Scope(r)][loc[r].at].n >= Rpm[Scope(r)]
           Pass == Go(r, IF Bph[Scope(r)] > 0 THEN "sum" ELSE "bump", loc[r])
<1>1. PICK o \in Outcomes :
         /\ Command(Proc(r), FALSE, FALSE, TRUE, o)
         /\ CASE o # "answered" -> Fallback(r)
              [] o = "answered" /\ Over -> Done(r)
              [] OTHER -> Pass
  BY Zenon DEF Ask
<1>2. /\ pc[r] = "ask" /\ now' = now /\ count' = count /\ windows' = windows
      /\ begun' = begun /\ admitted' = admitted
  BY DEF Ask
<1>3. /\ HandleTypeOK' /\ enabled' = enabled
      /\ o = "answered" => faults' = faults
      /\ o # "answered" => faults' = faults + 1
      /\ o = "answered" /\ (\A q \in Procs : ~blocked[q]) => \A q \in Procs : ~blocked'[q]
  BY <1>1, Answered
<1> HIDE DEF Over, Pass
<1>7. \/ Faulted /\ Fallback(r)
      \/ Calmly /\ Done(r)
      \/ Calmly /\ ~Over /\ Pass
  <2>1. CASE o # "answered"
    BY <1>1, <1>3, <2>1, Zenon DEF Faulted
  <2>2. CASE o = "answered" /\ Over
    BY <1>1, <1>3, <2>2, Zenon DEF Calmly
  <2>3. CASE o = "answered" /\ ~Over
    BY <1>1, <1>3, <2>3, Zenon DEF Calmly
  <2> QED  BY <2>1, <2>2, <2>3, Zenon
<1> QED  BY <1>2, <1>3, <1>7, Zenon DEF Over, Pass

\* The counters after the HDEL of Sum.
Trimmed(r) ==
  [count EXCEPT ![Scope(r)] =
    [m \in Minutes |-> IF m < Oldest(r) THEN [@[m] EXCEPT !.bytes = 0] ELSE @[m]]]

LEMMA CountTyped ==
  ASSUME TypeOK, NEW s \in Scopes, NEW m \in Minutes
  PROVE  /\ count[s] \in [Minutes -> [n : Nat, bytes : Nat]]
         /\ count[s][m] \in [n : Nat, bytes : Nat]
         /\ count[s][m].n \in Nat /\ count[s][m].bytes \in Nat
         /\ admitted[s] \in [Minutes -> [n : Nat, bytes : Nat]]
         /\ admitted[s][m] \in [n : Nat, bytes : Nat]
         /\ admitted[s][m].n \in Nat /\ admitted[s][m].bytes \in Nat
BY DEF TypeOK, Tally

LEMMA TrimFacts ==
  ASSUME TypeOK, NEW r \in Requests, Scope(r) \in Scopes
  PROVE  /\ Trimmed(r) \in Tally
         /\ \A s \in Scopes : s # Scope(r) => Trimmed(r)[s] = count[s]
         /\ \A m \in Minutes :
              Trimmed(r)[Scope(r)][m] =
                IF m < Oldest(r) THEN [count[Scope(r)][m] EXCEPT !.bytes = 0]
                ELSE count[Scope(r)][m]
<1> DEFINE s0 == Scope(r)
           c == [m \in Minutes |-> IF m < Oldest(r) THEN [count[s0][m] EXCEPT !.bytes = 0]
                                   ELSE count[s0][m]]
<1>1. Trimmed(r) = [count EXCEPT ![s0] = c]
  BY Zenon DEF Trimmed
<1>2. c \in [Minutes -> [n : Nat, bytes : Nat]]
  BY CountTyped
<1>3. \A m \in Minutes : c[m] = IF m < Oldest(r) THEN [count[s0][m] EXCEPT !.bytes = 0]
                                ELSE count[s0][m]
  OBVIOUS
<1> HIDE DEF c
<1>4. count \in [Scopes -> [Minutes -> [n : Nat, bytes : Nat]]]
  BY DEF TypeOK, Tally
<1>5. Trimmed(r)[s0] = c
  BY <1>1, <1>4
<1>6. \A s \in Scopes : s # s0 => Trimmed(r)[s] = count[s]
  BY <1>1, <1>4
<1>7. Trimmed(r) \in Tally
  BY <1>1, <1>2, <1>4 DEF Tally
<1> QED  BY <1>3, <1>5, <1>6, <1>7

LEMMA SumEffect ==
  ASSUME TypeOK, NEW r \in Requests, Proc(r) \in Procs, Sum(r)
  PROVE  /\ pc[r] = "sum" /\ HandleTypeOK' /\ enabled' = enabled
         /\ now' = now /\ windows' = windows
         /\ begun' = begun /\ admitted' = admitted
         /\ \/ Faulted /\ Fallback(r) /\ count' \in {count, Trimmed(r)}
            \/ Calmly /\ Done(r) /\ count' = Trimmed(r)
            \/ /\ Calmly
               /\ ~(Booked(count[Scope(r)], {m \in Minutes : m >= Oldest(r)}) + loc[r].size > Bph[Scope(r)])
               /\ Go(r, "bump", loc[r]) /\ count' = Trimmed(r)
<1> DEFINE Over == Booked(count[Scope(r)], {m \in Minutes : m >= Oldest(r)}) + loc[r].size > Bph[Scope(r)]
           Pass == Go(r, "bump", loc[r])
<1>1. PICK o \in Outcomes :
         /\ Command(Proc(r), FALSE, FALSE, TRUE, o)
         /\ CASE o # "answered" -> Fallback(r)
              [] o = "answered" /\ Over -> Done(r)
              [] OTHER -> Pass
         /\ count' = IF TookEffect(o) THEN Trimmed(r) ELSE count
  BY Zenon DEF Sum, Trimmed
<1>2. /\ pc[r] = "sum" /\ now' = now /\ windows' = windows
      /\ begun' = begun /\ admitted' = admitted
  BY DEF Sum
<1>3. /\ HandleTypeOK' /\ enabled' = enabled
      /\ o = "answered" => faults' = faults
      /\ o # "answered" => faults' = faults + 1
      /\ o = "answered" /\ (\A q \in Procs : ~blocked[q]) => \A q \in Procs : ~blocked'[q]
  BY <1>1, Answered
<1> HIDE DEF Over, Pass
<1>4. count' \in {count, Trimmed(r)} /\ (o = "answered" => count' = Trimmed(r))
  BY <1>1 DEF TookEffect
<1>5. \/ Faulted /\ Fallback(r) /\ count' \in {count, Trimmed(r)}
      \/ Calmly /\ Done(r) /\ count' = Trimmed(r)
      \/ Calmly /\ ~Over /\ Pass /\ count' = Trimmed(r)
  <2>1. CASE o # "answered"
    BY <1>1, <1>3, <1>4, <2>1, Zenon DEF Faulted
  <2>2. CASE o = "answered" /\ Over
    BY <1>1, <1>3, <1>4, <2>2, Zenon DEF Calmly
  <2>3. CASE o = "answered" /\ ~Over
    BY <1>1, <1>3, <1>4, <2>3, Zenon DEF Calmly
  <2> QED  BY <2>1, <2>2, <2>3, Zenon
<1> QED  BY <1>2, <1>3, <1>5, Zenon DEF Over, Pass

\* The counters after the INCR of Bump and the HINCRBY of Book.
Bumped(r) == [count EXCEPT ![Scope(r)][loc[r].at].n = @ + 1]
BookedBy(r) == [count EXCEPT ![Scope(r)][loc[r].at].bytes = @ + loc[r].size]

LEMMA BumpFacts ==
  ASSUME TypeOK, NEW r \in Requests, Scope(r) \in Scopes
  PROVE  /\ Bumped(r) \in Tally
         /\ \A s \in Scopes : s # Scope(r) => Bumped(r)[s] = count[s]
         /\ \A m \in Minutes : m # loc[r].at => Bumped(r)[Scope(r)][m] = count[Scope(r)][m]
         /\ Bumped(r)[Scope(r)][loc[r].at].n = count[Scope(r)][loc[r].at].n + 1
         /\ Bumped(r)[Scope(r)][loc[r].at].bytes = count[Scope(r)][loc[r].at].bytes
<1> DEFINE s0 == Scope(r)
           m0 == loc[r].at
           e == [count[s0][m0] EXCEPT !.n = count[s0][m0].n + 1]
           c == [count[s0] EXCEPT ![m0] = e]
<1>1. Bumped(r) = [count EXCEPT ![s0] = c]
  BY Zenon DEF Bumped
<1>2. m0 \in Minutes
  BY LocalsTyped
<1>3. /\ count[s0] \in [Minutes -> [n : Nat, bytes : Nat]]
      /\ count[s0][m0] \in [n : Nat, bytes : Nat]
  BY <1>2, CountTyped
<1>4. e \in [n : Nat, bytes : Nat] /\ e.n = count[s0][m0].n + 1 /\ e.bytes = count[s0][m0].bytes
  BY <1>3
<1> HIDE DEF e
<1>5. /\ c \in [Minutes -> [n : Nat, bytes : Nat]] /\ c[m0] = e
      /\ \A m \in Minutes : m # m0 => c[m] = count[s0][m]
  BY <1>2, <1>3, <1>4
<1> HIDE DEF c
<1>6. count \in [Scopes -> [Minutes -> [n : Nat, bytes : Nat]]]
  BY DEF TypeOK, Tally
<1>7. /\ Bumped(r)[s0] = c /\ Bumped(r) \in Tally
      /\ \A s \in Scopes : s # s0 => Bumped(r)[s] = count[s]
  BY <1>1, <1>5, <1>6 DEF Tally
<1> QED  BY <1>4, <1>5, <1>7

LEMMA BookFacts ==
  ASSUME TypeOK, NEW r \in Requests, Scope(r) \in Scopes
  PROVE  /\ BookedBy(r) \in Tally
         /\ \A s \in Scopes : s # Scope(r) => BookedBy(r)[s] = count[s]
         /\ \A m \in Minutes : m # loc[r].at => BookedBy(r)[Scope(r)][m] = count[Scope(r)][m]
         /\ BookedBy(r)[Scope(r)][loc[r].at].n = count[Scope(r)][loc[r].at].n
         /\ BookedBy(r)[Scope(r)][loc[r].at].bytes = count[Scope(r)][loc[r].at].bytes + loc[r].size
<1> DEFINE s0 == Scope(r)
           m0 == loc[r].at
           e == [count[s0][m0] EXCEPT !.bytes = count[s0][m0].bytes + loc[r].size]
           c == [count[s0] EXCEPT ![m0] = e]
<1>1. BookedBy(r) = [count EXCEPT ![s0] = c]
  BY Zenon DEF BookedBy
<1>2. m0 \in Minutes /\ loc[r].size \in Nat
  BY LocalsTyped
<1>3. /\ count[s0] \in [Minutes -> [n : Nat, bytes : Nat]]
      /\ count[s0][m0] \in [n : Nat, bytes : Nat]
  BY <1>2, CountTyped
<1>4. /\ e \in [n : Nat, bytes : Nat] /\ e.n = count[s0][m0].n
      /\ e.bytes = count[s0][m0].bytes + loc[r].size
  BY <1>2, <1>3
<1> HIDE DEF e
<1>5. /\ c \in [Minutes -> [n : Nat, bytes : Nat]] /\ c[m0] = e
      /\ \A m \in Minutes : m # m0 => c[m] = count[s0][m]
  BY <1>2, <1>3, <1>4
<1> HIDE DEF c
<1>6. count \in [Scopes -> [Minutes -> [n : Nat, bytes : Nat]]]
  BY DEF TypeOK, Tally
<1>7. /\ BookedBy(r)[s0] = c /\ BookedBy(r) \in Tally
      /\ \A s \in Scopes : s # s0 => BookedBy(r)[s] = count[s]
  BY <1>1, <1>5, <1>6 DEF Tally
<1> QED  BY <1>4, <1>5, <1>7

LEMMA BumpEffect ==
  ASSUME TypeOK, NEW r \in Requests, Proc(r) \in Procs, Bump(r)
  PROVE  /\ pc[r] = "bump" /\ HandleTypeOK' /\ enabled' = enabled
         /\ now' = now /\ windows' = windows
         /\ begun' = begun /\ admitted' = admitted
         /\ \/ Faulted /\ Fallback(r) /\ count' \in {count, Bumped(r)}
            \/ Calmly /\ Go(r, "book", loc[r]) /\ count' = Bumped(r)
<1>1. PICK o \in Outcomes :
         /\ Command(Proc(r), FALSE, FALSE, TRUE, o)
         /\ IF o = "answered" THEN Go(r, "book", loc[r]) ELSE Fallback(r)
         /\ count' = IF TookEffect(o) THEN Bumped(r) ELSE count
  BY Zenon DEF Bump, Bumped
<1>2. /\ pc[r] = "bump" /\ now' = now /\ windows' = windows
      /\ begun' = begun /\ admitted' = admitted
  BY DEF Bump
<1>3. /\ HandleTypeOK' /\ enabled' = enabled
      /\ o = "answered" => faults' = faults
      /\ o # "answered" => faults' = faults + 1
      /\ o = "answered" /\ (\A q \in Procs : ~blocked[q]) => \A q \in Procs : ~blocked'[q]
  BY <1>1, Answered
<1>4. count' \in {count, Bumped(r)} /\ (o = "answered" => count' = Bumped(r))
  BY <1>1 DEF TookEffect
<1>5. \/ Faulted /\ Fallback(r) /\ count' \in {count, Bumped(r)}
      \/ Calmly /\ Go(r, "book", loc[r]) /\ count' = Bumped(r)
  BY <1>1, <1>3, <1>4, Zenon DEF Faulted, Calmly
<1> QED  BY <1>2, <1>3, <1>5, Zenon

LEMMA BookEffect ==
  ASSUME TypeOK, NEW r \in Requests, Proc(r) \in Procs, Book(r)
  PROVE  /\ pc[r] = "book" /\ HandleTypeOK' /\ enabled' = enabled
         /\ now' = now /\ windows' = windows /\ begun' = begun
         /\ \/ Faulted /\ Fallback(r) /\ admitted' = admitted /\ count' \in {count, BookedBy(r)}
            \/ Calmly /\ Tail(loc[r].todo) = <<>> /\ Done(r) /\ Admit(r) /\ count' = BookedBy(r)
            \/ /\ Calmly /\ Tail(loc[r].todo) # <<>> /\ admitted' = admitted
               /\ Go(r, Enter(Head(Tail(loc[r].todo))), [loc[r] EXCEPT !.todo = Tail(loc[r].todo)])
               /\ count' = BookedBy(r)
<1> DEFINE Over == Tail(loc[r].todo) = <<>>
           Fall == Fallback(r) /\ admitted' = admitted
           In == Done(r) /\ Admit(r)
           Pass == /\ Go(r, Enter(Head(Tail(loc[r].todo))), [loc[r] EXCEPT !.todo = Tail(loc[r].todo)])
                   /\ admitted' = admitted
<1>1. PICK o \in Outcomes :
         /\ Command(Proc(r), FALSE, Over, TRUE, o)
         /\ CASE o # "answered" -> Fall
              [] o = "answered" /\ Over -> In
              [] OTHER -> Pass
         /\ count' = IF TookEffect(o) THEN BookedBy(r) ELSE count
  BY Zenon DEF Book, BookedBy
<1>2. /\ pc[r] = "book" /\ now' = now /\ windows' = windows /\ begun' = begun
  BY DEF Book
<1>3. /\ HandleTypeOK' /\ enabled' = enabled
      /\ o = "answered" => faults' = faults
      /\ o # "answered" => faults' = faults + 1
      /\ o = "answered" /\ (\A q \in Procs : ~blocked[q]) => \A q \in Procs : ~blocked'[q]
  <2>1. Over \in BOOLEAN
    OBVIOUS
  <2> HIDE DEF Over
  <2> QED  BY <1>1, <2>1, Answered
<1> HIDE DEF Over, In, Pass, Fall
<1>4. count' \in {count, BookedBy(r)} /\ (o = "answered" => count' = BookedBy(r))
  BY <1>1 DEF TookEffect
<1>5. \/ Faulted /\ Fall /\ count' \in {count, BookedBy(r)}
      \/ Calmly /\ Over /\ In /\ count' = BookedBy(r)
      \/ Calmly /\ ~Over /\ Pass /\ count' = BookedBy(r)
  <2>1. CASE o # "answered"
    BY <1>1, <1>3, <1>4, <2>1, Zenon DEF Faulted
  <2>2. CASE o = "answered" /\ Over
    BY <1>1, <1>3, <1>4, <2>2, Zenon DEF Calmly
  <2>3. CASE o = "answered" /\ ~Over
    BY <1>1, <1>3, <1>4, <2>3, Zenon DEF Calmly
  <2> QED  BY <2>1, <2>2, <2>3, Zenon
<1> QED  BY <1>2, <1>3, <1>5, Zenon DEF Over, In, Pass, Fall

-----------------------------------------------------------------------------
(* The in-memory limiter's step.                                           *)

LEMMA ChargeFacts ==
  ASSUME TypeOK, NEW r \in Requests, Admit(r)
  PROVE  /\ admitted' \in Tally
         /\ \A s \in Scopes : s \notin ToSet(loc[r].scopes) => admitted'[s] = admitted[s]
         /\ \A s \in Scopes, m \in Minutes : m # loc[r].at => admitted'[s][m] = admitted[s][m]
         /\ \A s \in Scopes : s \in ToSet(loc[r].scopes) =>
              /\ admitted'[s][loc[r].at].n = admitted[s][loc[r].at].n + 1
              /\ admitted'[s][loc[r].at].bytes = admitted[s][loc[r].at].bytes + loc[r].size
<1> DEFINE m0 == loc[r].at
           ss == ToSet(loc[r].scopes)
           e(s) == [n |-> admitted[s][m0].n + 1, bytes |-> admitted[s][m0].bytes + loc[r].size]
           c(s) == [admitted[s] EXCEPT ![m0] = e(s)]
<1>1. admitted' = [s \in Scopes |-> IF s \in ss THEN c(s) ELSE admitted[s]]
  BY Zenon DEF Admit, Charged
<1>2. m0 \in Minutes /\ loc[r].size \in Nat
  BY LocalsTyped
<1>3. ASSUME NEW s \in Scopes
      PROVE  /\ c(s) \in [Minutes -> [n : Nat, bytes : Nat]] /\ c(s)[m0] = e(s)
             /\ \A m \in Minutes : m # m0 => c(s)[m] = admitted[s][m]
             /\ e(s).n = admitted[s][m0].n + 1
             /\ e(s).bytes = admitted[s][m0].bytes + loc[r].size
  <2>1. /\ admitted[s] \in [Minutes -> [n : Nat, bytes : Nat]]
        /\ admitted[s][m0].n \in Nat /\ admitted[s][m0].bytes \in Nat
    BY <1>2, CountTyped
  <2>2. e(s) \in [n : Nat, bytes : Nat]
    BY <1>2, <2>1
  <2>3. /\ e(s).n = admitted[s][m0].n + 1
        /\ e(s).bytes = admitted[s][m0].bytes + loc[r].size
    OBVIOUS
  <2> HIDE DEF e
  <2> QED  BY <1>2, <2>1, <2>2, <2>3
<1> HIDE DEF c, e
<1>4. \A s \in Scopes : admitted[s] \in [Minutes -> [n : Nat, bytes : Nat]]
  BY DEF TypeOK, Tally
<1>5. admitted' \in Tally
  BY <1>1, <1>3, <1>4 DEF Tally
<1>6. \A s \in Scopes : admitted'[s] = IF s \in ss THEN c(s) ELSE admitted[s]
  BY <1>1
<1> QED  BY <1>3, <1>5, <1>6

LEMMA WindowTyped ==
  ASSUME TypeOK, NEW p \in Procs, NEW s \in Scopes
  PROVE  windows[p][s] \in Seq(Event) /\ windows[p] \in [Scopes -> Seq(Event)]
BY DEF TypeOK, Event

LEMMA PruneTyped ==
  ASSUME TypeOK, NEW p \in Procs, NEW s \in Scopes, NEW t \in Nat
  PROVE  Prune(windows[p][s], t, 1) \in Seq(Event)
BY WindowTyped, PruneShape

LEMMA ScopesIn ==
  ASSUME TypeOK, NEW r \in Requests
  PROVE  ToSet(loc[r].scopes) \subseteq Scopes
<1>1. loc[r].scopes \in Seq(Scopes)
  BY LocalsTyped
<1> QED  BY <1>1 DEF ToSet

\* The two outcomes of a check in memory.
Refusing(r) ==
  /\ admitted' = admitted
  /\ \A s \in Scopes :
       windows'[Proc(r)][s] \in
         {windows[Proc(r)][s], Prune(windows[Proc(r)][s], loc[r].at, 1)}

Admitting(r) ==
  /\ Admit(r)
  /\ \A s \in Scopes :
       IF s \in ToSet(loc[r].scopes)
       THEN /\ windows'[Proc(r)][s] =
                 Append(Prune(windows[Proc(r)][s], loc[r].at, 1),
                        [at |-> loc[r].at, size |-> loc[r].size])
            /\ ~(Rpm[s] > 0 /\ Len(Prune(windows[Proc(r)][s], loc[r].at, 1)) >= Rpm[s])
       ELSE windows'[Proc(r)][s] = windows[Proc(r)][s]

\* A refused upload prunes the windows it looked at; an upload that is let in
\* is added to each of its counters, which had room for it.
LEMMA MemoryEffect ==
  ASSUME TypeOK, NEW r \in Requests, Proc(r) \in Procs, loc[r].size \in Sizes, Memory(r)
  PROVE  /\ pc[r] = "memory" /\ Done(r)
         /\ enabled' = enabled /\ blocked' = blocked /\ faults' = faults
         /\ now' = now /\ count' = count /\ begun' = begun
         /\ windows' \in [Procs -> [Scopes -> Seq(Event)]]
         /\ \A p \in Procs : p # Proc(r) => windows'[p] = windows[p]
         /\ Refusing(r) \/ Admitting(r)
<1> DEFINE p0 == Proc(r)
           old == windows[p0]
           t == loc[r].at
           new == [s \in Scopes |-> Prune(old[s], t, 1)]
           ss == ToSet(loc[r].scopes)
           e == [at |-> t, size |-> loc[r].size]
           Refused == \E s \in ss : Refuses(s, new[s], loc[r].size)
           after == [s \in Scopes |-> IF s \in Looked(loc[r], new) THEN new[s] ELSE old[s]]
           charged == [s \in Scopes |-> IF s \in ss THEN Append(new[s], e) ELSE old[s]]
<1>1. /\ pc[r] = "memory" /\ enabled' = enabled /\ blocked' = blocked /\ faults' = faults
      /\ now' = now /\ count' = count /\ begun' = begun
  BY DEF Memory, redis
<1>2. IF Refused
      THEN windows' = [windows EXCEPT ![p0] = after] /\ Done(r) /\ admitted' = admitted
      ELSE windows' = [windows EXCEPT ![p0] = charged] /\ Admit(r) /\ Done(r)
  BY Zenon DEF Memory, Proc
<1>3. ss \subseteq Scopes /\ t \in Minutes /\ t \in Nat
  BY ScopesIn, LocalsTyped
<1>4. ASSUME NEW s \in Scopes PROVE old[s] \in Seq(Event) /\ new[s] \in Seq(Event)
                                    /\ new[s] = Prune(old[s], t, 1)
  BY <1>3, WindowTyped, PruneTyped
<1>5. e \in Event
  BY <1>3 DEF Event
<1>6. windows \in [Procs -> [Scopes -> Seq(Event)]]
  BY DEF TypeOK, Event
<1>7. CASE Refused
  <2>1. windows' = [windows EXCEPT ![p0] = after] /\ Done(r) /\ admitted' = admitted
    BY <1>2, <1>7, Zenon
  <2>2. \A s \in Scopes : after[s] \in {old[s], new[s]}
    OBVIOUS
  <2>3. after \in [Scopes -> Seq(Event)]
    <3> HIDE DEF new, old
    <3> QED  BY <1>4
  <2> HIDE DEF after, new, Refused
  <2>4. /\ windows' \in [Procs -> [Scopes -> Seq(Event)]]
        /\ \A p \in Procs : p # p0 => windows'[p] = windows[p]
        /\ windows'[p0] = after
    BY <1>6, <2>1, <2>3
  <2>5. \A s \in Scopes : windows'[p0][s] \in {windows[p0][s], Prune(windows[p0][s], t, 1)}
    BY <1>4, <2>2, <2>4
  <2> QED  BY <1>1, <2>1, <2>4, <2>5, Zenon DEF Refusing
<1>8. CASE ~Refused
  <2>1. windows' = [windows EXCEPT ![p0] = charged] /\ Admit(r) /\ Done(r)
    BY <1>2, <1>8, Zenon
  <2>2. \A s \in ss : ~(Rpm[s] > 0 /\ Len(new[s]) >= Rpm[s])
    BY <1>8, Zenon DEF Refuses
  <2>3. ASSUME NEW s \in Scopes PROVE Append(new[s], e) \in Seq(Event)
    <3> HIDE DEF new, old, e
    <3> QED  BY <1>4, <1>5
  <2>4. /\ charged \in [Scopes -> Seq(Event)]
        /\ \A s \in Scopes : charged[s] = IF s \in ss THEN Append(new[s], e) ELSE old[s]
    <3> HIDE DEF new, old, e
    <3> QED  BY <1>4, <2>3
  <2> HIDE DEF charged, new, Refused
  <2>5. /\ windows' \in [Procs -> [Scopes -> Seq(Event)]]
        /\ \A p \in Procs : p # p0 => windows'[p] = windows[p]
        /\ windows'[p0] = charged
    BY <1>6, <2>1, <2>4
  <2> HIDE DEF e, ss, t, p0, old
  <2>6. \A s \in Scopes :
          IF s \in ss
          THEN /\ windows'[p0][s] = Append(Prune(windows[p0][s], t, 1), e)
               /\ ~(Rpm[s] > 0 /\ Len(Prune(windows[p0][s], t, 1)) >= Rpm[s])
          ELSE windows'[p0][s] = windows[p0][s]
    BY <1>3, <1>4, <2>2, <2>4, <2>5, Zenon DEF old
  <2> QED  BY <1>1, <2>1, <2>5, <2>6, Zenon DEF Admitting, e, ss, t, p0
<1> QED  BY <1>7, <1>8

-----------------------------------------------------------------------------
(* The inductive invariant of the types.                                   *)

Calm == enabled /\ faults = 0
Talking(r) == pc[r] \in {"ask", "sum", "bump", "book"}

\* A request knows its process, its size and its counters.  The ones it has
\* yet to pass in Redis are all of them, or the global one.
Shape(r) ==
  /\ pc[r] # "idle" =>
       /\ Proc(r) \in Procs /\ loc[r].size \in Sizes /\ loc[r].at <= now
       /\ \E a \in Signed \cup Anons :
            /\ loc[r].scopes = ScopesOf(a)
            /\ Talking(r) => \/ loc[r].todo = ScopesOf(a)
                             \/ a \in Anons /\ loc[r].todo = <<Global>>
  /\ Talking(r) => enabled

Inv == TypeOK /\ \A r \in Requests : Shape(r)

LEMMA TalkFacts ==
  ASSUME Inv, NEW r \in Requests, Talking(r)
  PROVE  LET rest == Tail(loc[r].todo)
             all == ToSet(loc[r].todo) IN
         /\ enabled /\ Proc(r) \in Procs /\ loc[r].size \in Sizes /\ loc[r].at <= now
         /\ Scope(r) \in Scopes /\ Scope(r) \in all
         /\ all \subseteq ToSet(loc[r].scopes) /\ ToSet(loc[r].scopes) \subseteq Scopes
         /\ rest = <<>> => all = {Scope(r)}
         /\ rest # <<>> => /\ rest = <<Global>> /\ Scope(r) # Global
                           /\ ToSet(rest) = all \ {Scope(r)} /\ ToSet(rest) = {Global}
                           /\ Head(rest) = Global
         /\ Scope(r) = Global => rest = <<>>
<1>1. pc[r] # "idle" /\ Shape(r)
  BY DEF Talking, Inv
<1>2. PICK a \in Signed \cup Anons :
        /\ loc[r].scopes = ScopesOf(a)
        /\ (loc[r].todo = ScopesOf(a) \/ (a \in Anons /\ loc[r].todo = <<Global>>))
  BY <1>1 DEF Shape
<1>3. enabled /\ Proc(r) \in Procs /\ loc[r].size \in Sizes /\ loc[r].at <= now
  BY <1>1 DEF Shape
<1>4. a # Global /\ a \in Scopes /\ Global \in Scopes
  BY LimitsAssumption DEF Scopes
<1>5. /\ Head(<<Global>>) = Global /\ Tail(<<Global>>) = <<>> /\ ToSet(<<Global>>) = {Global}
      /\ Head(<<a>>) = a /\ Tail(<<a>>) = <<>> /\ ToSet(<<a>>) = {a}
      /\ Head(<<a, Global>>) = a /\ Tail(<<a, Global>>) = <<Global>>
      /\ ToSet(<<a, Global>>) = {a, Global} /\ <<Global>> # <<>>
  BY DEF ToSet
<1>6. CASE a \in Anons /\ loc[r].todo = <<a, Global>>
  <2>1. loc[r].scopes = <<a, Global>>
    BY <1>2, <1>6 DEF ScopesOf
  <2> QED  BY <1>3, <1>4, <1>5, <1>6, <2>1 DEF Scope
<1>7. CASE a \in Anons /\ loc[r].todo = <<Global>>
  <2>1. loc[r].scopes = <<a, Global>>
    BY <1>2, <1>7 DEF ScopesOf
  <2> QED  BY <1>3, <1>4, <1>5, <1>7, <2>1 DEF Scope
<1>8. CASE a \notin Anons
  <2>1. loc[r].scopes = <<a>> /\ loc[r].todo = <<a>>
    BY <1>2, <1>8 DEF ScopesOf
  <2> QED  BY <1>3, <1>4, <1>5, <1>8, <2>1 DEF Scope
<1> QED  BY <1>2, <1>6, <1>7, <1>8 DEF ScopesOf

\* An upload of size from a comes to process p.
Arrived(r, a, p, size) ==
  [proc |-> p, todo |-> ScopesOf(a), scopes |-> ScopesOf(a), size |-> size, at |-> now]

LEMMA ArriveEffect ==
  ASSUME TypeOK, NEW r \in Requests, Arrive(r)
  PROVE  /\ pc[r] = "idle" /\ begun < MaxBegun /\ begun' = begun + 1
         /\ enabled' = enabled /\ blocked' = blocked /\ faults' = faults
         /\ now' = now /\ count' = count /\ windows' = windows /\ admitted' = admitted
         /\ \E a \in Signed \cup Anons, p \in Procs, size \in Sizes :
              /\ Arrived(r, a, p, size) \in Locals
              /\ \/ enabled /\ Go(r, Enter(Head(ScopesOf(a))), Arrived(r, a, p, size))
                 \/ (enabled => blocked[p]) /\ Go(r, "memory", Arrived(r, a, p, size))
<1>1. PICK a \in Signed \cup Anons, p \in Procs, size \in Sizes :
         Go(r, IF Available(p) THEN Enter(Head(ScopesOf(a))) ELSE "memory", Arrived(r, a, p, size))
  BY Zenon DEF Arrive, Arrived
<1>2. Arrived(r, a, p, size) \in Locals
  <2>1. now \in Minutes
    BY DEF TypeOK
  <2> QED  BY <2>1, ScopesTyped DEF Arrived, Locals
<1>3. \/ enabled /\ Go(r, Enter(Head(ScopesOf(a))), Arrived(r, a, p, size))
      \/ (enabled => blocked[p]) /\ Go(r, "memory", Arrived(r, a, p, size))
  <2>1. CASE Available(p)
    BY <1>1, <2>1, Zenon DEF Available
  <2>2. CASE ~Available(p)
    BY <1>1, <2>2, Zenon DEF Available
  <2> QED  BY <2>1, <2>2
<1> QED  BY <1>2, <1>3 DEF Arrive, redis

\* A step of r leaves the other requests where they are.
Others(r) == \A q \in Requests \ {r} : pc'[q] = pc[q] /\ loc'[q] = loc[q]
GoneTyped == pc' \in [Requests -> Stages] /\ loc' \in [Requests -> Locals]

LEMMA FellFacts ==
  ASSUME Inv, NEW r \in Requests, pc[r] # "idle", Fallback(r)
  PROVE  /\ GoneTyped /\ Others(r) /\ pc'[r] = "memory"
         /\ loc'[r].proc = Proc(r) /\ loc'[r].scopes = loc[r].scopes
         /\ loc'[r].size = loc[r].size /\ loc'[r].at = now
<1> DEFINE l == [loc[r] EXCEPT !.todo = <<>>, !.at = now]
<1>1. Go(r, "memory", l)
  BY Zenon DEF Fallback
<1>2. l \in Locals /\ "memory" \in Stages /\ TypeOK
  BY FallbackTyped DEF Stages, Inv
<1>3. loc[r] \in Locals
  BY <1>2, LocalsTyped
<1>4. l.proc = Proc(r) /\ l.scopes = loc[r].scopes /\ l.size = loc[r].size /\ l.at = now
  BY <1>3 DEF Locals, Proc
<1> HIDE DEF l
<1>5. GoneTyped /\ Others(r) /\ pc'[r] = "memory" /\ loc'[r] = l
  BY <1>1, <1>2, Went DEF GoneTyped, Others
<1> QED  BY <1>4, <1>5

LEMMA LeftFacts ==
  ASSUME Inv, NEW r \in Requests, Done(r)
  PROVE  GoneTyped /\ Others(r) /\ pc'[r] = "idle" /\ loc'[r] = Blank
<1>1. TypeOK /\ Blank \in Locals /\ "idle" \in Stages
  BY BlankTyped DEF Inv, Stages
<1>2. Go(r, "idle", Blank)
  BY DEF Done
<1> QED  BY <1>1, <1>2, Went DEF GoneTyped, Others

LEMMA StayFacts ==
  ASSUME Inv, NEW r \in Requests, NEW p \in Stages, Go(r, p, loc[r])
  PROVE  GoneTyped /\ Others(r) /\ pc'[r] = p /\ loc'[r] = loc[r]
<1>1. TypeOK /\ loc[r] \in Locals
  BY LocalsTyped DEF Inv
<1> QED  BY <1>1, Went DEF GoneTyped, Others

\* The next counter of an anonymous upload.
LEMMA NextFacts ==
  ASSUME Inv, NEW r \in Requests, Talking(r), Tail(loc[r].todo) # <<>>,
         Go(r, Enter(Head(Tail(loc[r].todo))), [loc[r] EXCEPT !.todo = Tail(loc[r].todo)])
  PROVE  /\ GoneTyped /\ Others(r) /\ pc'[r] = Enter(Global)
         /\ pc'[r] \in Stages \ {"idle", "memory", "book"}
         /\ loc'[r].proc = Proc(r) /\ loc'[r].scopes = loc[r].scopes
         /\ loc'[r].size = loc[r].size /\ loc'[r].at = loc[r].at
         /\ loc'[r].todo = <<Global>> /\ Global \in Scopes
<1> DEFINE l == [loc[r] EXCEPT !.todo = <<Global>>]
<1>1. Tail(loc[r].todo) = <<Global>> /\ Head(Tail(loc[r].todo)) = Global
  BY TalkFacts
<1>2. Go(r, Enter(Global), l)
  BY <1>1, Zenon
<1>3. Global \in Scopes
  BY DEF Scopes
<1>4. TypeOK /\ loc[r] \in Locals /\ <<Global>> \in Seq(Scopes)
  BY <1>3, LocalsTyped DEF Inv
<1>5. l \in Locals /\ l.proc = Proc(r) /\ l.scopes = loc[r].scopes /\ l.size = loc[r].size
      /\ l.at = loc[r].at /\ l.todo = <<Global>>
  BY <1>4 DEF Locals, Proc
<1> HIDE DEF l
<1>6. Enter(Global) \in Stages \ {"idle", "memory", "book"}
  BY <1>3, EnterTyped
<1>7. GoneTyped /\ Others(r) /\ pc'[r] = Enter(Global) /\ loc'[r] = l
  BY <1>2, <1>4, <1>5, <1>6, Went DEF GoneTyped, Others
<1> QED  BY <1>3, <1>5, <1>6, <1>7

LEMMA OthersShape ==
  ASSUME Inv, NEW r \in Requests, Others(r), enabled' = enabled, now' = now,
         Shape(r)', HandleTypeOK', GoneTyped, begun' \in 0 .. MaxBegun,
         count' \in Tally, admitted' \in Tally,
         windows' \in [Procs -> [Scopes -> Seq(Event)]],
         pc'[r] \notin {"idle", "memory"} => loc'[r].todo # <<>>
  PROVE  Inv'
<1>1. ASSUME NEW q \in Requests
      PROVE  Shape(q)' /\ (pc'[q] \notin {"idle", "memory"} => loc'[q].todo # <<>>)
  <2>1. CASE q = r
    BY <2>1
  <2>2. CASE q # r
    <3>1. pc'[q] = pc[q] /\ loc'[q] = loc[q] /\ Shape(q)
      BY <2>2 DEF Others, Inv
    <3>2. pc[q] \notin {"idle", "memory"} => loc[q].todo # <<>>
      BY DEF Inv, TypeOK
    <3>3. Shape(q)'
      BY <3>1 DEF Shape, Talking, Proc
    <3> QED  BY <3>1, <3>2, <3>3
  <2> QED  BY <2>1, <2>2
<1>2. now' \in Minutes
  BY DEF Inv, TypeOK
<1> QED  BY <1>1, <1>2 DEF Inv, TypeOK, GoneTyped, Stages, Event

LEMMA FellShape ==
  ASSUME Inv, NEW r \in Requests, pc[r] # "idle", Fallback(r), now' = now
  PROVE  Shape(r)'
<1>1. pc'[r] = "memory" /\ loc'[r].proc = Proc(r) /\ loc'[r].scopes = loc[r].scopes
      /\ loc'[r].size = loc[r].size /\ loc'[r].at = now
  BY FellFacts
<1>2. Shape(r) /\ now \in Nat
  BY DEF Inv, TypeOK, Minutes
<1> QED  BY <1>1, <1>2 DEF Shape, Talking, Proc

LEMMA LeftShape ==
  ASSUME Inv, NEW r \in Requests, Done(r)
  PROVE  Shape(r)'
<1>1. pc'[r] = "idle"
  BY LeftFacts
<1> QED  BY <1>1 DEF Shape, Talking

LEMMA StayShape ==
  ASSUME Inv, NEW r \in Requests, Talking(r), NEW p \in {"ask", "sum", "bump", "book"},
         Go(r, p, loc[r]), now' = now, enabled' = enabled
  PROVE  Shape(r)' /\ loc'[r].todo # <<>>
<1>1. pc'[r] = p /\ loc'[r] = loc[r]
  BY StayFacts DEF Stages
<1>2. Shape(r) /\ loc[r].todo # <<>> /\ pc[r] # "idle"
  BY DEF Inv, TypeOK, Talking
<1> QED  BY <1>1, <1>2 DEF Shape, Talking, Proc

LEMMA NextShape ==
  ASSUME Inv, NEW r \in Requests, Talking(r), Tail(loc[r].todo) # <<>>,
         Go(r, Enter(Head(Tail(loc[r].todo))), [loc[r] EXCEPT !.todo = Tail(loc[r].todo)]),
         now' = now, enabled' = enabled
  PROVE  Shape(r)' /\ loc'[r].todo # <<>>
<1>1. /\ loc'[r].proc = Proc(r) /\ loc'[r].scopes = loc[r].scopes
      /\ loc'[r].size = loc[r].size /\ loc'[r].at = loc[r].at
      /\ loc'[r].todo = <<Global>>
  BY NextFacts
<1>2. Shape(r) /\ pc[r] # "idle" /\ enabled
  BY DEF Inv, Talking, Shape
<1>3. PICK a \in Signed \cup Anons :
        /\ loc[r].scopes = ScopesOf(a)
        /\ (loc[r].todo = ScopesOf(a) \/ (a \in Anons /\ loc[r].todo = <<Global>>))
  BY <1>2 DEF Shape
<1>4. a \in Anons
  <2>1. CASE a \notin Anons
    <3>1. loc[r].todo = <<a>>
      BY <1>3, <2>1 DEF ScopesOf
    <3>2. Tail(<<a>>) = <<>>
      OBVIOUS
    <3> QED  BY <3>1, <3>2
  <2> QED  BY <2>1
<1>5. \E b \in Signed \cup Anons :
        /\ loc'[r].scopes = ScopesOf(b)
        /\ Talking(r)' => (loc'[r].todo = ScopesOf(b) \/ (b \in Anons /\ loc'[r].todo = <<Global>>))
  BY <1>1, <1>3, <1>4
<1> QED  BY <1>1, <1>2, <1>5 DEF Shape, Proc

LEMMA ArriveShape ==
  ASSUME Inv, NEW r \in Requests, NEW a \in Signed \cup Anons, NEW p \in Procs, NEW size \in Sizes,
         loc'[r] = Arrived(r, a, p, size), now' = now, enabled' = enabled,
         pc'[r] # "memory" => enabled
  PROVE  Shape(r)' /\ loc'[r].todo # <<>>
<1>1. /\ loc'[r].proc = p /\ loc'[r].scopes = ScopesOf(a) /\ loc'[r].size = size
      /\ loc'[r].at = now /\ loc'[r].todo = ScopesOf(a)
  BY DEF Arrived
<1>2. now \in Nat
  BY DEF Inv, TypeOK, Minutes
<1>3. \E b \in Signed \cup Anons :
        /\ loc'[r].scopes = ScopesOf(b)
        /\ Talking(r)' => (loc'[r].todo = ScopesOf(b) \/ (b \in Anons /\ loc'[r].todo = <<Global>>))
  BY <1>1
<1>4. loc'[r].todo # <<>>
  BY <1>1, ScopesTyped
<1>5. Talking(r)' => enabled'
  BY DEF Talking
<1> QED  BY <1>1, <1>2, <1>3, <1>4, <1>5 DEF Shape, Proc

LEMMA InvFacts ==
  ASSUME Inv
  PROVE  /\ TypeOK /\ HandleTypeOK /\ now \in Minutes /\ now \in Nat /\ begun \in 0 .. MaxBegun
         /\ count \in Tally /\ admitted \in Tally
         /\ windows \in [Procs -> [Scopes -> Seq(Event)]] /\ faults \in Nat
         /\ \A r \in Requests : Shape(r)
<1>1. TypeOK /\ HandleTypeOK /\ \A r \in Requests : Shape(r)
  BY DEF Inv, TypeOK
<1>2. now \in Minutes /\ begun \in 0 .. MaxBegun /\ count \in Tally /\ admitted \in Tally
  BY <1>1 DEF TypeOK
<1>3. windows \in [Procs -> [Scopes -> Seq(Event)]]
  BY <1>1 DEF TypeOK, Event
<1>4. now \in Nat /\ faults \in Nat
  BY <1>1, <1>2 DEF HandleTypeOK, Minutes
<1> QED  BY <1>1, <1>2, <1>3, <1>4

LEMMA ArriveInv ==
  ASSUME Inv, NEW r \in Requests, Arrive(r)
  PROVE  Inv'
<1>1. /\ begun < MaxBegun /\ begun' = begun + 1
      /\ enabled' = enabled /\ blocked' = blocked /\ faults' = faults
      /\ now' = now /\ count' = count /\ windows' = windows /\ admitted' = admitted
  BY InvFacts, ArriveEffect
<1>2. PICK a \in Signed \cup Anons, p \in Procs, size \in Sizes :
        /\ Arrived(r, a, p, size) \in Locals
        /\ \/ enabled /\ Go(r, Enter(Head(ScopesOf(a))), Arrived(r, a, p, size))
           \/ (enabled => blocked[p]) /\ Go(r, "memory", Arrived(r, a, p, size))
  BY InvFacts, ArriveEffect
<1>3. Enter(Head(ScopesOf(a))) \in Stages
  <2>1. Head(ScopesOf(a)) \in Scopes
    BY ScopesTyped
  <2> QED  BY <2>1, EnterTyped
<1>4. PICK q \in Stages : (q # "memory" => enabled) /\ Go(r, q, Arrived(r, a, p, size))
  <2>1. "memory" \in Stages
    BY DEF Stages
  <2> QED  BY <1>2, <1>3, <2>1, Zenon
<1>5. GoneTyped /\ Others(r) /\ pc'[r] = q /\ loc'[r] = Arrived(r, a, p, size)
  BY <1>2, <1>4, InvFacts, Went DEF GoneTyped, Others
<1>6. Shape(r)' /\ loc'[r].todo # <<>>
  BY <1>1, <1>4, <1>5, ArriveShape
<1>7. HandleTypeOK' /\ begun' \in 0 .. MaxBegun
  BY <1>1, InvFacts, LimitsAssumption DEF HandleTypeOK
<1> QED  BY <1>1, <1>5, <1>6, <1>7, InvFacts, OthersShape

LEMMA MemoryInv ==
  ASSUME Inv, NEW r \in Requests, Memory(r)
  PROVE  Inv'
<1>0. pc[r] = "memory"
  BY DEF Memory
<1>1. Proc(r) \in Procs /\ loc[r].size \in Sizes
  BY <1>0, InvFacts DEF Shape
<1>2. /\ Done(r)
      /\ enabled' = enabled /\ blocked' = blocked /\ faults' = faults
      /\ now' = now /\ count' = count /\ begun' = begun
      /\ windows' \in [Procs -> [Scopes -> Seq(Event)]]
      /\ (admitted' = admitted \/ Admit(r))
  BY <1>1, InvFacts, MemoryEffect DEF Refusing, Admitting
<1>3. admitted' \in Tally
  BY <1>2, InvFacts, ChargeFacts
<1>4. GoneTyped /\ Others(r) /\ pc'[r] = "idle"
  BY <1>2, LeftFacts
<1>5. Shape(r)'
  BY <1>2, LeftShape
<1>6. HandleTypeOK'
  BY <1>2, InvFacts DEF HandleTypeOK
<1> QED  BY <1>2, <1>3, <1>4, <1>5, <1>6, InvFacts, OthersShape

\* A command leaves a request with its fallback, without an answer to wait
\* for, or at a later stage of its script.
LEMMA CommandInv ==
  ASSUME Inv, NEW r \in Requests, Talking(r), HandleTypeOK', enabled' = enabled, now' = now,
         begun' = begun, windows' = windows, count' \in Tally, admitted' \in Tally,
         \/ Fallback(r)
         \/ Done(r)
         \/ \E p \in {"ask", "sum", "bump", "book"} : Go(r, p, loc[r])
         \/ /\ Tail(loc[r].todo) # <<>>
            /\ Go(r, Enter(Head(Tail(loc[r].todo))), [loc[r] EXCEPT !.todo = Tail(loc[r].todo)])
  PROVE  Inv'
<1>0. pc[r] # "idle"
  BY DEF Talking
<1>1. SUFFICES GoneTyped /\ Others(r) /\ Shape(r)'
               /\ (pc'[r] \notin {"idle", "memory"} => loc'[r].todo # <<>>)
  BY InvFacts, OthersShape
<1>2. CASE Fallback(r)
  BY <1>0, <1>2, FellFacts, FellShape
<1>3. CASE Done(r)
  BY <1>3, LeftFacts, LeftShape
<1>4. ASSUME NEW p \in {"ask", "sum", "bump", "book"}, Go(r, p, loc[r])
      PROVE  GoneTyped /\ Others(r) /\ Shape(r)' /\ loc'[r].todo # <<>>
  <2>1. p \in Stages
    BY DEF Stages
  <2> QED  BY <1>4, <2>1, StayFacts, StayShape
<1>5. CASE /\ Tail(loc[r].todo) # <<>>
           /\ Go(r, Enter(Head(Tail(loc[r].todo))), [loc[r] EXCEPT !.todo = Tail(loc[r].todo)])
  BY <1>5, NextFacts, NextShape
<1> QED  BY <1>2, <1>3, <1>4, <1>5, Zenon

LEMMA AskInv ==
  ASSUME Inv, NEW r \in Requests, Ask(r)
  PROVE  Inv'
<1>1. Talking(r) /\ TypeOK
  BY DEF Ask, Talking, Inv
<1>2. /\ HandleTypeOK' /\ enabled' = enabled /\ now' = now /\ count' = count
      /\ windows' = windows /\ begun' = begun /\ admitted' = admitted
      /\ \/ Fallback(r) \/ Done(r)
         \/ Go(r, IF Bph[Scope(r)] > 0 THEN "sum" ELSE "bump", loc[r])
  BY <1>1, TalkFacts, AskEffect
<1>3. (IF Bph[Scope(r)] > 0 THEN "sum" ELSE "bump") \in {"ask", "sum", "bump", "book"}
  OBVIOUS
<1>4. \/ Fallback(r) \/ Done(r)
      \/ \E p \in {"ask", "sum", "bump", "book"} : Go(r, p, loc[r])
  BY <1>2, <1>3, Zenon
<1> QED  BY <1>1, <1>2, <1>4, InvFacts, CommandInv

LEMMA SumInv ==
  ASSUME Inv, NEW r \in Requests, Sum(r)
  PROVE  Inv'
<1>1. Talking(r) /\ TypeOK
  BY DEF Sum, Talking, Inv
<1>2. /\ HandleTypeOK' /\ enabled' = enabled /\ now' = now /\ count' \in {count, Trimmed(r)}
      /\ windows' = windows /\ begun' = begun /\ admitted' = admitted
      /\ (Fallback(r) \/ Done(r) \/ Go(r, "bump", loc[r]))
  BY <1>1, TalkFacts, SumEffect
<1>3. count' \in Tally
  BY <1>1, <1>2, InvFacts, TalkFacts, TrimFacts
<1>4. \/ Fallback(r) \/ Done(r)
      \/ \E p \in {"ask", "sum", "bump", "book"} : Go(r, p, loc[r])
  <2>1. "bump" \in {"ask", "sum", "bump", "book"}
    OBVIOUS
  <2> QED  BY <1>2, <2>1, Zenon
<1> QED  BY <1>1, <1>2, <1>3, <1>4, InvFacts, CommandInv

LEMMA BumpInv ==
  ASSUME Inv, NEW r \in Requests, Bump(r)
  PROVE  Inv'
<1>1. Talking(r) /\ TypeOK
  BY DEF Bump, Talking, Inv
<1>2. /\ HandleTypeOK' /\ enabled' = enabled /\ now' = now /\ count' \in {count, Bumped(r)}
      /\ windows' = windows /\ begun' = begun /\ admitted' = admitted
      /\ (Fallback(r) \/ Go(r, "book", loc[r]))
  BY <1>1, TalkFacts, BumpEffect
<1>3. count' \in Tally
  BY <1>1, <1>2, InvFacts, TalkFacts, BumpFacts
<1>4. \/ Fallback(r) \/ Done(r)
      \/ \E p \in {"ask", "sum", "bump", "book"} : Go(r, p, loc[r])
  <2>1. "book" \in {"ask", "sum", "bump", "book"}
    OBVIOUS
  <2> QED  BY <1>2, <2>1, Zenon
<1> QED  BY <1>1, <1>2, <1>3, <1>4, InvFacts, CommandInv

LEMMA BookInv ==
  ASSUME Inv, NEW r \in Requests, Book(r)
  PROVE  Inv'
<1>1. Talking(r) /\ TypeOK
  BY DEF Book, Talking, Inv
<1>2. /\ HandleTypeOK' /\ enabled' = enabled /\ now' = now /\ count' \in {count, BookedBy(r)}
      /\ windows' = windows /\ begun' = begun /\ (admitted' = admitted \/ Admit(r))
      /\ \/ Fallback(r) \/ Done(r)
         \/ /\ Tail(loc[r].todo) # <<>>
            /\ Go(r, Enter(Head(Tail(loc[r].todo))), [loc[r] EXCEPT !.todo = Tail(loc[r].todo)])
  BY <1>1, TalkFacts, BookEffect, Zenon
<1>3. count' \in Tally
  BY <1>1, <1>2, InvFacts, TalkFacts, BookFacts
<1>4. admitted' \in Tally
  BY <1>1, <1>2, InvFacts, ChargeFacts
<1> QED  BY <1>1, <1>2, <1>3, <1>4, InvFacts, CommandInv

LEMMA CooldownInv ==
  ASSUME Inv, NEW p \in Procs, BreakerCloses(p)
  PROVE  Inv'
<1>1. blocked' = [blocked EXCEPT ![p] = FALSE] /\ UNCHANGED <<enabled, faults>>
  BY DEF BreakerCloses, Cooldown
<1>2. UNCHANGED <<now, count, windows, pc, loc, begun, admitted>>
  BY DEF BreakerCloses
<1>3. HandleTypeOK'
  BY <1>1, InvFacts DEF HandleTypeOK
<1>4. TypeOK'
  BY <1>2, <1>3, InvFacts DEF TypeOK
<1>5. \A r \in Requests : Shape(r)'
  BY <1>1, <1>2, InvFacts DEF Shape, Talking, Proc
<1> QED  BY <1>4, <1>5 DEF Inv

LEMMA MinuteInv ==
  ASSUME Inv, NextMinute
  PROVE  Inv'
<1>1. now' = now + 1 /\ now' \in Minutes /\ now \in Nat
  BY InvFacts, LimitsAssumption DEF NextMinute, Minutes
<1>2. UNCHANGED <<enabled, blocked, faults, count, windows, pc, loc, begun, admitted>>
  BY DEF NextMinute, redis
<1>3. HandleTypeOK'
  BY <1>2, InvFacts DEF HandleTypeOK
<1>4. TypeOK'
  BY <1>1, <1>2, <1>3, InvFacts DEF TypeOK
<1>5. ASSUME NEW r \in Requests PROVE Shape(r)'
  <2>1. loc[r].at \in Nat
    BY InvFacts, LocalsTyped
  <2>2. loc[r].at <= now => loc[r].at <= now'
    BY <1>1, <2>1
  <2> QED  BY <1>2, <2>2, InvFacts DEF Shape, Talking, Proc
<1> QED  BY <1>4, <1>5 DEF Inv

\* A counter runs out.
LEMMA ExpiryInv ==
  ASSUME Inv, \/ \E s \in Scopes, m \in Minutes : CountExpires(s, m)
              \/ \E s \in Scopes : BytesExpire(s)
  PROVE  /\ Inv'
         /\ UNCHANGED <<enabled, blocked, faults, now, windows, pc, loc, begun, admitted>>
         /\ \A s \in Scopes, m \in Minutes :
              /\ count'[s][m].n <= count[s][m].n /\ count'[s][m].bytes <= count[s][m].bytes
              /\ count'[s][m].n # count[s][m].n => now >= m + CountLife
              /\ count'[s][m].bytes # count[s][m].bytes => now >= m + BytesLife
<1>1. UNCHANGED <<enabled, blocked, faults, now, windows, pc, loc, begun, admitted>>
  BY DEF CountExpires, BytesExpire, redis
<1>2. count \in [Scopes -> [Minutes -> [n : Nat, bytes : Nat]]]
  BY InvFacts DEF Tally
<1>3. ASSUME NEW s \in Scopes, NEW m \in Minutes
      PROVE  count[s][m] \in [n : Nat, bytes : Nat] /\ count[s][m].n \in Nat /\ count[s][m].bytes \in Nat
  BY <1>2
<1> DEFINE Less == \A s \in Scopes, m \in Minutes :
              /\ count'[s][m].n <= count[s][m].n /\ count'[s][m].bytes <= count[s][m].bytes
              /\ count'[s][m].n # count[s][m].n => now >= m + CountLife
              /\ count'[s][m].bytes # count[s][m].bytes => now >= m + BytesLife
<1>4. ASSUME NEW t \in Scopes, NEW k \in Minutes, CountExpires(t, k)
      PROVE  count' \in Tally /\ Less
  <2> DEFINE e == [count[t][k] EXCEPT !.n = 0]
             c == [count[t] EXCEPT ![k] = e]
  <2>1. count' = [count EXCEPT ![t] = c] /\ now >= k + CountLife
    BY <1>4, Zenon DEF CountExpires
  <2>2. e \in [n : Nat, bytes : Nat] /\ e.n = 0 /\ e.bytes = count[t][k].bytes
    BY <1>3
  <2> HIDE DEF e
  <2>3. /\ c \in [Minutes -> [n : Nat, bytes : Nat]] /\ c[k] = e
        /\ \A m \in Minutes : m # k => c[m] = count[t][m]
    BY <1>2, <2>2
  <2> HIDE DEF c
  <2>4. /\ count' \in Tally /\ count'[t] = c
        /\ \A s \in Scopes : s # t => count'[s] = count[s]
    BY <1>2, <2>1, <2>3 DEF Tally
  <2>5. Less
    <3> SUFFICES ASSUME NEW s \in Scopes, NEW m \in Minutes
                 PROVE  /\ count'[s][m].n <= count[s][m].n /\ count'[s][m].bytes <= count[s][m].bytes
                        /\ count'[s][m].n # count[s][m].n => now >= m + CountLife
                        /\ count'[s][m].bytes # count[s][m].bytes => now >= m + BytesLife
      OBVIOUS
    <3>1. CASE s = t /\ m = k
      BY <1>3, <2>1, <2>2, <2>3, <2>4, <3>1
    <3>2. CASE ~(s = t /\ m = k)
      <4>1. count'[s][m] = count[s][m]
        BY <2>3, <2>4, <3>2
      <4> QED  BY <1>3, <4>1
    <3> QED  BY <3>1, <3>2
  <2> QED  BY <2>4, <2>5
<1>5. ASSUME NEW t \in Scopes, BytesExpire(t)
      PROVE  count' \in Tally /\ Less
  <2> DEFINE c == [m \in Minutes |-> [count[t][m] EXCEPT !.bytes = 0]]
             kept == {m \in Minutes : count[t][m].bytes > 0}
  <2>1. count' = [count EXCEPT ![t] = c]
    BY <1>5, Zenon DEF BytesExpire
  <2>2. \A m \in kept : now >= m + BytesLife
    BY <1>5 DEF BytesExpire
  <2>3. /\ c \in [Minutes -> [n : Nat, bytes : Nat]]
        /\ \A m \in Minutes : c[m].n = count[t][m].n /\ c[m].bytes = 0
    BY <1>3
  <2> HIDE DEF c
  <2>4. /\ count' \in Tally /\ count'[t] = c
        /\ \A s \in Scopes : s # t => count'[s] = count[s]
    BY <1>2, <2>1, <2>3 DEF Tally
  <2>5. Less
    <3> SUFFICES ASSUME NEW s \in Scopes, NEW m \in Minutes
                 PROVE  /\ count'[s][m].n <= count[s][m].n /\ count'[s][m].bytes <= count[s][m].bytes
                        /\ count'[s][m].n # count[s][m].n => now >= m + CountLife
                        /\ count'[s][m].bytes # count[s][m].bytes => now >= m + BytesLife
      OBVIOUS
    <3>1. CASE s = t
      <4>1. count'[s][m].n = count[s][m].n /\ count'[s][m].bytes = 0
        BY <2>3, <2>4, <3>1
      <4>2. count[s][m].bytes # 0 => now >= m + BytesLife
        BY <1>3, <2>2, <3>1
      <4> QED  BY <1>3, <4>1, <4>2
    <3>2. CASE s # t
      <4>1. count'[s][m] = count[s][m]
        BY <2>4, <3>2
      <4> QED  BY <1>3, <4>1
    <3> QED  BY <3>1, <3>2
  <2> QED  BY <2>4, <2>5
<1>6. count' \in Tally /\ Less
  BY <1>4, <1>5, Zenon
<1> HIDE DEF Less
<1>7. TypeOK'
  <2>1. HandleTypeOK'
    BY <1>1, InvFacts DEF HandleTypeOK
  <2> QED  BY <1>1, <1>6, <2>1, InvFacts DEF TypeOK
<1>8. \A r \in Requests : Shape(r)'
  BY <1>1, InvFacts DEF Shape, Talking, Proc
<1> QED  BY <1>1, <1>6, <1>7, <1>8 DEF Inv, Less

LEMMA StutterInv ==
  ASSUME Inv, UNCHANGED vars
  PROVE  Inv'
<1>1. UNCHANGED <<enabled, blocked, faults, now, count, windows, pc, loc, begun, admitted>>
  BY DEF vars, redis
<1>2. TypeOK'
  BY <1>1, InvFacts DEF TypeOK, HandleTypeOK
<1>3. \A r \in Requests : Shape(r)'
  BY <1>1, InvFacts DEF Shape, Talking, Proc
<1> QED  BY <1>2, <1>3 DEF Inv

LEMMA InitInv == Init => Inv
<1> SUFFICES ASSUME Init PROVE Inv
  OBVIOUS
<1>1. 0 \in Minutes /\ 0 \in 0 .. MaxBegun /\ 0 \in 0 .. MaxFaults
  BY LimitsAssumption, RedisAssumption DEF Minutes
<1>2. HandleTypeOK
  BY <1>1 DEF Init, HandleInit, HandleTypeOK
<1>3. Nothing \in Tally
  BY DEF Nothing, Tally
<1>4. windows \in [Procs -> [Scopes -> Seq([at : Minutes, size : Sizes])]]
  BY EmptySeq DEF Init
<1>5. loc \in [Requests -> Locals]
  BY BlankTyped DEF Init
<1>6. \A r \in Requests : pc[r] = "idle"
  BY DEF Init
<1>7. pc \in [Requests -> {"idle", "memory", "ask", "sum", "bump", "book"}]
  BY DEF Init
<1>8. now \in Minutes /\ begun \in 0 .. MaxBegun /\ count \in Tally /\ admitted \in Tally
  BY <1>1, <1>3 DEF Init
<1>9. TypeOK
  BY <1>2, <1>4, <1>5, <1>6, <1>7, <1>8 DEF TypeOK
<1> QED  BY <1>6, <1>9 DEF Inv, Shape, Talking

LEMMA InvStep == Inv /\ [Next]_vars => Inv'
<1> SUFFICES ASSUME Inv, [Next]_vars PROVE Inv'
  OBVIOUS
<1>1. CASE UNCHANGED vars
  BY <1>1, StutterInv
<1>2. CASE Next
  BY <1>2, ArriveInv, MemoryInv, AskInv, SumInv, BumpInv, BookInv, ExpiryInv, CooldownInv, MinuteInv DEF Next
<1> QED  BY <1>1, <1>2

\* Everything the limiters keep has the shape they rely on.
THEOREM TypeCorrect == Spec => []TypeOK
<1>1. Inv => TypeOK
  BY DEF Inv
<1> QED  BY <1>1, InitInv, InvStep, PTL DEF Spec

-----------------------------------------------------------------------------
(* Counting the events of the memories.                                    *)

\* The entries of minute m in a window of each process.
Hits(u, m) == UNION {{p} \X {i \in DOMAIN u[p] : u[p][i].at = m} : p \in Procs}
Columns == [Procs -> Seq(Event)]

LEMMA EntriesAreHits ==
  ASSUME NEW w \in [Procs -> [Scopes -> Seq(Event)]], NEW s \in Scopes, NEW m
  PROVE  /\ [p \in Procs |-> w[p][s]] \in Columns
         /\ Entries(w, s, m) = Hits([p \in Procs |-> w[p][s]], m)
<1>1. [p \in Procs |-> w[p][s]] \in Columns
  BY DEF Columns
<1> DEFINE u == [p \in Procs |-> w[p][s]]
<1>2. \A p \in Procs : u[p] = w[p][s]
  OBVIOUS
<1> HIDE DEF u
<1>3. Entries(w, s, m) = Hits(u, m)
  BY <1>2 DEF Entries, Hits
<1> QED  BY <1>1, <1>3 DEF u

LEMMA HitsMembers ==
  ASSUME NEW u \in Columns, NEW m
  PROVE  /\ \A e \in Hits(u, m) : \E p \in Procs, i \in Nat :
                 i \in 1 .. Len(u[p]) /\ e = <<p, i>> /\ u[p][i].at = m
         /\ \A p \in Procs : \A i \in 1 .. Len(u[p]) : u[p][i].at = m => <<p, i>> \in Hits(u, m)
         /\ \A p, i : <<p, i>> \in Hits(u, m) => p \in Procs /\ i \in 1 .. Len(u[p]) /\ u[p][i].at = m
         /\ \A p \in Procs : Len(u[p]) \in Nat
<1>1. \A p \in Procs : DOMAIN u[p] = 1 .. Len(u[p]) /\ Len(u[p]) \in Nat
  BY LenProperties DEF Columns
<1> QED  BY <1>1 DEF Hits

LEMMA HitsFinite ==
  ASSUME NEW u \in Columns, NEW m
  PROVE  IsFiniteSet(Hits(u, m)) /\ Cardinality(Hits(u, m)) \in Nat
<1> DEFINE Layer(p) == {p} \X {i \in DOMAIN u[p] : u[p][i].at = m}
           Layers == {Layer(p) : p \in Procs}
<1>1. IsFiniteSet(Layers)
  <2> DEFINE F == [p \in Procs |-> Layer(p)]
  <2>1. F \in Surjection(Procs, Layers)
    BY DEF Surjection
  <2>2. IsFiniteSet(Procs)
    BY RedisAssumption
  <2> QED  BY <2>1, <2>2, FS_Surjection
<1>2. ASSUME NEW p \in Procs PROVE IsFiniteSet(Layer(p))
  <2> DEFINE I == {i \in DOMAIN u[p] : u[p][i].at = m}
  <2>1. Len(u[p]) \in Nat /\ I \subseteq 1 .. Len(u[p])
    BY LenProperties DEF Columns
  <2>2. IsFiniteSet(1 .. Len(u[p]))
    BY <2>1, FS_Interval
  <2>3. IsFiniteSet(I) /\ IsFiniteSet({p})
    BY <2>1, <2>2, FS_Subset, FS_Singleton, Zenon
  <2> HIDE DEF I
  <2>4. IsFiniteSet({p} \X I)
    BY <2>3, FS_Product
  <2> QED  BY <2>4 DEF I
<1>3. \A T \in Layers : IsFiniteSet(T)
  BY <1>2
<1>4. IsFiniteSet(UNION Layers)
  BY <1>1, <1>3, FS_UNION
<1> QED  BY <1>4, FS_CardinalityType, Zenon DEF Hits

LEMMA HitsBounded ==
  ASSUME NEW u \in Columns, NEW m, NEW K \in Nat, \A p \in Procs : Len(u[p]) <= K
  PROVE  Cardinality(Hits(u, m)) <= K * Cardinality(Procs)
<1>1. IsFiniteSet(1 .. K) /\ Cardinality(1 .. K) = K
  BY FS_Interval
<1>2. IsFiniteSet(Procs) /\ Cardinality(Procs) \in Nat
  BY RedisAssumption, FS_CardinalityType
<1>3. IsFiniteSet(Procs \X (1 .. K)) /\ Cardinality(Procs \X (1 .. K)) = Cardinality(Procs) * Cardinality(1 .. K)
  <2> DEFINE I == 1 .. K
  <2> HIDE DEF I
  <2>1. IsFiniteSet(I)
    BY <1>1 DEF I
  <2>2. IsFiniteSet(Procs \X I) /\ Cardinality(Procs \X I) = Cardinality(Procs) * Cardinality(I)
    BY <2>1, <1>2, FS_Product
  <2> QED  BY <2>2 DEF I
<1>4. Hits(u, m) \subseteq Procs \X (1 .. K)
  BY HitsMembers
<1>5. Cardinality(Hits(u, m)) <= Cardinality(Procs \X (1 .. K))
  BY <1>3, <1>4, FS_Subset, Zenon
<1>6. Cardinality(Procs) * K = K * Cardinality(Procs)
  BY <1>2
<1> QED  BY <1>1, <1>3, <1>5, <1>6

LEMMA HitsEmpty ==
  ASSUME NEW u \in Columns, NEW m, \A p \in Procs : u[p] = <<>>
  PROVE  Cardinality(Hits(u, m)) = 0
<1>1. \A p \in Procs : Len(u[p]) = 0
  OBVIOUS
<1>2. Hits(u, m) = {}
  BY <1>1, HitsMembers
<1> QED  BY <1>2, FS_EmptySet

\* A window that loses its first entries has no more of any minute, and as
\* many of a minute that none of the lost ones is of.
LEMMA HitsDropped ==
  ASSUME NEW u \in Columns, NEW v \in Columns, NEW m, NEW p0 \in Procs,
         \A p \in Procs : p # p0 => v[p] = u[p],
         NEW k \in 0 .. Len(u[p0]), Len(v[p0]) = Len(u[p0]) - k,
         \A i \in 1 .. Len(u[p0]) - k : v[p0][i] = u[p0][i + k]
  PROVE  /\ Cardinality(Hits(v, m)) <= Cardinality(Hits(u, m))
         /\ (\A i \in 1 .. k : u[p0][i].at # m) =>
              Cardinality(Hits(u, m)) <= Cardinality(Hits(v, m))
<1>1. IsFiniteSet(Hits(u, m)) /\ IsFiniteSet(Hits(v, m))
  BY HitsFinite
<1>2. Len(u[p0]) \in Nat /\ k \in Nat
  BY HitsMembers
<1>3. Cardinality(Hits(v, m)) <= Cardinality(Hits(u, m))
  <2> DEFINE f == [e \in Hits(v, m) |-> IF e[1] = p0 THEN <<p0, e[2] + k>> ELSE e]
  <2>1. ASSUME NEW e \in Hits(v, m) PROVE f[e] \in Hits(u, m)
    <3>1. PICK p \in Procs, i \in Nat : i \in 1 .. Len(v[p]) /\ e = <<p, i>> /\ v[p][i].at = m
      BY HitsMembers
    <3>2. CASE p = p0
      <4>1. i \in 1 .. Len(u[p0]) - k /\ i + k \in 1 .. Len(u[p0]) /\ u[p0][i + k].at = m
        BY <1>2, <3>1, <3>2
      <4>2. <<p0, i + k>> \in Hits(u, m)
        BY <4>1, HitsMembers
      <4> QED  BY <3>1, <3>2, <4>2
    <3>3. CASE p # p0
      <4>1. i \in 1 .. Len(u[p]) /\ u[p][i].at = m
        BY <3>1, <3>3
      <4> QED  BY <3>1, <3>3, <4>1, HitsMembers
    <3> QED  BY <3>2, <3>3
  <2>2. ASSUME NEW e \in Hits(v, m), NEW d \in Hits(v, m), f[e] = f[d] PROVE e = d
    <3>1. PICK p \in Procs, i \in Nat : i \in 1 .. Len(v[p]) /\ e = <<p, i>>
      BY HitsMembers
    <3>2. PICK q \in Procs, j \in Nat : j \in 1 .. Len(v[q]) /\ d = <<q, j>>
      BY HitsMembers
    <3>3. i \in Int /\ j \in Int
      OBVIOUS
    <3>4. f[e] = (IF p = p0 THEN <<p0, i + k>> ELSE <<p, i>>)
      BY <3>1
    <3>5. f[d] = (IF q = p0 THEN <<p0, j + k>> ELSE <<q, j>>)
      BY <3>2
    <3> HIDE DEF f
    <3> QED  BY <1>2, <2>2, <3>1, <3>2, <3>3, <3>4, <3>5
  <2>3. f \in Injection(Hits(v, m), Hits(u, m))
    BY <2>1, <2>2 DEF Injection, IsInjective
  <2> HIDE DEF f
  <2> QED  BY <1>1, <2>3, FS_Injection
<1>4. ASSUME \A i \in 1 .. k : u[p0][i].at # m
      PROVE  Cardinality(Hits(u, m)) <= Cardinality(Hits(v, m))
  <2> DEFINE f == [e \in Hits(u, m) |-> IF e[1] = p0 THEN <<p0, e[2] - k>> ELSE e]
  <2>1. ASSUME NEW e \in Hits(u, m) PROVE f[e] \in Hits(v, m)
    <3>1. PICK p \in Procs, i \in Nat : i \in 1 .. Len(u[p]) /\ e = <<p, i>> /\ u[p][i].at = m
      BY HitsMembers
    <3>2. CASE p = p0
      <4>1. i \notin 1 .. k /\ i \in 1 .. Len(u[p0])
        BY <1>4, <3>1, <3>2
      <4>2. i - k \in 1 .. Len(u[p0]) - k /\ (i - k) + k = i
        BY <1>2, <4>1
      <4>3. v[p0][i - k] = u[p0][i]
        BY <4>2
      <4>4. <<p0, i - k>> \in Hits(v, m)
        BY <3>1, <3>2, <4>2, <4>3, HitsMembers
      <4> QED  BY <3>1, <3>2, <4>4
    <3>3. CASE p # p0
      <4>1. i \in 1 .. Len(v[p]) /\ v[p][i].at = m
        BY <3>1, <3>3
      <4> QED  BY <3>1, <3>3, <4>1, HitsMembers
    <3> QED  BY <3>2, <3>3
  <2>2. ASSUME NEW e \in Hits(u, m), NEW d \in Hits(u, m), f[e] = f[d] PROVE e = d
    <3>1. PICK p \in Procs, i \in Nat : i \in 1 .. Len(u[p]) /\ e = <<p, i>>
      BY HitsMembers
    <3>2. PICK q \in Procs, j \in Nat : j \in 1 .. Len(u[q]) /\ d = <<q, j>>
      BY HitsMembers
    <3>3. i \in Int /\ j \in Int
      OBVIOUS
    <3>4. f[e] = (IF p = p0 THEN <<p0, i - k>> ELSE <<p, i>>)
      BY <3>1
    <3>5. f[d] = (IF q = p0 THEN <<p0, j - k>> ELSE <<q, j>>)
      BY <3>2
    <3> HIDE DEF f
    <3> QED  BY <1>2, <2>2, <3>1, <3>2, <3>3, <3>4, <3>5
  <2>3. f \in Injection(Hits(u, m), Hits(v, m))
    BY <2>1, <2>2 DEF Injection, IsInjective
  <2> HIDE DEF f
  <2> QED  BY <1>1, <2>3, FS_Injection
<1> QED  BY <1>3, <1>4

LEMMA HitsAppended ==
  ASSUME NEW u \in Columns, NEW v \in Columns, NEW m, NEW p0 \in Procs, NEW e \in Event,
         \A p \in Procs : p # p0 => v[p] = u[p], v[p0] = Append(u[p0], e)
  PROVE  Cardinality(Hits(v, m)) = Cardinality(Hits(u, m)) + (IF e.at = m THEN 1 ELSE 0)
<1>1. u[p0] \in Seq(Event) /\ Len(u[p0]) \in Nat
  BY HitsMembers DEF Columns
<1> DEFINE n == Len(u[p0])
<1>2. /\ Len(v[p0]) = n + 1 /\ v[p0][n + 1] = e
      /\ \A i \in 1 .. n : v[p0][i] = u[p0][i]
  BY <1>1
<1>3. IsFiniteSet(Hits(u, m)) /\ Cardinality(Hits(u, m)) \in Nat
  BY HitsFinite
<1>4. <<p0, n + 1>> \notin Hits(u, m)
  <2>1. n + 1 \notin 1 .. n
    BY <1>1
  <2> QED  BY <2>1, HitsMembers
<1>5. Hits(u, m) \subseteq Hits(v, m)
  <2> SUFFICES ASSUME NEW d \in Hits(u, m) PROVE d \in Hits(v, m)
    OBVIOUS
  <2>1. PICK p \in Procs, i \in Nat : i \in 1 .. Len(u[p]) /\ d = <<p, i>> /\ u[p][i].at = m
    BY HitsMembers
  <2>2. i \in 1 .. Len(v[p]) /\ v[p][i].at = m
    BY <1>1, <1>2, <2>1
  <2> QED  BY <2>1, <2>2, HitsMembers
<1>6. \A d \in Hits(v, m) : d \in Hits(u, m) \/ (d = <<p0, n + 1>> /\ e.at = m)
  <2> SUFFICES ASSUME NEW d \in Hits(v, m) PROVE d \in Hits(u, m) \/ (d = <<p0, n + 1>> /\ e.at = m)
    OBVIOUS
  <2>1. PICK p \in Procs, i \in Nat : i \in 1 .. Len(v[p]) /\ d = <<p, i>> /\ v[p][i].at = m
    BY HitsMembers
  <2>2. CASE p = p0 /\ i = n + 1
    BY <1>2, <2>1, <2>2
  <2>3. CASE ~(p = p0 /\ i = n + 1)
    <3>1. i \in 1 .. Len(u[p]) /\ u[p][i].at = m
      BY <1>1, <1>2, <2>1, <2>3
    <3> QED  BY <2>1, <3>1, HitsMembers
  <2> QED  BY <2>2, <2>3
<1>7. CASE e.at = m
  <2>1. <<p0, n + 1>> \in Hits(v, m)
    <3>1. n + 1 \in 1 .. Len(v[p0]) /\ v[p0][n + 1].at = m
      BY <1>1, <1>2, <1>7
    <3> QED  BY <3>1, HitsMembers
  <2>2. Hits(v, m) = Hits(u, m) \cup {<<p0, n + 1>>}
    BY <1>5, <1>6, <2>1
  <2>3. Cardinality(Hits(u, m) \cup {<<p0, n + 1>>}) = Cardinality(Hits(u, m)) + 1
    BY <1>3, <1>4, FS_AddElement
  <2> QED  BY <1>7, <2>2, <2>3
<1>8. CASE e.at # m
  <2>1. Hits(v, m) = Hits(u, m)
    BY <1>5, <1>6, <1>8
  <2> QED  BY <1>3, <1>8, <2>1
<1> QED  BY <1>7, <1>8

\* The windows of one counter, by process.
Column(s) == [p \in Procs |-> windows[p][s]]

LEMMA ColumnFacts ==
  ASSUME Inv, NEW s \in Scopes, NEW m
  PROVE  /\ Column(s) \in Columns /\ InMemory(s, m) = Cardinality(Hits(Column(s), m))
         /\ InMemory(s, m) \in Nat
         /\ \A p \in Procs : Column(s)[p] = windows[p][s] /\ Len(windows[p][s]) \in Nat
<1>1. windows \in [Procs -> [Scopes -> Seq(Event)]]
  BY InvFacts
<1>2. Column(s) \in Columns /\ Entries(windows, s, m) = Hits(Column(s), m)
  BY <1>1, EntriesAreHits DEF Column
<1>3. Cardinality(Hits(Column(s), m)) \in Nat
  BY <1>2, HitsFinite
<1>4. \A p \in Procs : Column(s)[p] = windows[p][s]
  BY DEF Column
<1>5. \A p \in Procs : Len(windows[p][s]) \in Nat
  BY <1>2, <1>4, HitsMembers
<1> QED  BY <1>2, <1>3, <1>4, <1>5 DEF InMemory

LEMMA ColumnNext ==
  ASSUME Inv', NEW s \in Scopes, NEW m
  PROVE  /\ Column(s)' \in Columns /\ InMemory(s, m)' = Cardinality(Hits(Column(s)', m))
         /\ InMemory(s, m)' \in Nat
         /\ \A p \in Procs : Column(s)'[p] = windows'[p][s] /\ Len(windows'[p][s]) \in Nat
<1>1. windows' \in [Procs -> [Scopes -> Seq(Event)]]
  BY DEF Inv, TypeOK, Event
<1>2. Column(s)' \in Columns /\ Entries(windows', s, m) = Hits(Column(s)', m)
  BY <1>1, EntriesAreHits DEF Column
<1>3. Cardinality(Hits(Column(s)', m)) \in Nat
  BY <1>2, HitsFinite
<1>4. \A p \in Procs : Column(s)'[p] = windows'[p][s]
  BY DEF Column
<1>5. \A p \in Procs : Len(windows'[p][s]) \in Nat
  BY <1>2, <1>4, HitsMembers
<1> QED  BY <1>2, <1>3, <1>4, <1>5 DEF InMemory

LEMMA MemoryOf ==
  ASSUME Inv, NEW r \in Requests, Memory(r)
  PROVE  /\ pc[r] = "memory" /\ Done(r) /\ Proc(r) \in Procs /\ loc[r].size \in Sizes
         /\ loc[r].at \in Minutes /\ loc[r].at \in Nat /\ loc[r].at <= now
         /\ enabled' = enabled /\ blocked' = blocked /\ faults' = faults
         /\ now' = now /\ count' = count /\ begun' = begun
         /\ \A p \in Procs : p # Proc(r) => windows'[p] = windows[p]
         /\ Refusing(r) \/ Admitting(r)
<1>1. pc[r] = "memory"
  BY DEF Memory
<1>2. Proc(r) \in Procs /\ loc[r].size \in Sizes /\ loc[r].at <= now
  BY <1>1, InvFacts DEF Shape
<1>3. loc[r].at \in Minutes /\ loc[r].at \in Nat
  BY InvFacts, LocalsTyped
<1> QED  BY <1>1, <1>2, <1>3, InvFacts, MemoryEffect

LEMMA PruneHits ==
  ASSUME NEW u \in Columns, NEW v \in Columns, NEW p0 \in Procs, NEW t \in Nat, NEW m \in Nat,
         \A p \in Procs : p # p0 => v[p] = u[p],
         v[p0] \in {u[p0], Prune(u[p0], t, 1)}
  PROVE  /\ Cardinality(Hits(v, m)) \in Nat /\ Cardinality(Hits(u, m)) \in Nat
         /\ Cardinality(Hits(v, m)) <= Cardinality(Hits(u, m))
         /\ t <= m => Cardinality(Hits(v, m)) = Cardinality(Hits(u, m))
<1>1. Cardinality(Hits(v, m)) \in Nat /\ Cardinality(Hits(u, m)) \in Nat
  BY HitsFinite
<1>2. CASE v[p0] = u[p0]
  <2>1. \A p \in Procs : v[p] = u[p]
    BY <1>2
  <2>2. v = u
    BY <2>1 DEF Columns
  <2> QED  BY <1>1, <2>2
<1>3. CASE v[p0] = Prune(u[p0], t, 1)
  <2>1. u[p0] \in Seq(Event)
    BY DEF Columns
  <2>2. PICK k \in 0 .. Len(u[p0]) :
          /\ Len(v[p0]) = Len(u[p0]) - k
          /\ \A i \in 1 .. Len(u[p0]) - k : v[p0][i] = u[p0][i + k]
          /\ \A i \in 1 .. k : u[p0][i].at <= t - 1
    <3> DEFINE w == u[p0]
    <3> HIDE DEF w
    <3>1. w \in Seq(Event)
      BY <2>1 DEF w
    <3>2. \E k \in 0 .. Len(w) :
           /\ Prune(w, t, 1) = SubSeq(w, k + 1, Len(w))
           /\ Prune(w, t, 1) \in Seq(Event)
           /\ Len(Prune(w, t, 1)) = Len(w) - k
           /\ \A i \in 1 .. Len(w) - k : Prune(w, t, 1)[i] = w[i + k]
           /\ \A i \in 1 .. k : w[i].at <= t - 1
      BY <3>1, PruneShape
    <3>3. Prune(w, t, 1) = v[p0]
      BY <1>3 DEF w
    <3>4. \E k \in 0 .. Len(w) :
           /\ Len(v[p0]) = Len(w) - k
           /\ \A i \in 1 .. Len(w) - k : v[p0][i] = w[i + k]
           /\ \A i \in 1 .. k : w[i].at <= t - 1
      BY <3>2, <3>3, Zenon
    <3> QED  BY <3>4 DEF w
  <2>3. /\ Cardinality(Hits(v, m)) <= Cardinality(Hits(u, m))
        /\ (\A i \in 1 .. k : u[p0][i].at # m) => Cardinality(Hits(u, m)) <= Cardinality(Hits(v, m))
    BY <2>2, HitsDropped
  <2>4. ASSUME t <= m, NEW i \in 1 .. k PROVE u[p0][i].at # m
    BY <2>2, <2>4
  <2> QED  BY <1>1, <2>3, <2>4
<1> QED  BY <1>2, <1>3

LEMMA MemoryRefused ==
  ASSUME Inv, NEW r \in Requests, Memory(r), Refusing(r), NEW s \in Scopes, NEW m \in Minutes
  PROVE  /\ InMemory(s, m)' \in Nat /\ InMemory(s, m) \in Nat
         /\ InMemory(s, m)' <= InMemory(s, m)
         /\ loc[r].at <= m => InMemory(s, m)' = InMemory(s, m)
<1>1. Inv'
  BY MemoryInv
<1>2. m \in Nat /\ loc[r].at \in Nat /\ Proc(r) \in Procs
  BY MemoryOf DEF Minutes
<1>3. /\ \A p \in Procs : p # Proc(r) => Column(s)'[p] = Column(s)[p]
      /\ Column(s)'[Proc(r)] \in {Column(s)[Proc(r)], Prune(Column(s)[Proc(r)], loc[r].at, 1)}
  <2>1. \A p \in Procs : p # Proc(r) => windows'[p][s] = windows[p][s]
    BY MemoryOf
  <2>2. windows'[Proc(r)][s] \in {windows[Proc(r)][s], Prune(windows[Proc(r)][s], loc[r].at, 1)}
    BY DEF Refusing
  <2> QED  BY <1>1, <1>2, <2>1, <2>2, ColumnFacts, ColumnNext
<1>4. Column(s) \in Columns /\ Column(s)' \in Columns
  BY <1>1, ColumnFacts, ColumnNext
<1>5. /\ Cardinality(Hits(Column(s)', m)) \in Nat /\ Cardinality(Hits(Column(s), m)) \in Nat
      /\ Cardinality(Hits(Column(s)', m)) <= Cardinality(Hits(Column(s), m))
      /\ loc[r].at <= m => Cardinality(Hits(Column(s)', m)) = Cardinality(Hits(Column(s), m))
  BY <1>2, <1>3, <1>4, PruneHits
<1>6. /\ InMemory(s, m)' = Cardinality(Hits(Column(s)', m))
      /\ InMemory(s, m) = Cardinality(Hits(Column(s), m))
  BY <1>1, ColumnFacts, ColumnNext
<1> QED  BY <1>5, <1>6

LEMMA MemoryAdmitted ==
  ASSUME Inv, NEW r \in Requests, Memory(r), Admitting(r), NEW s \in Scopes, NEW m \in Minutes
  PROVE  /\ InMemory(s, m)' \in Nat /\ InMemory(s, m) \in Nat
         /\ s \notin ToSet(loc[r].scopes) => InMemory(s, m)' = InMemory(s, m)
         /\ loc[r].at # m => InMemory(s, m)' <= InMemory(s, m)
         /\ s \in ToSet(loc[r].scopes) /\ loc[r].at = m => InMemory(s, m)' = InMemory(s, m) + 1
         /\ loc[r].at < m => InMemory(s, m)' = InMemory(s, m)
<1>1. Inv'
  BY MemoryInv
<1> DEFINE p0 == Proc(r)
           t == loc[r].at
           e == [at |-> t, size |-> loc[r].size]
<1>2. m \in Nat /\ t \in Nat /\ p0 \in Procs /\ e \in Event
  BY MemoryOf DEF Minutes, Event
<1>3. Column(s) \in Columns /\ Column(s)' \in Columns
  BY <1>1, ColumnFacts, ColumnNext
<1>4. /\ InMemory(s, m)' = Cardinality(Hits(Column(s)', m))
      /\ InMemory(s, m) = Cardinality(Hits(Column(s), m))
      /\ InMemory(s, m)' \in Nat /\ InMemory(s, m) \in Nat
  BY <1>1, ColumnFacts, ColumnNext
<1>5. \A p \in Procs : p # p0 => Column(s)'[p] = Column(s)[p]
  <2>1. \A p \in Procs : p # p0 => windows'[p][s] = windows[p][s]
    BY MemoryOf
  <2> QED  BY <1>1, <2>1, ColumnFacts, ColumnNext
<1>6. CASE s \notin ToSet(loc[r].scopes)
  <2>1. windows'[p0][s] = windows[p0][s]
    BY <1>6 DEF Admitting
  <2>2. Column(s)'[p0] = Column(s)[p0]
    BY <1>1, <1>2, <2>1, ColumnFacts, ColumnNext
  <2>3. Column(s)' = Column(s)
    BY <1>3, <1>5, <2>2 DEF Columns
  <2> QED  BY <1>4, <1>6, <2>3
<1>7. CASE s \in ToSet(loc[r].scopes)
  <2> DEFINE w == Prune(Column(s)[p0], t, 1)
             v == [Column(s) EXCEPT ![p0] = w]
  <2>1. windows'[p0][s] = Append(Prune(windows[p0][s], t, 1), e)
    BY <1>7 DEF Admitting
  <2>2. Column(s)'[p0] = Append(w, e)
    BY <1>1, <1>2, <2>1, ColumnFacts, ColumnNext
  <2>3. w \in Seq(Event)
    <3>1. Column(s)[p0] \in Seq(Event)
      BY <1>2, <1>3 DEF Columns
    <3> QED  BY <1>2, <3>1, PruneShape
  <2>4. /\ v \in Columns /\ v[p0] = w
        /\ \A p \in Procs : p # p0 => v[p] = Column(s)[p]
    <3> HIDE DEF w
    <3> QED  BY <1>2, <1>3, <2>3 DEF Columns
  <2>5. /\ \A p \in Procs : p # p0 => Column(s)'[p] = v[p]
        /\ Column(s)'[p0] = Append(v[p0], e)
    BY <1>5, <2>2, <2>4
  <2>6. v[p0] \in {Column(s)[p0], Prune(Column(s)[p0], t, 1)}
    BY <2>4
  <2> HIDE DEF v, w, e
  <2>7. /\ Cardinality(Hits(v, m)) \in Nat
        /\ Cardinality(Hits(v, m)) <= Cardinality(Hits(Column(s), m))
        /\ t <= m => Cardinality(Hits(v, m)) = Cardinality(Hits(Column(s), m))
    BY <1>2, <1>3, <2>4, <2>6, PruneHits
  <2>8. Cardinality(Hits(Column(s)', m)) = Cardinality(Hits(v, m)) + (IF e.at = m THEN 1 ELSE 0)
    BY <1>2, <1>3, <2>4, <2>5, HitsAppended
  <2>9. e.at = t
    BY DEF e
  <2>10. InMemory(s, m)' = Cardinality(Hits(v, m)) + (IF t = m THEN 1 ELSE 0)
    BY <1>4, <2>8, <2>9
  <2>11. CASE t = m
    <3>1. Cardinality(Hits(v, m)) = InMemory(s, m)
      BY <1>2, <1>4, <2>7, <2>11
    <3> QED  BY <1>2, <1>4, <1>7, <2>10, <2>11, <3>1
  <2>12. CASE t # m
    <3>1. InMemory(s, m)' = Cardinality(Hits(v, m))
      BY <2>7, <2>10, <2>12
    <3> QED  BY <1>2, <1>4, <1>7, <2>7, <2>12, <3>1
  <2> QED  BY <2>11, <2>12
<1> QED  BY <1>6, <1>7

-----------------------------------------------------------------------------
(* Uploads that pass a counter together (CountInv).                        *)

One(b) == IF b THEN 1 ELSE 0

LEMMA OverlapFacts ==
  /\ IsFiniteSet(Requests) /\ Cardinality(Requests) \in Nat /\ Cardinality(Requests) >= 1
  /\ Overlap \in Nat /\ Overlap = Cardinality(Requests) - 1
<1>1. IsFiniteSet(Requests) /\ Cardinality(Requests) \in Nat
  BY LimitsAssumption, FS_CardinalityType
<1>2. Cardinality(Requests) # 0
  BY <1>1, LimitsAssumption, FS_EmptySet
<1> QED  BY <1>1, <1>2 DEF Overlap

LEMMA CardMoves ==
  ASSUME NEW r \in Requests, NEW A, NEW B, A \subseteq Requests, B \subseteq Requests,
         \A q \in Requests \ {r} : q \in A <=> q \in B
  PROVE  /\ Cardinality(A) \in Nat /\ Cardinality(B) \in Nat
         /\ Cardinality(B) + One(r \in A) = Cardinality(A) + One(r \in B)
<1>1. IsFiniteSet(A) /\ IsFiniteSet(B) /\ IsFiniteSet(A \ {r})
  BY OverlapFacts, FS_Subset, Zenon
<1>2. /\ Cardinality(A) \in Nat /\ Cardinality(B) \in Nat
      /\ IsFiniteSet(A \ {r}) /\ Cardinality(A \ {r}) \in Nat
  BY <1>1, FS_CardinalityType, FS_RemoveElement
<1>3. Cardinality(A \ {r}) = IF r \in A THEN Cardinality(A) - 1 ELSE Cardinality(A)
  BY <1>1, FS_RemoveElement
<1>4. Cardinality(B \ {r}) = IF r \in B THEN Cardinality(B) - 1 ELSE Cardinality(B)
  BY <1>1, FS_RemoveElement
<1>5. A \ {r} = B \ {r}
  OBVIOUS
<1>6. Cardinality(A \ {r}) = Cardinality(B \ {r})
  BY <1>5, Zenon
<1>7. One(r \in A) = (IF r \in A THEN 1 ELSE 0) /\ One(r \in B) = (IF r \in B THEN 1 ELSE 0)
  BY Zenon DEF One
<1> QED  BY <1>2, <1>3, <1>4, <1>6, <1>7

LEMMA CardAtMost ==
  ASSUME NEW A, A \subseteq Requests
  PROVE  /\ Cardinality(A) \in Nat /\ Cardinality(A) <= Overlap + 1
         /\ \A r \in Requests : r \notin A => Cardinality(A) <= Overlap
<1>1. IsFiniteSet(A) /\ Cardinality(A) \in Nat /\ Cardinality(A) <= Cardinality(Requests)
  BY OverlapFacts, FS_Subset, FS_CardinalityType
<1>2. ASSUME NEW r \in Requests, r \notin A PROVE Cardinality(A) <= Overlap
  <2>1. IsFiniteSet(Requests \ {r}) /\ Cardinality(Requests \ {r}) = Cardinality(Requests) - 1
    BY OverlapFacts, FS_RemoveElement
  <2>2. A \subseteq Requests \ {r}
    BY <1>2
  <2>3. Cardinality(A) <= Cardinality(Requests \ {r})
    BY <2>1, <2>2, FS_Subset
  <2> QED  BY <2>1, <2>3, OverlapFacts
<1> QED  BY <1>1, <1>2, OverlapFacts

\* The uploads that found a counter below its limit and have not added to it:
\* all requests but one may do so beyond the limit.
Passing(s, m) == {r \in Requests : pc[r] \in {"sum", "bump"} /\ Scope(r) = s /\ loc[r].at = m}
CountInv ==
  \A s \in Scopes, m \in Minutes :
    Rpm[s] > 0 => count[s][m].n + Cardinality(Passing(s, m)) <= Rpm[s] + Overlap

LEMMA PassingOthers ==
  ASSUME NEW r \in Requests, Others(r), NEW s, NEW m
  PROVE  \A q \in Requests \ {r} : q \in Passing(s, m)' <=> q \in Passing(s, m)
BY DEF Others, Passing, Scope

LEMMA CountMoves ==
  ASSUME Inv, Inv', CountInv, NEW r \in Requests, Others(r), NEW s \in Scopes, NEW m \in Minutes,
         Rpm[s] > 0,
         \/ count'[s][m].n = count[s][m].n /\ (r \in Passing(s, m)' => r \in Passing(s, m))
         \/ /\ count'[s][m].n = count[s][m].n + 1
            /\ r \in Passing(s, m) /\ r \notin Passing(s, m)'
         \/ count'[s][m].n = count[s][m].n /\ ~(count[s][m].n >= Rpm[s])
  PROVE  count'[s][m].n + Cardinality(Passing(s, m)') <= Rpm[s] + Overlap
<1> DEFINE P == Passing(s, m)
           Q == Passing(s, m)'
<1>0. SUFFICES count'[s][m].n + Cardinality(Q) <= Rpm[s] + Overlap
  OBVIOUS
<1>1. P \subseteq Requests /\ Q \subseteq Requests
  BY DEF Passing
<1>2. \A q \in Requests \ {r} : q \in P <=> q \in Q
  BY PassingOthers
<1>3. count[s][m].n + Cardinality(P) <= Rpm[s] + Overlap
  BY DEF CountInv
<1>4. count[s][m].n \in Nat /\ Rpm[s] \in Nat
  BY InvFacts, CountTyped, LimitsAssumption
<1>10. \/ count'[s][m].n = count[s][m].n /\ (r \in Q => r \in P)
       \/ count'[s][m].n = count[s][m].n + 1 /\ r \in P /\ r \notin Q
       \/ count'[s][m].n = count[s][m].n /\ ~(count[s][m].n >= Rpm[s])
  OBVIOUS
<1> HIDE DEF P, Q
<1>5. /\ Cardinality(P) \in Nat /\ Cardinality(Q) \in Nat
      /\ Cardinality(Q) + One(r \in P) = Cardinality(P) + One(r \in Q)
  BY <1>1, <1>2, CardMoves
<1>6. Cardinality(Q) <= Overlap + 1
  BY <1>1, CardAtMost
<1>7. CASE count'[s][m].n = count[s][m].n /\ (r \in Q => r \in P)
  BY <1>3, <1>4, <1>5, <1>7, OverlapFacts DEF One
<1>8. CASE count'[s][m].n = count[s][m].n + 1 /\ r \in P /\ r \notin Q
  BY <1>3, <1>4, <1>5, <1>8, OverlapFacts DEF One
<1>9. CASE count'[s][m].n = count[s][m].n /\ ~(count[s][m].n >= Rpm[s])
  BY <1>4, <1>5, <1>6, <1>9, OverlapFacts
<1> QED  BY <1>10, <1>7, <1>8, <1>9, Zenon

-----------------------------------------------------------------------------
(* What each step of a request does, for the bounds.                       *)

\* Where a step leaves its request: in memory, at a later await of the same
\* counter, or at the first await of the next one.
Fell(r) == /\ pc'[r] = "memory" /\ loc'[r].at = now
           /\ loc'[r].scopes = loc[r].scopes /\ loc'[r].size = loc[r].size
Kept(r, p) == pc'[r] = p /\ loc'[r] = loc[r]
Advanced(r) == /\ pc'[r] \in {"ask", "sum", "bump"} /\ pc'[r] = Enter(Global)
               /\ loc'[r].todo = <<Global>> /\ loc'[r].at = loc[r].at
               /\ loc'[r].scopes = loc[r].scopes /\ loc'[r].size = loc[r].size
               /\ Tail(loc[r].todo) # <<>>

LEMMA FellIs ==
  ASSUME Inv, NEW r \in Requests, pc[r] # "idle", Fallback(r)
  PROVE  Others(r) /\ Fell(r)
BY FellFacts DEF Fell

LEMMA LeftIs ==
  ASSUME Inv, NEW r \in Requests, Done(r)
  PROVE  Others(r) /\ pc'[r] = "idle"
BY LeftFacts

LEMMA KeptIs ==
  ASSUME Inv, NEW r \in Requests, NEW p \in Stages, Go(r, p, loc[r])
  PROVE  Others(r) /\ Kept(r, p)
BY StayFacts DEF Kept

LEMMA AdvancedIs ==
  ASSUME Inv, NEW r \in Requests, Talking(r), Tail(loc[r].todo) # <<>>,
         Go(r, Enter(Head(Tail(loc[r].todo))), [loc[r] EXCEPT !.todo = Tail(loc[r].todo)])
  PROVE  Others(r) /\ Advanced(r)
BY NextFacts DEF Advanced, Stages

LEMMA AskStep ==
  ASSUME Inv, NEW r \in Requests, Ask(r)
  PROVE  /\ Inv' /\ Talking(r) /\ pc[r] = "ask" /\ Others(r) /\ enabled' = enabled /\ now' = now
         /\ count' = count /\ windows' = windows /\ admitted' = admitted
         /\ \/ Faulted /\ Fell(r)
            \/ Calmly /\ pc'[r] = "idle"
            \/ /\ Calmly /\ ~(count[Scope(r)][loc[r].at].n >= Rpm[Scope(r)])
               /\ Kept(r, "sum") \/ (Kept(r, "bump") /\ ~(Bph[Scope(r)] > 0))
<1>1. Inv' /\ Talking(r) /\ pc[r] = "ask" /\ TypeOK
  BY AskInv DEF Ask, Talking, Inv
<1>2. Proc(r) \in Procs
  BY <1>1, TalkFacts
<1>3. /\ enabled' = enabled /\ now' = now /\ count' = count
      /\ windows' = windows /\ admitted' = admitted
      /\ \/ Faulted /\ Fallback(r)
         \/ Calmly /\ Done(r)
         \/ /\ Calmly /\ ~(count[Scope(r)][loc[r].at].n >= Rpm[Scope(r)])
            /\ Go(r, IF Bph[Scope(r)] > 0 THEN "sum" ELSE "bump", loc[r])
  BY <1>1, <1>2, AskEffect
<1>4. CASE Faulted /\ Fallback(r)
  BY <1>1, <1>3, <1>4, FellIs
<1>5. CASE Calmly /\ Done(r)
  BY <1>1, <1>3, <1>5, LeftIs
<1>6. CASE /\ Calmly /\ ~(count[Scope(r)][loc[r].at].n >= Rpm[Scope(r)])
           /\ Go(r, IF Bph[Scope(r)] > 0 THEN "sum" ELSE "bump", loc[r])
  <2>1. PICK p \in {"sum", "bump"} : Go(r, p, loc[r]) /\ (p = "bump" => ~(Bph[Scope(r)] > 0))
    <3>1. CASE Bph[Scope(r)] > 0
      BY <1>6, <3>1
    <3>2. CASE ~(Bph[Scope(r)] > 0)
      BY <1>6, <3>2
    <3> QED  BY <3>1, <3>2
  <2>2. Others(r) /\ Kept(r, p)
    <3>1. p \in Stages
      BY DEF Stages
    <3> QED  BY <2>1, <3>1, KeptIs
  <2>3. Kept(r, "sum") \/ (Kept(r, "bump") /\ ~(Bph[Scope(r)] > 0))
    BY <2>1, <2>2
  <2> QED  BY <1>1, <1>3, <1>6, <2>2, <2>3
<1> QED  BY <1>3, <1>4, <1>5, <1>6, Zenon

LEMMA SumStep ==
  ASSUME Inv, NEW r \in Requests, Sum(r)
  PROVE  /\ Inv' /\ Talking(r) /\ pc[r] = "sum" /\ Others(r) /\ enabled' = enabled /\ now' = now
         /\ windows' = windows /\ admitted' = admitted
         /\ count' \in {count, Trimmed(r)}
         /\ \A s \in Scopes, m \in Minutes : count'[s][m].n = count[s][m].n
         /\ \/ Faulted /\ Fell(r)
            \/ Calmly /\ pc'[r] = "idle"
            \/ /\ Calmly /\ Kept(r, "bump")
               /\ ~(Booked(count[Scope(r)], {m \in Minutes : m >= Oldest(r)}) + loc[r].size > Bph[Scope(r)])
<1>1. Inv' /\ Talking(r) /\ pc[r] = "sum" /\ TypeOK
  BY SumInv DEF Sum, Talking, Inv
<1>2. Proc(r) \in Procs /\ Scope(r) \in Scopes
  BY <1>1, TalkFacts
<1>3. /\ enabled' = enabled /\ now' = now
      /\ windows' = windows /\ admitted' = admitted
      /\ count' \in {count, Trimmed(r)}
      /\ \/ Faulted /\ Fallback(r)
         \/ Calmly /\ Done(r)
         \/ /\ Calmly /\ Go(r, "bump", loc[r])
            /\ ~(Booked(count[Scope(r)], {m \in Minutes : m >= Oldest(r)}) + loc[r].size > Bph[Scope(r)])
  BY <1>1, <1>2, SumEffect
<1>4. \A s \in Scopes, m \in Minutes : count'[s][m].n = count[s][m].n
  <2> SUFFICES ASSUME NEW s \in Scopes, NEW m \in Minutes, count' = Trimmed(r)
               PROVE  count'[s][m].n = count[s][m].n
    BY <1>3
  <2>1. CASE s # Scope(r)
    BY <1>1, <1>2, <2>1, TrimFacts
  <2>2. CASE s = Scope(r)
    <3>1. count[s][m] \in [n : Nat, bytes : Nat]
      BY <1>1, CountTyped
    <3>2. Trimmed(r)[s][m] = IF m < Oldest(r) THEN [count[s][m] EXCEPT !.bytes = 0] ELSE count[s][m]
      BY <1>1, <1>2, <2>2, TrimFacts
    <3> QED  BY <3>1, <3>2
  <2> QED  BY <2>1, <2>2
<1>5. CASE Faulted /\ Fallback(r)
  BY <1>1, <1>3, <1>4, <1>5, FellIs
<1>6. CASE Calmly /\ Done(r)
  BY <1>1, <1>3, <1>4, <1>6, LeftIs
<1>7. CASE /\ Calmly /\ Go(r, "bump", loc[r])
           /\ ~(Booked(count[Scope(r)], {m \in Minutes : m >= Oldest(r)}) + loc[r].size > Bph[Scope(r)])
  <2>1. Others(r) /\ Kept(r, "bump")
    BY <1>7, KeptIs DEF Stages
  <2> QED  BY <1>1, <1>3, <1>4, <1>7, <2>1, Zenon
<1> QED  BY <1>3, <1>5, <1>6, <1>7, Zenon

LEMMA BumpStep ==
  ASSUME Inv, NEW r \in Requests, Bump(r)
  PROVE  /\ Inv' /\ Talking(r) /\ pc[r] = "bump" /\ Others(r) /\ enabled' = enabled /\ now' = now
         /\ windows' = windows /\ admitted' = admitted
         /\ \/ Faulted /\ Fell(r) /\ count' \in {count, Bumped(r)}
            \/ Calmly /\ Kept(r, "book") /\ count' = Bumped(r)
<1>1. Inv' /\ Talking(r) /\ pc[r] = "bump" /\ TypeOK
  BY BumpInv DEF Bump, Talking, Inv
<1>2. Proc(r) \in Procs
  BY <1>1, TalkFacts
<1>3. /\ enabled' = enabled /\ now' = now /\ windows' = windows /\ admitted' = admitted
      /\ \/ Faulted /\ Fallback(r) /\ count' \in {count, Bumped(r)}
         \/ Calmly /\ Go(r, "book", loc[r]) /\ count' = Bumped(r)
  BY <1>1, <1>2, BumpEffect
<1>4. CASE Faulted /\ Fallback(r) /\ count' \in {count, Bumped(r)}
  BY <1>1, <1>3, <1>4, FellIs
<1>5. CASE Calmly /\ Go(r, "book", loc[r]) /\ count' = Bumped(r)
  <2>1. Others(r) /\ Kept(r, "book")
    BY <1>5, KeptIs DEF Stages
  <2> QED  BY <1>1, <1>3, <1>5, <2>1
<1> QED  BY <1>3, <1>4, <1>5, Zenon

LEMMA BookStep ==
  ASSUME Inv, NEW r \in Requests, Book(r)
  PROVE  /\ Inv' /\ Talking(r) /\ pc[r] = "book" /\ Others(r) /\ enabled' = enabled /\ now' = now
         /\ windows' = windows
         /\ \A s \in Scopes, m \in Minutes : count'[s][m].n = count[s][m].n
         /\ \/ Faulted /\ Fell(r) /\ admitted' = admitted /\ count' \in {count, BookedBy(r)}
            \/ Calmly /\ pc'[r] = "idle" /\ Tail(loc[r].todo) = <<>> /\ Admit(r) /\ count' = BookedBy(r)
            \/ Calmly /\ Advanced(r) /\ admitted' = admitted /\ count' = BookedBy(r)
<1>1. Inv' /\ Talking(r) /\ pc[r] = "book" /\ TypeOK
  BY BookInv DEF Book, Talking, Inv
<1>2. Proc(r) \in Procs /\ Scope(r) \in Scopes
  BY <1>1, TalkFacts
<1>3. /\ enabled' = enabled /\ now' = now /\ windows' = windows
      /\ \/ Faulted /\ Fallback(r) /\ admitted' = admitted /\ count' \in {count, BookedBy(r)}
         \/ Calmly /\ Tail(loc[r].todo) = <<>> /\ Done(r) /\ Admit(r) /\ count' = BookedBy(r)
         \/ /\ Calmly /\ Tail(loc[r].todo) # <<>> /\ admitted' = admitted
            /\ Go(r, Enter(Head(Tail(loc[r].todo))), [loc[r] EXCEPT !.todo = Tail(loc[r].todo)])
            /\ count' = BookedBy(r)
  BY <1>1, <1>2, BookEffect
<1>4. \A s \in Scopes, m \in Minutes : count'[s][m].n = count[s][m].n
  <2> SUFFICES ASSUME NEW s \in Scopes, NEW m \in Minutes, count' = BookedBy(r)
               PROVE  count'[s][m].n = count[s][m].n
    BY <1>3
  <2> QED  BY <1>1, <1>2, BookFacts
<1>5. CASE Faulted /\ Fallback(r) /\ admitted' = admitted /\ count' \in {count, BookedBy(r)}
  BY <1>1, <1>3, <1>4, <1>5, FellIs
<1>6. CASE Calmly /\ Tail(loc[r].todo) = <<>> /\ Done(r) /\ Admit(r) /\ count' = BookedBy(r)
  BY <1>1, <1>3, <1>4, <1>6, LeftIs
<1>7. CASE /\ Calmly /\ Tail(loc[r].todo) # <<>> /\ admitted' = admitted
           /\ Go(r, Enter(Head(Tail(loc[r].todo))), [loc[r] EXCEPT !.todo = Tail(loc[r].todo)])
           /\ count' = BookedBy(r)
  <2>1. Others(r) /\ Advanced(r)
    BY <1>1, <1>7, AdvancedIs
  <2> QED  BY <1>1, <1>3, <1>4, <1>7, <2>1
<1> QED  BY <1>3, <1>5, <1>6, <1>7, Zenon

\* A request that has just come.
Fresh(r) ==
  /\ loc'[r].at = now
  /\ \/ pc'[r] = "memory" /\ (enabled => \E p \in Procs : blocked[p])
     \/ /\ pc'[r] \in {"ask", "sum", "bump"} /\ enabled
        /\ pc'[r] \in {"sum", "bump"} => Rpm[Scope(r)'] = 0
        /\ pc'[r] = "bump" => ~(Bph[Scope(r)'] > 0)
        /\ loc'[r].todo = loc'[r].scopes

LEMMA ArriveStep ==
  ASSUME Inv, NEW r \in Requests, Arrive(r)
  PROVE  /\ Inv' /\ pc[r] = "idle" /\ Others(r) /\ Fresh(r)
         /\ enabled' = enabled /\ blocked' = blocked /\ faults' = faults
         /\ now' = now /\ count' = count /\ windows' = windows /\ admitted' = admitted
<1>1. /\ Inv' /\ pc[r] = "idle"
      /\ enabled' = enabled /\ blocked' = blocked /\ faults' = faults
      /\ now' = now /\ count' = count /\ windows' = windows /\ admitted' = admitted
  BY ArriveInv, InvFacts, ArriveEffect
<1>2. PICK a \in Signed \cup Anons, p \in Procs, size \in Sizes :
        /\ Arrived(r, a, p, size) \in Locals
        /\ \/ enabled /\ Go(r, Enter(Head(ScopesOf(a))), Arrived(r, a, p, size))
           \/ (enabled => blocked[p]) /\ Go(r, "memory", Arrived(r, a, p, size))
  BY InvFacts, ArriveEffect
<1>3. /\ Arrived(r, a, p, size).at = now
      /\ Arrived(r, a, p, size).todo = ScopesOf(a) /\ Arrived(r, a, p, size).scopes = ScopesOf(a)
  BY DEF Arrived
<1>4. Head(ScopesOf(a)) \in Scopes
  BY ScopesTyped
<1>5. CASE enabled /\ Go(r, Enter(Head(ScopesOf(a))), Arrived(r, a, p, size))
  <2>1. /\ Enter(Head(ScopesOf(a))) \in Stages \ {"idle", "memory", "book"}
        /\ Enter(Head(ScopesOf(a))) \in {"sum", "bump"} => Rpm[Head(ScopesOf(a))] = 0
        /\ Enter(Head(ScopesOf(a))) = "bump" => ~(Bph[Head(ScopesOf(a))] > 0)
    BY <1>4, EnterTyped
  <2>2. Others(r) /\ pc'[r] = Enter(Head(ScopesOf(a))) /\ loc'[r] = Arrived(r, a, p, size)
    BY <1>2, <1>5, <2>1, InvFacts, Went DEF Others
  <2>3. Scope(r)' = Head(ScopesOf(a))
    BY <1>3, <2>2 DEF Scope
  <2> QED  BY <1>1, <1>3, <1>5, <2>1, <2>2, <2>3 DEF Fresh, Stages
<1>6. CASE (enabled => blocked[p]) /\ Go(r, "memory", Arrived(r, a, p, size))
  <2>1. Others(r) /\ pc'[r] = "memory" /\ loc'[r] = Arrived(r, a, p, size)
    BY <1>2, <1>6, InvFacts, Went DEF Others, Stages
  <2> QED  BY <1>1, <1>3, <1>6, <2>1 DEF Fresh
<1> QED  BY <1>2, <1>5, <1>6, Zenon

-----------------------------------------------------------------------------
(* Without a fault no memory counts, and without Redis nothing is counted  *)
(* there; a window stays within its limit.                                 *)

\* Counters are in Redis only when it is there, and in memory only when it is
\* not or has failed.
OffInv == ~enabled => \A s \in Scopes, m \in Minutes : count[s][m].n = 0
CalmInv ==
  Calm => /\ \A p \in Procs : ~blocked[p]
          /\ \A p \in Procs, s \in Scopes : windows[p][s] = <<>>
          /\ \A r \in Requests : pc[r] # "memory"
WindowInv == \A p \in Procs, s \in Scopes : Rpm[s] > 0 => Len(windows[p][s]) <= Rpm[s]

\* What a command leaves alone, and what one that fails means.
Talks(r) ==
  /\ Talking(r) /\ Others(r) /\ enabled' = enabled /\ now' = now /\ windows' = windows
  /\ (Faulted /\ Fell(r)) \/ (Calmly /\ pc'[r] # "memory")

LEMMA TalksAll ==
  ASSUME Inv, NEW r \in Requests, Ask(r) \/ Sum(r) \/ Bump(r) \/ Book(r)
  PROVE  Talks(r) /\ Inv'
<1>1. CASE Ask(r)
  BY <1>1, AskStep DEF Talks, Kept
<1>2. CASE Sum(r)
  BY <1>2, SumStep DEF Talks, Kept
<1>3. CASE Bump(r)
  BY <1>3, BumpStep DEF Talks, Kept
<1>4. CASE Book(r)
  BY <1>4, BookStep DEF Talks, Kept, Advanced
<1> QED  BY <1>1, <1>2, <1>3, <1>4

LEMMA CalmTalks ==
  ASSUME Inv, CalmInv, WindowInv, OffInv, NEW r \in Requests, Talks(r)
  PROVE  CalmInv' /\ WindowInv' /\ OffInv' /\ (Calm' => Calm)
<1>1. enabled /\ enabled'
  BY TalkFacts DEF Talks
<1>2. WindowInv' /\ OffInv'
  BY <1>1 DEF Talks, WindowInv, OffInv
<1>3. faults \in Nat
  BY InvFacts
<1>4. CASE Faulted /\ Fell(r)
  <2>1. ~Calm'
    BY <1>3, <1>4 DEF Calm, Faulted
  <2> QED  BY <1>2, <2>1 DEF CalmInv
<1>5. CASE Calmly /\ pc'[r] # "memory"
  <2>1. Calm' => Calm
    BY <1>5 DEF Calm, Calmly, Talks
  <2>2. ASSUME Calm' PROVE \A q \in Requests : pc'[q] # "memory"
    BY <1>5, <2>1, <2>2 DEF CalmInv, Talks, Others
  <2>3. ASSUME Calm' PROVE \A p \in Procs : ~blocked'[p]
    BY <1>5, <2>1, <2>3 DEF CalmInv, Calmly
  <2>4. ASSUME Calm' PROVE \A p \in Procs, s \in Scopes : windows'[p][s] = <<>>
    BY <2>1, <2>4 DEF CalmInv, Talks
  <2> QED  BY <1>2, <2>1, <2>2, <2>3, <2>4 DEF CalmInv
<1> QED  BY <1>4, <1>5 DEF Talks

LEMMA CalmMemory ==
  ASSUME Inv, CalmInv, WindowInv, OffInv, NEW r \in Requests, Memory(r)
  PROVE  CalmInv' /\ WindowInv' /\ OffInv' /\ ~Calm /\ ~Calm'
<1>1. /\ pc[r] = "memory" /\ Proc(r) \in Procs /\ loc[r].at \in Nat
      /\ enabled' = enabled /\ faults' = faults /\ count' = count
      /\ \A p \in Procs : p # Proc(r) => windows'[p] = windows[p]
      /\ Refusing(r) \/ Admitting(r)
  BY MemoryOf
<1>2. ~Calm /\ ~Calm'
  BY <1>1 DEF CalmInv, Calm
<1>3. OffInv'
  BY <1>1 DEF OffInv
<1>4. ASSUME NEW p \in Procs, NEW s \in Scopes, Rpm[s] > 0 PROVE Len(windows'[p][s]) <= Rpm[s]
  <2>1. Len(windows[p][s]) <= Rpm[s] /\ Rpm[s] \in Nat
    BY <1>4, LimitsAssumption DEF WindowInv
  <2>2. CASE p # Proc(r)
    BY <1>1, <2>1, <2>2
  <2>3. CASE p = Proc(r)
    <3> DEFINE w == windows[p][s]
               v == Prune(w, loc[r].at, 1)
    <3>1. w \in Seq(Event) /\ Len(w) \in Nat
      BY InvFacts, WindowTyped, LenProperties
    <3> HIDE DEF w
    <3>2. PICK k \in 0 .. Len(w) : v \in Seq(Event) /\ Len(v) = Len(w) - k
      BY <1>1, <3>1, PruneShape, Zenon
    <3>3. Len(v) \in Nat /\ Len(v) <= Rpm[s]
      BY <2>1, <3>1, <3>2 DEF w
    <3> HIDE DEF v
    <3>4. CASE windows'[p][s] = w \/ windows'[p][s] = v
      BY <2>1, <3>3, <3>4 DEF w
    <3>5. CASE /\ windows'[p][s] = Append(v, [at |-> loc[r].at, size |-> loc[r].size])
               /\ ~(Rpm[s] > 0 /\ Len(v) >= Rpm[s])
      <4>1. \A e : Len(Append(v, e)) = Len(v) + 1
        BY <3>2
      <4> QED  BY <1>4, <2>1, <3>3, <3>5, <4>1
    <3>6. \/ windows'[p][s] = w \/ windows'[p][s] = v
          \/ /\ windows'[p][s] = Append(v, [at |-> loc[r].at, size |-> loc[r].size])
             /\ ~(Rpm[s] > 0 /\ Len(v) >= Rpm[s])
      BY <1>1, <2>3 DEF Refusing, Admitting, w, v
    <3> QED  BY <3>4, <3>5, <3>6
  <2> QED  BY <2>2, <2>3
<1>5. WindowInv'
  BY <1>4 DEF WindowInv
<1> QED  BY <1>2, <1>3, <1>5 DEF CalmInv

LEMMA CalmArrive ==
  ASSUME Inv, CalmInv, WindowInv, OffInv, NEW r \in Requests, Arrive(r)
  PROVE  CalmInv' /\ WindowInv' /\ OffInv' /\ (Calm' => Calm)
<1>1. /\ Others(r) /\ Fresh(r)
      /\ enabled' = enabled /\ blocked' = blocked /\ faults' = faults
      /\ count' = count /\ windows' = windows
  BY ArriveStep
<1>2. WindowInv' /\ OffInv'
  BY <1>1 DEF WindowInv, OffInv
<1>3. Calm' => Calm
  BY <1>1 DEF Calm
<1>4. ASSUME Calm, NEW q \in Requests PROVE pc'[q] # "memory"
  <2>1. enabled /\ \A p \in Procs : ~blocked[p]
    BY <1>4 DEF CalmInv, Calm
  <2>2. pc'[r] # "memory"
    BY <1>1, <2>1 DEF Fresh
  <2> QED  BY <1>1, <1>4, <2>2 DEF CalmInv, Others
<1> QED  BY <1>1, <1>2, <1>3, <1>4 DEF CalmInv

LEMMA PassingSelf ==
  ASSUME NEW r \in Requests, NEW s, NEW m
  PROVE  /\ r \in Passing(s, m) <=> pc[r] \in {"sum", "bump"} /\ Scope(r) = s /\ loc[r].at = m
         /\ r \in Passing(s, m)' <=> pc'[r] \in {"sum", "bump"} /\ Scope(r)' = s /\ loc'[r].at = m
BY DEF Passing

LEMMA CountArrive ==
  ASSUME Inv, CountInv, NEW r \in Requests, Arrive(r)
  PROVE  CountInv'
<1>1. Inv' /\ Others(r) /\ Fresh(r) /\ count' = count
  BY ArriveStep
<1>2. ASSUME NEW s \in Scopes, NEW m \in Minutes, Rpm[s] > 0
      PROVE  count'[s][m].n + Cardinality(Passing(s, m)') <= Rpm[s] + Overlap
  <2>1. r \notin Passing(s, m)'
    BY <1>1, <1>2, PassingSelf DEF Fresh, Scope
  <2> QED  BY <1>1, <1>2, <2>1, CountMoves
<1> QED  BY <1>2 DEF CountInv

LEMMA CountMemory ==
  ASSUME Inv, CountInv, NEW r \in Requests, Memory(r)
  PROVE  CountInv'
<1>1. Inv' /\ Others(r) /\ pc'[r] = "idle" /\ count' = count
  BY MemoryInv, MemoryOf, LeftIs
<1>2. ASSUME NEW s \in Scopes, NEW m \in Minutes, Rpm[s] > 0
      PROVE  count'[s][m].n + Cardinality(Passing(s, m)') <= Rpm[s] + Overlap
  <2>1. r \notin Passing(s, m)'
    BY <1>1, PassingSelf
  <2> QED  BY <1>1, <1>2, <2>1, CountMoves
<1> QED  BY <1>2 DEF CountInv

LEMMA CountAsk ==
  ASSUME Inv, CountInv, NEW r \in Requests, Ask(r)
  PROVE  CountInv'
<1>1. /\ Inv' /\ Others(r) /\ count' = count
      /\ \/ Fell(r)
         \/ pc'[r] = "idle"
         \/ ~(count[Scope(r)][loc[r].at].n >= Rpm[Scope(r)]) /\ loc'[r] = loc[r]
  BY AskStep DEF Kept
<1>2. ASSUME NEW s \in Scopes, NEW m \in Minutes, Rpm[s] > 0
      PROVE  count'[s][m].n + Cardinality(Passing(s, m)') <= Rpm[s] + Overlap
  <2>1. CASE r \notin Passing(s, m)'
    BY <1>1, <1>2, <2>1, CountMoves
  <2>2. CASE r \in Passing(s, m)'
    <3>1. pc'[r] \in {"sum", "bump"} /\ Scope(r)' = s /\ loc'[r].at = m
      BY <2>2, PassingSelf
    <3>2. ~(count[s][m].n >= Rpm[s])
      BY <1>1, <3>1 DEF Scope, Fell
    <3> QED  BY <1>1, <1>2, <3>2, CountMoves
  <2> QED  BY <2>1, <2>2
<1> QED  BY <1>2 DEF CountInv

LEMMA CountSum ==
  ASSUME Inv, CountInv, NEW r \in Requests, Sum(r)
  PROVE  CountInv'
<1>1. /\ Inv' /\ Others(r) /\ pc[r] = "sum"
      /\ \A s \in Scopes, m \in Minutes : count'[s][m].n = count[s][m].n
      /\ \/ pc'[r] \in {"idle", "memory"}
         \/ loc'[r] = loc[r]
  BY SumStep DEF Kept, Fell
<1>2. ASSUME NEW s \in Scopes, NEW m \in Minutes, Rpm[s] > 0
      PROVE  count'[s][m].n + Cardinality(Passing(s, m)') <= Rpm[s] + Overlap
  <2>1. r \in Passing(s, m)' => r \in Passing(s, m)
    BY <1>1, PassingSelf DEF Scope
  <2>2. count'[s][m].n = count[s][m].n
    BY <1>1
  <2> QED  BY <1>1, <1>2, <2>1, <2>2, CountMoves
<1> QED  BY <1>2 DEF CountInv

LEMMA BumpedAt ==
  ASSUME Inv, NEW r \in Requests, Talking(r), NEW s \in Scopes, NEW m \in Minutes
  PROVE  /\ Bumped(r)[s][m].n = count[s][m].n + One(s = Scope(r) /\ m = loc[r].at)
         /\ Bumped(r)[s][m].bytes = count[s][m].bytes
         /\ count[s][m].n \in Nat
<1>1. Scope(r) \in Scopes /\ loc[r].at \in Minutes /\ TypeOK
  BY TalkFacts, InvFacts, LocalsTyped
<1>2. count[s][m].n \in Nat
  BY <1>1, CountTyped
<1>3. CASE s = Scope(r) /\ m = loc[r].at
  <2>1. One(s = Scope(r) /\ m = loc[r].at) = 1
    BY <1>3, Zenon DEF One
  <2>2. Bumped(r)[s][m].n = count[s][m].n + 1 /\ Bumped(r)[s][m].bytes = count[s][m].bytes
    BY <1>1, <1>3, BumpFacts
  <2> QED  BY <1>2, <2>1, <2>2, Zenon
<1>4. CASE ~(s = Scope(r) /\ m = loc[r].at)
  <2>1. One(s = Scope(r) /\ m = loc[r].at) = 0
    BY <1>4, Zenon DEF One
  <2>2. Bumped(r)[s][m] = count[s][m]
    BY <1>1, <1>4, BumpFacts
  <2>3. count[s][m].n + 0 = count[s][m].n
    BY <1>2
  <2> QED  BY <1>2, <2>1, <2>2, <2>3, Zenon
<1> QED  BY <1>3, <1>4

LEMMA CountBump ==
  ASSUME Inv, CountInv, NEW r \in Requests, Bump(r)
  PROVE  CountInv'
<1>1. /\ Inv' /\ Others(r) /\ pc[r] = "bump" /\ Talking(r)
      /\ pc'[r] \in {"book", "memory"} /\ count' \in {count, Bumped(r)}
  BY BumpStep DEF Kept, Fell
<1>2. ASSUME NEW s \in Scopes, NEW m \in Minutes, Rpm[s] > 0
      PROVE  count'[s][m].n + Cardinality(Passing(s, m)') <= Rpm[s] + Overlap
  <2>1. r \notin Passing(s, m)'
    BY <1>1, PassingSelf
  <2>2. CASE count' = count
    BY <1>1, <1>2, <2>1, <2>2, CountMoves
  <2>3. CASE count' = Bumped(r)
    <3>1. count'[s][m].n = count[s][m].n + One(s = Scope(r) /\ m = loc[r].at) /\ count[s][m].n \in Nat
      BY <1>1, <2>3, BumpedAt
    <3>2. CASE s = Scope(r) /\ m = loc[r].at
      <4>1. r \in Passing(s, m)
        BY <1>1, <3>2, PassingSelf
      <4>2. count'[s][m].n = count[s][m].n + 1
        BY <3>1, <3>2 DEF One
      <4> QED  BY <1>1, <1>2, <2>1, <4>1, <4>2, CountMoves
    <3>3. CASE ~(s = Scope(r) /\ m = loc[r].at)
      <4>1. count'[s][m].n = count[s][m].n
        BY <3>1, <3>3 DEF One
      <4> QED  BY <1>1, <1>2, <2>1, <4>1, CountMoves
    <3> QED  BY <3>2, <3>3
  <2> QED  BY <1>1, <2>2, <2>3
<1> QED  BY <1>2 DEF CountInv

LEMMA CountBook ==
  ASSUME Inv, CountInv, NEW r \in Requests, Book(r)
  PROVE  CountInv'
<1>1. /\ Inv' /\ Others(r) /\ pc[r] = "book"
      /\ \A s \in Scopes, m \in Minutes : count'[s][m].n = count[s][m].n
      /\ (pc'[r] \in {"idle", "memory"} \/ Advanced(r))
  BY BookStep DEF Fell
<1>2. ASSUME NEW s \in Scopes, NEW m \in Minutes, Rpm[s] > 0
      PROVE  count'[s][m].n + Cardinality(Passing(s, m)') <= Rpm[s] + Overlap
  <2>1. r \notin Passing(s, m)'
    <3>1. CASE pc'[r] \in {"idle", "memory"}
      BY <3>1, PassingSelf
    <3>2. CASE Advanced(r)
      <4>1. Scope(r)' = Global /\ Global \in Scopes
        BY <3>2 DEF Advanced, Scope, Scopes
      <4>2. pc'[r] \in {"sum", "bump"} => Rpm[Global] = 0
        BY <3>2, <4>1, EnterTyped DEF Advanced
      <4> QED  BY <1>2, <4>1, <4>2, PassingSelf
    <3> QED  BY <1>1, <3>1, <3>2
  <2>2. count'[s][m].n = count[s][m].n
    BY <1>1
  <2> QED  BY <1>1, <1>2, <2>1, <2>2, CountMoves
<1> QED  BY <1>2 DEF CountInv

-----------------------------------------------------------------------------
(* What is let in is counted, or else its minute is over (TallyInv).       *)

\* The request has counted its upload in s, and not yet been let in.
Holds(r, s) ==
  /\ Talking(r) /\ s \in ToSet(loc[r].scopes)
  /\ s \notin ToSet(loc[r].todo) \/ (s = Scope(r) /\ pc[r] = "book")
Pending(s, m) == {r \in Requests : loc[r].at = m /\ Holds(r, s)}

\* Uploads under way with the time of a minute.
Going(s, m) == {r \in Requests : pc[r] # "idle" /\ loc[r].at = m /\ s \in ToSet(loc[r].scopes)}

\* As long as the minute lasts, what was let in is counted somewhere.  When it
\* is over its counters run out and its events are pruned, and only those that
\* are under way with its time may add to what was let in.
Limit(s) == Rpm[s] * Places + Overlap * Redises
First(s, m) == admitted[s][m].n + Cardinality(Pending(s, m)) <= count[s][m].n + InMemory(s, m)
Ended(s, m) == admitted[s][m].n + Cardinality(Going(s, m)) <= Limit(s) + Cardinality(Requests)
Counted(s, m) ==
  /\ m >= now => First(s, m)
  /\ m < now /\ Rpm[s] > 0 => Ended(s, m)
TallyInv == \A s \in Scopes, m \in Minutes : Counted(s, m)

LEMMA PendingOthers ==
  ASSUME NEW r \in Requests, Others(r), NEW s, NEW m
  PROVE  /\ \A q \in Requests \ {r} : q \in Pending(s, m)' <=> q \in Pending(s, m)
         /\ \A q \in Requests \ {r} : q \in Going(s, m)' <=> q \in Going(s, m)
         /\ Pending(s, m) \subseteq Requests /\ Going(s, m) \subseteq Requests
         /\ Pending(s, m)' \subseteq Requests /\ Going(s, m)' \subseteq Requests
BY DEF Others, Pending, Going, Holds, Scope, Talking

LEMMA PendingSelf ==
  ASSUME NEW r \in Requests, NEW s, NEW m
  PROVE  /\ r \in Pending(s, m) <=> loc[r].at = m /\ Holds(r, s)
         /\ r \in Pending(s, m)' <=> loc'[r].at = m /\ Holds(r, s)'
         /\ r \in Going(s, m) <=> pc[r] # "idle" /\ loc[r].at = m /\ s \in ToSet(loc[r].scopes)
         /\ r \in Going(s, m)' <=> pc'[r] # "idle" /\ loc'[r].at = m /\ s \in ToSet(loc'[r].scopes)
BY DEF Pending, Going

LEMMA TallyTyped ==
  ASSUME Inv, NEW s \in Scopes, NEW m \in Minutes
  PROVE  /\ count[s][m].n \in Nat /\ admitted[s][m].n \in Nat
         /\ count[s][m].bytes \in Nat /\ admitted[s][m].bytes \in Nat
BY DEF Inv, TypeOK, Tally

LEMMA CountNextTyped ==
  ASSUME Inv', NEW s \in Scopes, NEW m \in Minutes
  PROVE  /\ count'[s][m].n \in Nat /\ admitted'[s][m].n \in Nat
         /\ count'[s][m].bytes \in Nat /\ admitted'[s][m].bytes \in Nat
BY DEF Inv, TypeOK, Tally

LEMMA OneNat == \A b : One(b) \in Nat
BY DEF One

\* A step outside the memory keeps an upload counted when the request leaves
\* Pending, or the count grows, for each upload let in.
LEMMA TallyMoves ==
  ASSUME Inv, Inv', NEW r \in Requests, NEW s \in Scopes, NEW m \in Minutes,
         First(s, m), Others(r), windows' = windows,
         admitted'[s][m].n + One(r \in Pending(s, m)') + count[s][m].n <=
           admitted[s][m].n + One(r \in Pending(s, m)) + count'[s][m].n
  PROVE  First(s, m)'
<1> DEFINE P == Pending(s, m)
           Q == Pending(s, m)'
<1>1. /\ admitted[s][m].n \in Nat /\ count[s][m].n \in Nat
      /\ admitted'[s][m].n \in Nat /\ count'[s][m].n \in Nat
  BY TallyTyped, CountNextTyped
<1>2. /\ Cardinality(P) \in Nat /\ Cardinality(Q) \in Nat
      /\ Cardinality(Q) + One(r \in P) = Cardinality(P) + One(r \in Q)
  <2>1. P \subseteq Requests /\ Q \subseteq Requests /\ \A q \in Requests \ {r} : q \in P <=> q \in Q
    BY PendingOthers
  <2> QED  BY <2>1, CardMoves
<1>3. InMemory(s, m)' = InMemory(s, m) /\ InMemory(s, m) \in Nat
  <2>1. InMemory(s, m)' = InMemory(s, m)
    BY DEF InMemory, Entries
  <2> QED  BY <2>1, ColumnFacts
<1>4. admitted'[s][m].n + One(r \in Q) + count[s][m].n <=
        admitted[s][m].n + One(r \in P) + count'[s][m].n
  OBVIOUS
<1>5. admitted[s][m].n + Cardinality(P) <= count[s][m].n + InMemory(s, m)
  BY DEF First
<1> HIDE DEF P, Q
<1>6. admitted'[s][m].n + Cardinality(Q) <= count'[s][m].n + InMemory(s, m)
  <2>1. One(r \in P) \in Nat /\ One(r \in Q) \in Nat
    BY OneNat, Zenon
  <2> QED  BY <1>1, <1>2, <1>3, <1>4, <1>5, <2>1
<1> QED  BY <1>3, <1>6 DEF First, Q

LEMMA LimitNat ==
  ASSUME NEW s \in Scopes
  PROVE  Limit(s) \in Nat /\ Limit(s)' \in Nat
<1>1. Rpm[s] \in Nat /\ Cardinality(Procs) \in Nat /\ Overlap \in Nat
  BY LimitsAssumption, RedisAssumption, FS_CardinalityType, OverlapFacts
<1>2. Redises \in {0, 1} /\ Memories \in {0, Cardinality(Procs)} /\ Places = Redises + Memories
  BY DEF Redises, Memories, Places
<1>3. Redises' \in {0, 1} /\ Memories' \in {0, Cardinality(Procs)} /\ Places' = Redises' + Memories'
  BY DEF Redises, Memories, Places
<1>4. \A x, y \in Nat : x * y \in Nat
  OBVIOUS
<1>5. Rpm[s] * Places \in Nat /\ Overlap * Redises \in Nat
  BY <1>1, <1>2, <1>4
<1>6. Rpm[s] * Places' \in Nat /\ Overlap * Redises' \in Nat
  <2>1. \A x, y, z : x \in {0, 1} /\ y \in {0, Cardinality(Procs)} /\ z = x + y => x \in Nat /\ z \in Nat
    BY <1>1
  <2>2. Places' \in Nat /\ Redises' \in Nat
    BY <1>3, <2>1, Zenon
  <2> QED  BY <1>1, <1>4, <2>2
<1> QED  BY <1>5, <1>6 DEF Limit, Overlap

\* A place that counts is never lost.
LEMMA LimitGrows ==
  ASSUME NEW s \in Scopes, enabled' = enabled, faults \in Nat, faults' \in Nat, faults <= faults'
  PROVE  Limit(s) <= Limit(s)'
<1>1. Rpm[s] \in Nat /\ Cardinality(Procs) \in Nat /\ Overlap \in Nat
  BY LimitsAssumption, RedisAssumption, FS_CardinalityType, OverlapFacts
<1>2. CASE Memories' = Memories
  <2>1. Limit(s)' = Limit(s)
    BY <1>2 DEF Limit, Places, Redises, Overlap
  <2> QED  BY <2>1, LimitNat
<1>3. CASE Memories' # Memories
  <2>1. enabled /\ Memories = 0 /\ Memories' = Cardinality(Procs)
    BY <1>3 DEF Memories
  <2>2. Redises = 1 /\ Redises' = 1 /\ Places = 1 /\ Places' = 1 + Cardinality(Procs)
    BY <2>1 DEF Redises, Places
  <2> DEFINE L == Rpm[s]
             N == Cardinality(Procs)
  <2>3. L * 1 = L /\ L * (1 + N) = L + L * N /\ L * N \in Nat
    <3>1. \A x, y \in Nat : x * 1 = x /\ x * (1 + y) = x + x * y /\ x * y \in Nat
      OBVIOUS
    <3> QED  BY <1>1, <3>1
  <2>4. Limit(s) = L * 1 + Overlap * 1 /\ Limit(s)' = L * (1 + N) + Overlap * 1
    BY <2>2 DEF Limit, Overlap
  <2> HIDE DEF L, N
  <2>5. L \in Nat
    BY <1>1 DEF L
  <2> QED  BY <1>1, <2>3, <2>4, <2>5
<1> QED  BY <1>2, <1>3

\* When the minute is over, a step lets an upload in only if it was under way
\* with its time, and none joins those.
LEMMA EndedMoves ==
  ASSUME Inv, Inv', NEW r \in Requests, NEW s \in Scopes, NEW m \in Minutes,
         Ended(s, m), Others(r), enabled' = enabled, faults <= faults',
         admitted'[s][m].n + One(r \in Going(s, m)') <= admitted[s][m].n + One(r \in Going(s, m))
  PROVE  Ended(s, m)'
<1> DEFINE P == Going(s, m)
           Q == Going(s, m)'
           K == Limit(s) + Cardinality(Requests)
           J == Limit(s)' + Cardinality(Requests)
<1>1. admitted[s][m].n \in Nat /\ admitted'[s][m].n \in Nat
  BY TallyTyped, CountNextTyped
<1>2. /\ Cardinality(P) \in Nat /\ Cardinality(Q) \in Nat
      /\ Cardinality(Q) + One(r \in P) = Cardinality(P) + One(r \in Q)
  <2>1. P \subseteq Requests /\ Q \subseteq Requests /\ \A q \in Requests \ {r} : q \in P <=> q \in Q
    BY PendingOthers
  <2> QED  BY <2>1, CardMoves
<1>3. One(r \in P) \in Nat /\ One(r \in Q) \in Nat
  BY OneNat, Zenon
<1>4. admitted'[s][m].n + One(r \in Q) <= admitted[s][m].n + One(r \in P)
  OBVIOUS
<1>5. K \in Nat /\ J \in Nat /\ K <= J
  <2>1. faults \in Nat /\ faults' \in Nat
    BY DEF Inv, TypeOK, HandleTypeOK
  <2>2. Limit(s) <= Limit(s)'
    BY <2>1, LimitGrows
  <2> QED  BY <2>2, LimitNat, OverlapFacts
<1>6. admitted[s][m].n + Cardinality(P) <= K
  BY DEF Ended
<1> HIDE DEF P, Q, K, J
<1>7. admitted'[s][m].n + Cardinality(Q) <= J
  BY <1>1, <1>2, <1>3, <1>4, <1>5, <1>6
<1> QED  BY <1>7 DEF Ended, Q, J

LEMMA CountedMoves ==
  ASSUME Inv, Inv', NEW r \in Requests, NEW s \in Scopes, NEW m \in Minutes,
         Counted(s, m), Others(r), now' = now, windows' = windows,
         enabled' = enabled, faults <= faults',
         admitted'[s][m].n + One(r \in Pending(s, m)') + count[s][m].n <=
           admitted[s][m].n + One(r \in Pending(s, m)) + count'[s][m].n,
         m < now => admitted'[s][m].n + One(r \in Going(s, m)') <=
                      admitted[s][m].n + One(r \in Going(s, m))
  PROVE  Counted(s, m)'
<1>1. ASSUME m >= now PROVE First(s, m)'
  BY <1>1, TallyMoves DEF Counted
<1>2. ASSUME m < now, Rpm[s] > 0 PROVE Ended(s, m)'
  BY <1>2, EndedMoves DEF Counted
<1> QED  BY <1>1, <1>2 DEF Counted

LEMMA AdmittedAt ==
  ASSUME Inv, NEW r \in Requests, Admit(r), NEW s \in Scopes, NEW m \in Minutes
  PROVE  /\ admitted'[s][m].n = admitted[s][m].n + One(s \in ToSet(loc[r].scopes) /\ m = loc[r].at)
         /\ admitted[s][m].n \in Nat
<1>1. TypeOK /\ admitted[s][m].n \in Nat
  BY InvFacts, TallyTyped
<1>2. CASE s \in ToSet(loc[r].scopes) /\ m = loc[r].at
  <2>1. One(s \in ToSet(loc[r].scopes) /\ m = loc[r].at) = 1
    BY <1>2, Zenon DEF One
  <2>2. admitted'[s][m].n = admitted[s][m].n + 1
    BY <1>1, <1>2, ChargeFacts
  <2> QED  BY <1>1, <2>1, <2>2, Zenon
<1>3. CASE ~(s \in ToSet(loc[r].scopes) /\ m = loc[r].at)
  <2>1. One(s \in ToSet(loc[r].scopes) /\ m = loc[r].at) = 0
    BY <1>3, Zenon DEF One
  <2>2. admitted'[s][m] = admitted[s][m]
    BY <1>1, <1>3, ChargeFacts
  <2>3. admitted[s][m].n + 0 = admitted[s][m].n
    BY <1>1
  <2> QED  BY <1>1, <2>1, <2>2, <2>3, Zenon
<1> QED  BY <1>2, <1>3

LEMMA TallyArrive ==
  ASSUME Inv, CalmInv, WindowInv, OffInv, TallyInv, NEW r \in Requests, Arrive(r)
  PROVE  TallyInv'
<1>1. /\ Inv' /\ pc[r] = "idle" /\ Others(r) /\ Fresh(r)
      /\ now' = now /\ count' = count /\ windows' = windows /\ admitted' = admitted
      /\ enabled' = enabled /\ faults' = faults /\ faults \in Nat /\ now \in Nat
  BY ArriveStep, InvFacts
<1>2. ASSUME NEW s \in Scopes, NEW m \in Minutes PROVE Counted(s, m)'
  <2>1. r \notin Pending(s, m) /\ r \notin Pending(s, m)'
    <3>1. ~Holds(r, s)
      BY <1>1 DEF Holds, Talking
    <3>2. ~Holds(r, s)'
      BY <1>1 DEF Holds, Talking, Fresh
    <3> QED  BY <3>1, <3>2, PendingSelf
  <2>2. One(r \in Pending(s, m)) = 0 /\ One(r \in Pending(s, m)') = 0
    BY <2>1 DEF One
  <2>3. /\ admitted[s][m].n \in Nat /\ count[s][m].n \in Nat
    BY TallyTyped
  <2>4. admitted'[s][m].n + One(r \in Pending(s, m)') + count[s][m].n <=
           admitted[s][m].n + One(r \in Pending(s, m)) + count'[s][m].n
    BY <1>1, <2>2, <2>3
  <2>5. ASSUME m < now
        PROVE  admitted'[s][m].n + One(r \in Going(s, m)') <= admitted[s][m].n + One(r \in Going(s, m))
    <3>1. r \notin Going(s, m) /\ r \notin Going(s, m)'
      BY <1>1, <2>5, PendingSelf DEF Fresh, Minutes
    <3> QED  BY <1>1, <2>3, <3>1 DEF One
  <2>6. Counted(s, m) /\ faults <= faults'
    BY <1>1 DEF TallyInv
  <2> QED  BY <1>1, <2>4, <2>5, <2>6, CountedMoves
<1> QED  BY <1>2 DEF TallyInv

\* A command lets an upload in only if it was under way; one that is given up
\* goes to memory at a new time.
LEMMA GoingCommand ==
  ASSUME Inv, NEW r \in Requests, Ask(r) \/ Sum(r) \/ Bump(r) \/ Book(r),
         NEW s \in Scopes, NEW m \in Minutes, m < now
  PROVE  admitted'[s][m].n + One(r \in Going(s, m)') <= admitted[s][m].n + One(r \in Going(s, m))
<1>1. Talking(r)
  BY TalksAll DEF Talks
<1>2. \/ /\ admitted' = admitted
         /\ \/ Fell(r) \/ pc'[r] = "idle"
            \/ loc'[r].at = loc[r].at /\ loc'[r].scopes = loc[r].scopes
      \/ pc'[r] = "idle" /\ Admit(r)
  <2>1. CASE Ask(r)
    BY <2>1, AskStep DEF Kept
  <2>2. CASE Sum(r)
    BY <2>2, SumStep DEF Kept
  <2>3. CASE Bump(r)
    BY <2>3, BumpStep DEF Kept
  <2>4. CASE Book(r)
    BY <2>4, BookStep DEF Advanced
  <2> QED  BY <2>1, <2>2, <2>3, <2>4
<1>3. admitted[s][m].n \in Nat /\ m \in Nat /\ now \in Nat
  BY TallyTyped, InvFacts DEF Minutes
<1>4. pc[r] # "idle"
  BY <1>1 DEF Talking
<1>5. CASE admitted' = admitted /\ (r \in Going(s, m)' => r \in Going(s, m))
  BY <1>3, <1>5 DEF One
<1>6. CASE pc'[r] = "idle" /\ Admit(r)
  <2> DEFINE B == One(s \in ToSet(loc[r].scopes) /\ m = loc[r].at)
             P == One(r \in Going(s, m))
  <2>1. admitted'[s][m].n = admitted[s][m].n + B
    BY <1>6, AdmittedAt
  <2>2. B <= P /\ B \in Nat /\ P \in Nat
    BY <1>4, PendingSelf DEF One
  <2>3. One(r \in Going(s, m)') = 0
    BY <1>6, PendingSelf DEF One
  <2> HIDE DEF B, P
  <2> QED  BY <1>3, <2>1, <2>2, <2>3 DEF P
<1>7. Fell(r) => r \notin Going(s, m)'
  BY <1>3, PendingSelf DEF Fell
<1>8. pc'[r] = "idle" => r \notin Going(s, m)'
  BY PendingSelf
<1>9. loc'[r].at = loc[r].at /\ loc'[r].scopes = loc[r].scopes =>
        (r \in Going(s, m)' => r \in Going(s, m))
  BY <1>4, PendingSelf
<1> QED  BY <1>2, <1>5, <1>6, <1>7, <1>8, <1>9

\* The commands: a request that leaves its script or stays in it counts for
\* the uploads let in what it counted before.
LEMMA TallyCommand ==
  ASSUME Inv, CalmInv, WindowInv, OffInv, TallyInv,
         NEW r \in Requests, Ask(r) \/ Sum(r) \/ Bump(r) \/ Book(r),
         \A s \in Scopes, m \in Minutes :
           admitted'[s][m].n + One(r \in Pending(s, m)') + count[s][m].n <=
             admitted[s][m].n + One(r \in Pending(s, m)) + count'[s][m].n
  PROVE  TallyInv'
<1>1. Talks(r) /\ Inv' /\ faults \in Nat
  BY TalksAll, InvFacts
<1>2. faults <= faults'
  BY <1>1 DEF Talks, Faulted, Calmly
<1>3. Others(r) /\ now' = now /\ windows' = windows /\ enabled' = enabled
  BY <1>1 DEF Talks
<1>4. ASSUME NEW s \in Scopes, NEW m \in Minutes PROVE Counted(s, m)'
  <2>1. Counted(s, m)
    BY DEF TallyInv
  <2>2. m < now => admitted'[s][m].n + One(r \in Going(s, m)') <=
                     admitted[s][m].n + One(r \in Going(s, m))
    BY GoingCommand
  <2> QED  BY <1>1, <1>2, <1>3, <2>1, <2>2, CountedMoves
<1> QED  BY <1>4 DEF TallyInv

LEMMA Balanced ==
  ASSUME NEW a \in Nat, NEW c \in Nat, NEW P, NEW Q, (Q => P)
  PROVE  a + One(Q) + c <= a + One(P) + c
BY DEF One

LEMMA TallyAsk ==
  ASSUME Inv, CalmInv, WindowInv, OffInv, TallyInv, NEW r \in Requests, Ask(r)
  PROVE  TallyInv'
<1>1. /\ pc[r] = "ask" /\ count' = count /\ admitted' = admitted
      /\ \/ pc'[r] \in {"idle", "memory"}
         \/ loc'[r] = loc[r] /\ pc'[r] \in {"sum", "bump"}
  BY AskStep DEF Kept, Fell
<1>2. ASSUME NEW s \in Scopes, NEW m \in Minutes
      PROVE  admitted'[s][m].n + One(r \in Pending(s, m)') + count[s][m].n <=
               admitted[s][m].n + One(r \in Pending(s, m)) + count'[s][m].n
  <2>1. r \in Pending(s, m)' => r \in Pending(s, m)
    BY <1>1, PendingSelf DEF Holds, Talking
  <2>2. admitted[s][m].n \in Nat /\ count[s][m].n \in Nat
    BY TallyTyped
  <2>3. admitted[s][m].n + One(r \in Pending(s, m)') + count[s][m].n <=
               admitted[s][m].n + One(r \in Pending(s, m)) + count[s][m].n
    BY <2>1, <2>2, Balanced
  <2> QED  BY <1>1, <2>3, Zenon
<1> QED  BY <1>2, TallyCommand

LEMMA TallySum ==
  ASSUME Inv, CalmInv, WindowInv, OffInv, TallyInv, NEW r \in Requests, Sum(r)
  PROVE  TallyInv'
<1>1. /\ pc[r] = "sum" /\ admitted' = admitted
      /\ \A s \in Scopes, m \in Minutes : count'[s][m].n = count[s][m].n
      /\ \/ pc'[r] \in {"idle", "memory"}
         \/ loc'[r] = loc[r] /\ pc'[r] = "bump"
  BY SumStep DEF Kept, Fell
<1>2. ASSUME NEW s \in Scopes, NEW m \in Minutes
      PROVE  admitted'[s][m].n + One(r \in Pending(s, m)') + count[s][m].n <=
               admitted[s][m].n + One(r \in Pending(s, m)) + count'[s][m].n
  <2>1. r \in Pending(s, m)' => r \in Pending(s, m)
    BY <1>1, PendingSelf DEF Holds, Talking
  <2>2. admitted[s][m].n \in Nat /\ count[s][m].n \in Nat
    BY TallyTyped
  <2>3. admitted[s][m].n + One(r \in Pending(s, m)') + count[s][m].n <=
               admitted[s][m].n + One(r \in Pending(s, m)) + count[s][m].n
    BY <2>1, <2>2, Balanced
  <2>4. count'[s][m].n = count[s][m].n
    BY <1>1
  <2> QED  BY <1>1, <2>3, <2>4, Zenon
<1> QED  BY <1>2, TallyCommand

LEMMA TallyBump ==
  ASSUME Inv, CalmInv, WindowInv, OffInv, TallyInv, NEW r \in Requests, Bump(r)
  PROVE  TallyInv'
<1>1. /\ pc[r] = "bump" /\ Talking(r) /\ admitted' = admitted
      /\ \/ pc'[r] = "memory" /\ count' = count
         \/ pc'[r] = "memory" /\ count' = Bumped(r)
         \/ loc'[r] = loc[r] /\ pc'[r] = "book" /\ count' = Bumped(r)
  BY BumpStep DEF Kept, Fell
<1>2. ASSUME NEW s \in Scopes, NEW m \in Minutes
      PROVE  admitted'[s][m].n + One(r \in Pending(s, m)') + count[s][m].n <=
               admitted[s][m].n + One(r \in Pending(s, m)) + count'[s][m].n
  <2> DEFINE A == admitted[s][m].n
             C == count[s][m].n
             P == One(r \in Pending(s, m))
             Q == One(r \in Pending(s, m)')
             B == One(s = Scope(r) /\ m = loc[r].at)
  <2>1. A \in Nat /\ C \in Nat /\ P \in Nat /\ Q \in Nat /\ B \in Nat
    BY TallyTyped, OneNat
  <2>2. CASE pc'[r] = "memory"
    <3>1. r \notin Pending(s, m)'
      BY <2>2, PendingSelf DEF Holds, Talking
    <3>2. Q = 0
      BY <3>1 DEF One
    <3>3. count'[s][m].n = C \/ count'[s][m].n = C + B
      BY <1>1, <2>2, BumpedAt
    <3> HIDE DEF A, C, P, Q, B
    <3>4. A + Q + C <= A + P + count'[s][m].n
      BY <2>1, <3>2, <3>3
    <3> QED  BY <1>1, <3>4, Zenon DEF A, C, P, Q
  <2>3. CASE loc'[r] = loc[r] /\ pc'[r] = "book" /\ count' = Bumped(r)
    <3>1. count'[s][m].n = C + B
      BY <1>1, <2>3, BumpedAt
    <3>2. r \in Pending(s, m)' => r \in Pending(s, m) \/ (s = Scope(r) /\ m = loc[r].at)
      BY <1>1, <2>3, PendingSelf DEF Holds, Talking, Scope
    <3>3. Q <= P + B
      BY <3>2 DEF One
    <3> HIDE DEF A, C, P, Q, B
    <3>4. A + Q + C <= A + P + count'[s][m].n
      BY <2>1, <3>1, <3>3
    <3> QED  BY <1>1, <3>4, Zenon DEF A, C, P, Q
  <2> QED  BY <1>1, <2>2, <2>3
<1> QED  BY <1>2, TallyCommand

LEMMA TallyBook ==
  ASSUME Inv, CalmInv, WindowInv, OffInv, TallyInv, NEW r \in Requests, Book(r)
  PROVE  TallyInv'
<1>1. /\ pc[r] = "book" /\ Talking(r)
      /\ \A s \in Scopes, m \in Minutes : count'[s][m].n = count[s][m].n
      /\ \/ pc'[r] = "memory" /\ admitted' = admitted
         \/ pc'[r] = "idle" /\ Tail(loc[r].todo) = <<>> /\ Admit(r)
         \/ Advanced(r) /\ admitted' = admitted
  BY BookStep DEF Fell
<1>2. ASSUME NEW s \in Scopes, NEW m \in Minutes
      PROVE  admitted'[s][m].n + One(r \in Pending(s, m)') + count[s][m].n <=
               admitted[s][m].n + One(r \in Pending(s, m)) + count'[s][m].n
  <2>1. admitted[s][m].n \in Nat /\ count[s][m].n \in Nat
    BY TallyTyped
  <2>2. count'[s][m].n = count[s][m].n
    BY <1>1
  <2>3. ASSUME admitted' = admitted, r \in Pending(s, m)' => r \in Pending(s, m)
        PROVE  admitted'[s][m].n + One(r \in Pending(s, m)') + count[s][m].n <=
                 admitted[s][m].n + One(r \in Pending(s, m)) + count'[s][m].n
    <3>1. admitted[s][m].n + One(r \in Pending(s, m)') + count[s][m].n <=
            admitted[s][m].n + One(r \in Pending(s, m)) + count[s][m].n
      BY <2>1, <2>3, Balanced
    <3> QED  BY <2>2, <2>3, <3>1, Zenon
  <2>4. CASE pc'[r] = "memory" /\ admitted' = admitted
    <3>1. r \notin Pending(s, m)'
      BY <2>4, PendingSelf DEF Holds, Talking
    <3> QED  BY <2>3, <2>4, <3>1
  <2>5. CASE pc'[r] = "idle" /\ Tail(loc[r].todo) = <<>> /\ Admit(r)
    <3> DEFINE B == One(s \in ToSet(loc[r].scopes) /\ m = loc[r].at)
               A == admitted[s][m].n
               C == count[s][m].n
               P == One(r \in Pending(s, m))
               Q == One(r \in Pending(s, m)')
    <3>1. r \notin Pending(s, m)'
      BY <2>5, PendingSelf DEF Holds, Talking
    <3>2. ToSet(loc[r].todo) = {Scope(r)}
      BY <1>1, <2>5, TalkFacts
    <3>3. s \in ToSet(loc[r].scopes) /\ m = loc[r].at => r \in Pending(s, m)
      BY <1>1, <3>2, PendingSelf DEF Holds
    <3>4. Q = 0 /\ B <= P
      BY <3>1, <3>3 DEF One
    <3>5. admitted'[s][m].n = A + B
      BY <2>5, AdmittedAt
    <3>6. P \in Nat /\ B \in Nat /\ A \in Nat /\ C \in Nat
      BY <2>1, OneNat
    <3> HIDE DEF A, B, C, P, Q
    <3>7. admitted'[s][m].n + Q + C <= A + P + C
      BY <3>4, <3>5, <3>6
    <3> QED  BY <2>2, <3>7, Zenon DEF A, C, P, Q
  <2>6. CASE Advanced(r) /\ admitted' = admitted
    <3>1. /\ pc'[r] # "book" /\ loc'[r].todo = <<Global>> /\ loc'[r].at = loc[r].at
          /\ loc'[r].scopes = loc[r].scopes /\ Tail(loc[r].todo) # <<>>
      BY <2>6 DEF Advanced
    <3>2. Tail(loc[r].todo) = <<Global>> /\ ToSet(Tail(loc[r].todo)) = ToSet(loc[r].todo) \ {Scope(r)}
      BY <1>1, <3>1, TalkFacts
    <3>3. ToSet(loc'[r].todo) = ToSet(loc[r].todo) \ {Scope(r)}
      BY <3>1, <3>2
    <3>4. r \in Pending(s, m)' => r \in Pending(s, m)
      BY <1>1, <3>1, <3>3, PendingSelf DEF Holds, Talking
    <3> QED  BY <2>3, <2>6, <3>4
  <2> QED  BY <1>1, <2>4, <2>5, <2>6
<1> QED  BY <1>2, TallyCommand

\* What the memories of all processes hold of one counter.
MemoryRoom(s) == Rpm[s] * Cardinality(Procs)

LEMMA RoomNat ==
  ASSUME NEW s \in Scopes
  PROVE  MemoryRoom(s) \in Nat /\ Rpm[s] \in Nat /\ Cardinality(Procs) \in Nat
<1>1. Rpm[s] \in Nat /\ Cardinality(Procs) \in Nat
  BY LimitsAssumption, RedisAssumption, FS_CardinalityType
<1> QED  BY <1>1 DEF MemoryRoom

\* No window holds more than the limit, so all of them do not hold more than
\* the limit of each process.
LEMMA MemoryFull ==
  ASSUME Inv, WindowInv, NEW s \in Scopes, NEW m \in Minutes, Rpm[s] > 0
  PROVE  InMemory(s, m) <= MemoryRoom(s)
<1>1. Column(s) \in Columns /\ InMemory(s, m) = Cardinality(Hits(Column(s), m))
  BY ColumnFacts
<1>2. \A p \in Procs : Len(Column(s)[p]) <= Rpm[s]
  BY ColumnFacts DEF WindowInv
<1>3. Cardinality(Hits(Column(s), m)) <= Rpm[s] * Cardinality(Procs)
  BY <1>1, <1>2, RoomNat, HitsBounded
<1> QED  BY <1>1, <1>3 DEF MemoryRoom

LEMMA UnionAtMost ==
  ASSUME NEW A, NEW B, A \subseteq Requests, B \subseteq Requests
  PROVE  /\ Cardinality(A) \in Nat /\ Cardinality(B) \in Nat /\ Cardinality(A \cup B) \in Nat
         /\ Cardinality(A \cup B) <= Cardinality(A) + Cardinality(B)
<1>1. IsFiniteSet(A) /\ IsFiniteSet(B) /\ IsFiniteSet(A \cap B)
  BY OverlapFacts, FS_Subset, FS_Intersection, Zenon
<1>2. /\ Cardinality(A) \in Nat /\ Cardinality(B) \in Nat /\ Cardinality(A \cup B) \in Nat
      /\ Cardinality(A \cap B) \in Nat
  BY <1>1, FS_CardinalityType, FS_Union, Zenon
<1>3. Cardinality(A \cup B) = Cardinality(A) + Cardinality(B) - Cardinality(A \cap B)
  BY <1>1, FS_Union, Zenon
<1> QED  BY <1>2, <1>3

LEMMA FirstIs ==
  ASSUME NEW s, NEW m
  PROVE  First(s, m)' <=> admitted'[s][m].n + Cardinality(Pending(s, m)') <=
                            count'[s][m].n + InMemory(s, m)'
BY Zenon DEF First

\* A check in memory.
LEMMA MemoryMoves ==
  ASSUME Inv, NEW r \in Requests, Memory(r), NEW s \in Scopes, NEW m \in Minutes
  PROVE  LET one == IF Admitting(r) THEN One(s \in ToSet(loc[r].scopes) /\ m = loc[r].at) ELSE 0 IN
         /\ one \in Nat /\ one <= 1 /\ (one = 1 => r \in Going(s, m))
         /\ (loc[r].at # m => one = 0)
         /\ admitted'[s][m].n = admitted[s][m].n + one
         /\ InMemory(s, m)' \in Nat /\ InMemory(s, m) \in Nat
         /\ InMemory(s, m)' <= InMemory(s, m) + one
         /\ loc[r].at <= m => InMemory(s, m)' = InMemory(s, m) + one
         /\ admitted[s][m].n \in Nat
<1> DEFINE b == s \in ToSet(loc[r].scopes) /\ m = loc[r].at
           one == IF Admitting(r) THEN One(b) ELSE 0
<1>1. /\ pc[r] = "memory" /\ (Refusing(r) \/ Admitting(r)) /\ loc[r].at \in Nat
      /\ (Refusing(r) => admitted' = admitted) /\ (Admitting(r) => Admit(r)) /\ m \in Nat
  BY MemoryOf DEF Refusing, Admitting, Minutes
<1>2. admitted[s][m].n \in Nat
  BY TallyTyped
<1>3. CASE Admitting(r) /\ b
  <2>1. one = 1
    BY <1>3, Zenon DEF One
  <2>2. r \in Going(s, m)
    BY <1>1, <1>3, PendingSelf
  <2>3. admitted'[s][m].n = admitted[s][m].n + 1
    <3>1. One(b) = 1
      BY <1>3, Zenon DEF One
    <3> QED  BY <1>1, <1>3, <3>1, AdmittedAt, Zenon
  <2>4. /\ InMemory(s, m)' \in Nat /\ InMemory(s, m) \in Nat
        /\ InMemory(s, m)' = InMemory(s, m) + 1
    BY <1>3, MemoryAdmitted
  <2> QED  BY <1>2, <1>3, <2>1, <2>2, <2>3, <2>4
<1>4. CASE Admitting(r) /\ ~b
  <2>1. one = 0
    BY <1>4, Zenon DEF One
  <2>3. admitted'[s][m].n = admitted[s][m].n + 0
    <3>1. One(b) = 0
      BY <1>4, Zenon DEF One
    <3> QED  BY <1>1, <1>4, <3>1, AdmittedAt, Zenon
  <2>4. /\ InMemory(s, m)' \in Nat /\ InMemory(s, m) \in Nat
        /\ InMemory(s, m)' <= InMemory(s, m)
        /\ loc[r].at <= m => InMemory(s, m)' = InMemory(s, m)
    <3>1. /\ InMemory(s, m)' \in Nat /\ InMemory(s, m) \in Nat
          /\ s \notin ToSet(loc[r].scopes) => InMemory(s, m)' = InMemory(s, m)
          /\ loc[r].at # m => InMemory(s, m)' <= InMemory(s, m)
          /\ loc[r].at < m => InMemory(s, m)' = InMemory(s, m)
      BY <1>4, MemoryAdmitted
    <3> QED  BY <1>1, <1>4, <3>1
  <2> HIDE DEF one
  <2>5. /\ InMemory(s, m)' <= InMemory(s, m) + one
        /\ loc[r].at <= m => InMemory(s, m)' = InMemory(s, m) + one
    BY <2>1, <2>4
  <2> QED  BY <1>2, <2>1, <2>3, <2>4, <2>5 DEF one
<1>5. CASE ~Admitting(r)
  <2>1. one = 0
    BY <1>5, Zenon
  <2>2. Refusing(r) /\ admitted'[s][m].n = admitted[s][m].n
    BY <1>1, <1>5
  <2>4. /\ InMemory(s, m)' \in Nat /\ InMemory(s, m) \in Nat
        /\ InMemory(s, m)' <= InMemory(s, m)
        /\ loc[r].at <= m => InMemory(s, m)' = InMemory(s, m)
    BY <2>2, MemoryRefused
  <2> HIDE DEF one
  <2> QED  BY <1>2, <2>1, <2>2, <2>4 DEF one
<1> QED  BY <1>3, <1>4, <1>5, Zenon

LEMMA TallyMemory ==
  ASSUME Inv, CalmInv, WindowInv, OffInv, TallyInv, NEW r \in Requests, Memory(r)
  PROVE  TallyInv'
<1>1. /\ Inv' /\ Others(r) /\ pc'[r] = "idle" /\ pc[r] = "memory" /\ count' = count /\ now' = now
      /\ loc[r].at \in Nat /\ loc[r].at <= now /\ now \in Nat
  BY MemoryInv, MemoryOf, LeftIs, InvFacts
<1>2. enabled' = enabled /\ faults' = faults /\ faults \in Nat
  BY MemoryOf, InvFacts
<1>3. ASSUME NEW s \in Scopes, NEW m \in Minutes PROVE Counted(s, m)'
  <2> DEFINE P == Pending(s, m)
             Q == Pending(s, m)'
             one == IF Admitting(r) THEN One(s \in ToSet(loc[r].scopes) /\ m = loc[r].at) ELSE 0
             A == admitted[s][m].n
             C == count[s][m].n
             I == InMemory(s, m)
             J == InMemory(s, m)'
  <2>1. P \subseteq Requests /\ Q \subseteq Requests /\ \A q \in Requests \ {r} : q \in P <=> q \in Q
    BY <1>1, PendingOthers
  <2>2. r \notin P /\ r \notin Q /\ r \notin Going(s, m)'
    BY <1>1, PendingSelf DEF Holds, Talking
  <2>3. P = Q
    BY <2>1, <2>2
  <2>4. m \in Nat /\ C \in Nat
    BY TallyTyped DEF Minutes
  <2>5. /\ one \in Nat /\ one <= 1 /\ (one = 1 => r \in Going(s, m))
        /\ admitted'[s][m].n = A + one
        /\ J \in Nat /\ I \in Nat
        /\ (loc[r].at <= m => J = I + one)
        /\ A \in Nat
    BY MemoryMoves
  <2>6. Cardinality(P) \in Nat
    BY <2>1, UnionAtMost
  <2>7. ASSUME m >= now PROVE First(s, m)'
    <3>1. A + Cardinality(P) <= C + I
      BY <2>7 DEF TallyInv, Counted, First
    <3>2. J = I + one
      BY <1>1, <2>4, <2>5, <2>7
    <3> HIDE DEF P, Q, one, A, C, I, J
    <3>3. A + one + Cardinality(Q) <= C + J
      BY <2>3, <2>4, <2>5, <2>6, <3>1, <3>2
    <3> QED  BY <1>1, <2>5, <3>3, FirstIs, Zenon DEF Q, C, J
  <2>8. ASSUME m < now, Rpm[s] > 0 PROVE Ended(s, m)'
    <3>1. Ended(s, m)
      BY <2>8 DEF TallyInv, Counted
    <3>2. One(r \in Going(s, m)') = 0 /\ one <= One(r \in Going(s, m))
      <4> HIDE DEF one
      <4> QED  BY <2>2, <2>5 DEF One
    <3>3. One(r \in Going(s, m)) \in Nat
      BY OneNat, Zenon
    <3> HIDE DEF one, A
    <3>4. A + one + One(r \in Going(s, m)') <= A + One(r \in Going(s, m))
      BY <2>5, <3>2, <3>3
    <3>5. admitted'[s][m].n + One(r \in Going(s, m)') <= admitted[s][m].n + One(r \in Going(s, m))
      BY <2>5, <3>4, Zenon DEF A
    <3>6. faults <= faults'
      BY <1>2
    <3> QED  BY <1>1, <1>2, <3>1, <3>5, <3>6, EndedMoves
  <2> QED  BY <1>1, <2>7, <2>8 DEF Counted
<1> QED  BY <1>3 DEF TallyInv

-----------------------------------------------------------------------------
(* The global counter is charged for what is let in (GlobalInv).           *)

\* The global counter exceeds what was let in by lost answers and by uploads
\* that stand before the HINCRBY.
Booking(s, m) == {r \in Requests : pc[r] = "book" /\ Scope(r) = s /\ loc[r].at = m}
GlobalInv ==
  \A m \in Minutes :
    count[Global][m].n + InMemory(Global, m) <=
      admitted[Global][m].n + faults + Cardinality(Booking(Global, m))

LEMMA GlobalIn == Global \in Scopes
BY DEF Scopes

LEMMA BookingSelf ==
  ASSUME NEW r \in Requests, NEW s, NEW m
  PROVE  /\ r \in Booking(s, m) <=> pc[r] = "book" /\ Scope(r) = s /\ loc[r].at = m
         /\ r \in Booking(s, m)' <=> pc'[r] = "book" /\ Scope(r)' = s /\ loc'[r].at = m
BY DEF Booking

\* A step of r that adds an upload to a counter lets one in, loses an answer,
\* or leaves r booking.
LEMMA GlobalMoves ==
  ASSUME Inv, Inv', GlobalInv, NEW r \in Requests, Others(r), NEW m \in Minutes,
         NEW one \in Nat, NEW lost \in Nat,
         faults' = faults + lost,
         count'[Global][m].n + InMemory(Global, m)' + One(r \in Booking(Global, m)) <=
           count[Global][m].n + InMemory(Global, m) + one + lost + One(r \in Booking(Global, m)'),
         admitted'[Global][m].n = admitted[Global][m].n + one
  PROVE  count'[Global][m].n + InMemory(Global, m)' <=
           admitted'[Global][m].n + faults' + Cardinality(Booking(Global, m)')
<1> DEFINE P == Booking(Global, m)
           Q == Booking(Global, m)'
           C == count[Global][m].n
           D == count'[Global][m].n
           A == admitted[Global][m].n
           I == InMemory(Global, m)
           J == InMemory(Global, m)'
<1>1. C \in Nat /\ D \in Nat /\ A \in Nat /\ I \in Nat /\ J \in Nat /\ faults \in Nat
  BY GlobalIn, TallyTyped, CountNextTyped, ColumnFacts, ColumnNext, InvFacts
<1>2. P \subseteq Requests /\ Q \subseteq Requests /\ \A q \in Requests \ {r} : q \in P <=> q \in Q
  BY DEF Booking, Others, Scope
<1>3. C + I <= A + faults + Cardinality(P)
  BY DEF GlobalInv
<1>4. D + J + One(r \in P) <= C + I + one + lost + One(r \in Q)
  OBVIOUS
<1>5. One(r \in P) \in Nat /\ One(r \in Q) \in Nat
  BY OneNat, Zenon
<1> HIDE DEF P, Q, C, D, A, I, J
<1>6. /\ Cardinality(P) \in Nat /\ Cardinality(Q) \in Nat
      /\ Cardinality(Q) + One(r \in P) = Cardinality(P) + One(r \in Q)
  BY <1>2, CardMoves
<1>7. D + J <= (A + one) + (faults + lost) + Cardinality(Q)
  BY <1>1, <1>3, <1>4, <1>5, <1>6
<1> QED  BY <1>7, Zenon DEF D, J, Q, A

LEMMA GlobalArrive ==
  ASSUME Inv, GlobalInv, NEW r \in Requests, Arrive(r)
  PROVE  GlobalInv'
<1>1. /\ Inv' /\ pc[r] = "idle" /\ Others(r) /\ Fresh(r) /\ faults' = faults
      /\ count' = count /\ windows' = windows /\ admitted' = admitted
  BY ArriveStep
<1>2. ASSUME NEW m \in Minutes
      PROVE  count'[Global][m].n + InMemory(Global, m)' <=
               admitted'[Global][m].n + faults' + Cardinality(Booking(Global, m)')
  <2>1. r \notin Booking(Global, m) /\ r \notin Booking(Global, m)'
    BY <1>1, BookingSelf DEF Fresh
  <2>2. One(r \in Booking(Global, m)) = 0 /\ One(r \in Booking(Global, m)') = 0
    BY <2>1 DEF One
  <2>3. InMemory(Global, m)' = InMemory(Global, m)
    BY <1>1 DEF InMemory, Entries
  <2>4. /\ count[Global][m].n \in Nat /\ InMemory(Global, m) \in Nat
        /\ admitted[Global][m].n \in Nat /\ faults \in Nat
    BY GlobalIn, TallyTyped, ColumnFacts, InvFacts
  <2>5. count'[Global][m].n + InMemory(Global, m)' + One(r \in Booking(Global, m)) <=
           count[Global][m].n + InMemory(Global, m) + 0 + 0 + One(r \in Booking(Global, m)')
    BY <1>1, <2>2, <2>3, <2>4
  <2>6. faults' = faults + 0 /\ admitted'[Global][m].n = admitted[Global][m].n + 0 /\ 0 \in Nat
    BY <1>1, <2>4
  <2> QED  BY <1>1, <2>5, <2>6, GlobalMoves
<1> QED  BY <1>2 DEF GlobalInv

LEMMA GlobalMemory ==
  ASSUME Inv, GlobalInv, NEW r \in Requests, Memory(r)
  PROVE  GlobalInv'
<1>1. /\ Inv' /\ Others(r) /\ pc'[r] = "idle" /\ pc[r] = "memory" /\ count' = count
      /\ faults' = faults
  BY MemoryInv, MemoryOf, LeftIs
<1>2. ASSUME NEW m \in Minutes
      PROVE  count'[Global][m].n + InMemory(Global, m)' <=
               admitted'[Global][m].n + faults' + Cardinality(Booking(Global, m)')
  <2>1. r \notin Booking(Global, m) /\ r \notin Booking(Global, m)'
    BY <1>1, BookingSelf
  <2>2. One(r \in Booking(Global, m)) = 0 /\ One(r \in Booking(Global, m)') = 0
    BY <2>1 DEF One
  <2> DEFINE one == IF Admitting(r)
                    THEN One(Global \in ToSet(loc[r].scopes) /\ m = loc[r].at) ELSE 0
  <2>3. /\ one \in Nat /\ admitted'[Global][m].n = admitted[Global][m].n + one
        /\ InMemory(Global, m)' \in Nat /\ InMemory(Global, m) \in Nat
        /\ InMemory(Global, m)' <= InMemory(Global, m) + one
    BY GlobalIn, MemoryMoves
  <2>4. count[Global][m].n \in Nat /\ faults \in Nat
    BY GlobalIn, TallyTyped, InvFacts
  <2> HIDE DEF one
  <2>5. count'[Global][m].n + InMemory(Global, m)' + One(r \in Booking(Global, m)) <=
           count[Global][m].n + InMemory(Global, m) + one + 0 + One(r \in Booking(Global, m)')
    BY <1>1, <2>2, <2>3, <2>4
  <2>6. faults' = faults + 0 /\ 0 \in Nat
    BY <1>1, <2>4
  <2> QED  BY <1>1, <2>3, <2>5, <2>6, GlobalMoves
<1> QED  BY <1>2 DEF GlobalInv

\* What a command adds to the global counter: an upload that r goes on to book,
\* or one whose answer is lost.
LEMMA GlobalCommand ==
  ASSUME Inv, GlobalInv, NEW r \in Requests, Ask(r) \/ Sum(r) \/ Bump(r) \/ Book(r),
         \A m \in Minutes : \E one \in Nat, lost \in Nat :
           /\ faults' = faults + lost
           /\ admitted'[Global][m].n = admitted[Global][m].n + one
           /\ count'[Global][m].n + One(r \in Booking(Global, m)) <=
                count[Global][m].n + one + lost + One(r \in Booking(Global, m)')
  PROVE  GlobalInv'
<1>1. Talks(r) /\ Inv'
  BY TalksAll
<1>2. Others(r) /\ windows' = windows
  BY <1>1 DEF Talks
<1>3. ASSUME NEW m \in Minutes
      PROVE  count'[Global][m].n + InMemory(Global, m)' <=
               admitted'[Global][m].n + faults' + Cardinality(Booking(Global, m)')
  <2>1. PICK one \in Nat, lost \in Nat :
           /\ faults' = faults + lost
           /\ admitted'[Global][m].n = admitted[Global][m].n + one
           /\ count'[Global][m].n + One(r \in Booking(Global, m)) <=
                count[Global][m].n + one + lost + One(r \in Booking(Global, m)')
    OBVIOUS
  <2>2. InMemory(Global, m)' = InMemory(Global, m) /\ InMemory(Global, m) \in Nat
    <3>1. InMemory(Global, m)' = InMemory(Global, m)
      BY <1>2 DEF InMemory, Entries
    <3> QED  BY <3>1, GlobalIn, ColumnFacts
  <2> DEFINE C == count[Global][m].n
             D == count'[Global][m].n
             I == InMemory(Global, m)
             J == InMemory(Global, m)'
             P == One(r \in Booking(Global, m))
             Q == One(r \in Booking(Global, m)')
  <2>3. C \in Nat /\ D \in Nat /\ P \in Nat /\ Q \in Nat /\ I \in Nat /\ J = I /\ D + P <= C + one + lost + Q
    BY <1>1, <2>1, <2>2, GlobalIn, TallyTyped, CountNextTyped, OneNat
  <2> HIDE DEF C, D, I, J, P, Q
  <2>4. D + J + P <= C + I + one + lost + Q
    BY <2>3
  <2> USE DEF C, D, I, J, P, Q
  <2> QED  BY <1>1, <1>2, <2>1, <2>4, GlobalMoves
<1> QED  BY <1>3 DEF GlobalInv

LEMMA GlobalAskSum ==
  ASSUME Inv, GlobalInv, NEW r \in Requests, Ask(r) \/ Sum(r)
  PROVE  GlobalInv'
<1>1. /\ pc[r] \in {"ask", "sum"} /\ pc'[r] # "book" /\ admitted' = admitted
      /\ \A s \in Scopes, m \in Minutes : count'[s][m].n = count[s][m].n
      /\ (Faulted \/ Calmly)
  BY AskStep, SumStep DEF Kept, Fell
<1>2. PICK lost \in {0, 1} : faults' = faults + lost /\ faults \in Nat
  BY <1>1, InvFacts DEF Faulted, Calmly
<1>3. ASSUME NEW m \in Minutes
      PROVE  \E one \in Nat, los \in Nat :
               /\ faults' = faults + los
               /\ admitted'[Global][m].n = admitted[Global][m].n + one
               /\ count'[Global][m].n + One(r \in Booking(Global, m)) <=
                    count[Global][m].n + one + los + One(r \in Booking(Global, m)')
  <2>1. r \notin Booking(Global, m) /\ r \notin Booking(Global, m)'
    BY <1>1, BookingSelf
  <2>2. One(r \in Booking(Global, m)) = 0 /\ One(r \in Booking(Global, m)') = 0
    BY <2>1 DEF One
  <2>3. count[Global][m].n \in Nat /\ admitted[Global][m].n \in Nat
    BY GlobalIn, TallyTyped
  <2>4. count'[Global][m].n = count[Global][m].n
    BY <1>1, GlobalIn
  <2>5. /\ faults' = faults + lost
        /\ admitted'[Global][m].n = admitted[Global][m].n + 0
        /\ count'[Global][m].n + One(r \in Booking(Global, m)) <=
             count[Global][m].n + 0 + lost + One(r \in Booking(Global, m)')
    BY <1>1, <1>2, <2>2, <2>3, <2>4
  <2>6. 0 \in Nat /\ lost \in Nat
    OBVIOUS
  <2> QED  BY <2>5, <2>6, Zenon
<1> QED  BY <1>3, GlobalCommand

LEMMA GlobalBump ==
  ASSUME Inv, GlobalInv, NEW r \in Requests, Bump(r)
  PROVE  GlobalInv'
<1>1. /\ pc[r] = "bump" /\ Talking(r) /\ admitted' = admitted
      /\ \/ Faulted /\ count' \in {count, Bumped(r)} /\ pc'[r] = "memory"
         \/ Calmly /\ Kept(r, "book") /\ count' = Bumped(r)
  BY BumpStep DEF Fell
<1>3. ASSUME NEW m \in Minutes
      PROVE  \E one \in Nat, lost \in Nat :
               /\ faults' = faults + lost
               /\ admitted'[Global][m].n = admitted[Global][m].n + one
               /\ count'[Global][m].n + One(r \in Booking(Global, m)) <=
                    count[Global][m].n + one + lost + One(r \in Booking(Global, m)')
  <2> DEFINE b == Global = Scope(r) /\ m = loc[r].at
             C == count[Global][m].n
             D == count'[Global][m].n
             P == One(r \in Booking(Global, m))
             Q == One(r \in Booking(Global, m)')
  <2>1. P = 0
    <3>1. r \notin Booking(Global, m)
      BY <1>1, BookingSelf
    <3> QED  BY <3>1 DEF One
  <2>2. C \in Nat /\ admitted[Global][m].n \in Nat /\ faults \in Nat /\ Q \in Nat
    BY GlobalIn, TallyTyped, InvFacts, OneNat
  <2>3. One(b) \in {0, 1} /\ (count' = Bumped(r) => D = C + One(b))
    BY <1>1, GlobalIn, BumpedAt DEF One
  <2>4. CASE Faulted /\ count' \in {count, Bumped(r)}
    <3>1. D <= C + 1 /\ D \in Nat
      BY <2>2, <2>3, <2>4
    <3> HIDE DEF C, D, P, Q
    <3>2. D + P <= C + 0 + 1 + Q
      BY <2>1, <2>2, <3>1
    <3>3. faults' = faults + 1 /\ admitted'[Global][m].n = admitted[Global][m].n + 0
      BY <1>1, <2>2, <2>4 DEF Faulted
    <3>4. 0 \in Nat /\ 1 \in Nat
      OBVIOUS
    <3> QED  BY <3>2, <3>3, <3>4, Zenon DEF C, D, P, Q
  <2>5. CASE Calmly /\ Kept(r, "book") /\ count' = Bumped(r)
    <3>1. D = C + One(b)
      BY <2>3, <2>5
    <3>2. b => r \in Booking(Global, m)'
      BY <2>5, BookingSelf DEF Kept, Scope
    <3>3. One(b) <= Q
      BY <3>2 DEF One
    <3> HIDE DEF C, D, P, Q, b
    <3>4. D + P <= C + 0 + 0 + Q
      BY <2>1, <2>2, <2>3, <3>1, <3>3
    <3>5. faults' = faults + 0 /\ admitted'[Global][m].n = admitted[Global][m].n + 0
      BY <1>1, <2>2, <2>5 DEF Calmly
    <3>6. 0 \in Nat
      OBVIOUS
    <3> QED  BY <3>4, <3>5, <3>6, Zenon DEF C, D, P, Q
  <2> QED  BY <1>1, <2>4, <2>5
<1> QED  BY <1>3, GlobalCommand

LEMMA GlobalBook ==
  ASSUME Inv, GlobalInv, NEW r \in Requests, Book(r)
  PROVE  GlobalInv'
<1>1. /\ pc[r] = "book" /\ Talking(r)
      /\ \A s \in Scopes, m \in Minutes : count'[s][m].n = count[s][m].n
      /\ \/ Faulted /\ admitted' = admitted
         \/ Calmly /\ Tail(loc[r].todo) = <<>> /\ Admit(r)
         \/ Calmly /\ Tail(loc[r].todo) # <<>> /\ admitted' = admitted
  BY BookStep DEF Advanced
<1>3. ASSUME NEW m \in Minutes
      PROVE  \E one \in Nat, lost \in Nat :
               /\ faults' = faults + lost
               /\ admitted'[Global][m].n = admitted[Global][m].n + one
               /\ count'[Global][m].n + One(r \in Booking(Global, m)) <=
                    count[Global][m].n + one + lost + One(r \in Booking(Global, m)')
  <2> DEFINE C == count[Global][m].n
             D == count'[Global][m].n
             P == One(r \in Booking(Global, m))
             Q == One(r \in Booking(Global, m)')
  <2>1. C \in Nat /\ admitted[Global][m].n \in Nat /\ faults \in Nat /\ Q \in Nat
        /\ P \in {0, 1} /\ D = C
    BY <1>1, GlobalIn, TallyTyped, InvFacts, OneNat DEF One
  <2>2. 0 \in Nat /\ 1 \in Nat
    OBVIOUS
  <2>3. CASE Faulted /\ admitted' = admitted
    <3>1. faults' = faults + 1 /\ admitted'[Global][m].n = admitted[Global][m].n + 0
      BY <2>1, <2>3 DEF Faulted
    <3> HIDE DEF C, D, P, Q
    <3>2. D + P <= C + 0 + 1 + Q
      BY <2>1
    <3> QED  BY <2>2, <3>1, <3>2, Zenon DEF C, D, P, Q
  <2>4. CASE Calmly /\ Tail(loc[r].todo) = <<>> /\ Admit(r)
    <3> DEFINE one == One(Global \in ToSet(loc[r].scopes) /\ m = loc[r].at)
    <3>1. admitted'[Global][m].n = admitted[Global][m].n + one
      BY <2>4, GlobalIn, AdmittedAt
    <3>2. r \in Booking(Global, m) => Global \in ToSet(loc[r].scopes) /\ m = loc[r].at
      BY <1>1, TalkFacts, BookingSelf
    <3>3. P <= one /\ one \in Nat
      BY <3>2 DEF One
    <3>4. faults' = faults + 0
      BY <2>1, <2>4 DEF Calmly
    <3> HIDE DEF C, D, P, Q, one
    <3>5. D + P <= C + one + 0 + Q
      BY <2>1, <3>3
    <3> QED  BY <2>2, <3>1, <3>3, <3>4, <3>5, Zenon DEF C, D, P, Q
  <2>5. CASE Calmly /\ Tail(loc[r].todo) # <<>> /\ admitted' = admitted
    <3>1. Scope(r) # Global
      BY <1>1, <2>5, TalkFacts
    <3>2. r \notin Booking(Global, m)
      BY <3>1, BookingSelf
    <3>3. P = 0
      BY <3>2 DEF One
    <3>4. faults' = faults + 0 /\ admitted'[Global][m].n = admitted[Global][m].n + 0
      BY <2>1, <2>5 DEF Calmly
    <3> HIDE DEF C, D, P, Q
    <3>5. D + P <= C + 0 + 0 + Q
      BY <2>1, <3>3
    <3> QED  BY <2>2, <3>4, <3>5, Zenon DEF C, D, P, Q
  <2> QED  BY <1>1, <2>3, <2>4, <2>5
<1> QED  BY <1>3, GlobalCommand

-----------------------------------------------------------------------------
(* The bounds on uploads.                                                  *)

LEMMA CalmMemoryEmpty ==
  ASSUME Inv, CalmInv, Calm, NEW s \in Scopes, NEW m \in Minutes
  PROVE  InMemory(s, m) = 0
<1>1. \A p \in Procs : windows[p][s] = <<>>
  BY DEF CalmInv
<1>2. Column(s) \in Columns /\ InMemory(s, m) = Cardinality(Hits(Column(s), m))
  BY <1>1, ColumnFacts
<1>3. \A p \in Procs : Column(s)[p] = <<>>
  BY <1>1 DEF Column
<1> QED  BY <1>2, <1>3, HitsEmpty

\* What is counted is within the limit of each place that counts, and Redis
\* may have passed its own by the uploads that overlap.
LEMMA FirstBounds ==
  ASSUME Inv, CalmInv, WindowInv, OffInv, CountInv,
         NEW s \in Scopes, NEW m \in Minutes, Rpm[s] > 0, First(s, m)
  PROVE  admitted[s][m].n <= Limit(s)
<1> DEFINE A == admitted[s][m].n
           C == count[s][m].n
           I == InMemory(s, m)
           L == Rpm[s]
           N == Cardinality(Procs)
           O == Overlap
<1>1. /\ A \in Nat /\ C \in Nat /\ I \in Nat /\ L \in Nat /\ N \in Nat /\ O \in Nat
      /\ L * N \in Nat
  BY TallyTyped, ColumnFacts, RoomNat, OverlapFacts DEF MemoryRoom
<1>2. I <= L * N
  BY MemoryFull DEF MemoryRoom
<1>3. (enabled => C <= L + O) /\ (~enabled => C = 0)
  <2>1. C + Cardinality(Passing(s, m)) <= L + O
    BY DEF CountInv
  <2>2. Cardinality(Passing(s, m)) \in Nat
    <3>1. Passing(s, m) \subseteq Requests
      BY DEF Passing
    <3> QED  BY <3>1, UnionAtMost
  <2>3. ~enabled => C = 0
    BY DEF OffInv
  <2> HIDE DEF C, L, O
  <2> QED  BY <1>1, <2>1, <2>2, <2>3
<1>4. A <= C + I
  <2>1. Cardinality(Pending(s, m)) \in Nat
    <3>1. Pending(s, m) \subseteq Requests
      BY DEF Pending
    <3> QED  BY <3>1, UnionAtMost
  <2>2. A + Cardinality(Pending(s, m)) <= C + I
    BY DEF First
  <2> HIDE DEF A, C, I
  <2> QED  BY <1>1, <2>1, <2>2
<1>5. /\ Places = Redises + Memories
      /\ Calm => Redises = 1 /\ Memories = 0 /\ I = 0 /\ enabled
      /\ ~Calm => Memories = N
      /\ enabled => Redises = 1
      /\ ~enabled => Redises = 0
  BY CalmMemoryEmpty DEF Places, Redises, Memories, Calm
<1>6. Limit(s) = L * Places + O * Redises
  BY DEF Limit
<1> HIDE DEF A, C, I, L, N, O
<1>7. L * 1 = L /\ O * 1 = O /\ O * 0 = 0 /\ L * (1 + N) = L + L * N
  BY <1>1
<1>8. CASE Calm
  <2>1. Places = 1 /\ Redises = 1
    BY <1>5, <1>8
  <2>2. Limit(s) = L + O
    BY <1>6, <1>7, <2>1
  <2> QED  BY <1>1, <1>3, <1>4, <1>5, <1>8, <2>2 DEF A
<1>9. CASE ~Calm /\ enabled
  <2>1. Places = 1 + N /\ Redises = 1
    BY <1>1, <1>5, <1>9
  <2>2. Limit(s) = (L + L * N) + O
    BY <1>6, <1>7, <2>1
  <2>3. A <= (L + L * N) + O
    BY <1>1, <1>2, <1>3, <1>4, <1>9
  <2> QED  BY <2>2, <2>3 DEF A
<1>10. CASE ~Calm /\ ~enabled
  <2>1. Places = N /\ Redises = 0
    BY <1>1, <1>5, <1>10
  <2>2. Limit(s) = L * N + 0
    BY <1>6, <1>7, <2>1
  <2>3. A <= L * N + 0
    BY <1>1, <1>2, <1>3, <1>4, <1>10
  <2> QED  BY <2>2, <2>3 DEF A
<1> QED  BY <1>8, <1>9, <1>10

\* A counter runs out, a breaker closes, or nothing happens.
LEMMA Quiet ==
  ASSUME Inv, Inv', CalmInv, WindowInv, OffInv, CountInv, TallyInv, GlobalInv,
         UNCHANGED <<enabled, faults, now, windows, pc, loc, admitted>>,
         \A p \in Procs : blocked'[p] => blocked[p],
         \A s \in Scopes, m \in Minutes :
           count'[s][m].n <= count[s][m].n /\ (m >= now => count'[s][m].n = count[s][m].n)
  PROVE  CalmInv' /\ WindowInv' /\ OffInv' /\ CountInv' /\ TallyInv' /\ GlobalInv'
<1>1. CalmInv' /\ WindowInv'
  BY DEF CalmInv, Calm, WindowInv
<1>2. ASSUME NEW s \in Scopes, NEW m \in Minutes
      PROVE  count[s][m].n \in Nat /\ count'[s][m].n \in Nat /\ count'[s][m].n <= count[s][m].n
  BY TallyTyped, CountNextTyped
<1>3. OffInv'
  BY <1>2 DEF OffInv
<1>4. \A s, m : /\ Passing(s, m)' = Passing(s, m) /\ Pending(s, m)' = Pending(s, m)
                /\ Going(s, m)' = Going(s, m) /\ Booking(s, m)' = Booking(s, m)
                /\ InMemory(s, m)' = InMemory(s, m) /\ Limit(s)' = Limit(s)
  BY DEF Passing, Pending, Going, Booking, Holds, Talking, Scope, InMemory, Entries,
         Limit, Places, Redises, Memories, Overlap
<1>5. CountInv'
  <2> SUFFICES ASSUME NEW s \in Scopes, NEW m \in Minutes, Rpm[s] > 0
               PROVE  count'[s][m].n + Cardinality(Passing(s, m)') <= Rpm[s] + Overlap
    BY DEF CountInv, Overlap
  <2>1. count[s][m].n + Cardinality(Passing(s, m)) <= Rpm[s] + Overlap
    BY DEF CountInv
  <2>2. Cardinality(Passing(s, m)) \in Nat
    <3>1. Passing(s, m) \subseteq Requests
      BY DEF Passing
    <3> QED  BY <3>1, UnionAtMost
  <2> QED  BY <1>2, <1>4, <2>1, <2>2, RoomNat, OverlapFacts
<1>6. GlobalInv'
  <2> SUFFICES ASSUME NEW m \in Minutes
               PROVE  count'[Global][m].n + InMemory(Global, m)' <=
                        admitted'[Global][m].n + faults' + Cardinality(Booking(Global, m)')
    BY DEF GlobalInv
  <2>1. count[Global][m].n + InMemory(Global, m) <=
          admitted[Global][m].n + faults + Cardinality(Booking(Global, m))
    BY DEF GlobalInv
  <2>2. /\ InMemory(Global, m) \in Nat /\ Cardinality(Booking(Global, m)) \in Nat
        /\ admitted[Global][m].n \in Nat /\ faults \in Nat
    <3>1. Booking(Global, m) \subseteq Requests
      BY DEF Booking
    <3> QED  BY <3>1, UnionAtMost, ColumnFacts, GlobalIn, TallyTyped, InvFacts
  <2> QED  BY <1>2, <1>4, <2>1, <2>2, GlobalIn
<1>7. ASSUME NEW s \in Scopes, NEW m \in Minutes PROVE Counted(s, m)'
  <2>1. Counted(s, m)
    BY DEF TallyInv
  <2>2. m >= now => First(s, m)'
    BY <1>4, <2>1 DEF Counted, First
  <2>3. m < now /\ Rpm[s] > 0 => Ended(s, m)'
    BY <1>4, <2>1 DEF Counted, Ended
  <2> QED  BY <2>2, <2>3 DEF Counted
<1> QED  BY <1>1, <1>3, <1>5, <1>6, <1>7 DEF TallyInv

\* The minute is over.
LEMMA MinuteOver ==
  ASSUME Inv, CalmInv, WindowInv, OffInv, CountInv, TallyInv, GlobalInv, NextMinute
  PROVE  CalmInv' /\ WindowInv' /\ OffInv' /\ CountInv' /\ TallyInv' /\ GlobalInv'
<1>1. UNCHANGED <<enabled, blocked, faults, count, windows, pc, loc, admitted>> /\ now' = now + 1
  BY DEF NextMinute, redis
<1>2. CalmInv' /\ WindowInv' /\ OffInv'
  BY <1>1 DEF CalmInv, Calm, WindowInv, OffInv
<1>3. \A s, m : /\ Passing(s, m)' = Passing(s, m) /\ Pending(s, m)' = Pending(s, m)
                /\ Going(s, m)' = Going(s, m) /\ Booking(s, m)' = Booking(s, m)
                /\ InMemory(s, m)' = InMemory(s, m) /\ Limit(s)' = Limit(s)
  BY <1>1 DEF Passing, Pending, Going, Booking, Holds, Talking, Scope, InMemory, Entries,
         Limit, Places, Redises, Memories, Overlap
<1>4. CountInv'
  BY <1>1, <1>3 DEF CountInv, Overlap
<1>5. GlobalInv'
  BY <1>1, <1>3 DEF GlobalInv
<1>6. \A s, m : (First(s, m)' <=> First(s, m)) /\ (Ended(s, m)' <=> Ended(s, m))
  BY <1>1, <1>3 DEF First, Ended
<1>7. ASSUME NEW s \in Scopes, NEW m \in Minutes PROVE Counted(s, m)'
  <2>1. Counted(s, m) /\ m \in Nat /\ now \in Nat
    BY InvFacts DEF TallyInv, Minutes
  <2>2. m >= now' => First(s, m)'
    BY <1>1, <1>6, <2>1 DEF Counted
  <2>3. ASSUME m = now, Rpm[s] > 0 PROVE Ended(s, m)
    <3>1. admitted[s][m].n <= Limit(s)
      BY <2>1, <2>3, FirstBounds DEF Counted
    <3>2. Cardinality(Going(s, m)) \in Nat /\ Cardinality(Going(s, m)) <= Overlap + 1
      <4>1. Going(s, m) \subseteq Requests
        BY DEF Going
      <4> QED  BY <4>1, CardAtMost
    <3>3. admitted[s][m].n \in Nat /\ Limit(s) \in Nat
      BY TallyTyped, LimitNat
    <3> QED  BY <3>1, <3>2, <3>3, OverlapFacts DEF Ended
  <2>4. m < now' /\ Rpm[s] > 0 => Ended(s, m)'
    BY <1>1, <1>6, <2>1, <2>3 DEF Counted
  <2> QED  BY <2>2, <2>4 DEF Counted
<1> QED  BY <1>2, <1>4, <1>5, <1>7 DEF TallyInv

\* The inductive invariant of the bounds on uploads.
LimitInv ==
  /\ Inv /\ CalmInv /\ WindowInv /\ OffInv
  /\ CountInv /\ TallyInv /\ GlobalInv

LEMMA LimitInit == Init => LimitInv
<1> SUFFICES ASSUME Init PROVE LimitInv
  OBVIOUS
<1>1. Inv
  BY InitInv
<1>2. /\ blocked = [p \in Procs |-> FALSE] /\ faults = 0 /\ now = 0
      /\ \A r \in Requests : pc[r] = "idle"
      /\ \A p \in Procs, s \in Scopes : windows[p][s] = <<>>
      /\ \A s \in Scopes, m \in Minutes : count[s][m].n = 0 /\ admitted[s][m].n = 0
  BY DEF Init, HandleInit, Nothing
<1>3. CalmInv /\ WindowInv /\ OffInv
  <2>1. \A s \in Scopes : Rpm[s] \in Nat
    BY RoomNat
  <2>2. Len(<<>>) = 0
    OBVIOUS
  <2> QED  BY <1>2, <2>1, <2>2 DEF CalmInv, WindowInv, OffInv
<1>4. \A s, m : Passing(s, m) = {} /\ Pending(s, m) = {} /\ Booking(s, m) = {}
  BY <1>2 DEF Passing, Pending, Booking, Holds, Talking
<1>5. \A s \in Scopes, m \in Minutes :
        /\ Cardinality(Passing(s, m)) = 0 /\ Cardinality(Pending(s, m)) = 0
        /\ Cardinality(Booking(s, m)) = 0
  <2>1. Cardinality({}) = 0
    BY FS_EmptySet
  <2> QED  BY <1>4, <2>1, Zenon
<1>6. \A s \in Scopes, m \in Minutes : InMemory(s, m) = 0
  <2> SUFFICES ASSUME NEW s \in Scopes, NEW m \in Minutes PROVE InMemory(s, m) = 0
    OBVIOUS
  <2>1. Column(s) \in Columns /\ InMemory(s, m) = Cardinality(Hits(Column(s), m))
    BY <1>1, ColumnFacts
  <2>2. \A p \in Procs : Column(s)[p] = <<>>
    BY <1>2 DEF Column
  <2> QED  BY <2>1, <2>2, HitsEmpty
<1>7. CountInv
  <2> SUFFICES ASSUME NEW s \in Scopes, NEW m \in Minutes, Rpm[s] > 0
               PROVE  count[s][m].n + Cardinality(Passing(s, m)) <= Rpm[s] + Overlap
    BY DEF CountInv
  <2>1. count[s][m].n = 0 /\ Cardinality(Passing(s, m)) = 0
    BY <1>2, <1>5
  <2>2. Rpm[s] \in Nat /\ Overlap \in Nat
    BY RoomNat, OverlapFacts
  <2> QED  BY <2>1, <2>2
<1>8. TallyInv
  <2> SUFFICES ASSUME NEW s \in Scopes, NEW m \in Minutes PROVE First(s, m)
    BY <1>2 DEF TallyInv, Counted, Minutes
  <2>1. /\ count[s][m].n = 0 /\ admitted[s][m].n = 0
        /\ Cardinality(Pending(s, m)) = 0 /\ InMemory(s, m) = 0
    BY <1>2, <1>5, <1>6
  <2> QED  BY <2>1 DEF First
<1>9. GlobalInv
  <2> SUFFICES ASSUME NEW m \in Minutes
               PROVE  count[Global][m].n + InMemory(Global, m) <=
                        admitted[Global][m].n + faults + Cardinality(Booking(Global, m))
    BY DEF GlobalInv
  <2>1. /\ count[Global][m].n = 0 /\ admitted[Global][m].n = 0 /\ faults = 0
        /\ Cardinality(Booking(Global, m)) = 0 /\ InMemory(Global, m) = 0
    BY <1>2, <1>5, <1>6, GlobalIn
  <2> QED  BY <2>1
<1> QED  BY <1>1, <1>3, <1>7, <1>8, <1>9 DEF LimitInv

LEMMA LimitStep == LimitInv /\ [Next]_vars => LimitInv'
<1> SUFFICES ASSUME LimitInv, [Next]_vars PROVE LimitInv'
  OBVIOUS
<1>1. /\ Inv /\ CalmInv /\ WindowInv /\ OffInv
      /\ CountInv /\ TallyInv /\ GlobalInv
  BY DEF LimitInv
<1>2. Inv'
  BY <1>1, InvStep
<1>3. SUFFICES CalmInv' /\ WindowInv' /\ OffInv' /\ CountInv' /\ TallyInv' /\ GlobalInv'
  BY <1>2 DEF LimitInv
<1>4. ASSUME NEW r \in Requests, Arrive(r)
      PROVE  CalmInv' /\ WindowInv' /\ OffInv' /\ CountInv' /\ TallyInv' /\ GlobalInv'
  BY <1>1, <1>4, CalmArrive, CountArrive, TallyArrive, GlobalArrive
<1>5. ASSUME NEW r \in Requests, Memory(r)
      PROVE  CalmInv' /\ WindowInv' /\ OffInv' /\ CountInv' /\ TallyInv' /\ GlobalInv'
  BY <1>1, <1>5, CalmMemory, CountMemory, TallyMemory, GlobalMemory
<1>6. ASSUME NEW r \in Requests, Ask(r) \/ Sum(r) \/ Bump(r) \/ Book(r)
      PROVE  CalmInv' /\ WindowInv' /\ OffInv' /\ CountInv' /\ TallyInv' /\ GlobalInv'
  <2>1. CalmInv' /\ WindowInv' /\ OffInv'
    BY <1>1, <1>6, TalksAll, CalmTalks
  <2>2. CountInv'
    BY <1>1, <1>6, CountAsk, CountSum, CountBump, CountBook
  <2>3. TallyInv'
    BY <1>1, <1>6, TallyAsk, TallySum, TallyBump, TallyBook
  <2>4. GlobalInv'
    BY <1>1, <1>6, GlobalAskSum, GlobalBump, GlobalBook
  <2> QED  BY <2>1, <2>2, <2>3, <2>4
<1>13. \A s \in Scopes, m \in Minutes : count' = count =>
         count'[s][m].n <= count[s][m].n /\ (m >= now => count'[s][m].n = count[s][m].n)
  BY <1>1, TallyTyped
<1>7. ASSUME NEW p \in Procs, BreakerCloses(p)
      PROVE  CalmInv' /\ WindowInv' /\ OffInv' /\ CountInv' /\ TallyInv' /\ GlobalInv'
  <2>1. /\ UNCHANGED <<enabled, faults, now, count, windows, pc, loc, admitted>>
        /\ blocked' = [blocked EXCEPT ![p] = FALSE]
    BY <1>7 DEF BreakerCloses, Cooldown
  <2>2. \A q \in Procs : blocked'[q] => blocked[q]
    BY <1>1, <2>1, InvFacts DEF HandleTypeOK
  <2> QED  BY <1>1, <1>2, <1>13, <2>1, <2>2, Quiet
<1>8. CASE NextMinute
  BY <1>1, <1>8, MinuteOver
<1>9. CASE UNCHANGED vars
  <2>1. /\ UNCHANGED <<enabled, faults, now, count, windows, pc, loc, admitted>> /\ blocked' = blocked
    BY <1>9 DEF vars, redis
  <2> QED  BY <1>1, <1>2, <1>13, <2>1, Quiet
<1>12. CASE \/ \E s \in Scopes, m \in Minutes : CountExpires(s, m)
            \/ \E s \in Scopes : BytesExpire(s)
  <2>1. /\ UNCHANGED <<enabled, blocked, faults, now, windows, pc, loc, admitted>>
        /\ \A s \in Scopes, m \in Minutes :
             /\ count'[s][m].n <= count[s][m].n
             /\ count'[s][m].n # count[s][m].n => now >= m + CountLife
    BY <1>1, <1>12, ExpiryInv
  <2>2. ASSUME NEW s \in Scopes, NEW m \in Minutes, m >= now PROVE count'[s][m].n = count[s][m].n
    <3>1. now \in Nat /\ m \in Nat /\ CountLife \in Nat \ {0}
      BY <1>1, InvFacts, LimitsAssumption DEF Minutes
    <3> QED  BY <2>1, <2>2, <3>1
  <2> QED  BY <1>1, <1>2, <2>1, <2>2, Quiet
<1>10. CASE \E r \in Requests : Arrive(r) \/ Memory(r) \/ Ask(r) \/ Sum(r) \/ Bump(r) \/ Book(r)
  BY <1>4, <1>5, <1>6, <1>10
<1>11. CASE \E p \in Procs : BreakerCloses(p)
  BY <1>7, <1>11
<1> QED  BY <1>8, <1>9, <1>10, <1>11, <1>12 DEF Next

LEMMA LimitAlways == Spec => []LimitInv
BY LimitInit, LimitStep, PTL DEF Spec

\* Every upload let in this minute is counted, in Redis or in a memory
\* (the counters of _enforce_counter and of WindowCounter together).
THEOREM NoneUncountedHeld == Spec => []NoneUncounted
<1>1. LimitInv => NoneUncounted
  <2> SUFFICES ASSUME LimitInv, NEW s \in Scopes
               PROVE  admitted[s][now].n <= count[s][now].n + InMemory(s, now)
    BY DEF NoneUncounted
  <2>1. Inv /\ now \in Minutes /\ now \in Nat /\ Counted(s, now)
    BY InvFacts DEF LimitInv, TallyInv
  <2>2. First(s, now)
    BY <2>1 DEF Counted
  <2>3. /\ admitted[s][now].n \in Nat /\ count[s][now].n \in Nat /\ InMemory(s, now) \in Nat
        /\ Cardinality(Pending(s, now)) \in Nat
    <3>1. Pending(s, now) \subseteq Requests
      BY DEF Pending
    <3> QED  BY <2>1, <3>1, TallyTyped, ColumnFacts, UnionAtMost
  <2> QED  BY <2>2, <2>3 DEF First
<1> QED  BY <1>1, LimitAlways, PTL

\* The allowance of all anonymous uploads is spent by uploads that are let in,
\* by lost answers, and by uploads that are being booked: ScopesOf puts the
\* address before the global counter, so a refused one has not reached it.
THEOREM RefusedHeld == Spec => []RefusedSpendsNoneOfGlobal
<1>1. LimitInv => RefusedSpendsNoneOfGlobal
  <2> SUFFICES ASSUME LimitInv PROVE RefusedSpendsNoneOfGlobal
    OBVIOUS
  <2>1. now \in Minutes /\ GlobalInv
    BY InvFacts DEF LimitInv
  <2> QED  BY <2>1 DEF RefusedSpendsNoneOfGlobal, GlobalInv, Booking
<1> QED  BY <1>1, LimitAlways, PTL

\* No counter lets more uploads of a minute in, while it lasts, than the limit
\* of each place that counts them, and in Redis the others that read the
\* counter before one adds to it.  When the minute is over its counter may have
\* run out (EXPIRE of the request key) and a later request may have pruned its
\* events: then those that are under way with its time may pass as well.
THEOREM RpmHeld == Spec => []RpmBounded
<1>1. LimitInv => RpmBounded
  <2> SUFFICES ASSUME LimitInv, NEW s \in Scopes, NEW m \in Minutes, Rpm[s] > 0
               PROVE  admitted[s][m].n <= Rpm[s] * Places + Overlap * Redises
                                            + (IF now > m THEN Cardinality(Requests) ELSE 0)
    BY DEF RpmBounded
  <2>1. Inv /\ CalmInv /\ WindowInv /\ OffInv /\ CountInv /\ Counted(s, m)
    BY DEF LimitInv, TallyInv
  <2>2. /\ m \in Nat /\ now \in Nat /\ admitted[s][m].n \in Nat /\ Limit(s) \in Nat
        /\ Cardinality(Requests) \in Nat
    BY <2>1, InvFacts, TallyTyped, LimitNat, OverlapFacts DEF Minutes
  <2>3. admitted[s][m].n <= Limit(s) + (IF now > m THEN Cardinality(Requests) ELSE 0)
    <3>1. CASE now > m
      <4>1. Cardinality(Going(s, m)) \in Nat
        <5>1. Going(s, m) \subseteq Requests
          BY DEF Going
        <5> QED  BY <5>1, UnionAtMost
      <4>2. Ended(s, m)
        BY <2>1, <2>2, <3>1 DEF Counted
      <4> QED  BY <2>2, <3>1, <4>1, <4>2 DEF Ended
    <3>2. CASE ~(now > m)
      <4>1. admitted[s][m].n <= Limit(s)
        BY <2>1, <2>2, <3>2, FirstBounds DEF Counted
      <4> QED  BY <2>2, <3>2, <4>1
    <3> QED  BY <3>1, <3>2
  <2> QED  BY <2>3, Zenon DEF Limit
<1> QED  BY <1>1, LimitAlways, PTL

-----------------------------------------------------------------------------
(* Bytes of a row of minutes, and of a set of requests.                    *)

\* A summand that counts if b does; the minutes of one counter.
Part(b, x) == IF b THEN x ELSE 0
Row == [Minutes -> [n : Nat, bytes : Nat]]

LEMMA MinutesFinite ==
  ASSUME NEW M, M \subseteq Minutes
  PROVE  IsFiniteSet(M)
<1>1. IsFiniteSet(Minutes)
  BY LimitsAssumption, FS_Interval DEF Minutes
<1> QED  BY <1>1, FS_Subset

LEMMA BookedNat ==
  ASSUME NEW c \in Row, NEW M, M \subseteq Minutes
  PROVE  Booked(c, M) \in Nat
<1> DEFINE f == [m \in M |-> c[m].bytes]
<1>1. \A m \in M : f[m] \in Nat
  BY DEF Row
<1> HIDE DEF f
<1>2. SumFunctionOnSet(f, M) \in Nat
  BY <1>1, MinutesFinite, SumNat
<1> QED  BY <1>2, Zenon DEF Booked, f

LEMMA BookedMono ==
  ASSUME NEW c \in Row, NEW d \in Row, NEW M, NEW N, M \subseteq N, N \subseteq Minutes,
         \A m \in M : c[m].bytes <= d[m].bytes
  PROVE  Booked(c, M) <= Booked(d, N)
<1> DEFINE f == [m \in M |-> c[m].bytes]
           g == [m \in N |-> d[m].bytes]
<1>1. /\ \A m \in M : f[m] \in Nat /\ f[m] <= g[m]
      /\ \A m \in N : g[m] \in Nat
  BY DEF Row
<1> HIDE DEF f, g
<1>2. SumFunctionOnSet(f, M) <= SumFunctionOnSet(g, N)
  BY <1>1, MinutesFinite, SumMono
<1> QED  BY <1>2, Zenon DEF Booked, f, g

LEMMA BookedSame ==
  ASSUME NEW c \in Row, NEW d \in Row, NEW M, M \subseteq Minutes,
         \A m \in M : c[m].bytes = d[m].bytes
  PROVE  Booked(c, M) = Booked(d, M)
<1>1. \A m \in M : c[m].bytes <= d[m].bytes /\ d[m].bytes <= c[m].bytes
  BY DEF Row
<1>2. Booked(c, M) <= Booked(d, M) /\ Booked(d, M) <= Booked(c, M)
  BY <1>1, BookedMono
<1>3. Booked(c, M) \in Nat /\ Booked(d, M) \in Nat
  BY BookedNat
<1> QED  BY <1>2, <1>3

\* A row to which x bytes are added at minute t.
LEMMA BookedGrows ==
  ASSUME NEW c \in Row, NEW d \in Row, NEW M, M \subseteq Minutes, NEW t \in Minutes, NEW x \in Nat,
         d[t].bytes = c[t].bytes + x, \A m \in Minutes \ {t} : d[m].bytes = c[m].bytes
  PROVE  Booked(d, M) = Booked(c, M) + Part(t \in M, x)
<1>1. CASE t \in M
  <2> DEFINE f == [m \in M |-> c[m].bytes]
             g == [m \in M |-> d[m].bytes]
  <2>1. /\ \A m \in M : f[m] \in Nat
        /\ g[t] = f[t] + x
        /\ \A m \in M \ {t} : g[m] = f[m]
    BY <1>1 DEF Row
  <2> HIDE DEF f, g
  <2>2. SumFunctionOnSet(g, M) = SumFunctionOnSet(f, M) + x
    BY <1>1, <2>1, MinutesFinite, SumGrows
  <2>3. Booked(d, M) = Booked(c, M) + x
    BY <2>2, Zenon DEF Booked, f, g
  <2> QED  BY <1>1, <2>3, Zenon DEF Part
<1>2. CASE t \notin M
  <2>1. Booked(d, M) = Booked(c, M)
    BY <1>2, BookedSame
  <2>2. Booked(c, M) \in Nat /\ Part(t \in M, x) = 0
    BY <1>2, BookedNat DEF Part
  <2> QED  BY <2>1, <2>2
<1> QED  BY <1>1, <1>2

LEMMA PartNat == \A b : \A x \in Nat : Part(b, x) \in Nat /\ Part(b, x) <= x
BY DEF Part

\* The bytes of the uploads of R, as l has them.
Weight(l, R) == SumFunctionOnSet([r \in Requests |-> l[r].size], R)

Largest == Max(Sizes)

LEMMA LargestFacts ==
  Largest \in Nat /\ (\A x \in Sizes \cup {0} : x \in Nat /\ x <= Largest)
  /\ Overlap * Largest \in Nat
<1>1. IsFiniteSet(Sizes) /\ Sizes # {} /\ Sizes \subseteq Nat
  BY LimitsAssumption
<1>2. \E x \in Sizes : \A y \in Sizes : y <= x
  BY <1>1, MaxIsGreatest
<1>3. \E x \in Sizes : \A y \in Sizes : x >= y
  BY <1>1, <1>2
<1>4. Largest \in Sizes /\ \A y \in Sizes : Largest >= y
  BY <1>3, Zenon DEF Largest, Max
<1>5. Largest \in Nat /\ \A x \in Sizes \cup {0} : x \in Nat /\ x <= Largest
  BY <1>1, <1>4
<1>6. Overlap * Largest \in Nat
  BY <1>5, OverlapFacts
<1> QED  BY <1>5, <1>6

LEMMA WeightFacts ==
  ASSUME NEW l \in [Requests -> Locals], NEW A, A \subseteq Requests
  PROVE  /\ IsFiniteSet(A) /\ Weight(l, A) \in Nat
         /\ \A q \in Requests : l[q].size \in Nat /\ l[q].size <= Largest
<1> DEFINE f == [q \in Requests |-> l[q].size]
<1>1. IsFiniteSet(A)
  BY OverlapFacts, FS_Subset
<1>2. \A q \in Requests : l[q].size \in Nat /\ l[q].size <= Largest
  BY LargestFacts DEF Locals
<1>3. \A q \in A : f[q] \in Nat
  BY <1>2
<1> HIDE DEF f
<1>4. SumFunctionOnSet(f, A) \in Nat
  BY <1>1, <1>3, SumNat
<1>5. Weight(l, A) \in Nat
  BY <1>4, Zenon DEF Weight, f
<1> QED  BY <1>1, <1>2, <1>5

LEMMA WeightWithout ==
  ASSUME NEW l \in [Requests -> Locals], NEW A, A \subseteq Requests, NEW r \in Requests
  PROVE  /\ Weight(l, A) = Weight(l, A \ {r}) + Part(r \in A, l[r].size)
         /\ Weight(l, A \ {r}) \in Nat
<1> DEFINE f == [q \in Requests |-> l[q].size]
<1>1. IsFiniteSet(A) /\ \A q \in Requests : f[q] = l[q].size /\ f[q] \in Nat
  BY WeightFacts
<1>2. Weight(l, A) \in Nat /\ Weight(l, A \ {r}) \in Nat
  BY WeightFacts
<1>3. CASE r \in A
  <2> HIDE DEF f
  <2>1. SumFunctionOnSet(f, A) = SumFunctionOnSet(f, A \ {r}) + f[r]
    BY <1>1, <1>3, SumSplit
  <2>2. Weight(l, A) = Weight(l, A \ {r}) + f[r]
    BY <2>1, Zenon DEF Weight, f
  <2>3. Part(r \in A, l[r].size) = f[r]
    BY <1>1, <1>3 DEF Part
  <2> QED  BY <1>2, <2>2, <2>3, Zenon
<1>4. CASE r \notin A
  <2>1. A \ {r} = A /\ Part(r \in A, l[r].size) = 0
    BY <1>4 DEF Part
  <2>2. Weight(l, A) = Weight(l, A) + 0
    BY <1>2
  <2> QED  BY <1>2, <2>1, <2>2, Zenon
<1> QED  BY <1>3, <1>4

LEMMA WeightSame ==
  ASSUME NEW l \in [Requests -> Locals], NEW k \in [Requests -> Locals], NEW A, A \subseteq Requests,
         \A q \in A : l[q].size = k[q].size
  PROVE  Weight(l, A) = Weight(k, A)
<1> DEFINE f == [q \in Requests |-> l[q].size]
           g == [q \in Requests |-> k[q].size]
<1>1. IsFiniteSet(A) /\ (\A q \in A : f[q] \in Nat) /\ (\A q \in A : f[q] = g[q])
  BY WeightFacts
<1> HIDE DEF f, g
<1>2. SumFunctionOnSet(f, A) = SumFunctionOnSet(g, A)
  BY <1>1, SumSame
<1> QED  BY <1>2, Zenon DEF Weight, f, g

LEMMA WeightMoves ==
  ASSUME NEW l \in [Requests -> Locals], NEW k \in [Requests -> Locals], NEW r \in Requests,
         \A q \in Requests \ {r} : k[q] = l[q],
         NEW A, NEW B, A \subseteq Requests, B \subseteq Requests,
         \A q \in Requests \ {r} : q \in A <=> q \in B
  PROVE  /\ Weight(l, A) \in Nat /\ Weight(k, B) \in Nat
         /\ Weight(k, B) + Part(r \in A, l[r].size) = Weight(l, A) + Part(r \in B, k[r].size)
<1>1. /\ Weight(l, A) = Weight(l, A \ {r}) + Part(r \in A, l[r].size)
      /\ Weight(k, B) = Weight(k, B \ {r}) + Part(r \in B, k[r].size)
      /\ Weight(l, A \ {r}) \in Nat /\ Weight(k, B \ {r}) \in Nat
  BY WeightWithout
<1>2. A \ {r} = B \ {r}
  OBVIOUS
<1>3. Weight(l, B \ {r}) = Weight(k, B \ {r})
  BY WeightSame
<1>4. Weight(l, A \ {r}) = Weight(k, B \ {r})
  BY <1>2, <1>3, Zenon
<1>5. /\ Part(r \in A, l[r].size) \in Nat /\ Part(r \in B, k[r].size) \in Nat
      /\ Weight(l, A) \in Nat /\ Weight(k, B) \in Nat
  BY WeightFacts, PartNat
<1> QED  BY <1>1, <1>4, <1>5

LEMMA WeightBelow ==
  ASSUME NEW l \in [Requests -> Locals], NEW A, A \subseteq Requests, NEW r \in Requests, r \notin A
  PROVE  Weight(l, A) <= Overlap * Largest
<1> DEFINE f == [q \in Requests |-> l[q].size]
<1>1. IsFiniteSet(A) /\ \A q \in A : f[q] \in Nat /\ f[q] <= Largest
  BY WeightFacts
<1>2. Largest \in Nat
  BY LargestFacts
<1> HIDE DEF f
<1>3. SumFunctionOnSet(f, A) <= Cardinality(A) * Largest
  BY <1>1, <1>2, SumBelow
<1>4. Cardinality(A) \in Nat /\ Cardinality(A) <= Overlap /\ Overlap \in Nat
  BY CardAtMost, OverlapFacts
<1>5. SumFunctionOnSet(f, A) \in Nat
  BY <1>1, SumNat
<1>6. ASSUME NEW n \in Nat, NEW o \in Nat, NEW k \in Nat, n <= o
      PROVE  n * k <= o * k
  <2>1. PICK d \in Nat : o = n + d
    <3>1. o - n \in Nat /\ o = n + (o - n)
      BY <1>6
    <3> QED  BY <3>1
  <2>2. (n + d) * k = n * k + d * k /\ d * k \in Nat /\ n * k \in Nat
    OBVIOUS
  <2> QED  BY <2>1, <2>2
<1>7. Cardinality(A) * Largest <= Overlap * Largest
  BY <1>2, <1>4, <1>6
<1>8. Cardinality(A) * Largest \in Nat /\ Overlap * Largest \in Nat
  BY <1>2, <1>4
<1>9. SumFunctionOnSet(f, A) <= Overlap * Largest
  BY <1>3, <1>5, <1>7, <1>8
<1> QED  BY <1>9, Zenon DEF Weight, f

\* No set of requests weighs more than all of them can.
LEMMA WeightAll ==
  ASSUME NEW l \in [Requests -> Locals], NEW A, A \subseteq Requests
  PROVE  Weight(l, A) <= Cardinality(Requests) * Largest
<1>1. PICK r : r \in Requests
  BY LimitsAssumption
<1>2. /\ Weight(l, A) = Weight(l, A \ {r}) + Part(r \in A, l[r].size)
      /\ Weight(l, A \ {r}) \in Nat
  BY <1>1, WeightWithout
<1>3. Weight(l, A \ {r}) <= Overlap * Largest
  BY <1>1, WeightBelow
<1>4. l[r].size \in Nat /\ l[r].size <= Largest /\ Largest \in Nat
  BY <1>1, WeightFacts, LargestFacts
<1>5. Part(r \in A, l[r].size) \in Nat /\ Part(r \in A, l[r].size) <= l[r].size
  BY <1>4, PartNat
<1>6. Cardinality(Requests) = Overlap + 1 /\ Overlap \in Nat
  BY OverlapFacts
<1>7. \A x, y \in Nat : (x + 1) * y = x * y + y /\ x * y \in Nat
  OBVIOUS
<1>8. Cardinality(Requests) * Largest = Overlap * Largest + Largest /\ Overlap * Largest \in Nat
  BY <1>4, <1>6, <1>7
<1> QED  BY <1>2, <1>3, <1>4, <1>5, <1>8

-----------------------------------------------------------------------------
(* The bytes of an hour (HourInv).                                         *)

\* The hour that begins with minute m; the bytes of the others that pass a
\* check together, and of all requests.
Span(m) == {t \in Minutes : t >= m /\ t < m + Hour}
Slack == Overlap * Largest
Everyone == Cardinality(Requests) * Largest

\* The requests that passed the check of s and have not booked their bytes
\* there; the ones that s concerns; the ones of them that booked there.
Cleared(s, m) ==
  {r \in Requests : pc[r] \in {"bump", "book"} /\ Scope(r) = s /\ loc[r].at \in Span(m)}
Carried(s, m) ==
  {r \in Requests : Talking(r) /\ loc[r].at \in Span(m) /\ s \in ToSet(loc[r].scopes)}
Paid(s, m) ==
  {r \in Requests : /\ Talking(r) /\ loc[r].at \in Span(m) /\ s \in ToSet(loc[r].scopes)
                    /\ s \notin ToSet(loc[r].todo)}

\* The bytes of an hour, with those that have passed the check, are within the
\* limit and the overlap.  What was let in has been booked there; or, when
\* the hour is over and some of it may be deleted or have run out, it is within
\* that bound and what all those that are still under way may add.
BytesClear(s, m) ==
  Booked(count[s], Span(m)) + Weight(loc, Cleared(s, m)) <= Bph[s] + Slack
HourFirst(s, m) ==
  Booked(admitted[s], Span(m)) + Weight(loc, Paid(s, m)) <= Booked(count[s], Span(m))
HourSecond(s, m) ==
  Booked(admitted[s], Span(m)) + Weight(loc, Carried(s, m)) <= Bph[s] + (Slack + Everyone)
HourKept(s, m) ==
  /\ now < m + Hour => HourFirst(s, m)
  /\ now >= m + Hour => HourSecond(s, m)

LEMMA RowFacts ==
  ASSUME Inv, NEW s \in Scopes
  PROVE  count[s] \in Row /\ admitted[s] \in Row
BY DEF Inv, TypeOK, Tally, Row

LEMMA RowNext ==
  ASSUME Inv', NEW s \in Scopes
  PROVE  count'[s] \in Row /\ admitted'[s] \in Row
BY DEF Inv, TypeOK, Tally, Row

LEMMA LocFacts ==
  /\ Inv => loc \in [Requests -> Locals]
  /\ Inv' => loc' \in [Requests -> Locals]
BY DEF Inv, TypeOK

LEMMA HourNats ==
  ASSUME Inv, Inv', NEW s \in Scopes, NEW m \in Minutes
  PROVE  /\ Span(m) \subseteq Minutes /\ Slack \in Nat /\ Everyone \in Nat /\ Bph[s] \in Nat
         /\ Booked(count[s], Span(m)) \in Nat /\ Booked(admitted[s], Span(m)) \in Nat
         /\ Booked(count'[s], Span(m)) \in Nat /\ Booked(admitted'[s], Span(m)) \in Nat
<1>1. Span(m) \subseteq Minutes
  BY DEF Span
<1>2. /\ count[s] \in Row /\ admitted[s] \in Row /\ count'[s] \in Row /\ admitted'[s] \in Row
  BY RowFacts, RowNext
<1>3. Slack \in Nat /\ Everyone \in Nat /\ Bph[s] \in Nat
  <2>1. Bph[s] \in Nat /\ Largest \in Nat /\ Overlap \in Nat /\ Cardinality(Requests) \in Nat
    BY LargestFacts, OverlapFacts, LimitsAssumption
  <2>2. \A x, y \in Nat : x * y \in Nat
    OBVIOUS
  <2> QED  BY <2>1, <2>2 DEF Slack, Everyone
<1> QED  BY <1>1, <1>2, <1>3, BookedNat

LEMMA HourSubsets ==
  ASSUME NEW s, NEW m
  PROVE  /\ Cleared(s, m) \subseteq Requests /\ Carried(s, m) \subseteq Requests
         /\ Paid(s, m) \subseteq Requests
BY DEF Cleared, Carried, Paid

LEMMA HourOthers ==
  ASSUME NEW r \in Requests, Others(r), NEW s, NEW m
  PROVE  /\ \A q \in Requests \ {r} : q \in Cleared(s, m) <=> q \in Cleared(s, m)'
         /\ \A q \in Requests \ {r} : q \in Carried(s, m) <=> q \in Carried(s, m)'
         /\ \A q \in Requests \ {r} : q \in Paid(s, m) <=> q \in Paid(s, m)'
         /\ Cleared(s, m) \subseteq Requests /\ Cleared(s, m)' \subseteq Requests
         /\ Carried(s, m) \subseteq Requests /\ Carried(s, m)' \subseteq Requests
         /\ Paid(s, m) \subseteq Requests /\ Paid(s, m)' \subseteq Requests
BY DEF Others, Cleared, Carried, Paid, Talking, Scope, Span

LEMMA HourSelf ==
  ASSUME NEW r \in Requests, NEW s, NEW m
  PROVE  /\ r \in Cleared(s, m) <=>
              pc[r] \in {"bump", "book"} /\ Scope(r) = s /\ loc[r].at \in Span(m)
         /\ r \in Cleared(s, m)' <=>
              pc'[r] \in {"bump", "book"} /\ Scope(r)' = s /\ loc'[r].at \in Span(m)
         /\ r \in Carried(s, m) <=>
              Talking(r) /\ loc[r].at \in Span(m) /\ s \in ToSet(loc[r].scopes)
         /\ r \in Carried(s, m)' <=>
              Talking(r)' /\ loc'[r].at \in Span(m) /\ s \in ToSet(loc'[r].scopes)
         /\ r \in Paid(s, m) <=>
              /\ Talking(r) /\ loc[r].at \in Span(m) /\ s \in ToSet(loc[r].scopes)
              /\ s \notin ToSet(loc[r].todo)
         /\ r \in Paid(s, m)' <=>
              /\ Talking(r)' /\ loc'[r].at \in Span(m) /\ s \in ToSet(loc'[r].scopes)
              /\ s \notin ToSet(loc'[r].todo)
BY DEF Cleared, Carried, Paid, Span

\* A step of r keeps a sum of bytes and weights within its bound, if what r
\* adds to the sum it takes from the weight.
LEMMA WeightKept ==
  ASSUME Inv, Inv', NEW r \in Requests, Others(r),
         NEW A, NEW B, A \subseteq Requests, B \subseteq Requests,
         \A q \in Requests \ {r} : q \in A <=> q \in B,
         NEW x \in Nat, NEW y \in Nat, NEW u \in Nat, NEW v \in Nat,
         x + Weight(loc, A) <= u,
         y + Part(r \in B, loc'[r].size) + u <= x + Part(r \in A, loc[r].size) + v
  PROVE  y + Weight(loc', B) <= v
<1>1. loc \in [Requests -> Locals] /\ loc' \in [Requests -> Locals]
  BY LocFacts
<1>2. \A q \in Requests \ {r} : loc'[q] = loc[q]
  BY DEF Others
<1>3. /\ Weight(loc, A) \in Nat /\ Weight(loc', B) \in Nat
      /\ Weight(loc', B) + Part(r \in A, loc[r].size) = Weight(loc, A) + Part(r \in B, loc'[r].size)
  <2> DEFINE l == loc
             k == loc'
  <2>1. l \in [Requests -> Locals] /\ k \in [Requests -> Locals]
        /\ \A q \in Requests \ {r} : k[q] = l[q]
    BY <1>1, <1>2
  <2> HIDE DEF l, k
  <2>2. /\ Weight(l, A) \in Nat /\ Weight(k, B) \in Nat
        /\ Weight(k, B) + Part(r \in A, l[r].size) = Weight(l, A) + Part(r \in B, k[r].size)
    BY <2>1, WeightMoves
  <2> QED  BY <2>2 DEF l, k
<1>4. Part(r \in A, loc[r].size) \in Nat /\ Part(r \in B, loc'[r].size) \in Nat
  <2>1. loc[r].size \in Nat /\ loc'[r].size \in Nat
    BY <1>1, LargestFacts DEF Locals
  <2> QED  BY <2>1, PartNat
<1> DEFINE wa == Weight(loc, A)
           wb == Weight(loc', B)
           pa == Part(r \in A, loc[r].size)
           pb == Part(r \in B, loc'[r].size)
<1>5. /\ wa \in Nat /\ wb \in Nat /\ pa \in Nat /\ pb \in Nat
      /\ wb + pa = wa + pb /\ x + wa <= u /\ y + pb + u <= x + pa + v
  BY <1>3, <1>4
<1> HIDE DEF wa, wb, pa, pb
<1>6. y + wb <= v
  BY <1>5
<1> QED  BY <1>6 DEF wb

LEMMA ClearMoves ==
  ASSUME Inv, Inv', NEW r \in Requests, Others(r), NEW s \in Scopes, NEW m \in Minutes,
         BytesClear(s, m),
         Booked(count'[s], Span(m)) + Part(r \in Cleared(s, m)', loc'[r].size) <=
           Booked(count[s], Span(m)) + Part(r \in Cleared(s, m), loc[r].size)
  PROVE  BytesClear(s, m)'
<1> DEFINE C == Booked(count[s], Span(m))
           D == Booked(count'[s], Span(m))
           K == Bph[s] + Slack
           X == Cleared(s, m)
           Y == Cleared(s, m)'
           p == Part(r \in Y, loc'[r].size)
           q == Part(r \in X, loc[r].size)
<1>1. C \in Nat /\ D \in Nat /\ K \in Nat
  BY HourNats
<1>2. X \subseteq Requests /\ Y \subseteq Requests /\ \A z \in Requests \ {r} : z \in X <=> z \in Y
  BY HourOthers
<1>3. C + Weight(loc, X) <= K /\ D + p <= C + q
  BY DEF BytesClear
<1>4. p \in Nat /\ q \in Nat
  BY LocFacts, WeightFacts, PartNat, HourOthers
<1>5. D + p + K <= C + q + K
  <2> HIDE DEF C, D, K, p, q
  <2> QED  BY <1>1, <1>3, <1>4
<1> HIDE DEF C, D, K, X, Y
<1>6. D + Weight(loc', Y) <= K
  BY <1>1, <1>2, <1>3, <1>5, WeightKept
<1> QED  BY <1>6, Zenon DEF BytesClear, D, Y, K, Slack, Overlap, Largest

LEMMA FirstMoves ==
  ASSUME Inv, Inv', NEW r \in Requests, Others(r), NEW s \in Scopes, NEW m \in Minutes,
         HourFirst(s, m),
         Booked(admitted'[s], Span(m)) + Part(r \in Paid(s, m)', loc'[r].size)
             + Booked(count[s], Span(m)) <=
           Booked(admitted[s], Span(m)) + Part(r \in Paid(s, m), loc[r].size)
             + Booked(count'[s], Span(m))
  PROVE  HourFirst(s, m)'
<1> DEFINE C == Booked(count[s], Span(m))
           D == Booked(count'[s], Span(m))
           A == Booked(admitted[s], Span(m))
           E == Booked(admitted'[s], Span(m))
           X == Paid(s, m)
           Y == Paid(s, m)'
<1>1. C \in Nat /\ D \in Nat /\ A \in Nat /\ E \in Nat
  BY HourNats
<1>2. X \subseteq Requests /\ Y \subseteq Requests /\ \A z \in Requests \ {r} : z \in X <=> z \in Y
  BY HourOthers
<1>3. A + Weight(loc, X) <= C
  BY DEF HourFirst
<1>4. E + Part(r \in Y, loc'[r].size) + C <= A + Part(r \in X, loc[r].size) + D
  OBVIOUS
<1> HIDE DEF C, D, A, E, X, Y
<1>5. E + Weight(loc', Y) <= D
  BY <1>1, <1>2, <1>3, <1>4, WeightKept
<1> QED  BY <1>5, Zenon DEF HourFirst, D, Y, E

LEMMA SecondMoves ==
  ASSUME Inv, Inv', NEW r \in Requests, Others(r), NEW s \in Scopes, NEW m \in Minutes,
         HourSecond(s, m),
         Booked(admitted'[s], Span(m)) + Part(r \in Carried(s, m)', loc'[r].size) <=
           Booked(admitted[s], Span(m)) + Part(r \in Carried(s, m), loc[r].size)
  PROVE  HourSecond(s, m)'
<1> DEFINE A == Booked(admitted[s], Span(m))
           E == Booked(admitted'[s], Span(m))
           L == Bph[s] + (Slack + Everyone)
           X == Carried(s, m)
           Y == Carried(s, m)'
           p == Part(r \in Y, loc'[r].size)
           q == Part(r \in X, loc[r].size)
<1>1. A \in Nat /\ E \in Nat /\ L \in Nat
  BY HourNats
<1>2. X \subseteq Requests /\ Y \subseteq Requests /\ \A z \in Requests \ {r} : z \in X <=> z \in Y
  BY HourOthers
<1>3. A + Weight(loc, X) <= L /\ E + p <= A + q
  BY DEF HourSecond
<1>4. p \in Nat /\ q \in Nat
  BY LocFacts, WeightFacts, PartNat, HourOthers
<1>5. E + p + L <= A + q + L
  <2> HIDE DEF A, E, L, p, q
  <2> QED  BY <1>1, <1>3, <1>4
<1> HIDE DEF A, E, L, X, Y
<1>6. E + Weight(loc', Y) <= L
  BY <1>1, <1>2, <1>3, <1>5, WeightKept
<1> QED  BY <1>6, Zenon DEF HourSecond, E, Y, L, Slack, Everyone, Overlap, Largest

LEMMA HourMoves ==
  ASSUME Inv, Inv', NEW r \in Requests, Others(r), now' = now, NEW s \in Scopes, NEW m \in Minutes,
         BytesClear(s, m), HourKept(s, m),
         Booked(count'[s], Span(m)) + Part(r \in Cleared(s, m)', loc'[r].size) <=
           Booked(count[s], Span(m)) + Part(r \in Cleared(s, m), loc[r].size),
         Booked(admitted'[s], Span(m)) + Part(r \in Paid(s, m)', loc'[r].size)
             + Booked(count[s], Span(m)) <=
           Booked(admitted[s], Span(m)) + Part(r \in Paid(s, m), loc[r].size)
             + Booked(count'[s], Span(m)),
         now >= m + Hour =>
           Booked(admitted'[s], Span(m)) + Part(r \in Carried(s, m)', loc'[r].size) <=
             Booked(admitted[s], Span(m)) + Part(r \in Carried(s, m), loc[r].size)
  PROVE  BytesClear(s, m)' /\ HourKept(s, m)'
<1>1. BytesClear(s, m)'
  BY ClearMoves
<1>2. HourFirst(s, m) => HourFirst(s, m)'
  BY FirstMoves
<1>3. HourSecond(s, m) /\ now >= m + Hour => HourSecond(s, m)'
  BY SecondMoves
<1> QED  BY <1>1, <1>2, <1>3 DEF HourKept

\* The inductive invariant of the bound on bytes.
SpanInv == \A s \in Scopes, m \in Minutes : Bph[s] > 0 => BytesClear(s, m) /\ HourKept(s, m)
HourInv == Calm => SpanInv

LEMMA AdmittedBytes ==
  ASSUME Inv, Inv', NEW r \in Requests, Admit(r), NEW s \in Scopes, NEW m \in Minutes
  PROVE  Booked(admitted'[s], Span(m)) =
           Booked(admitted[s], Span(m))
             + Part(loc[r].at \in Span(m) /\ s \in ToSet(loc[r].scopes), loc[r].size)
<1>1. /\ admitted[s] \in Row /\ admitted'[s] \in Row /\ Span(m) \subseteq Minutes
      /\ Booked(admitted[s], Span(m)) \in Nat
  BY RowFacts, RowNext, HourNats
<1>2. TypeOK /\ loc[r].at \in Minutes /\ loc[r].size \in Nat
  BY InvFacts, LocalsTyped
<1>3. CASE s \in ToSet(loc[r].scopes)
  <2>1. /\ admitted'[s][loc[r].at].bytes = admitted[s][loc[r].at].bytes + loc[r].size
        /\ \A t \in Minutes \ {loc[r].at} : admitted'[s][t].bytes = admitted[s][t].bytes
    BY <1>2, <1>3, ChargeFacts
  <2>2. Booked(admitted'[s], Span(m)) =
          Booked(admitted[s], Span(m)) + Part(loc[r].at \in Span(m), loc[r].size)
    BY <1>1, <1>2, <2>1, BookedGrows
  <2>3. Part(loc[r].at \in Span(m), loc[r].size) =
          Part(loc[r].at \in Span(m) /\ s \in ToSet(loc[r].scopes), loc[r].size)
    BY <1>3 DEF Part
  <2> QED  BY <2>2, <2>3, Zenon
<1>4. CASE s \notin ToSet(loc[r].scopes)
  <2>1. admitted'[s] = admitted[s]
    BY <1>2, <1>4, ChargeFacts
  <2>2. Part(loc[r].at \in Span(m) /\ s \in ToSet(loc[r].scopes), loc[r].size) = 0
    BY <1>4 DEF Part
  <2>3. Booked(admitted[s], Span(m)) = Booked(admitted[s], Span(m)) + 0
    BY <1>1
  <2> QED  BY <2>1, <2>2, <2>3, Zenon
<1> QED  BY <1>3, <1>4

LEMMA BookedBytes ==
  ASSUME Inv, Inv', NEW r \in Requests, Talking(r), count' = BookedBy(r),
         NEW s \in Scopes, NEW m \in Minutes
  PROVE  Booked(count'[s], Span(m)) =
           Booked(count[s], Span(m)) + Part(loc[r].at \in Span(m) /\ s = Scope(r), loc[r].size)
<1>1. /\ count[s] \in Row /\ count'[s] \in Row /\ Span(m) \subseteq Minutes
      /\ Booked(count[s], Span(m)) \in Nat
  BY RowFacts, RowNext, HourNats
<1>2. TypeOK /\ loc[r].at \in Minutes /\ loc[r].size \in Nat /\ Scope(r) \in Scopes
  BY InvFacts, LocalsTyped, TalkFacts
<1>3. CASE s = Scope(r)
  <2>1. /\ count'[s][loc[r].at].bytes = count[s][loc[r].at].bytes + loc[r].size
        /\ \A t \in Minutes \ {loc[r].at} : count'[s][t].bytes = count[s][t].bytes
    BY <1>2, <1>3, BookFacts
  <2>2. Booked(count'[s], Span(m)) =
          Booked(count[s], Span(m)) + Part(loc[r].at \in Span(m), loc[r].size)
    BY <1>1, <1>2, <2>1, BookedGrows
  <2>3. Part(loc[r].at \in Span(m), loc[r].size) =
          Part(loc[r].at \in Span(m) /\ s = Scope(r), loc[r].size)
    BY <1>3 DEF Part
  <2> QED  BY <2>2, <2>3, Zenon
<1>4. CASE s # Scope(r)
  <2>1. count'[s] = count[s]
    BY <1>2, <1>4, BookFacts
  <2>2. Part(loc[r].at \in Span(m) /\ s = Scope(r), loc[r].size) = 0
    BY <1>4 DEF Part
  <2>3. Booked(count[s], Span(m)) = Booked(count[s], Span(m)) + 0
    BY <1>1
  <2> QED  BY <2>1, <2>2, <2>3, Zenon
<1> QED  BY <1>3, <1>4

LEMMA BumpedBytes ==
  ASSUME Inv, Inv', NEW r \in Requests, Talking(r), count' = Bumped(r),
         NEW s \in Scopes, NEW m \in Minutes
  PROVE  Booked(count'[s], Span(m)) = Booked(count[s], Span(m))
<1>1. count[s] \in Row /\ count'[s] \in Row /\ Span(m) \subseteq Minutes
  BY RowFacts, RowNext, HourNats
<1>2. \A t \in Minutes : count'[s][t].bytes = count[s][t].bytes
  BY BumpedAt
<1>3. \A t \in Span(m) : count'[s][t].bytes = count[s][t].bytes
  BY <1>1, <1>2
<1> QED  BY <1>1, <1>3, BookedSame

\* What is deleted is older than the hour of the upload at hand.
LEMMA TrimmedBytes ==
  ASSUME Inv, Inv', NEW r \in Requests, Talking(r), count' \in {count, Trimmed(r)},
         NEW s \in Scopes, NEW m \in Minutes
  PROVE  /\ Booked(count'[s], Span(m)) <= Booked(count[s], Span(m))
         /\ s # Scope(r) \/ loc[r].at < m + Hour =>
              Booked(count'[s], Span(m)) = Booked(count[s], Span(m))
         /\ loc[r].at \in Span(m) =>
              Booked(count'[s], Span(m)) <= Booked(count[s], {t \in Minutes : t >= Oldest(r)})
<1>1. count[s] \in Row /\ count'[s] \in Row /\ Span(m) \subseteq Minutes
  BY RowFacts, RowNext, HourNats
<1>2. TypeOK /\ loc[r].at \in Nat /\ Scope(r) \in Scopes /\ m \in Nat /\ Hour \in Nat
  BY InvFacts, LocalsTyped, TalkFacts, LimitsAssumption DEF Minutes
<1>3. ASSUME NEW t \in Minutes
      PROVE  /\ count'[s][t].bytes <= count[s][t].bytes
             /\ s # Scope(r) \/ t >= Oldest(r) => count'[s][t].bytes = count[s][t].bytes
  <2>1. count[s][t] \in [n : Nat, bytes : Nat]
    BY <1>2, CountTyped
  <2>2. CASE count' = count
    BY <2>1, <2>2
  <2>3. CASE count' = Trimmed(r) /\ s # Scope(r)
    <3>1. count'[s] = count[s]
      BY <1>2, <2>3, TrimFacts
    <3> QED  BY <2>1, <3>1
  <2>4. CASE count' = Trimmed(r) /\ s = Scope(r)
    <3>1. count'[s][t] = IF t < Oldest(r) THEN [count[s][t] EXCEPT !.bytes = 0] ELSE count[s][t]
      BY <1>2, <2>4, TrimFacts
    <3>2. Oldest(r) \in Int /\ t \in Nat
      BY <1>2 DEF Oldest, Minutes
    <3>3. CASE t < Oldest(r)
      BY <2>1, <2>4, <3>1, <3>2, <3>3
    <3>4. CASE ~(t < Oldest(r))
      BY <2>1, <2>4, <3>1, <3>2, <3>4
    <3> QED  BY <3>3, <3>4
  <2> QED  BY <2>2, <2>3, <2>4
<1>4. Booked(count'[s], Span(m)) <= Booked(count[s], Span(m))
  <2>1. \A t \in Span(m) : count'[s][t].bytes <= count[s][t].bytes
    BY <1>1, <1>3
  <2> QED  BY <1>1, <2>1, BookedMono
<1>5. ASSUME s # Scope(r) \/ loc[r].at < m + Hour
      PROVE  Booked(count'[s], Span(m)) = Booked(count[s], Span(m))
  <2>1. ASSUME NEW t \in Span(m) PROVE count'[s][t].bytes = count[s][t].bytes
    <3>1. t \in Minutes /\ t \in Nat /\ t >= m
      BY DEF Span, Minutes
    <3>2. loc[r].at < m + Hour => t >= Oldest(r)
      BY <1>2, <3>1 DEF Oldest
    <3> QED  BY <1>3, <1>5, <3>1, <3>2
  <2> QED  BY <1>1, <2>1, BookedSame
<1>6. ASSUME loc[r].at \in Span(m)
      PROVE  Booked(count'[s], Span(m)) <= Booked(count[s], {t \in Minutes : t >= Oldest(r)})
  <2> DEFINE N == {t \in Minutes : t >= Oldest(r)}
  <2>1. Span(m) \subseteq N
    BY <1>2, <1>6 DEF Span, Oldest, Minutes
  <2>2. N \subseteq Minutes
    OBVIOUS
  <2>3. \A t \in Span(m) : count'[s][t].bytes <= count[s][t].bytes
    BY <1>1, <1>3
  <2> HIDE DEF N
  <2>4. Booked(count'[s], Span(m)) <= Booked(count[s], N)
    BY <1>1, <2>1, <2>2, <2>3, BookedMono
  <2> QED  BY <2>4 DEF N
<1> QED  BY <1>4, <1>5, <1>6

\* A step that books nothing and brings r no nearer to the books.
LEMMA HourStays ==
  ASSUME Inv, Inv', NEW r \in Requests, Others(r), now' = now, NEW s \in Scopes, NEW m \in Minutes,
         BytesClear(s, m), HourKept(s, m),
         Booked(count'[s], Span(m)) = Booked(count[s], Span(m)), admitted' = admitted,
         r \in Cleared(s, m)' => r \in Cleared(s, m) /\ loc'[r].size = loc[r].size,
         r \in Paid(s, m)' => r \in Paid(s, m) /\ loc'[r].size = loc[r].size,
         now >= m + Hour =>
           (r \in Carried(s, m)' => r \in Carried(s, m) /\ loc'[r].size = loc[r].size)
  PROVE  BytesClear(s, m)' /\ HourKept(s, m)'
<1>1. loc[r].size \in Nat /\ loc'[r].size \in Nat
  BY LocFacts, LargestFacts DEF Locals
<1>2. ASSUME NEW P, NEW Q, Q => P /\ loc'[r].size = loc[r].size
      PROVE  /\ Part(Q, loc'[r].size) <= Part(P, loc[r].size)
             /\ Part(Q, loc'[r].size) \in Nat /\ Part(P, loc[r].size) \in Nat
  BY <1>1, <1>2 DEF Part
<1> DEFINE C == Booked(count[s], Span(m))
           A == Booked(admitted[s], Span(m))
           p == Part(r \in Cleared(s, m), loc[r].size)
           q == Part(r \in Cleared(s, m)', loc'[r].size)
           u == Part(r \in Paid(s, m), loc[r].size)
           v == Part(r \in Paid(s, m)', loc'[r].size)
           x == Part(r \in Carried(s, m), loc[r].size)
           y == Part(r \in Carried(s, m)', loc'[r].size)
<1>3. C \in Nat /\ A \in Nat
  BY HourNats
<1>4. q <= p /\ q \in Nat /\ p \in Nat
  BY <1>2
<1>5. v <= u /\ v \in Nat /\ u \in Nat
  BY <1>2
<1>6. now >= m + Hour => y <= x /\ x \in Nat /\ y \in Nat
  BY <1>2
<1> HIDE DEF C, A, p, q, u, v, x, y
<1>7. C + q <= C + p /\ A + v + C <= A + u + C /\ (now >= m + Hour => A + y <= A + x)
  BY <1>3, <1>4, <1>5, <1>6
<1> USE DEF C, A, p, q, u, v, x, y
<1>8. Booked(count'[s], Span(m)) + q <= C + p
  BY <1>7, Zenon
<1>9. Booked(admitted'[s], Span(m)) + v + C <= A + u + Booked(count'[s], Span(m))
  BY <1>7, Zenon
<1>10. now >= m + Hour => Booked(admitted'[s], Span(m)) + y <= A + x
  BY <1>7, Zenon
<1> QED  BY <1>8, <1>9, <1>10, HourMoves

\* Without a fault before or after the step, the command was answered.
LEMMA CalmStep ==
  ASSUME Inv, Calm, Calm'
  PROVE  ~Faulted
BY InvFacts DEF Calm, Faulted

LEMMA HourArrive ==
  ASSUME Inv, SpanInv, NEW r \in Requests, Arrive(r)
  PROVE  SpanInv'
<1>1. /\ Inv' /\ pc[r] = "idle" /\ Others(r) /\ Fresh(r)
      /\ now' = now /\ count' = count /\ admitted' = admitted
  BY ArriveStep
<1>2. ASSUME NEW s \in Scopes, NEW m \in Minutes, Bph[s] > 0
      PROVE  BytesClear(s, m)' /\ HourKept(s, m)'
  <2>1. BytesClear(s, m) /\ HourKept(s, m)
    BY <1>2 DEF SpanInv
  <2>2. r \notin Cleared(s, m)'
    BY <1>1, <1>2, HourSelf DEF Fresh, Scope
  <2>3. r \notin Paid(s, m)'
    BY <1>1, HourSelf DEF Fresh, Talking
  <2>4. now >= m + Hour => r \notin Carried(s, m)'
    <3>1. now \in Nat /\ m \in Nat /\ Hour \in Nat
      BY InvFacts, LimitsAssumption DEF Minutes
    <3>2. r \in Carried(s, m)' => now < m + Hour
      BY <1>1, HourSelf DEF Fresh, Talking, Span
    <3> QED  BY <3>1, <3>2
  <2>5. Booked(count'[s], Span(m)) = Booked(count[s], Span(m))
    BY <1>1
  <2> QED  BY <1>1, <2>1, <2>2, <2>3, <2>4, <2>5, HourStays
<1> QED  BY <1>2 DEF SpanInv

LEMMA HourAsk ==
  ASSUME Inv, Calm, Calm', SpanInv, NEW r \in Requests, Ask(r)
  PROVE  SpanInv'
<1>1. /\ Inv' /\ pc[r] = "ask" /\ Others(r)
      /\ now' = now /\ count' = count /\ admitted' = admitted
      /\ \/ pc'[r] = "idle"
         \/ Kept(r, "sum")
         \/ Kept(r, "bump") /\ ~(Bph[Scope(r)] > 0)
  BY AskStep, CalmStep
<1>2. ASSUME NEW s \in Scopes, NEW m \in Minutes, Bph[s] > 0
      PROVE  BytesClear(s, m)' /\ HourKept(s, m)'
  <2>1. BytesClear(s, m) /\ HourKept(s, m)
    BY <1>2 DEF SpanInv
  <2>2. r \notin Cleared(s, m)'
    BY <1>1, <1>2, HourSelf DEF Kept, Scope
  <2>3. r \in Paid(s, m)' => r \in Paid(s, m) /\ loc'[r].size = loc[r].size
    BY <1>1, HourSelf DEF Kept, Talking
  <2>4. r \in Carried(s, m)' => r \in Carried(s, m) /\ loc'[r].size = loc[r].size
    BY <1>1, HourSelf DEF Kept, Talking
  <2>5. Booked(count'[s], Span(m)) = Booked(count[s], Span(m))
    BY <1>1
  <2> QED  BY <1>1, <2>1, <2>2, <2>3, <2>4, <2>5, HourStays
<1> QED  BY <1>2 DEF SpanInv

LEMMA HourBump ==
  ASSUME Inv, Calm, Calm', SpanInv, NEW r \in Requests, Bump(r)
  PROVE  SpanInv'
<1>1. /\ Inv' /\ pc[r] = "bump" /\ Talking(r) /\ Others(r) /\ Kept(r, "book")
      /\ now' = now /\ count' = Bumped(r) /\ admitted' = admitted
  BY BumpStep, CalmStep
<1>2. ASSUME NEW s \in Scopes, NEW m \in Minutes, Bph[s] > 0
      PROVE  BytesClear(s, m)' /\ HourKept(s, m)'
  <2>1. BytesClear(s, m) /\ HourKept(s, m)
    BY <1>2 DEF SpanInv
  <2>2. r \in Cleared(s, m)' => r \in Cleared(s, m) /\ loc'[r].size = loc[r].size
    BY <1>1, HourSelf DEF Kept, Scope
  <2>3. r \in Paid(s, m)' => r \in Paid(s, m) /\ loc'[r].size = loc[r].size
    BY <1>1, HourSelf DEF Kept, Talking
  <2>4. r \in Carried(s, m)' => r \in Carried(s, m) /\ loc'[r].size = loc[r].size
    BY <1>1, HourSelf DEF Kept, Talking
  <2>5. Booked(count'[s], Span(m)) = Booked(count[s], Span(m))
    BY <1>1, BumpedBytes
  <2> QED  BY <1>1, <2>1, <2>2, <2>3, <2>4, <2>5, HourStays
<1> QED  BY <1>2 DEF SpanInv

LEMMA HourBook ==
  ASSUME Inv, Calm, Calm', SpanInv, NEW r \in Requests, Book(r)
  PROVE  SpanInv'
<1>1. /\ Inv' /\ pc[r] = "book" /\ Talking(r) /\ Others(r)
      /\ now' = now /\ count' = BookedBy(r)
      /\ \/ pc'[r] = "idle" /\ Tail(loc[r].todo) = <<>> /\ Admit(r)
         \/ Advanced(r) /\ admitted' = admitted
  BY BookStep, CalmStep
<1>2. ASSUME NEW s \in Scopes, NEW m \in Minutes, Bph[s] > 0
      PROVE  BytesClear(s, m)' /\ HourKept(s, m)'
  <2> DEFINE C == Booked(count[s], Span(m))
             D == Booked(count'[s], Span(m))
             A == Booked(admitted[s], Span(m))
             E == Booked(admitted'[s], Span(m))
             w == loc[r].size
             in == loc[r].at \in Span(m)
             p == Part(r \in Cleared(s, m), loc[r].size)
             q == Part(r \in Cleared(s, m)', loc'[r].size)
             u == Part(r \in Paid(s, m), loc[r].size)
             v == Part(r \in Paid(s, m)', loc'[r].size)
             x == Part(r \in Carried(s, m), loc[r].size)
             y == Part(r \in Carried(s, m)', loc'[r].size)
  <2>1. BytesClear(s, m) /\ HourKept(s, m)
    BY <1>2 DEF SpanInv
  <2>2. /\ C \in Nat /\ D \in Nat /\ A \in Nat /\ E \in Nat /\ w \in Nat
        /\ D = C + Part(in /\ s = Scope(r), w)
    BY <1>1, HourNats, InvFacts, LocalsTyped, BookedBytes
  <2>3. /\ p = Part(in /\ s = Scope(r), w)
        /\ x = Part(in /\ s \in ToSet(loc[r].scopes), w)
        /\ u = Part(in /\ s \in ToSet(loc[r].scopes) /\ s \notin ToSet(loc[r].todo), w)
    <3>1. r \in Cleared(s, m) <=> in /\ s = Scope(r)
      BY <1>1, HourSelf
    <3>2. r \in Carried(s, m) <=> in /\ s \in ToSet(loc[r].scopes)
      BY <1>1, HourSelf
    <3>3. r \in Paid(s, m) <=> in /\ s \in ToSet(loc[r].scopes) /\ s \notin ToSet(loc[r].todo)
      BY <1>1, HourSelf
    <3> QED  BY <3>1, <3>2, <3>3 DEF Part
  <2>4. Scope(r) \in ToSet(loc[r].scopes) /\ Scope(r) \in ToSet(loc[r].todo)
    BY <1>1, TalkFacts
  <2>5. CASE pc'[r] = "idle" /\ Tail(loc[r].todo) = <<>> /\ Admit(r)
    <3>1. E = A + Part(in /\ s \in ToSet(loc[r].scopes), w)
      BY <1>1, <2>5, AdmittedBytes
    <3>2. ToSet(loc[r].todo) = {Scope(r)}
      BY <1>1, <2>5, TalkFacts
    <3>3. q = 0 /\ v = 0 /\ y = 0
      <4>1. r \notin Cleared(s, m)' /\ r \notin Paid(s, m)' /\ r \notin Carried(s, m)'
        BY <2>5, HourSelf DEF Talking
      <4> QED  BY <4>1 DEF Part
    <3>4. Part(in /\ s \in ToSet(loc[r].scopes), w) <= u + Part(in /\ s = Scope(r), w)
      BY <2>2, <2>3, <3>2 DEF Part
    <3>5. Part(in /\ s = Scope(r), w) \in Nat /\ Part(in /\ s \in ToSet(loc[r].scopes), w) \in Nat
          /\ u \in Nat
      BY <2>2, <2>3, PartNat
    <3> DEFINE g == Part(in /\ s = Scope(r), w)
               h == Part(in /\ s \in ToSet(loc[r].scopes), w)
    <3>6. D = C + g /\ p = g /\ E = A + h /\ x = h /\ h <= u + g /\ g \in Nat /\ h \in Nat
      BY <2>2, <2>3, <3>1, <3>4, <3>5
    <3> HIDE DEF C, D, A, E, p, q, u, v, x, y, g, h
    <3>7. D + q <= C + p /\ E + v + C <= A + u + D /\ E + y <= A + x
      BY <2>2, <3>3, <3>5, <3>6
    <3> USE DEF C, D, A, E, p, q, u, v, x, y
    <3> QED  BY <1>1, <2>1, <3>7, HourMoves
  <2>6. CASE Advanced(r) /\ admitted' = admitted
    <3>1. /\ loc'[r].todo = <<Global>> /\ loc'[r].at = loc[r].at /\ loc'[r].size = w
          /\ loc'[r].scopes = loc[r].scopes /\ Tail(loc[r].todo) # <<>>
          /\ pc'[r] \in {"ask", "sum", "bump"} /\ pc'[r] = Enter(Global)
      BY <2>6 DEF Advanced
    <3>2. /\ ToSet(Tail(loc[r].todo)) = ToSet(loc[r].todo) \ {Scope(r)}
          /\ Tail(loc[r].todo) = <<Global>>
      BY <1>1, <3>1, TalkFacts
    <3>3. ToSet(loc'[r].todo) = ToSet(loc[r].todo) \ {Scope(r)}
      BY <3>1, <3>2
    <3>4. r \notin Cleared(s, m)'
      <4>1. Scope(r)' = Global
        BY <3>1 DEF Scope
      <4>2. pc'[r] = "bump" => ~(Bph[Global] > 0)
        BY <3>1, GlobalIn, EnterTyped
      <4> QED  BY <1>2, <3>1, <4>1, <4>2, HourSelf
    <3>5. r \in Paid(s, m)' <=> in /\ s \in ToSet(loc[r].scopes)
                                   /\ (s \notin ToSet(loc[r].todo) \/ s = Scope(r))
      BY <3>1, <3>3, HourSelf DEF Talking
    <3>6. r \in Carried(s, m)' <=> in /\ s \in ToSet(loc[r].scopes)
      BY <3>1, HourSelf DEF Talking
    <3>7. q = 0
      BY <3>4 DEF Part
    <3>8. y = x
      BY <2>3, <3>1, <3>6 DEF Part
    <3>9. v <= u + p
      BY <2>2, <2>3, <2>4, <3>1, <3>5 DEF Part
    <3>10. E = A
      BY <2>6
    <3>11. p \in Nat /\ u \in Nat /\ x \in Nat /\ v \in Nat
      BY <2>2, <3>1, PartNat
    <3>12. D = C + p
      BY <2>2, <2>3
    <3> HIDE DEF C, D, A, E, p, q, u, v, x, y
    <3>13. D + q <= C + p /\ E + v + C <= A + u + D /\ E + y <= A + x
      BY <2>2, <3>7, <3>8, <3>9, <3>10, <3>11, <3>12
    <3> USE DEF C, D, A, E, p, q, u, v, x, y
    <3> QED  BY <1>1, <2>1, <3>13, HourMoves
  <2> QED  BY <1>1, <2>5, <2>6
<1> QED  BY <1>2 DEF SpanInv

LEMMA HourSum ==
  ASSUME Inv, Calm, Calm', SpanInv, NEW r \in Requests, Sum(r)
  PROVE  SpanInv'
<1>1. /\ Inv' /\ pc[r] = "sum" /\ Talking(r) /\ Others(r)
      /\ now' = now /\ count' \in {count, Trimmed(r)} /\ admitted' = admitted
      /\ \/ pc'[r] = "idle"
         \/ /\ Kept(r, "bump")
            /\ ~(Booked(count[Scope(r)], {t \in Minutes : t >= Oldest(r)}) + loc[r].size > Bph[Scope(r)])
  BY SumStep, CalmStep
<1>2. ASSUME NEW s \in Scopes, NEW m \in Minutes, Bph[s] > 0
      PROVE  BytesClear(s, m)' /\ HourKept(s, m)'
  <2> DEFINE C == Booked(count[s], Span(m))
             D == Booked(count'[s], Span(m))
             A == Booked(admitted[s], Span(m))
             E == Booked(admitted'[s], Span(m))
             H == Booked(count[s], {t \in Minutes : t >= Oldest(r)})
             w == loc[r].size
  <2>1. BytesClear(s, m) /\ HourKept(s, m)
    BY <1>2 DEF SpanInv
  <2>2. /\ C \in Nat /\ D \in Nat /\ A \in Nat /\ E = A /\ w \in Nat /\ Slack \in Nat /\ Bph[s] \in Nat
        /\ m \in Nat /\ Hour \in Nat /\ loc[r].at \in Nat /\ loc[r].at <= now /\ now \in Nat
    <3>1. C \in Nat /\ D \in Nat /\ A \in Nat /\ Slack \in Nat /\ Bph[s] \in Nat
      BY <1>1, HourNats
    <3>2. E = A
      BY <1>1
    <3>3. w \in Nat /\ loc[r].at \in Nat /\ m \in Nat /\ Hour \in Nat /\ now \in Nat
      BY InvFacts, LocalsTyped, LimitsAssumption DEF Minutes
    <3>4. loc[r].at <= now
      BY <1>1, TalkFacts
    <3> QED  BY <3>1, <3>2, <3>3, <3>4
  <2>3. /\ D <= C
        /\ s # Scope(r) \/ loc[r].at < m + Hour => D = C
        /\ loc[r].at \in Span(m) => D <= Booked(count[s], {t \in Minutes : t >= Oldest(r)})
    BY <1>1, TrimmedBytes
  <2>4. r \notin Cleared(s, m)
    BY <1>1, HourSelf
  <2>5. r \in Paid(s, m)' => r \in Paid(s, m) /\ loc'[r].size = loc[r].size
    BY <1>1, HourSelf DEF Kept, Talking
  <2>6. r \in Carried(s, m)' => r \in Carried(s, m) /\ loc'[r].size = loc[r].size
    BY <1>1, HourSelf DEF Kept, Talking
  <2>7. CASE (s # Scope(r) \/ loc[r].at < m + Hour) /\ r \notin Cleared(s, m)'
    <3>1. Booked(count'[s], Span(m)) = Booked(count[s], Span(m))
      BY <2>3, <2>7
    <3> QED  BY <1>1, <2>1, <2>5, <2>6, <2>7, <3>1, HourStays
  <2>8. CASE r \in Cleared(s, m)'
    <3>1. /\ pc'[r] = "bump" /\ s = Scope(r) /\ loc[r].at \in Span(m) /\ loc'[r] = loc[r]
          /\ ~(H + w > Bph[s])
      BY <1>1, <2>8, HourSelf DEF Kept, Scope
    <3>2. D = C
      BY <2>3, <3>1 DEF Span
    <3>3. HourKept(s, m)'
      <4> DEFINE u == Part(r \in Paid(s, m), loc[r].size)
                 v == Part(r \in Paid(s, m)', loc'[r].size)
                 x == Part(r \in Carried(s, m), loc[r].size)
                 y == Part(r \in Carried(s, m)', loc'[r].size)
      <4>1. v <= u /\ v \in Nat /\ u \in Nat
        BY <2>2, <2>5, <3>1 DEF Part
      <4>2. y <= x /\ y \in Nat /\ x \in Nat
        BY <2>2, <2>6, <3>1 DEF Part
      <4> HIDE DEF C, D, A, E, u, v, x, y
      <4>3. E + v + C <= A + u + D /\ E + y <= A + x
        BY <2>2, <3>2, <4>1, <4>2
      <4> USE DEF C, D, A, E, u, v, x, y
      <4>4. HourFirst(s, m) => HourFirst(s, m)'
        BY <1>1, <4>3, FirstMoves
      <4>5. HourSecond(s, m) => HourSecond(s, m)'
        BY <1>1, <4>3, SecondMoves
      <4> QED  BY <1>1, <2>1, <4>4, <4>5 DEF HourKept
    <3>4. D + w <= Bph[s]
      <4>1. H \in Nat
        <5>1. count[s] \in Row
          BY RowFacts
        <5> QED  BY <5>1, BookedNat
      <4>2. D <= H
        BY <2>3, <3>1
      <4> HIDE DEF D, H, w
      <4> QED  BY <2>2, <3>1, <3>2, <4>1, <4>2
    <3>5. BytesClear(s, m)'
      <4> DEFINE Y == Cleared(s, m)'
      <4>1. loc' \in [Requests -> Locals] /\ Y \subseteq Requests /\ Y \ {r} \subseteq Requests
        BY <1>1, LocFacts, HourOthers
      <4>2. /\ Weight(loc', Y) = Weight(loc', Y \ {r}) + Part(r \in Y, loc'[r].size)
            /\ Weight(loc', Y \ {r}) \in Nat
        <5> DEFINE k == loc'
        <5> HIDE DEF k, Y
        <5>1. k \in [Requests -> Locals]
          BY <4>1 DEF k
        <5>2. /\ Weight(k, Y) = Weight(k, Y \ {r}) + Part(r \in Y, k[r].size)
              /\ Weight(k, Y \ {r}) \in Nat
          BY <4>1, <5>1, WeightWithout
        <5> QED  BY <5>2 DEF k
      <4>3. Weight(loc', Y \ {r}) <= Slack
        <5> DEFINE k == loc'
                   Z == Y \ {r}
        <5>1. k \in [Requests -> Locals] /\ Z \subseteq Requests /\ r \notin Z
          BY <4>1
        <5> HIDE DEF k, Z
        <5>2. Weight(k, Z) <= Overlap * Largest
          BY <5>1, WeightBelow
        <5> QED  BY <5>2 DEF k, Z, Slack
      <4>4. Part(r \in Y, loc'[r].size) = w
        BY <2>8, <3>1 DEF Part
      <4> DEFINE a == Weight(loc', Y)
                 b == Weight(loc', Y \ {r})
      <4>5. a = b + w /\ b \in Nat /\ b <= Slack
        BY <4>2, <4>3, <4>4
      <4> HIDE DEF a, b, D, w
      <4>6. D + a <= Bph[s] + Slack
        BY <2>2, <3>2, <3>4, <4>5
      <4> QED  BY <4>6, Zenon DEF BytesClear, D, a, Slack, Overlap, Largest
    <3> QED  BY <3>3, <3>5
  <2>9. CASE s = Scope(r) /\ ~(loc[r].at < m + Hour)
    <3>1. loc[r].at \notin Span(m) /\ now >= m + Hour
      BY <2>2, <2>9 DEF Span
    <3>2. r \notin Cleared(s, m)' /\ r \notin Carried(s, m)' /\ r \notin Carried(s, m)
      BY <1>1, <3>1, HourSelf DEF Kept, Talking
    <3>3. BytesClear(s, m)'
      <4>1. Part(r \in Cleared(s, m)', loc'[r].size) = 0 /\ Part(r \in Cleared(s, m), loc[r].size) = 0
        BY <2>4, <3>2 DEF Part
      <4>2. D + 0 <= C + 0
        <5> HIDE DEF C, D
        <5> QED  BY <2>2, <2>3
      <4>3. Booked(count'[s], Span(m)) + Part(r \in Cleared(s, m)', loc'[r].size) <=
              Booked(count[s], Span(m)) + Part(r \in Cleared(s, m), loc[r].size)
        BY <4>1, <4>2, Zenon
      <4> QED  BY <1>1, <2>1, <4>3, ClearMoves
    <3>5. ASSUME HourSecond(s, m) PROVE HourSecond(s, m)'
      <4>1. Part(r \in Carried(s, m)', loc'[r].size) = 0 /\ Part(r \in Carried(s, m), loc[r].size) = 0
        BY <3>2 DEF Part
      <4>2. E + 0 <= A + 0
        <5> HIDE DEF A, E
        <5> QED  BY <2>2
      <4>3. Booked(admitted'[s], Span(m)) + Part(r \in Carried(s, m)', loc'[r].size) <=
             Booked(admitted[s], Span(m)) + Part(r \in Carried(s, m), loc[r].size)
        BY <4>1, <4>2, Zenon
      <4> QED  BY <1>1, <3>5, <4>3, SecondMoves
    <3>6. HourKept(s, m)'
      BY <1>1, <2>1, <2>2, <3>1, <3>5 DEF HourKept
    <3> QED  BY <3>3, <3>6
  <2> QED  BY <2>7, <2>8, <2>9
<1> QED  BY <1>2 DEF SpanInv

\* Nothing moves but that a counter may run out: the bytes of an hour that is
\* not over are kept, as BytesLife is more than an hour.
LEMMA HourQuiet ==
  ASSUME Inv, Inv', SpanInv, UNCHANGED <<now, pc, loc, admitted>>,
         \A s \in Scopes, t \in Minutes :
           /\ count'[s][t].bytes <= count[s][t].bytes
           /\ count'[s][t].bytes # count[s][t].bytes => now >= t + BytesLife
  PROVE  SpanInv'
<1> SUFFICES ASSUME NEW s \in Scopes, NEW m \in Minutes, Bph[s] > 0, BytesClear(s, m), HourKept(s, m)
             PROVE  BytesClear(s, m)' /\ HourKept(s, m)'
  BY DEF SpanInv
<1> DEFINE C == Booked(count[s], Span(m))
           D == Booked(count'[s], Span(m))
<1>1. Cleared(s, m)' = Cleared(s, m) /\ Carried(s, m)' = Carried(s, m) /\ Paid(s, m)' = Paid(s, m)
  BY DEF Span, Cleared, Carried, Paid, Talking, Scope
<1>2. Span(m) \subseteq Minutes /\ count[s] \in Row /\ count'[s] \in Row
  BY RowFacts, RowNext DEF Span
<1>3. D <= C
  BY <1>2, BookedMono
<1>4. now < m + Hour => D = C
  <2> SUFFICES ASSUME now < m + Hour, NEW t \in Span(m) PROVE count'[s][t].bytes = count[s][t].bytes
    BY <1>2, BookedSame
  <2>1. /\ t \in Minutes /\ t \in Nat /\ m \in Nat /\ now \in Nat /\ Hour \in Nat
        /\ BytesLife \in Nat /\ BytesLife >= Hour /\ t >= m
    BY InvFacts, LimitsAssumption DEF Span, Minutes
  <2>2. ~(now >= t + BytesLife)
    BY <2>1
  <2> QED  BY <2>1, <2>2
<1>5. BytesClear(s, m)'
  <2> DEFINE b == Weight(loc, Cleared(s, m))
             K == Bph[s] + Slack
  <2>1. C \in Nat /\ D \in Nat /\ K \in Nat
    BY HourNats
  <2>2. b \in Nat
    BY LocFacts, WeightFacts, HourSubsets
  <2>3. C + b <= K
    BY DEF BytesClear
  <2> HIDE DEF C, D, b, K
  <2>4. D + b <= K
    BY <1>3, <2>1, <2>2, <2>3
  <2> QED  BY <1>1, <2>4, Zenon DEF BytesClear, D, b, K, Slack, Overlap, Largest
<1>6. now < m + Hour => HourFirst(s, m)'
  <2>1. ASSUME now < m + Hour, Booked(admitted[s], Span(m)) + Weight(loc, Paid(s, m)) <= C
        PROVE  HourFirst(s, m)'
    <3>1. Booked(admitted[s], Span(m)) + Weight(loc, Paid(s, m)) <= D
      BY <1>4, <2>1, Zenon
    <3> QED  BY <1>1, <3>1, Zenon DEF HourFirst, D
  <2> QED  BY <2>1 DEF HourKept, HourFirst
<1>7. now >= m + Hour => HourSecond(s, m)'
  <2>1. HourSecond(s, m)' <=> HourSecond(s, m)
    BY <1>1, Zenon DEF HourSecond, Slack, Everyone, Overlap, Largest
  <2> QED  BY <2>1 DEF HourKept
<1> QED  BY <1>5, <1>6, <1>7 DEF HourKept

\* The hour is over: all that are under way may add to it from now on.
LEMMA HourMinute ==
  ASSUME Inv, Inv', SpanInv, NextMinute
  PROVE  SpanInv'
<1> SUFFICES ASSUME NEW s \in Scopes, NEW m \in Minutes, Bph[s] > 0, BytesClear(s, m), HourKept(s, m)
             PROVE  BytesClear(s, m)' /\ HourKept(s, m)'
  BY DEF SpanInv
<1>1. UNCHANGED <<count, pc, loc, admitted>> /\ now' = now + 1
  BY DEF NextMinute
<1>2. Cleared(s, m)' = Cleared(s, m) /\ Carried(s, m)' = Carried(s, m) /\ Paid(s, m)' = Paid(s, m)
  BY <1>1 DEF Span, Cleared, Carried, Paid, Talking, Scope
<1>3. /\ BytesClear(s, m)' <=> BytesClear(s, m)
      /\ HourFirst(s, m)' <=> HourFirst(s, m)
      /\ HourSecond(s, m)' <=> HourSecond(s, m)
  BY <1>1, <1>2, Zenon DEF BytesClear, HourFirst, HourSecond, Slack, Everyone, Overlap, Largest
<1>4. now \in Nat /\ m \in Nat /\ Hour \in Nat
  BY InvFacts, LimitsAssumption DEF Minutes
<1>5. HourFirst(s, m) => HourSecond(s, m)
  <2> SUFFICES ASSUME HourFirst(s, m) PROVE HourSecond(s, m)
    OBVIOUS
  <2> DEFINE A == Booked(admitted[s], Span(m))
             C == Booked(count[s], Span(m))
             a == Weight(loc, Paid(s, m))
             b == Weight(loc, Cleared(s, m))
             c == Weight(loc, Carried(s, m))
  <2>1. A \in Nat /\ C \in Nat /\ Bph[s] \in Nat /\ Slack \in Nat /\ Everyone \in Nat
    BY HourNats
  <2>2. a \in Nat /\ b \in Nat /\ c \in Nat
    BY LocFacts, WeightFacts, HourSubsets
  <2>3. A + a <= C /\ C + b <= Bph[s] + Slack
    BY DEF HourFirst, BytesClear
  <2>4. c <= Everyone
    BY LocFacts, WeightAll, HourSubsets DEF Everyone
  <2> HIDE DEF A, C, a, b, c
  <2>5. A + c <= Bph[s] + (Slack + Everyone)
    BY <2>1, <2>2, <2>3, <2>4
  <2> QED  BY <2>5 DEF HourSecond, A, c
<1>6. now' < m + Hour => HourFirst(s, m)'
  BY <1>1, <1>3, <1>4 DEF HourKept
<1>7. now' >= m + Hour => HourSecond(s, m)'
  BY <1>1, <1>3, <1>4, <1>5 DEF HourKept
<1> QED  BY <1>3, <1>6, <1>7 DEF HourKept

LEMMA HourInit == Init => HourInv
<1> SUFFICES ASSUME Init, NEW s \in Scopes, NEW m \in Minutes
             PROVE  BytesClear(s, m) /\ HourFirst(s, m)
  <2>1. ASSUME Init PROVE \A m \in Minutes : ~(now >= m + Hour)
    BY <2>1, LimitsAssumption DEF Init, Minutes
  <2> QED  BY <2>1 DEF HourInv, SpanInv, HourKept
<1>1. Inv
  BY InitInv
<1>2. /\ \A r \in Requests : pc[r] = "idle"
      /\ \A t \in Minutes : count[s][t].bytes = 0 /\ admitted[s][t].bytes = 0
      /\ count = admitted
  BY DEF Init, Nothing
<1>3. Cleared(s, m) = {} /\ Paid(s, m) = {}
  BY <1>2 DEF Cleared, Paid, Talking
<1>4. Weight(loc, {}) = 0
  BY SumEmpty DEF Weight
<1>5. Booked(count[s], Span(m)) = 0
  <2> DEFINE f == [t \in Span(m) |-> count[s][t].bytes]
  <2>1. Span(m) \subseteq Minutes /\ IsFiniteSet(Span(m))
    BY MinutesFinite DEF Span
  <2>2. \A t \in Span(m) : f[t] \in Nat /\ f[t] <= 0
    BY <1>2, <2>1
  <2> HIDE DEF f
  <2>3. /\ SumFunctionOnSet(f, Span(m)) \in Nat
        /\ SumFunctionOnSet(f, Span(m)) <= Cardinality(Span(m)) * 0
    BY <2>1, <2>2, SumNat, SumBelow
  <2>4. Cardinality(Span(m)) * 0 = 0
    BY <2>1, FS_CardinalityType
  <2>5. SumFunctionOnSet(f, Span(m)) = 0
    BY <2>3, <2>4
  <2> QED  BY <2>5, Zenon DEF Booked, f
<1>6. Bph[s] \in Nat /\ Slack \in Nat
  BY LargestFacts, LimitsAssumption DEF Slack
<1>7. Booked(count[s], Span(m)) + Weight(loc, Cleared(s, m)) = 0
  BY <1>3, <1>4, <1>5
<1>8. Booked(admitted[s], Span(m)) + Weight(loc, Paid(s, m)) = 0 /\ Booked(count[s], Span(m)) = 0
  BY <1>2, <1>3, <1>4, <1>5
<1>9. BytesClear(s, m)
  BY <1>6, <1>7 DEF BytesClear
<1>10. HourFirst(s, m)
  BY <1>8 DEF HourFirst
<1> QED  BY <1>9, <1>10

-----------------------------------------------------------------------------
(* The bound on bytes.                                                     *)

LEMMA HourStep == LimitInv /\ HourInv /\ [Next]_vars => HourInv'
<1> SUFFICES ASSUME LimitInv, HourInv, [Next]_vars, Calm' PROVE SpanInv'
  BY DEF HourInv
<1>1. Inv /\ CalmInv /\ WindowInv /\ OffInv
  BY DEF LimitInv
<1>2. Calm => SpanInv
  BY DEF HourInv
<1>3. ASSUME NEW r \in Requests, Arrive(r) PROVE SpanInv'
  BY <1>1, <1>2, <1>3, CalmArrive, HourArrive
<1>4. ASSUME NEW r \in Requests, Memory(r) PROVE FALSE
  BY <1>1, <1>4, CalmMemory
<1>5. ASSUME NEW r \in Requests, Ask(r) \/ Sum(r) \/ Bump(r) \/ Book(r) PROVE SpanInv'
  <2>1. Calm
    BY <1>1, <1>5, TalksAll, CalmTalks
  <2> QED  BY <1>1, <1>2, <1>5, <2>1, HourAsk, HourSum, HourBump, HourBook
<1>8. Inv'
  BY <1>1, InvStep
<1>9. UNCHANGED <<enabled, faults>> => Calm
  BY DEF Calm
<1>6. CASE (\E p \in Procs : BreakerCloses(p)) \/ UNCHANGED vars
  <2>1. UNCHANGED <<enabled, faults, now, count, pc, loc, admitted>>
    BY <1>6 DEF BreakerCloses, Cooldown, vars, redis
  <2>2. \A s \in Scopes, t \in Minutes : count'[s][t].bytes <= count[s][t].bytes
    BY <1>1, <2>1, TallyTyped
  <2> QED  BY <1>1, <1>2, <1>8, <1>9, <2>1, <2>2, HourQuiet
<1>10. CASE NextMinute
  <2>1. UNCHANGED <<enabled, faults>>
    BY <1>10 DEF NextMinute, redis
  <2> QED  BY <1>1, <1>2, <1>8, <1>9, <1>10, <2>1, HourMinute
<1>11. CASE \/ \E s \in Scopes, m \in Minutes : CountExpires(s, m)
            \/ \E s \in Scopes : BytesExpire(s)
  <2>1. /\ UNCHANGED <<enabled, faults, now, pc, loc, admitted>>
        /\ \A s \in Scopes, t \in Minutes :
             /\ count'[s][t].bytes <= count[s][t].bytes
             /\ count'[s][t].bytes # count[s][t].bytes => now >= t + BytesLife
    BY <1>1, <1>11, ExpiryInv
  <2> QED  BY <1>1, <1>2, <1>8, <1>9, <2>1, HourQuiet
<1>7. CASE \E r \in Requests : Arrive(r) \/ Memory(r) \/ Ask(r) \/ Sum(r) \/ Bump(r) \/ Book(r)
  BY <1>3, <1>4, <1>5, <1>7
<1> QED  BY <1>6, <1>7, <1>10, <1>11 DEF Next

LEMMA HourAlways == Spec => [](LimitInv /\ HourInv)
BY LimitInit, LimitStep, HourInit, HourStep, PTL DEF Spec

\* What a counter of Redis let through in an hour stays within its hourly
\* limit, but for the uploads that pass the check together, as long as the hour
\* lasts; then Sum may delete its minutes and its bytes may run out, and those
\* that are under way with its time may pass as well.
THEOREM HourHeld == Spec => []HourBounded
<1>1. LimitInv /\ HourInv => HourBounded
  <2> SUFFICES ASSUME LimitInv, HourInv, enabled, faults = 0,
                      NEW s \in Scopes, NEW m \in Minutes, Bph[s] > 0
               PROVE  BytesOfHour(s, m) <=
                        Bph[s] + (Overlap + IF now < m + Hour THEN 0 ELSE Cardinality(Requests)) * Max(Sizes)
    BY DEF HourBounded
  <2> DEFINE A == Booked(admitted[s], Span(m))
             C == Booked(count[s], Span(m))
             a == Weight(loc, Paid(s, m))
             b == Weight(loc, Cleared(s, m))
             c == Weight(loc, Carried(s, m))
             N == Cardinality(Requests)
             O == Overlap
             L == Largest
             B == Bph[s]
  <2>1. Inv /\ BytesClear(s, m) /\ HourKept(s, m)
    BY DEF LimitInv, HourInv, Calm, SpanInv
  <2>2. A \in Nat /\ C \in Nat /\ B \in Nat /\ N \in Nat /\ O \in Nat /\ L \in Nat
    <3>1. count[s] \in Row /\ admitted[s] \in Row /\ Span(m) \subseteq Minutes
      BY <2>1, RowFacts DEF Span
    <3>2. B \in Nat /\ N \in Nat /\ O \in Nat /\ L \in Nat
      BY LargestFacts, OverlapFacts, LimitsAssumption
    <3> QED  BY <3>1, <3>2, BookedNat
  <2>3. a \in Nat /\ b \in Nat /\ c \in Nat
    BY <2>1, LocFacts, WeightFacts, HourSubsets
  <2>4. now \in Nat /\ m \in Nat /\ Hour \in Nat
    BY <2>1, InvFacts, LimitsAssumption DEF Minutes
  <2>5. C + b <= B + O * L
    BY <2>1 DEF BytesClear, Slack
  <2>6. /\ now < m + Hour => A + a <= C
        /\ now >= m + Hour => A + c <= B + (O * L + N * L)
    BY <2>1 DEF HourKept, HourFirst, HourSecond, Slack, Everyone
  <2>7. BytesOfHour(s, m) = A
    BY DEF BytesOfHour, Span
  <2>8. A <= B + (O + IF now < m + Hour THEN 0 ELSE N) * L
    <3> HIDE DEF A, C, a, b, c, N, O, L, B
    <3>1. \A x, y, z \in Nat : (x + y) * z = x * z + y * z /\ x * z \in Nat
      OBVIOUS
    <3>2. (O + N) * L = O * L + N * L /\ O + 0 = O /\ O * L \in Nat /\ N * L \in Nat
      BY <2>2, <3>1
    <3>3. CASE now < m + Hour
      <4>1. A <= B + O * L
        BY <2>2, <2>3, <2>5, <2>6, <3>2, <3>3
      <4> QED  BY <3>2, <3>3, <4>1
    <3>4. CASE ~(now < m + Hour)
      <4>1. A <= B + (O * L + N * L)
        BY <2>2, <2>3, <2>4, <2>6, <3>2, <3>4
      <4> QED  BY <3>2, <3>4, <4>1
    <3> QED  BY <3>3, <3>4
  <2> QED  BY <2>7, <2>8 DEF Largest
<1> QED  BY <1>1, HourAlways, PTL
=============================================================================
