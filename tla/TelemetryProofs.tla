-------------------------- MODULE TelemetryProofs --------------------------
(***************************************************************************)
(* The pages of Telemetry, for every history of checks, every window and   *)
(* bucket width and any number of targets and incidents.  The first half   *)
(* is about counting: sums over sets, the groups of a GROUP BY, and the    *)
(* first rows of an ORDER BY with LIMIT; the last parts are about the      *)
(* points of a chart and about percentiles.                                *)
(***************************************************************************)
EXTENDS Telemetry, FiniteSetTheorems, FunctionTheorems, SequenceTheorems, TLAPS

(***************************************************************************)
(* Induction over the subsets of a finite set.  The predicate is a set, of *)
(* those that have it, so that the provers can instantiate the lemmas.     *)
(***************************************************************************)
LEMMA SubsetInduction ==
  ASSUME NEW S, IsFiniteSet(S), NEW Good,
         \A T \in SUBSET S : (\A U \in SUBSET T : U # T => U \in Good) => T \in Good
  PROVE  S \in Good
  <1> SUFFICES ASSUME S \notin Good PROVE FALSE
    OBVIOUS
  <1> DEFINE Bad == {T \in SUBSET S : T \notin Good}
  <1>1. IsWellFoundedOn(StrictSubsetOrdering(S), SUBSET S)
    <2>1. IsWellFoundedOn(StrictSubsetOrdering(S), FiniteSubsetsOf(S))
      BY FS_StrictSubsetOrderingWellFounded, Zenon
    <2>2. FiniteSubsetsOf(S) = SUBSET S
      BY FS_FiniteSubsetsOfFinite, Zenon
    <2> QED
      BY <2>1, <2>2, Zenon
  <1>2. Bad \subseteq SUBSET S /\ Bad # {}
    OBVIOUS
  <1> HIDE DEF Bad
  <1>3. PICK T \in Bad : \A U \in Bad : ~(<<U, T>> \in StrictSubsetOrdering(S))
    BY <1>1, <1>2, WFMin
  <1>4. T \in SUBSET S /\ T \notin Good
    BY DEF Bad
  <1>5. \A U \in SUBSET T : U # T => U \in Good
    BY <1>3, <1>4 DEF Bad, StrictSubsetOrdering
  <1> QED
    BY <1>4, <1>5

\* The same, one element at a time.
LEMMA ElementInduction ==
  ASSUME NEW S, IsFiniteSet(S), NEW Good,
         {} \in Good,
         \A T \in SUBSET S, x \in S : T \in Good /\ x \notin T => T \cup {x} \in Good
  PROVE  S \in Good
  <1>1. ASSUME NEW T \in SUBSET S, \A U \in SUBSET T : U # T => U \in Good
        PROVE  T \in Good
    <2>1. CASE T = {}
      BY <2>1
    <2>2. CASE T # {}
      <3>1. PICK x \in T : TRUE
        BY <2>2
      <3>2. T \ {x} \in Good
        BY <1>1, <3>1
      <3>3. (T \ {x}) \cup {x} = T
        BY <3>1
      <3> QED
        BY <3>1, <3>2, <3>3
    <2> QED
      BY <2>1, <2>2
  <1> QED
    BY <1>1, SubsetInduction

-----------------------------------------------------------------------------
(* Sums.                                                                   *)

Pick(T) == CHOOSE x \in T : TRUE

\* g holds the sum of f over every subset of S: the equation by which the
\* library defines a sum.
IsSum(g, f, S) ==
  g = [T \in SUBSET S |-> IF T = {} THEN 0 ELSE f[Pick(T)] + g[T \ {Pick(T)}]]

LEMMA SumIsChosen ==
  ASSUME NEW f, NEW S
  PROVE  SumFunctionOnSet(f, S) = (CHOOSE g : IsSum(g, f, S))[S]
  BY DEF SumFunctionOnSet, FoldFunctionOnSet, MapThenFoldSet, IsSum, Pick

LEMMA PickInSet ==
  ASSUME NEW T, T # {}
  PROVE  Pick(T) \in T
  BY DEF Pick

\* That equation, of one subset.
SumsUp(g, f, T) == g[T] = IF T = {} THEN 0 ELSE f[Pick(T)] + g[T \ {Pick(T)}]

LEMMA IsSumAt ==
  ASSUME NEW f, NEW S, NEW g, NEW T \in SUBSET S, IsSum(g, f, S)
  PROVE  SumsUp(g, f, T)
  <1>1. g = [U \in SUBSET S |-> IF U = {} THEN 0 ELSE f[Pick(U)] + g[U \ {Pick(U)}]]
    BY DEF IsSum
  <1> QED
    BY <1>1, Zenon DEF SumsUp

\* Two such functions agree on the subsets they share.
LEMMA SumUnique ==
  ASSUME NEW f, NEW S, NEW R, IsFiniteSet(S), S \subseteq R,
         NEW g, IsSum(g, f, S), NEW h, IsSum(h, f, R)
  PROVE  g[S] = h[S]
  <1> DEFINE Good == {T \in SUBSET S : g[T] = h[T]}
  <1>1. ASSUME NEW T \in SUBSET S, \A U \in SUBSET T : U # T => U \in Good
        PROVE  T \in Good
    <2>1. T \in SUBSET R
      OBVIOUS
    <2>2. SumsUp(g, f, T)
      BY IsSumAt
    <2>3. SumsUp(h, f, T)
      BY <2>1, IsSumAt
    <2>4. T # {} => g[T \ {Pick(T)}] = h[T \ {Pick(T)}]
      BY <1>1, PickInSet
    <2> QED
      BY <2>2, <2>3, <2>4 DEF SumsUp
  <1> HIDE DEF Good
  <1>2. S \in Good
    BY <1>1, SubsetInduction
  <1> QED
    BY <1>2 DEF Good

LEMMA SumExists ==
  ASSUME NEW f, NEW S, IsFiniteSet(S)
  PROVE  \E g : IsSum(g, f, S)
  <1> DEFINE Sum(T) == (CHOOSE g : IsSum(g, f, T))[T]
  <1> DEFINE Good == {T \in SUBSET S : \E g : IsSum(g, f, T)}
  <1> HIDE DEF Sum
  <1>1. ASSUME NEW T \in SUBSET S, \A U \in SUBSET T : U # T => U \in Good
        PROVE  T \in Good
    <2> DEFINE h == [U \in SUBSET T |->
                       IF U = {} THEN 0 ELSE f[Pick(U)] + Sum(U \ {Pick(U)})]
    <2>1. ASSUME NEW U \in SUBSET T, U # T
          PROVE  h[U] = Sum(U)
      <3>1. PICK g : IsSum(g, f, U) /\ g[U] = Sum(U)
        BY <1>1, <2>1 DEF Sum
      <3>2. SumsUp(g, f, U)
        BY <3>1, IsSumAt
      <3>3. ASSUME U # {}
            PROVE  g[U \ {Pick(U)}] = Sum(U \ {Pick(U)})
        <4> DEFINE V == U \ {Pick(U)}
        <4>1. V \in SUBSET T /\ V \subseteq U /\ V # T
          BY <3>3, PickInSet
        <4>2. V \in SUBSET S /\ IsFiniteSet(V)
          BY <4>1, FS_Subset
        <4>3. PICK k : IsSum(k, f, V) /\ k[V] = Sum(V)
          BY <1>1, <4>1 DEF Sum
        <4> HIDE DEF V
        <4>4. k[V] = g[V]
          BY <3>1, <4>1, <4>2, <4>3, SumUnique
        <4> QED
          BY <4>3, <4>4 DEF V
      <3> QED
        BY <3>1, <3>2, <3>3 DEF SumsUp
    <2>2. IsSum(h, f, T)
      <3>1. ASSUME NEW U \in SUBSET T, U # {}
            PROVE  h[U \ {Pick(U)}] = Sum(U \ {Pick(U)})
        <4>1. U \ {Pick(U)} \in SUBSET T /\ U \ {Pick(U)} # T
          BY <3>1, PickInSet
        <4> QED
          BY <2>1, <4>1
      <3>2. h = [U \in SUBSET T |-> IF U = {} THEN 0 ELSE f[Pick(U)] + h[U \ {Pick(U)}]]
        BY <3>1
      <3> QED
        BY <3>2 DEF IsSum
    <2> QED
      BY <2>2
  <1> HIDE DEF Good
  <1>2. S \in Good
    BY <1>1, SubsetInduction
  <1> QED
    BY <1>2 DEF Good

\* The sum meets its recursive equation.
LEMMA SumEquation ==
  ASSUME NEW f, NEW S, IsFiniteSet(S)
  PROVE  SumFunctionOnSet(f, S) =
           IF S = {} THEN 0 ELSE f[Pick(S)] + SumFunctionOnSet(f, S \ {Pick(S)})
  <1>1. PICK g : IsSum(g, f, S) /\ g[S] = SumFunctionOnSet(f, S)
    BY SumExists, SumIsChosen
  <1>2. SumsUp(g, f, S)
    BY <1>1, IsSumAt
  <1>3. ASSUME NEW V, V = S \ {Pick(S)}
        PROVE  g[V] = SumFunctionOnSet(f, V)
    <2>1. IsFiniteSet(V) /\ V \subseteq S
      BY <1>3, FS_Subset
    <2>2. PICK h : IsSum(h, f, V) /\ h[V] = SumFunctionOnSet(f, V)
      BY <2>1, SumExists, SumIsChosen
    <2> QED
      BY <1>1, <2>1, <2>2, SumUnique
  <1> QED
    BY <1>1, <1>2, <1>3 DEF SumsUp

\* A sum of integers is one, and any element may be taken out of it.
LEMMA SumTakeOut ==
  ASSUME NEW f, NEW S, IsFiniteSet(S), \A x \in S : f[x] \in Int
  PROVE  /\ SumFunctionOnSet(f, S) \in Int
         /\ \A x \in S : SumFunctionOnSet(f, S) = f[x] + SumFunctionOnSet(f, S \ {x})
  <1> DEFINE Good == {T \in SUBSET S :
         /\ SumFunctionOnSet(f, T) \in Int
         /\ \A x \in T : SumFunctionOnSet(f, T) = f[x] + SumFunctionOnSet(f, T \ {x})}
  <1>1. ASSUME NEW T \in SUBSET S, \A U \in SUBSET T : U # T => U \in Good
        PROVE  T \in Good
    <2>1. SumFunctionOnSet(f, T) =
            IF T = {} THEN 0 ELSE f[Pick(T)] + SumFunctionOnSet(f, T \ {Pick(T)})
      BY FS_Subset, SumEquation
    <2>2. ASSUME NEW x \in T
          PROVE  /\ SumFunctionOnSet(f, T \ {x}) \in Int
                 /\ \A y \in T \ {x} : SumFunctionOnSet(f, T \ {x})
                                         = f[y] + SumFunctionOnSet(f, (T \ {x}) \ {y})
      BY <1>1
    <2>3. SumFunctionOnSet(f, T) \in Int
      BY <2>1, <2>2, PickInSet
    <2>4. ASSUME NEW x \in T
          PROVE  SumFunctionOnSet(f, T) = f[x] + SumFunctionOnSet(f, T \ {x})
      <3>1. CASE x = Pick(T)
        BY <2>1, <3>1
      <3>2. CASE x # Pick(T)
        <4>1. Pick(T) \in T
          BY PickInSet
        <4>2. SumFunctionOnSet(f, T \ {x})
                = f[Pick(T)] + SumFunctionOnSet(f, (T \ {x}) \ {Pick(T)})
          BY <2>2, <3>2, <4>1
        <4>3. SumFunctionOnSet(f, T \ {Pick(T)})
                = f[x] + SumFunctionOnSet(f, (T \ {Pick(T)}) \ {x})
          BY <2>2, <3>2, <4>1
        <4>4. (T \ {x}) \ {Pick(T)} = (T \ {Pick(T)}) \ {x}
          OBVIOUS
        <4>5. /\ SumFunctionOnSet(f, T \ {Pick(T)}) \in Int
              /\ SumFunctionOnSet(f, T \ {x}) \in Int
              /\ f[x] \in Int /\ f[Pick(T)] \in Int
              /\ SumFunctionOnSet(f, (T \ {x}) \ {Pick(T)}) \in Int
          <5>1. (T \ {x}) \ {Pick(T)} \in Good
            BY <1>1
          <5> QED
            BY <2>2, <4>1, <5>1
        <4>6. SumFunctionOnSet(f, T) = f[Pick(T)] + SumFunctionOnSet(f, T \ {Pick(T)})
          BY <2>1
        <4> QED
          BY <4>2, <4>3, <4>4, <4>5, <4>6
      <3> QED
        BY <3>1, <3>2
    <2> QED
      BY <2>3, <2>4
  <1> HIDE DEF Good
  <1>2. S \in Good
    BY <1>1, SubsetInduction
  <1> QED
    BY <1>2 DEF Good

\* The rows whose key is b, as GROUP BY collects them.
GroupOf(R, key, b) == {r \in R : key[r] = b}

\* What groups of rows count adds up to the rows.
LEMMA GroupsAddUp ==
  ASSUME NEW R, NEW key, NEW D, NEW f, IsFiniteSet(R), IsFiniteSet(D),
         \A r \in R : key[r] \in D,
         \A b \in D : f[b] = Cardinality(GroupOf(R, key, b))
  PROVE  SumFunctionOnSet(f, D) = Cardinality(R)
  <1> DEFINE In(T) == {r \in R : key[r] \in T}
  <1> DEFINE Good == {T \in SUBSET D : SumFunctionOnSet(f, T) = Cardinality(In(T))}
  <1>1. {} \in Good
    <2>1. SumFunctionOnSet(f, {}) = 0
      BY FS_EmptySet, SumEquation
    <2>2. In({}) = {}
      OBVIOUS
    <2> QED
      BY <2>1, <2>2, FS_EmptySet
  <1>2. ASSUME NEW T \in SUBSET D, NEW x \in D, T \in Good, x \notin T
        PROVE  T \cup {x} \in Good
    <2> DEFINE A == In(T)
               B == In(T \cup {x})
               G == GroupOf(R, key, x)
               W == T \cup {x}
    <2>1. IsFiniteSet(A) /\ IsFiniteSet(G)
      BY FS_Subset DEF GroupOf
    <2>2. B = A \cup G /\ A \cap G = {}
      BY <1>2 DEF GroupOf
    <2>3. Cardinality(A) \in Nat /\ Cardinality(G) \in Nat
      BY <2>1, FS_CardinalityType
    <2>4. Cardinality(B) = Cardinality(A) + Cardinality(G)
      <3> HIDE DEF A, B, G
      <3>1. Cardinality(A \cup G) = Cardinality(A) + Cardinality(G) - Cardinality(A \cap G)
        BY <2>1, FS_Union
      <3>2. Cardinality(A \cap G) = 0
        BY <2>2, FS_EmptySet
      <3> QED
        BY <2>2, <2>3, <3>1, <3>2
    <2>5. IsFiniteSet(W) /\ W \subseteq D
      BY FS_Subset
    <2>6. \A y \in W : f[y] \in Int
      <3>1. ASSUME NEW y \in D
            PROVE  f[y] \in Int
        <4>1. IsFiniteSet(GroupOf(R, key, y))
          BY FS_Subset DEF GroupOf
        <4> QED
          BY <4>1, FS_CardinalityType
      <3> QED
        BY <2>5, <3>1
    <2>7. W \ {x} = T /\ x \in W
      BY <1>2
    <2>8. SumFunctionOnSet(f, T) = Cardinality(A) /\ f[x] = Cardinality(G)
      BY <1>2
    <2> HIDE DEF A, B, G, W
    <2>9. SumFunctionOnSet(f, W) = f[x] + SumFunctionOnSet(f, T)
      BY <2>5, <2>6, <2>7, SumTakeOut
    <2>10. SumFunctionOnSet(f, W) = Cardinality(B)
      BY <2>3, <2>4, <2>8, <2>9
    <2> QED
      BY <2>5, <2>10 DEF B, W
  <1> HIDE DEF Good
  <1>3. D \in Good
    BY <1>1, <1>2, ElementInduction
  <1>4. In(D) = R
    OBVIOUS
  <1> QED
    BY <1>3, <1>4 DEF Good

-----------------------------------------------------------------------------
(* The first rows of an order, and sets that differ little.                *)

\* The first n of a set whose order is that of a key are n, or all there are:
\* if some are left out, there are n.
LEMMA FirstRows ==
  ASSUME NEW S, IsFiniteSet(S), NEW key \in [S -> Int],
         \A x, y \in S : key[x] = key[y] => x = y,
         NEW ahead, \A x \in S : ahead[x] = {y \in S : key[y] < key[x]},
         NEW n \in Nat
  PROVE  /\ Take(n, S, ahead) \subseteq S
         /\ IsFiniteSet(Take(n, S, ahead))
         /\ Cardinality(Take(n, S, ahead)) = IF Cardinality(S) < n THEN Cardinality(S) ELSE n
  <1> DEFINE N == Cardinality(S)
             rank == [x \in S |-> Cardinality(ahead[x])]
             first == Take(n, S, ahead)
             m == IF N < n THEN N ELSE n
  <1>1. N \in Nat
    BY FS_CardinalityType
  <1>2. ASSUME NEW x \in S
        PROVE  IsFiniteSet(ahead[x]) /\ rank[x] \in 0..(N - 1)
    <2>1. ahead[x] \in SUBSET S /\ ahead[x] # S
      OBVIOUS
    <2>2. IsFiniteSet(ahead[x]) /\ Cardinality(ahead[x]) <= N /\ Cardinality(ahead[x]) # N
      BY <2>1, FS_Subset
    <2>3. Cardinality(ahead[x]) \in Nat
      BY <2>2, FS_CardinalityType
    <2> QED
      BY <1>1, <2>2, <2>3
  <1>3. ASSUME NEW x \in S, NEW y \in S, key[x] < key[y]
        PROVE  rank[x] < rank[y]
    <2>1. ahead[x] \in SUBSET ahead[y] /\ ahead[x] # ahead[y]
      BY <1>3
    <2>2. Cardinality(ahead[x]) <= Cardinality(ahead[y]) /\ Cardinality(ahead[x]) # Cardinality(ahead[y])
      BY <1>2, <2>1, FS_Subset
    <2> QED
      BY <1>1, <1>2, <2>2
  <1>4. \A x, y \in S : rank[x] = rank[y] => x = y
    BY <1>1, <1>2, <1>3
  <1>5. rank \in [S -> 0..(N - 1)]
    BY <1>2
  <1>6. rank \in Injection(S, 0..(N - 1))
    <2> HIDE DEF rank, N
    <2> QED
      BY <1>4, <1>5, Fun_IsInj
  <1>7. IsFiniteSet(0..(N - 1)) /\ Cardinality(0..(N - 1)) = N
    BY <1>1, FS_Interval
  <1>8. rank \in Surjection(S, 0..(N - 1))
    <2> HIDE DEF rank
    <2> QED
      BY <1>6, <1>7, FS_Injection
  <1>9. \A i \in 0..(N - 1) : \E x \in S : rank[x] = i
    <2> HIDE DEF rank, N
    <2> QED
      BY <1>8, Zenon DEF Surjection
  <1>10. first = {x \in S : rank[x] < n}
    BY DEF Take
  <1> DEFINE place == [x \in first |-> rank[x]]
  <1> HIDE DEF rank, first
  <1>11. m \in Nat /\ place \in [first -> 0..(m - 1)]
    BY <1>1, <1>5, <1>10
  <1>12. \A x, y \in first : place[x] = place[y] => x = y
    BY <1>4, <1>10
  <1>13. \A i \in 0..(m - 1) : \E x \in first : place[x] = i
    BY <1>1, <1>9, <1>10
  <1> HIDE DEF place, m
  <1>14. place \in Bijection(first, 0..(m - 1))
    BY <1>11, <1>12, <1>13, Fun_IsBij
  <1>15. IsFiniteSet(first) /\ first \subseteq S
    BY <1>10, FS_Subset
  <1>16. ExistsBijection(first, 0..(m - 1))
    BY <1>14 DEF ExistsBijection
  <1>17. Cardinality(0..(m - 1)) = Cardinality(first)
    BY <1>15, <1>16, FS_Bijection
  <1>18. Cardinality(0..(m - 1)) = m
    BY <1>11, FS_Interval
  <1> QED
    BY <1>15, <1>17, <1>18 DEF first, m

\* A set has at most as many more elements than another as there are names for
\* those it does not share.
LEMMA FewMore ==
  ASSUME NEW A, IsFiniteSet(A), NEW B, IsFiniteSet(B), NEW U, IsFiniteSet(U),
         NEW id, \A x, y \in A : id[x] = id[y] => x = y,
         \A x \in A : id[x] \notin U => x \in B
  PROVE  Cardinality(A) - Cardinality(B) <= Cardinality(U)
  <1> DEFINE C == {x \in A : id[x] \notin U}
             R == A \ C
             name == [x \in R |-> id[x]]
  <1>1. C \subseteq A /\ C \subseteq B
    OBVIOUS
  <1>2. IsFiniteSet(C) /\ IsFiniteSet(R) /\ Cardinality(C) <= Cardinality(B)
    BY <1>1, FS_Subset
  <1>3. name \in Injection(R, U)
    <2>1. name \in [R -> U]
      OBVIOUS
    <2>2. \A x, y \in R : name[x] = name[y] => x = y
      OBVIOUS
    <2> HIDE DEF name, R
    <2> QED
      BY <2>1, <2>2, Fun_IsInj
  <1>4. Cardinality(R) <= Cardinality(U)
    <2> HIDE DEF name, R
    <2> QED
      BY <1>3, FS_Injection
  <1>5. A = C \cup R /\ C \cap R = {}
    OBVIOUS
  <1> HIDE DEF C, R
  <1>6. Cardinality(A) = Cardinality(C) + Cardinality(R) - Cardinality(C \cap R)
    BY <1>2, <1>5, FS_Union
  <1>7. Cardinality(C \cap R) = 0
    BY <1>5, FS_EmptySet
  <1>8. /\ Cardinality(A) \in Nat /\ Cardinality(B) \in Nat /\ Cardinality(U) \in Nat
        /\ Cardinality(C) \in Nat /\ Cardinality(R) \in Nat
    BY <1>2, FS_CardinalityType
  <1> QED
    BY <1>2, <1>4, <1>6, <1>7, <1>8

LEMMA CloseCounts ==
  ASSUME NEW A, IsFiniteSet(A), NEW B, IsFiniteSet(B), NEW U, IsFiniteSet(U),
         NEW id, \A x, y \in A : id[x] = id[y] => x = y,
         \A x, y \in B : id[x] = id[y] => x = y,
         \A x \in A : id[x] \notin U => x \in B,
         \A x \in B : id[x] \notin U => x \in A
  PROVE  Near(Cardinality(A), Cardinality(B), Cardinality(U))
  <1>1. Cardinality(A) - Cardinality(B) <= Cardinality(U)
    BY FewMore
  <1>2. Cardinality(B) - Cardinality(A) <= Cardinality(U)
    BY FewMore
  <1> QED
    BY <1>1, <1>2 DEF Near

-----------------------------------------------------------------------------
(* The invariant.                                                          *)

FleetRow == [status : TargetStatus, archived : BOOLEAN]
IncidentRow == [status : {"OPEN", "ACKNOWLEDGED", "RESOLVED"}, resolvedAt : Int]

Rows(rows) == rows \subseteq CheckRow /\ IsFiniteSet(rows) /\ DistinctIds(rows)

\* The tables keep their forms; a check under way began in the past and is not
\* stored yet.
TablesOK ==
  /\ now \in Nat
  /\ Rows(checks)
  /\ running \in [Targets -> Nat \cup {NULL}]
  /\ \A t \in Targets : running[t] # NULL =>
       running[t] <= now /\ \A r \in checks : Id(r) # <<t, running[t]>>
  /\ fleet \in [Targets -> FleetRow]
  /\ incidents \in Seq(IncidentRow)

Kinds == {"metrics", "latency", "summary", "panels", "list", "checks"}

PageOK ==
  /\ page = [kind |-> page.kind, window |-> page.window, scope |-> page.scope, at |-> page.at,
              answers |-> page.answers, unsettled |-> page.unsettled, changed |-> page.changed]
  /\ page.kind \in Kinds \cup {"none"}
  /\ page.at \in Nat /\ page.at <= now
  /\ IsFiniteSet(page.unsettled) /\ IsFiniteSet(page.changed)
  /\ Open => /\ page.window \in Windows
             /\ page.scope \subseteq Targets
             /\ page.kind = "checks" => \E t \in Targets : page.scope = {t}
             /\ DOMAIN page.answers \subseteq Queries(page.kind)

\* A check under way is either known to the page, or begins too late for it.
PendingKnown ==
  Open => \A t \in Targets : running[t] # NULL =>
            \/ <<t, running[t]>> \in page.unsettled
            \/ page.kind # "checks" /\ running[t] > page.at

\* Check results like those of now, for a page: what its queries may have seen.
Relevant(r) == r.target \in page.scope /\ (page.kind = "checks" \/ r.at <= page.at)

SeenChecks(rows) ==
  /\ Rows(rows)
  /\ \A r \in CheckRow : Relevant(r) /\ Id(r) \notin page.unsettled => (r \in rows <=> r \in checks)

SeenFleet(rows) ==
  /\ rows \in [Targets -> FleetRow]
  /\ \A t \in Targets : t \notin page.changed => rows[t] = fleet[t]

SeenIncidents(rows) ==
  /\ rows \in Seq(IncidentRow)
  /\ Len(rows) <= Len(incidents)
  /\ \A i \in 1..Len(incidents) : i \notin page.changed => i <= Len(rows) /\ rows[i] = incidents[i]

Answered(query) == Open /\ query \in DOMAIN page.answers

\* Every answer of the page is what its query returns on tables it may have seen.
CheckAnswersOK ==
  LET answers == page.answers  scope == page.scope  w == page.window  at == page.at
  IN  /\ Answered("uptime") => \E rows :
           SeenChecks(rows) /\ answers["uptime"] = GetUptime(rows, scope, w, at)
      /\ Answered("latency") => \E rows :
           SeenChecks(rows) /\ answers["latency"] = GetLatency(rows, scope, w, at)
      /\ Answered("uptimeSeries") => \E rows :
           SeenChecks(rows) /\ answers["uptimeSeries"] = GetUptimeSeries(rows, scope, w, at)
      /\ Answered("latencySeries") => \E rows :
           SeenChecks(rows) /\ answers["latencySeries"] = GetLatencySeries(rows, scope, w, at)
      /\ Answered("checks") => \E rows :
           SeenChecks(rows) /\ answers["checks"] = ListChecks(rows, scope, ListLimit)
      /\ Answered("checkCount") => \E rows :
           SeenChecks(rows) /\ answers["checkCount"] = CountChecks(rows, scope)

FleetAnswersOK ==
  LET answers == page.answers
  IN  /\ Answered("distribution") => \E rows :
           SeenFleet(rows) /\ answers["distribution"] = GetStatusDistribution(rows)
      /\ Answered("totalTargets") => \E rows :
           SeenFleet(rows) /\ answers["totalTargets"] = CountTargets(rows)
      /\ Answered("items") => \E rows :
           SeenFleet(rows) /\ answers["items"] = ListItems(rows, 1, ListLimit)
      /\ Answered("total") => \E rows :
           SeenFleet(rows) /\ answers["total"] = Cardinality(Listed(rows))
      /\ Answered("active") => \E rows :
           SeenIncidents(rows) /\ answers["active"] = ActivePanel(rows)
      /\ Answered("rollup") =>
           Answered("items") /\ DOMAIN answers["rollup"] \subseteq answers["items"]

TelemetryInv == TablesOK /\ PageOK /\ PendingKnown /\ CheckAnswersOK /\ FleetAnswersOK

LEMMA InitSettled ==
  ASSUME Init
  PROVE  TelemetryInv
  <1>1. TablesOK
    <2>1. Rows(checks)
      BY TelemetryAssumption DEF Init, Rows
    <2>2. fleet \in [Targets -> FleetRow]
      BY DEF Init, FleetRow, TargetStatus
    <2> QED
      BY <2>1, <2>2, TelemetryAssumption DEF Init, TablesOK
  <1>2. PageOK
    BY TelemetryAssumption, FS_EmptySet DEF Init, PageOK, NoPage, Kinds, Open
  <1>3. ~Open
    BY DEF Init, Open, NoPage
  <1> QED
    BY <1>1, <1>2, <1>3 DEF TelemetryInv, PendingKnown, CheckAnswersOK, FleetAnswersOK, Answered

\* What a change of the tables does to the page: an open one goes on, with the
\* same answers and a longer history.
Notes(ids, x) ==
  page' = IF Open THEN [page EXCEPT !.unsettled = @ \cup ids, !.changed = @ \cup x] ELSE page

LEMMA NotesNothing ==
  ASSUME PageOK, page' = page
  PROVE  Notes({}, {})
  <1>1. page = [page EXCEPT !.unsettled = @ \cup {}, !.changed = @ \cup {}]
    BY DEF PageOK
  <1> QED
    BY <1>1 DEF Notes

LEMMA UnsettleNotes ==
  ASSUME PageOK, NEW ids, Unsettle(ids)
  PROVE  Notes(ids, {})
  <1>1. [page EXCEPT !.unsettled = @ \cup ids]
          = [page EXCEPT !.unsettled = @ \cup ids, !.changed = @ \cup {}]
    BY DEF PageOK
  <1> QED
    BY <1>1 DEF Notes, Unsettle

LEMMA DisturbNotes ==
  ASSUME PageOK, NEW x, Disturb(x)
  PROVE  Notes({}, {x})
  <1>1. [page EXCEPT !.changed = @ \cup {x}]
          = [page EXCEPT !.unsettled = @ \cup {}, !.changed = @ \cup {x}]
    BY DEF PageOK
  <1> QED
    BY <1>1 DEF Notes, Disturb

LEMMA NotesKeepPage ==
  ASSUME PageOK, NEW ids, NEW x, IsFiniteSet(ids), IsFiniteSet(x), Notes(ids, x),
         now' \in Nat, now <= now', now \in Nat
  PROVE  /\ PageOK'
         /\ page'.kind = page.kind /\ page'.window = page.window /\ page'.scope = page.scope
         /\ page'.at = page.at /\ page'.answers = page.answers
         /\ Open => /\ page'.unsettled = page.unsettled \cup ids
                    /\ page'.changed = page.changed \cup x
  <1>1. CASE Open
    <2>1. page' = [page EXCEPT !.unsettled = @ \cup ids, !.changed = @ \cup x]
      BY <1>1 DEF Notes
    <2>2. /\ page' = [page EXCEPT !.unsettled = page'.unsettled, !.changed = page'.changed]
          /\ page'.kind = page.kind /\ page'.window = page.window /\ page'.scope = page.scope
          /\ page'.at = page.at /\ page'.answers = page.answers
          /\ page'.unsettled = page.unsettled \cup ids
          /\ page'.changed = page.changed \cup x
      BY <2>1 DEF PageOK
    <2>3. IsFiniteSet(page'.unsettled) /\ IsFiniteSet(page'.changed)
      <3>1. IsFiniteSet(page.unsettled) /\ IsFiniteSet(page.changed)
        BY DEF PageOK
      <3>2. IsFiniteSet(page.unsettled \cup ids) /\ IsFiniteSet(page.changed \cup x)
        BY <3>1, FS_Union
      <3> QED
        BY <2>2, <3>2
    <2> QED
      BY <2>2, <2>3 DEF PageOK, Open
  <1>2. CASE ~Open
    BY <1>2 DEF Notes, PageOK, Open
  <1> QED
    BY <1>1, <1>2

\* What a change of the tables may do while a page is open: it differs only in
\* what the page's history has noted, and no later check is unknown to it.
Moves(ids, x) ==
  /\ IsFiniteSet(ids) /\ IsFiniteSet(x) /\ Notes(ids, x) /\ now' \in Nat /\ now <= now'
  /\ Open =>
       /\ \A r \in CheckRow : Relevant(r) /\ Id(r) \notin page.unsettled \cup ids =>
            (r \in checks <=> r \in checks')
       /\ \A t \in Targets :
            /\ t \notin page.changed \cup x => fleet'[t] = fleet[t]
            /\ running'[t] # NULL =>
                 \/ <<t, running'[t]>> \in page.unsettled \cup ids
                 \/ page.kind # "checks" /\ running'[t] > page.at
       /\ Len(incidents) <= Len(incidents')
       /\ \A i \in 1..Len(incidents') : i \notin page.changed \cup x =>
            i <= Len(incidents) /\ incidents'[i] = incidents[i]

Moved == \E ids, x : Moves(ids, x)

LEMMA TickMoves ==
  ASSUME TelemetryInv, Tick
  PROVE  TablesOK' /\ Moved
  <1> USE DEF TelemetryInv
  <1>1. now' = now + 1 /\ UNCHANGED <<tables, page, events>>
    BY DEF Tick
  <1>2. TablesOK'
    BY <1>1 DEF TablesOK, Rows, tables
  <1>3. Notes({}, {})
    BY <1>1, NotesNothing
  <1>4. Moves({}, {})
    BY <1>1, <1>3, FS_EmptySet DEF Moves, tables, PendingKnown, TablesOK
  <1> QED
    BY <1>2, <1>4 DEF Moved

LEMMA StartMoves ==
  ASSUME TelemetryInv, NEW t \in Targets, StartCheck(t)
  PROVE  TablesOK' /\ Moved
  <1> USE DEF TelemetryInv
  <1> DEFINE ids == IF now = page.at \/ page.kind = "checks" THEN {<<t, now>>} ELSE {}
  <1>1. /\ running' = [running EXCEPT ![t] = now] /\ Unsettle(ids)
        /\ UNCHANGED <<now, checks, fleet, incidents>>
        /\ \A r \in checks : Id(r) # <<t, now>>
    BY DEF StartCheck
  <1>2. TablesOK'
    BY <1>1 DEF TablesOK, Rows
  <1>3. IsFiniteSet(ids)
    BY FS_EmptySet, FS_Singleton
  <1>4. Notes(ids, {})
    BY <1>1, UnsettleNotes
  <1>5. ASSUME Open, NEW u \in Targets, running'[u] # NULL
        PROVE  \/ <<u, running'[u]>> \in page.unsettled \cup ids
               \/ page.kind # "checks" /\ running'[u] > page.at
    <2>1. CASE u = t
      BY <1>1, <2>1 DEF TablesOK, PageOK
    <2>2. CASE u # t
      BY <1>1, <1>5, <2>2 DEF TablesOK, PendingKnown
    <2> QED
      BY <2>1, <2>2
  <1>6. Moves(ids, {})
    <2> HIDE DEF ids
    <2> QED
      BY <1>1, <1>3, <1>4, <1>5, FS_EmptySet DEF Moves, TablesOK
  <1> QED
    BY <1>2, <1>6 DEF Moved

LEMMA EndMoves ==
  ASSUME TelemetryInv, NEW t \in Targets, EndCheck(t)
  PROVE  TablesOK' /\ Moved
  <1> USE DEF TelemetryInv
  <1>1. /\ running[t] # NULL /\ running' = [running EXCEPT ![t] = NULL]
        /\ UNCHANGED <<now, fleet, incidents, page, events>>
    BY DEF EndCheck
  <1>2. PICK new \in SUBSET CheckRow :
          /\ checks' = checks \cup new /\ IsFiniteSet(new)
          /\ \A r \in new : r.target = t /\ r.at = running[t]
          /\ \A r, q \in new : r = q
    <2>1. CASE checks' = checks
      BY <2>1, FS_EmptySet
    <2>2. CASE checks' # checks
      <3>1. PICK status \in CheckResultStatus, latency \in LatencyValues :
              checks' = checks \cup
                {[target |-> t, at |-> running[t], status |-> status, latencyMs |-> latency]}
        BY <2>2 DEF EndCheck
      <3> DEFINE row == [target |-> t, at |-> running[t], status |-> status, latencyMs |-> latency]
      <3>2. running[t] \in Nat /\ latency \in Nat
        BY <1>1, TelemetryAssumption DEF TablesOK
      <3>3. row \in CheckRow /\ row.target = t /\ row.at = running[t] /\ IsFiniteSet({row})
        BY <3>2, FS_Singleton DEF CheckRow
      <3> QED
        BY <3>1, <3>3
    <2> QED
      BY <2>1, <2>2
  <1>3. Rows(checks')
    <2>1. IsFiniteSet(checks')
      BY <1>2, FS_Union DEF TablesOK, Rows
    <2>2. \A r \in checks, q \in new : Id(r) # Id(q)
      BY <1>1, <1>2 DEF TablesOK, Id
    <2>3. DistinctIds(checks')
      BY <1>2, <2>2 DEF TablesOK, Rows, DistinctIds
    <2> QED
      BY <1>2, <2>1, <2>3 DEF TablesOK, Rows
  <1>4. TablesOK'
    <2>1. ASSUME NEW u \in Targets, running'[u] # NULL, NEW r \in checks'
          PROVE  Id(r) # <<u, running'[u]>>
      <3>1. u # t /\ running'[u] = running[u]
        BY <1>1, <2>1 DEF TablesOK
      <3>2. r \in new => r.target # u
        BY <1>2, <3>1
      <3> QED
        BY <1>2, <2>1, <3>1, <3>2 DEF TablesOK, Id
    <2> QED
      BY <1>1, <1>3, <2>1 DEF TablesOK
  <1>5. Notes({}, {})
    BY <1>1, NotesNothing
  <1>6. ASSUME Open, NEW r \in CheckRow, Relevant(r), Id(r) \notin page.unsettled
        PROVE  r \in checks <=> r \in checks'
    <2>1. r \notin new
      <3>1. SUFFICES ASSUME r \in new PROVE FALSE
        OBVIOUS
      <3>2. r.target = t /\ r.at = running[t] /\ Id(r) = <<t, running[t]>>
        BY <1>2, <3>1 DEF Id
      <3>3. page.kind # "checks" /\ running[t] > page.at
        BY <1>1, <1>6, <3>2 DEF PendingKnown
      <3>4. r.at <= page.at
        BY <1>6, <3>3 DEF Relevant
      <3> QED
        BY <1>1, <3>2, <3>3, <3>4 DEF PageOK, TablesOK
    <2> QED
      BY <1>2, <2>1
  <1>7. Moves({}, {})
    BY <1>1, <1>5, <1>6, FS_EmptySet DEF Moves, TablesOK, PendingKnown
  <1> QED
    BY <1>4, <1>7 DEF Moved

LEMMA PruneMoves ==
  ASSUME TelemetryInv, PruneOldChecks
  PROVE  TablesOK' /\ Moved
  <1> USE DEF TelemetryInv
  <1>1. PICK gone \in SUBSET checks :
          /\ checks' = checks \ gone /\ Unsettle({Id(r) : r \in gone})
          /\ UNCHANGED <<now, running, fleet, incidents, events>>
    BY DEF PruneOldChecks, Pruned
  <1>2. TablesOK'
    <2>1. Rows(checks')
      BY <1>1, FS_Subset DEF TablesOK, Rows, DistinctIds
    <2> QED
      BY <1>1, <2>1 DEF TablesOK
  <1> DEFINE ids == {Id(r) : r \in gone}
             name == [r \in gone |-> Id(r)]
  <1>3. IsFiniteSet(ids)
    <2>1. IsFiniteSet(gone)
      BY FS_Subset DEF TablesOK, Rows
    <2>2. name \in [gone -> ids] /\ \A i \in ids : \E r \in gone : name[r] = i
      OBVIOUS
    <2> HIDE DEF name, ids
    <2>3. name \in Surjection(gone, ids)
      BY <2>2, Fun_IsSurj
    <2> QED
      BY <2>1, <2>3, FS_Surjection
  <1>4. Notes(ids, {})
    BY <1>1, UnsettleNotes
  <1>5. \A r \in CheckRow : Id(r) \notin ids => (r \in checks <=> r \in checks')
    BY <1>1
  <1>6. Moves(ids, {})
    <2> HIDE DEF ids
    <2> QED
      BY <1>1, <1>3, <1>4, <1>5, FS_EmptySet DEF Moves, TablesOK, PendingKnown
  <1> QED
    BY <1>2, <1>6 DEF Moved

LEMMA TargetMoves ==
  ASSUME TelemetryInv, NEW t \in Targets, TargetChanges(t)
  PROVE  TablesOK' /\ Moved
  <1> USE DEF TelemetryInv
  <1>1. /\ UNCHANGED <<now, checks, running, incidents>> /\ Disturb(t)
        /\ \E row \in FleetRow : fleet' = [fleet EXCEPT ![t] = row]
    BY DEF TargetChanges, Change, FleetRow
  <1>2. TablesOK'
    BY <1>1 DEF TablesOK, Rows
  <1>3. Notes({}, {t})
    BY <1>1, DisturbNotes
  <1>4. \A u \in Targets : u # t => fleet'[u] = fleet[u]
    BY <1>1 DEF TablesOK
  <1>5. IsFiniteSet({}) /\ IsFiniteSet({t})
    BY FS_EmptySet, FS_Singleton
  <1>6. Moves({}, {t})
    BY <1>1, <1>3, <1>4, <1>5 DEF Moves, TablesOK, PendingKnown
  <1> QED
    BY <1>2, <1>6 DEF Moved

LEMMA IncidentMoves ==
  ASSUME TelemetryInv, IncidentOpens \/ \E i \in DOMAIN incidents : IncidentChanges(i)
  PROVE  TablesOK' /\ Moved
  <1> USE DEF TelemetryInv
  <1>1. UNCHANGED <<now, checks, running, fleet>>
    BY DEF IncidentOpens, IncidentChanges, Change
  <1>2. PICK i \in Nat :
          /\ Disturb(i)
          /\ incidents' \in Seq(IncidentRow)
          /\ Len(incidents) <= Len(incidents')
          /\ \A k \in 1..Len(incidents') : k # i => k <= Len(incidents) /\ incidents'[k] = incidents[k]
    <2>1. CASE IncidentOpens
      <3> DEFINE row == [status |-> "OPEN", resolvedAt |-> NULL]
      <3>1. row \in IncidentRow
        BY DEF IncidentRow, NULL
      <3>2. incidents' = Append(incidents, row) /\ Disturb(Len(incidents'))
        BY <2>1 DEF IncidentOpens
      <3> HIDE DEF row
      <3>3. /\ incidents' \in Seq(IncidentRow) /\ Len(incidents') = Len(incidents) + 1
            /\ \A k \in 1..Len(incidents) : incidents'[k] = incidents[k]
            /\ Len(incidents) \in Nat
        BY <3>1, <3>2 DEF TablesOK
      <3> QED
        BY <3>2, <3>3
    <2>2. CASE \E i \in DOMAIN incidents : IncidentChanges(i)
      <3>1. PICK i \in DOMAIN incidents : IncidentChanges(i)
        BY <2>2
      <3>2. PICK row \in IncidentRow : incidents' = [incidents EXCEPT ![i] = row]
        <4>1. PICK status \in {"ACKNOWLEDGED", "RESOLVED"} :
                incidents' = [incidents EXCEPT
                  ![i] = [status |-> status, resolvedAt |-> IF status = "RESOLVED" THEN now ELSE NULL]]
          BY <3>1 DEF IncidentChanges
        <4>2. [status |-> status, resolvedAt |-> IF status = "RESOLVED" THEN now ELSE NULL]
                \in IncidentRow
          BY DEF IncidentRow, TablesOK, NULL
        <4> QED
          BY <4>1, <4>2
      <3>3. /\ incidents' \in Seq(IncidentRow) /\ Len(incidents') = Len(incidents)
            /\ \A k \in 1..Len(incidents) : k # i => incidents'[k] = incidents[k]
            /\ Len(incidents) \in Nat /\ i \in Nat
        BY <3>2 DEF TablesOK
      <3>4. Disturb(i)
        BY <3>1 DEF IncidentChanges
      <3> QED
        BY <3>3, <3>4
    <2> QED
      BY <2>1, <2>2
  <1>3. TablesOK'
    BY <1>1, <1>2 DEF TablesOK, Rows
  <1>4. Notes({}, {i})
    BY <1>2, DisturbNotes
  <1>5. IsFiniteSet({}) /\ IsFiniteSet({i})
    BY FS_EmptySet, FS_Singleton
  <1>6. Moves({}, {i})
    BY <1>1, <1>2, <1>4, <1>5 DEF Moves, TablesOK, PendingKnown
  <1> QED
    BY <1>3, <1>6 DEF Moved

\* What a query may have seen before such a change it may have seen after it.
LEMMA SeenStays ==
  ASSUME TablesOK, PageOK, Open, NEW ids, NEW x, Moves(ids, x), NEW rows
  PROVE  /\ SeenChecks(rows) => SeenChecks(rows)'
         /\ SeenFleet(rows) => SeenFleet(rows)'
         /\ SeenIncidents(rows) => SeenIncidents(rows)'
  <1>1. /\ page'.kind = page.kind /\ page'.scope = page.scope /\ page'.at = page.at
        /\ page'.unsettled = page.unsettled \cup ids
        /\ page'.changed = page.changed \cup x
    BY NotesKeepPage DEF Moves, TablesOK
  <1>2. SeenChecks(rows) => SeenChecks(rows)'
    BY <1>1 DEF Moves, SeenChecks, Relevant
  <1>3. SeenFleet(rows) => SeenFleet(rows)'
    BY <1>1 DEF Moves, SeenFleet
  <1>4. ASSUME SeenIncidents(rows)
        PROVE  SeenIncidents(rows)'
    <2>1. Len(rows) \in Nat /\ Len(incidents) \in Nat
      BY <1>4 DEF SeenIncidents, TablesOK
    <2>2. ASSUME NEW i \in 1..Len(incidents'), i \notin page'.changed
          PROVE  i <= Len(rows) /\ rows[i] = incidents'[i]
      <3>1. i \notin page.changed /\ i <= Len(incidents) /\ incidents'[i] = incidents[i]
        BY <1>1, <2>2 DEF Moves
      <3>2. i \in 1..Len(incidents)
        BY <2>1, <3>1
      <3> QED
        BY <1>4, <3>1, <3>2 DEF SeenIncidents
    <2>3. Len(incidents') \in Int => Len(rows) <= Len(incidents')
      BY <1>4, <2>1 DEF Moves, SeenIncidents
    <2> QED
      BY <1>4, <2>2, <2>3 DEF SeenIncidents, Moves
  <1> QED
    BY <1>2, <1>3, <1>4

LEMMA MovedKeeps ==
  ASSUME TelemetryInv, TablesOK', Moved
  PROVE  TelemetryInv'
  <1> USE DEF TelemetryInv
  <1>1. PICK ids, x : Moves(ids, x)
    BY DEF Moved
  <1>2. /\ PageOK'
        /\ page'.kind = page.kind /\ page'.window = page.window /\ page'.scope = page.scope
        /\ page'.at = page.at /\ page'.answers = page.answers
        /\ Open => /\ page'.unsettled = page.unsettled \cup ids
                   /\ page'.changed = page.changed \cup x
    BY <1>1, NotesKeepPage DEF Moves, TablesOK
  <1>3. Open' <=> Open
    BY <1>2 DEF Open
  <1>4. PendingKnown'
    BY <1>1, <1>2, <1>3 DEF PendingKnown, Moves
  <1>5. CASE Open
    <2>1. \A query : Answered(query)' <=> Answered(query)
      BY <1>2, <1>3 DEF Answered
    <2>2. \A rows : /\ SeenChecks(rows) => SeenChecks(rows)'
                    /\ SeenFleet(rows) => SeenFleet(rows)'
                    /\ SeenIncidents(rows) => SeenIncidents(rows)'
      BY <1>1, <1>5, SeenStays
    <2>3. CheckAnswersOK'
      BY <1>2, <2>1, <2>2 DEF CheckAnswersOK
    <2>4. FleetAnswersOK'
      BY <1>2, <2>1, <2>2 DEF FleetAnswersOK
    <2> QED
      BY <1>2, <1>4, <2>3, <2>4
  <1>6. CASE ~Open
    BY <1>2, <1>3, <1>4, <1>6 DEF CheckAnswersOK, FleetAnswersOK, Answered
  <1> QED
    BY <1>5, <1>6

-----------------------------------------------------------------------------
(* The steps of a page.                                                    *)

LEMMA BeginKeeps ==
  ASSUME TelemetryInv, BeginPage
  PROVE  TelemetryInv'
  <1> USE DEF TelemetryInv
  <1>1. PICK kind \in Kinds, w \in Windows, scope \in SUBSET Targets :
          /\ Begin(kind, w, scope)
          /\ kind = "checks" => \E t \in Targets : scope = {t}
    <2>1. DayWindow \in Windows
      BY TelemetryAssumption
    <2>2. CASE \E w \in Windows, t \in Targets : Begin("metrics", w, {t})
      <3>1. PICK w \in Windows, t \in Targets : Begin("metrics", w, {t})
        BY <2>2
      <3>2. "metrics" \in Kinds /\ "metrics" # "checks" /\ {t} \in SUBSET Targets
        BY DEF Kinds
      <3> QED
        BY <3>1, <3>2
    <2>3. CASE \E w \in Windows : Begin("latency", w, Targets)
      <3>1. "latency" \in Kinds /\ "latency" # "checks" /\ Targets \in SUBSET Targets
        BY DEF Kinds
      <3> QED
        BY <2>3, <3>1
    <2>4. CASE \E t \in Targets : Begin("checks", DayWindow, {t})
      <3>1. PICK t \in Targets : Begin("checks", DayWindow, {t})
        BY <2>4
      <3>2. "checks" \in Kinds /\ {t} \in SUBSET Targets
        BY DEF Kinds
      <3> QED
        BY <2>1, <3>1, <3>2
    <2>5. CASE \E kind \in {"summary", "panels", "list"} : Begin(kind, DayWindow, Targets)
      <3>1. PICK kind \in {"summary", "panels", "list"} : Begin(kind, DayWindow, Targets)
        BY <2>5
      <3>2. kind \in Kinds /\ kind # "checks" /\ Targets \in SUBSET Targets
        BY DEF Kinds
      <3> QED
        BY <2>1, <3>1, <3>2
    <2> QED
      BY <2>2, <2>3, <2>4, <2>5 DEF BeginPage
  <1> DEFINE busy == {u \in Targets : running[u] # NULL}
             ids == {<<t, running[t]>> : t \in busy}
             name == [t \in busy |-> <<t, running[t]>>]
  <1>2. /\ UNCHANGED <<now, tables, events>>
        /\ page' = [kind |-> kind, window |-> w, scope |-> scope, at |-> now,
                    answers |-> <<>>, unsettled |-> ids, changed |-> {}]
    BY <1>1 DEF Begin, NoPage
  <1>3. IsFiniteSet(ids)
    <2>1. IsFiniteSet(busy)
      BY ListAssumption, FS_Subset
    <2>2. name \in [busy -> ids] /\ \A i \in ids : \E t \in busy : name[t] = i
      OBVIOUS
    <2> HIDE DEF busy, ids, name
    <2>3. name \in Surjection(busy, ids)
      BY <2>2, Fun_IsSurj
    <2> QED
      BY <2>1, <2>3, FS_Surjection
  <1>4. TablesOK'
    BY <1>2 DEF TablesOK, Rows, tables
  <1>5. PageOK'
    <2> HIDE DEF ids
    <2> QED
      BY <1>1, <1>2, <1>3, FS_EmptySet DEF PageOK, TablesOK, Kinds, Open
  <1>6. PendingKnown'
    BY <1>2 DEF PendingKnown, tables
  <1>7. \A query : ~Answered(query)'
    BY <1>2 DEF Answered
  <1> QED
    BY <1>4, <1>5, <1>6, <1>7 DEF CheckAnswersOK, FleetAnswersOK

LEMMA EndKeeps ==
  ASSUME TelemetryInv, EndPage
  PROVE  TelemetryInv'
  <1> USE DEF TelemetryInv
  <1>1. page' = NoPage /\ UNCHANGED <<now, tables, events>>
    BY DEF EndPage
  <1>2. TablesOK'
    BY <1>1 DEF TablesOK, Rows, tables
  <1>3. ~Open'
    BY <1>1 DEF Open, NoPage
  <1>4. PageOK'
    BY <1>1, <1>3, FS_EmptySet DEF PageOK, NoPage, TablesOK
  <1> QED
    BY <1>2, <1>3, <1>4 DEF PendingKnown, CheckAnswersOK, FleetAnswersOK, Answered

\* The tables of now are tables a query may see now.
LEMMA SeesTheTables ==
  ASSUME TablesOK
  PROVE  SeenChecks(checks) /\ SeenFleet(fleet) /\ SeenIncidents(incidents)
  BY DEF TablesOK, SeenChecks, SeenFleet, SeenIncidents

LEMMA QueryKeeps ==
  ASSUME TelemetryInv, RunQuery
  PROVE  TelemetryInv'
  <1> USE DEF TelemetryInv
  <1>1. PICK query \in Queries(page.kind) \ DOMAIN page.answers :
          /\ Open /\ After(query) \subseteq DOMAIN page.answers
          /\ page' = [page EXCEPT !.answers =
                        [q \in DOMAIN page.answers \cup {query} |->
                           IF q = query THEN Answer(q) ELSE page.answers[q]]]
          /\ UNCHANGED <<now, tables, events>>
    BY DEF RunQuery
  <1> DEFINE answers == [q \in DOMAIN page.answers \cup {query} |->
                           IF q = query THEN Answer(q) ELSE page.answers[q]]
  <1>2. /\ page' = [page EXCEPT !.answers = answers]
        /\ page'.kind = page.kind /\ page'.window = page.window /\ page'.scope = page.scope
        /\ page'.at = page.at /\ page'.answers = answers
        /\ page'.unsettled = page.unsettled /\ page'.changed = page.changed
    BY <1>1 DEF PageOK
  <1>3. /\ DOMAIN answers = DOMAIN page.answers \cup {query}
        /\ answers[query] = Answer(query)
        /\ \A q \in DOMAIN page.answers : answers[q] = page.answers[q]
    BY <1>1
  <1> HIDE DEF answers
  <1>4. TablesOK'
    BY <1>1 DEF TablesOK, Rows, tables
  <1>5. PageOK'
    BY <1>1, <1>2, <1>3 DEF PageOK, Open
  <1>6. PendingKnown'
    BY <1>1, <1>2 DEF PendingKnown, Open, tables
  <1>7. \A q : Answered(q)' <=> Answered(q) \/ q = query
    BY <1>1, <1>2, <1>3 DEF Answered, Open
  <1>8. \A rows : /\ SeenChecks(rows)' <=> SeenChecks(rows)
                  /\ SeenFleet(rows)' <=> SeenFleet(rows)
                  /\ SeenIncidents(rows)' <=> SeenIncidents(rows)
    BY <1>1, <1>2 DEF SeenChecks, SeenFleet, SeenIncidents, Relevant, tables
  <1>9. SeenChecks(checks) /\ SeenFleet(fleet) /\ SeenIncidents(incidents)
    BY SeesTheTables
  <1>10. \A q : Answered(q) => q # query /\ answers[q] = page.answers[q]
    BY <1>1, <1>3 DEF Answered
  <1>11. CheckAnswersOK'
    <2>1. /\ query = "uptime" =>
               answers[query] = GetUptime(checks, page.scope, page.window, page.at)
          /\ query = "latency" =>
               answers[query] = GetLatency(checks, page.scope, page.window, page.at)
          /\ query = "uptimeSeries" =>
               answers[query] = GetUptimeSeries(checks, page.scope, page.window, page.at)
          /\ query = "latencySeries" =>
               answers[query] = GetLatencySeries(checks, page.scope, page.window, page.at)
          /\ query = "checks" => answers[query] = ListChecks(checks, page.scope, ListLimit)
          /\ query = "checkCount" => answers[query] = CountChecks(checks, page.scope)
      BY <1>3 DEF Answer
    <2> QED
      BY <1>2, <1>7, <1>8, <1>9, <1>10, <2>1 DEF CheckAnswersOK
  <1>12. FleetAnswersOK'
    <2>1. /\ query = "distribution" => answers[query] = GetStatusDistribution(fleet)
          /\ query = "totalTargets" => answers[query] = CountTargets(fleet)
          /\ query = "items" => answers[query] = ListItems(fleet, 1, ListLimit)
          /\ query = "total" => answers[query] = Cardinality(Listed(fleet))
          /\ query = "active" => answers[query] = ActivePanel(incidents)
          /\ query = "rollup" =>
               answers[query] = GetUptimeByTarget(checks, page.answers["items"], page.window, now)
      BY <1>3 DEF Answer
    <2>2. query = "rollup" =>
            Answered("items") /\ DOMAIN answers["rollup"] \subseteq answers["items"]
      <3>1. SUFFICES ASSUME query = "rollup"
                     PROVE  Answered("items") /\ DOMAIN answers["rollup"] \subseteq answers["items"]
        OBVIOUS
      <3>2. "items" \in DOMAIN page.answers
        BY <1>1, <3>1 DEF After
      <3>3. DOMAIN answers["rollup"] \subseteq page.answers["items"]
        BY <2>1, <3>1 DEF GetUptimeByTarget, InWindow
      <3> QED
        BY <1>1, <1>3, <3>2, <3>3 DEF Answered
    <2> QED
      BY <1>2, <1>7, <1>8, <1>9, <1>10, <2>1, <2>2 DEF FleetAnswersOK
  <1> QED
    BY <1>4, <1>5, <1>6, <1>11, <1>12

LEMMA InvHolds == Spec => []TelemetryInv
  <1>1. Init => TelemetryInv
    BY InitSettled
  <1>2. ASSUME TelemetryInv, [Next]_vars
        PROVE  TelemetryInv'
    <2>1. CASE Tick
      BY <1>2, <2>1, TickMoves, MovedKeeps
    <2>2. CASE \E t \in Targets : StartCheck(t) \/ EndCheck(t) \/ TargetChanges(t)
      BY <1>2, <2>2, StartMoves, EndMoves, TargetMoves, MovedKeeps
    <2>3. CASE PruneOldChecks
      BY <1>2, <2>3, PruneMoves, MovedKeeps
    <2>4. CASE IncidentOpens \/ \E i \in DOMAIN incidents : IncidentChanges(i)
      BY <1>2, <2>4, IncidentMoves, MovedKeeps
    <2>5. CASE BeginPage
      BY <1>2, <2>5, BeginKeeps
    <2>6. CASE RunQuery
      BY <1>2, <2>6, QueryKeeps
    <2>7. CASE EndPage
      BY <1>2, <2>7, EndKeeps
    <2>8. CASE UNCHANGED vars
      <3>1. /\ UNCHANGED <<now, checks, running, fleet, incidents, page>>
        BY <2>8 DEF vars
      <3>2. /\ TablesOK' /\ PageOK' /\ PendingKnown'
        BY <1>2, <3>1 DEF TelemetryInv, TablesOK, Rows, PageOK, PendingKnown, Open
      <3>3. CheckAnswersOK' /\ FleetAnswersOK'
        BY <1>2, <3>1 DEF TelemetryInv, CheckAnswersOK, FleetAnswersOK, Answered, Open,
           SeenChecks, SeenFleet, SeenIncidents, Relevant
      <3> QED
        BY <3>2, <3>3 DEF TelemetryInv
    <2> QED
      BY <1>2, <2>1, <2>2, <2>3, <2>4, <2>5, <2>6, <2>7, <2>8 DEF Next
  <1> QED
    BY <1>1, <1>2, PTL DEF Spec
-----------------------------------------------------------------------------
(* The pieces of a page.                                                   *)

LEMMA MinOfTwo ==
  ASSUME NEW a \in Int, NEW b \in Int
  PROVE  Min({a, b}) = IF b < a THEN b ELSE a
  <1> DEFINE m == IF b < a THEN b ELSE a
  <1>1. m \in {a, b} /\ \A y \in {a, b} : m <= y
    OBVIOUS
  <1>2. \A x \in {a, b} : (\A y \in {a, b} : x <= y) => x = m
    OBVIOUS
  <1> HIDE DEF m
  <1>3. Min({a, b}) = m
    BY <1>1, <1>2 DEF Min
  <1> QED
    BY <1>3 DEF m

LEMMA MaxOfTwo ==
  ASSUME NEW a \in Int, NEW b \in Int
  PROVE  Max({a, b}) = IF b < a THEN a ELSE b
  <1> DEFINE m == IF b < a THEN a ELSE b
  <1>1. m \in {a, b} /\ \A y \in {a, b} : m >= y
    OBVIOUS
  <1>2. \A x \in {a, b} : (\A y \in {a, b} : x >= y) => x = m
    OBVIOUS
  <1> HIDE DEF m
  <1>3. Max({a, b}) = m
    BY <1>1, <1>2 DEF Max
  <1> QED
    BY <1>3 DEF m

\* A series counts in its buckets what its rows are.
LEMMA BucketsAddUp ==
  ASSUME NEW R, IsFiniteSet(R), NEW w, NEW series, NEW field,
         DOMAIN series = {BucketExpression(w, r) : r \in R},
         \A b \in DOMAIN series :
           series[b][field] = Cardinality({r \in R : BucketExpression(w, r) = b})
  PROVE  SumOver(series, field) = Cardinality(R)
  <1> DEFINE key == [r \in R |-> BucketExpression(w, r)]
             D == DOMAIN series
             f == [b \in D |-> series[b][field]]
  <1>1. key \in [R -> D] /\ \A b \in D : \E r \in R : key[r] = b
    OBVIOUS
  <1>2. \A b \in D : f[b] = Cardinality(GroupOf(R, key, b))
    <2>1. \A b : GroupOf(R, key, b) = {r \in R : BucketExpression(w, r) = b}
      BY DEF GroupOf
    <2> QED
      BY <2>1
  <1>3. DOMAIN f = D /\ SumOver(series, field) = SumFunctionOnSet(f, DOMAIN f)
    BY DEF SumOver, SumFunction, SumFunctionOnSet, FoldFunction
  <1> HIDE DEF key, D, f
  <1>4. IsFiniteSet(D)
    <2>1. key \in Surjection(R, D)
      BY <1>1, Fun_IsSurj
    <2> QED
      BY <2>1, FS_Surjection
  <1> QED
    BY <1>1, <1>2, <1>3, <1>4, GroupsAddUp

LEMMA SeriesAddUp ==
  ASSUME NEW rows, IsFiniteSet(rows), NEW scope, NEW w, NEW at
  PROVE  /\ SumOver(GetLatencySeries(rows, scope, w, at), "sampleCount")
              = Cardinality(Successful(InWindow(rows, scope, w, at)))
         /\ SumOver(GetUptimeSeries(rows, scope, w, at), "totalChecks")
              = Cardinality(InWindow(rows, scope, w, at))
  <1> DEFINE found == InWindow(rows, scope, w, at)
             latency == GetLatencySeries(rows, scope, w, at)
             uptime == GetUptimeSeries(rows, scope, w, at)
  <1>1. IsFiniteSet(found) /\ IsFiniteSet(Successful(found))
    <2>1. found \in SUBSET rows /\ Successful(found) \in SUBSET rows
      BY DEF InWindow, Successful
    <2> QED
      BY <2>1, FS_Subset
  <1>2. /\ DOMAIN latency = {BucketExpression(w, r) : r \in Successful(found)}
        /\ \A b \in DOMAIN latency : latency[b]["sampleCount"]
             = Cardinality({r \in Successful(found) : BucketExpression(w, r) = b})
    <2> HIDE DEF found
    <2>1. latency = [b \in DOMAIN Buckets(Successful(found), w) |->
            [ sampleCount |-> Cardinality(Buckets(Successful(found), w)[b]),
              averageMs   |-> Average(TotalLatency(Buckets(Successful(found), w)[b]),
                                      Cardinality(Buckets(Successful(found), w)[b])),
              p95Ms       |-> PercentileDisc(Buckets(Successful(found), w)[b], 95) ]]
      BY DEF GetLatencySeries, found
    <2> HIDE DEF latency
    <2> QED
      BY <2>1 DEF Buckets
  <1>3. /\ DOMAIN uptime = {BucketExpression(w, r) : r \in found}
        /\ \A b \in DOMAIN uptime : uptime[b]["totalChecks"]
             = Cardinality({r \in found : BucketExpression(w, r) = b})
    <2> HIDE DEF found
    <2>1. uptime = [b \in DOMAIN Buckets(found, w) |->
            [ totalChecks |-> Cardinality(Buckets(found, w)[b]),
              successfulChecks |-> Cardinality(Successful(Buckets(found, w)[b])),
              uptimePercent |-> CalculateUptimePercent(
                Cardinality(Successful(Buckets(found, w)[b])), Cardinality(Buckets(found, w)[b])) ]]
      BY DEF GetUptimeSeries, found
    <2> HIDE DEF uptime
    <2> QED
      BY <2>1 DEF Buckets
  <1> HIDE DEF found, latency, uptime
  <1>4. SumOver(latency, "sampleCount") = Cardinality(Successful(found))
    BY <1>1, <1>2, BucketsAddUp
  <1>5. SumOver(uptime, "totalChecks") = Cardinality(found)
    BY <1>1, <1>3, BucketsAddUp
  <1> QED
    BY <1>4, <1>5 DEF found, latency, uptime

\* Two queries that ask for the same checks of a page nearly agree.
LEMMA SeenAlike ==
  ASSUME PageOK,
         NEW P, \A r \in P : r \in CheckRow /\ Relevant(r),
         NEW ra, SeenChecks(ra), NEW A, A = ra \cap P,
         NEW rb, SeenChecks(rb), NEW B, B = rb \cap P
  PROVE  /\ IsFiniteSet(A) /\ IsFiniteSet(B)
         /\ Near(Cardinality(A), Cardinality(B), Cardinality(page.unsettled))
  <1> DEFINE U == page.unsettled
             id == [r \in CheckRow |-> Id(r)]
  <1>1. IsFiniteSet(A) /\ IsFiniteSet(B) /\ IsFiniteSet(U)
    BY FS_Subset DEF SeenChecks, Rows, PageOK
  <1>2. /\ \A x, y \in A : id[x] = id[y] => x = y
        /\ \A x, y \in B : id[x] = id[y] => x = y
    BY DEF SeenChecks, Rows, DistinctIds
  <1>3. /\ \A x \in A : id[x] \notin U => x \in B
        /\ \A x \in B : id[x] \notin U => x \in A
    BY DEF SeenChecks
  <1> HIDE DEF id, U
  <1>4. Near(Cardinality(A), Cardinality(B), Cardinality(U))
    BY <1>1, <1>2, <1>3, CloseCounts
  <1> QED
    BY <1>1, <1>4 DEF U

LEMMA WindowsAlike ==
  ASSUME PageOK, Open, page.kind # "checks", NEW ra, SeenChecks(ra), NEW rb, SeenChecks(rb)
  PROVE  LET in(rows) == InWindow(rows, page.scope, page.window, page.at)
             slack == Cardinality(page.unsettled)
         IN  /\ Near(Cardinality(in(ra)), Cardinality(in(rb)), slack)
             /\ Near(Cardinality(Successful(in(ra))), Cardinality(Successful(in(rb))), slack)
  <1> DEFINE in(rows) == InWindow(rows, page.scope, page.window, page.at)
             slack == Cardinality(page.unsettled)
             P == in(CheckRow)
             Q == Successful(P)
  <1>1. /\ \A r \in P : r \in CheckRow /\ Relevant(r)
        /\ \A r \in Q : r \in CheckRow /\ Relevant(r)
    BY DEF InWindow, Successful, Relevant
  <1>2. /\ in(ra) = ra \cap P /\ Successful(in(ra)) = ra \cap Q
        /\ in(rb) = rb \cap P /\ Successful(in(rb)) = rb \cap Q
    BY DEF InWindow, Successful, SeenChecks, Rows
  <1> HIDE DEF in, P, Q, slack
  <1>3. Near(Cardinality(in(ra)), Cardinality(in(rb)), slack)
    BY <1>1, <1>2, SeenAlike DEF slack
  <1>4. Near(Cardinality(Successful(in(ra))), Cardinality(Successful(in(rb))), slack)
    BY <1>1, <1>2, SeenAlike DEF slack
  <1> QED
    BY <1>3, <1>4 DEF in, slack

\* The latest checks of a target are as many as the limit, or all it has.
LEMMA LatestChecks ==
  ASSUME NEW rows, NEW t, Rows(rows)
  PROVE  Cardinality(ListChecks(rows, {t}, ListLimit)) =
           IF CountChecks(rows, {t}) < ListLimit THEN CountChecks(rows, {t}) ELSE ListLimit
  <1> DEFINE found == {r \in rows : r.target \in {t}}
             key == [r \in found |-> -r.at]
             ahead == [r \in found |-> {q \in found : q.at > r.at}]
  <1>1. IsFiniteSet(found) /\ found \subseteq CheckRow
    BY FS_Subset DEF Rows
  <1>2. key \in [found -> Int]
    BY <1>1 DEF CheckRow
  <1>3. \A x, y \in found : key[x] = key[y] => x = y
    BY <1>1 DEF Rows, DistinctIds, Id, CheckRow
  <1>4. \A x \in found : ahead[x] = {y \in found : key[y] < key[x]}
    BY <1>1 DEF CheckRow
  <1>5. ListLimit \in Nat
    BY TelemetryAssumption
  <1>6. /\ ListChecks(rows, {t}, ListLimit) = Take(ListLimit, found, ahead)
        /\ CountChecks(rows, {t}) = Cardinality(found)
    BY DEF ListChecks, CountChecks
  <1> HIDE DEF found, key, ahead
  <1> QED
    BY <1>1, <1>2, <1>3, <1>4, <1>5, <1>6, FirstRows

LEMMA PiecesAgree ==
  ASSUME TelemetryInv
  PROVE  PagePiecesAgree
  <1> USE DEF TelemetryInv
  <1> DEFINE answers == page.answers
             slack == Cardinality(page.unsettled)
             in(rows) == InWindow(rows, page.scope, page.window, page.at)
  <1>0. slack \in Nat
    BY FS_CardinalityType DEF PageOK
  <1>1. ASSUME Complete, page.kind \in {"metrics", "latency"}
        PROVE  Near(SumOver(answers["latencySeries"], "sampleCount"),
                    answers["latency"].sampleCount, slack)
    <2>1. Answered("latencySeries") /\ Answered("latency")
      BY <1>1 DEF Complete, Answered, Queries
    <2>2. PICK ra : SeenChecks(ra) /\ answers["latencySeries"]
                      = GetLatencySeries(ra, page.scope, page.window, page.at)
      BY <2>1 DEF CheckAnswersOK
    <2>3. PICK rb : SeenChecks(rb) /\ answers["latency"]
                      = GetLatency(rb, page.scope, page.window, page.at)
      BY <2>1 DEF CheckAnswersOK
    <2>4. SumOver(answers["latencySeries"], "sampleCount") = Cardinality(Successful(in(ra)))
      BY <2>2, SeriesAddUp DEF SeenChecks, Rows
    <2>5. answers["latency"].sampleCount = Cardinality(Successful(in(rb)))
      BY <2>3 DEF GetLatency
    <2>6. Near(Cardinality(Successful(in(ra))), Cardinality(Successful(in(rb))), slack)
      BY <1>1, <2>2, <2>3, WindowsAlike DEF Complete
    <2> QED
      BY <2>4, <2>5, <2>6
  <1>2. ASSUME Complete, page.kind = "metrics"
        PROVE  /\ Near(SumOver(answers["uptimeSeries"], "totalChecks"),
                       answers["uptime"].totalChecks, slack)
               /\ Near(answers["latency"].sampleCount, answers["uptime"].successfulChecks, slack)
    <2>1. Answered("uptimeSeries") /\ Answered("uptime") /\ Answered("latency")
      BY <1>2 DEF Complete, Answered, Queries
    <2>2. PICK ra : SeenChecks(ra) /\ answers["uptimeSeries"]
                      = GetUptimeSeries(ra, page.scope, page.window, page.at)
      BY <2>1 DEF CheckAnswersOK
    <2>3. PICK rb : SeenChecks(rb) /\ answers["uptime"]
                      = GetUptime(rb, page.scope, page.window, page.at)
      BY <2>1 DEF CheckAnswersOK
    <2>4. PICK rc : SeenChecks(rc) /\ answers["latency"]
                      = GetLatency(rc, page.scope, page.window, page.at)
      BY <2>1 DEF CheckAnswersOK
    <2>5. SumOver(answers["uptimeSeries"], "totalChecks") = Cardinality(in(ra))
      BY <2>2, SeriesAddUp DEF SeenChecks, Rows
    <2>6. /\ answers["uptime"].totalChecks = Cardinality(in(rb))
          /\ answers["uptime"].successfulChecks = Cardinality(Successful(in(rb)))
      BY <2>3 DEF GetUptime
    <2>7. answers["latency"].sampleCount = Cardinality(Successful(in(rc)))
      BY <2>4 DEF GetLatency
    <2>8. Near(Cardinality(in(ra)), Cardinality(in(rb)), slack)
      BY <1>2, <2>2, <2>3, WindowsAlike DEF Complete
    <2>9. Near(Cardinality(Successful(in(rc))), Cardinality(Successful(in(rb))), slack)
      BY <1>2, <2>3, <2>4, WindowsAlike DEF Complete
    <2> QED
      BY <2>5, <2>6, <2>7, <2>8, <2>9
  <1>3. ASSUME Complete, page.kind = "checks"
        PROVE  Near(Cardinality(answers["checks"]), Min({ListLimit, answers["checkCount"]}), slack)
    <2>1. Answered("checks") /\ Answered("checkCount")
      BY <1>3 DEF Complete, Answered, Queries
    <2>2. PICK t \in Targets : page.scope = {t}
      BY <1>3 DEF PageOK, Complete
    <2>3. PICK ra : SeenChecks(ra) /\ answers["checks"] = ListChecks(ra, {t}, ListLimit)
      BY <2>1, <2>2 DEF CheckAnswersOK
    <2>4. PICK rb : SeenChecks(rb) /\ answers["checkCount"] = CountChecks(rb, {t})
      BY <2>1, <2>2 DEF CheckAnswersOK
    <2> DEFINE P == {r \in CheckRow : r.target \in {t}}
               A == {r \in ra : r.target \in {t}}
               B == {r \in rb : r.target \in {t}}
    <2>5. /\ \A r \in P : r \in CheckRow /\ Relevant(r)
          /\ A = ra \cap P /\ B = rb \cap P
      BY <1>3, <2>2, <2>3, <2>4 DEF Relevant, SeenChecks, Rows
    <2>6. Cardinality(answers["checks"]) =
            IF CountChecks(ra, {t}) < ListLimit THEN CountChecks(ra, {t}) ELSE ListLimit
      BY <2>3, LatestChecks DEF SeenChecks
    <2>7. CountChecks(ra, {t}) = Cardinality(A) /\ answers["checkCount"] = Cardinality(B)
      BY <2>4 DEF CountChecks
    <2> HIDE DEF P, A, B
    <2>8. IsFiniteSet(A) /\ IsFiniteSet(B) /\ Near(Cardinality(A), Cardinality(B), slack)
      BY <2>3, <2>4, <2>5, SeenAlike
    <2>9. Cardinality(A) \in Nat /\ Cardinality(B) \in Nat /\ ListLimit \in Nat
      BY <2>8, FS_CardinalityType, TelemetryAssumption
    <2>10. Min({ListLimit, Cardinality(B)})
             = IF Cardinality(B) < ListLimit THEN Cardinality(B) ELSE ListLimit
      BY <2>9, MinOfTwo
    <2> HIDE DEF slack, answers
    <2> QED
      BY <1>0, <2>6, <2>7, <2>8, <2>9, <2>10 DEF Near
  <1> QED
    BY <1>1, <1>2, <1>3 DEF PagePiecesAgree

\* For every history of checks, every window, bucket width and limit: the
\* queries of a page count the same checks, except those that were under way
\* or were deleted while it was answered (metrics.service.ts, listChecks).
THEOREM PagesAddUp == Spec => []PagePiecesAgree
  BY InvHolds, PiecesAgree, PTL
-----------------------------------------------------------------------------
(* The numbers of the dashboard and of the list.                           *)

\* Two queries over the targets nearly agree on which are not archived.
LEMMA FleetsAlike ==
  ASSUME PageOK, NEW ra, SeenFleet(ra), NEW rb, SeenFleet(rb)
  PROVE  /\ IsFiniteSet(Listed(ra)) /\ IsFiniteSet(Listed(rb))
         /\ Near(Cardinality(Listed(ra)), Cardinality(Listed(rb)), Cardinality(page.changed))
  <1> DEFINE A == Listed(ra)
             B == Listed(rb)
             U == page.changed
             id == [t \in Targets |-> t]
  <1>1. IsFiniteSet(A) /\ IsFiniteSet(B) /\ IsFiniteSet(U)
    BY ListAssumption, FS_Subset DEF Listed, PageOK
  <1>2. /\ \A x, y \in A : id[x] = id[y] => x = y
        /\ \A x, y \in B : id[x] = id[y] => x = y
    BY DEF Listed
  <1>3. /\ \A x \in A : id[x] \notin U => x \in B
        /\ \A x \in B : id[x] \notin U => x \in A
    BY DEF Listed, SeenFleet
  <1> HIDE DEF A, B, U, id
  <1>4. Near(Cardinality(A), Cardinality(B), Cardinality(U))
    BY <1>1, <1>2, <1>3, CloseCounts
  <1> QED
    BY <1>1, <1>4 DEF A, B, U

LEMMA StatusesFinite == IsFiniteSet(TargetStatus)
  <1>1. IsFiniteSet({"UNKNOWN"})
    BY FS_Singleton
  <1>2. IsFiniteSet({"UNKNOWN"} \cup {"UP"})
    BY <1>1, FS_AddElement
  <1>3. IsFiniteSet(({"UNKNOWN"} \cup {"UP"}) \cup {"DEGRADED"})
    BY <1>2, FS_AddElement
  <1>4. IsFiniteSet((({"UNKNOWN"} \cup {"UP"}) \cup {"DEGRADED"}) \cup {"DOWN"})
    BY <1>3, FS_AddElement
  <1>5. IsFiniteSet(((({"UNKNOWN"} \cup {"UP"}) \cup {"DEGRADED"}) \cup {"DOWN"}) \cup {"PAUSED"})
    BY <1>4, FS_AddElement
  <1>6. TargetStatus
          = (((({"UNKNOWN"} \cup {"UP"}) \cup {"DEGRADED"}) \cup {"DOWN"}) \cup {"PAUSED"})
    BY DEF TargetStatus
  <1> QED
    BY <1>5, <1>6

\* The distribution counts every target that is not archived, once.
LEMMA DistributionAddsUp ==
  ASSUME NEW rows, rows \in [Targets -> FleetRow]
  PROVE  SumFunction(GetStatusDistribution(rows)) = Cardinality(Listed(rows))
  <1> DEFINE R == Listed(rows)
             key == [t \in R |-> rows[t].status]
             f == GetStatusDistribution(rows)
  <1>1. IsFiniteSet(R)
    BY ListAssumption, FS_Subset DEF Listed
  <1>2. \A t \in R : key[t] \in TargetStatus
    BY DEF Listed, FleetRow
  <1>3. \A s \in TargetStatus : f[s] = Cardinality(GroupOf(R, key, s))
    <2>1. ASSUME NEW s \in TargetStatus
          PROVE  {t \in Targets : ~rows[t].archived /\ rows[t].status = s} = GroupOf(R, key, s)
      BY DEF Listed, GroupOf
    <2> HIDE DEF R, key
    <2> QED
      BY <2>1 DEF GetStatusDistribution
  <1>4. DOMAIN f = TargetStatus /\ SumFunction(f) = SumFunctionOnSet(f, DOMAIN f)
    BY DEF GetStatusDistribution, SumFunction, SumFunctionOnSet, FoldFunction
  <1> HIDE DEF R, key, f
  <1>5. SumFunctionOnSet(f, TargetStatus) = Cardinality(R)
    BY <1>1, <1>2, <1>3, StatusesFinite, GroupsAddUp
  <1> QED
    BY <1>4, <1>5 DEF f, R

\* The panel shows every unresolved incident, or as many as it takes.
LEMMA PanelShows ==
  ASSUME NEW rows, rows \in Seq(IncidentRow)
  PROVE  /\ ActivePanel(rows) \subseteq Unresolved(rows)
         /\ ActivePanel(rows) = Unresolved(rows) \/ Cardinality(ActivePanel(rows)) = ActiveTake
  <1> DEFINE S == Unresolved(rows)
             key == [i \in S |-> -i]
             ahead == [i \in S |-> {k \in S : k > i}]
             shown == Take(ActiveTake, S, ahead)
  <1>1. S \subseteq 1..Len(rows) /\ Len(rows) \in Nat
    BY DEF Unresolved
  <1>2. IsFiniteSet(S)
    <2>1. IsFiniteSet(1..Len(rows))
      BY <1>1, FS_Interval
    <2> HIDE DEF S
    <2> QED
      BY <1>1, <2>1, FS_Subset
  <1>3. /\ key \in [S -> Int]
        /\ \A x, y \in S : key[x] = key[y] => x = y
        /\ \A x \in S : ahead[x] = {y \in S : key[y] < key[x]}
    <2> HIDE DEF S
    <2>1. S \subseteq Int
      BY <1>1
    <2> QED
      BY <2>1
  <1>4. ActivePanel(rows) = shown
    BY DEF ActivePanel
  <1> HIDE DEF S, key, ahead
  <1>5. /\ shown \subseteq S
        /\ Cardinality(shown) = IF Cardinality(S) < ActiveTake THEN Cardinality(S) ELSE ActiveTake
    BY <1>2, <1>3, PanelAssumption, FirstRows
  <1>6. shown = S \/ Cardinality(shown) = ActiveTake
    <2>1. CASE Cardinality(S) < ActiveTake
      <3>1. Cardinality(shown) = Cardinality(S)
        BY <1>5, <2>1
      <3> HIDE DEF shown
      <3> QED
        BY <1>2, <1>5, <3>1, FS_Subset
    <2>2. CASE ~(Cardinality(S) < ActiveTake)
      BY <1>5, <2>2
    <2> QED
      BY <2>1, <2>2
  <1> QED
    BY <1>4, <1>5, <1>6 DEF S

\* The first page of the list has as many targets as fit, or all.
LEMMA FirstPage ==
  ASSUME NEW rows, IsFiniteSet(Listed(rows))
  PROVE  Cardinality(ListItems(rows, 1, ListLimit)) =
           IF Cardinality(Listed(rows)) < ListLimit THEN Cardinality(Listed(rows)) ELSE ListLimit
  <1> DEFINE S == Listed(rows)
             ahead == [t \in S |-> {u \in S : ListOrder[u] < ListOrder[t]}]
             key == [t \in S |-> ListOrder[t]]
  <1>1. S \subseteq Targets
    BY DEF Listed
  <1>2. /\ key \in [S -> Int]
        /\ \A x, y \in S : key[x] = key[y] => x = y
        /\ \A x \in S : ahead[x] = {y \in S : key[y] < key[x]}
    <2> HIDE DEF S
    <2> QED
      BY <1>1, ListAssumption
  <1>3. ListLimit \in Nat
    BY TelemetryAssumption
  <1>4. 1 * ListLimit = ListLimit /\ (1 - 1) * ListLimit = 0
    BY <1>3
  <1>5. ListItems(rows, 1, ListLimit) = Take(ListLimit, S, ahead) \ Take(0, S, ahead)
    BY <1>4 DEF ListItems
  <1> HIDE DEF S, key, ahead
  <1>6. /\ IsFiniteSet(Take(0, S, ahead))
        /\ Cardinality(Take(0, S, ahead)) = IF Cardinality(S) < 0 THEN Cardinality(S) ELSE 0
    BY <1>2, FirstRows DEF S
  <1>7. Cardinality(S) \in Nat
    BY FS_CardinalityType DEF S
  <1>8. Take(0, S, ahead) = {}
    BY <1>6, <1>7, FS_EmptySet
  <1>9. Cardinality(Take(ListLimit, S, ahead))
          = IF Cardinality(S) < ListLimit THEN Cardinality(S) ELSE ListLimit
    BY <1>2, <1>3, FirstRows DEF S
  <1> QED
    BY <1>5, <1>8, <1>9 DEF S

LEMMA NumbersAddUp ==
  ASSUME TelemetryInv
  PROVE  DashboardAddsUp
  <1> USE DEF TelemetryInv
  <1> DEFINE answers == page.answers
             slack == Cardinality(page.changed)
  <1>1. ASSUME Complete, page.kind = "summary"
        PROVE  Near(SumFunction(answers["distribution"]), answers["totalTargets"], slack)
    <2>1. Answered("distribution") /\ Answered("totalTargets")
      BY <1>1 DEF Complete, Answered, Queries
    <2>2. PICK ra : SeenFleet(ra) /\ answers["distribution"] = GetStatusDistribution(ra)
      BY <2>1 DEF FleetAnswersOK
    <2>3. PICK rb : SeenFleet(rb) /\ answers["totalTargets"] = CountTargets(rb)
      BY <2>1 DEF FleetAnswersOK
    <2>4. SumFunction(answers["distribution"]) = Cardinality(Listed(ra))
      BY <2>2, DistributionAddsUp DEF SeenFleet
    <2>5. answers["totalTargets"] = Cardinality(Listed(rb))
      BY <2>3 DEF CountTargets, Listed
    <2> QED
      BY <2>2, <2>3, <2>4, <2>5, FleetsAlike
  <1>2. ASSUME Complete, page.kind = "panels", NEW i \in DOMAIN incidents \ page.changed
        PROVE  \/ i \in answers["active"] <=> incidents[i].status # "RESOLVED"
               \/ Cardinality(answers["active"]) = ActiveTake
    <2>1. Answered("active")
      BY <1>2 DEF Complete, Answered, Queries
    <2>2. PICK rows : SeenIncidents(rows) /\ answers["active"] = ActivePanel(rows)
      BY <2>1 DEF FleetAnswersOK
    <2>3. i \in 1..Len(incidents) /\ incidents[i] \in IncidentRow
      BY DEF TablesOK
    <2>4. i \in DOMAIN rows /\ rows[i] = incidents[i]
      BY <1>2, <2>2, <2>3 DEF SeenIncidents
    <2>5. i \in Unresolved(rows) <=> incidents[i].status # "RESOLVED"
      BY <2>3, <2>4 DEF Unresolved, IncidentRow
    <2> QED
      BY <2>2, <2>5, PanelShows DEF SeenIncidents
  <1>3. ASSUME Complete, page.kind = "list"
        PROVE  /\ Near(Cardinality(answers["items"]), Min({ListLimit, answers["total"]}), slack)
               /\ DOMAIN answers["rollup"] \subseteq answers["items"]
    <2>1. Answered("items") /\ Answered("total") /\ Answered("rollup")
      BY <1>3 DEF Complete, Answered, Queries
    <2>2. PICK ra : SeenFleet(ra) /\ answers["items"] = ListItems(ra, 1, ListLimit)
      BY <2>1 DEF FleetAnswersOK
    <2>3. PICK rb : SeenFleet(rb) /\ answers["total"] = Cardinality(Listed(rb))
      BY <2>1 DEF FleetAnswersOK
    <2> DEFINE a == Cardinality(Listed(ra))
               b == Cardinality(Listed(rb))
    <2>4. IsFiniteSet(Listed(ra)) /\ IsFiniteSet(Listed(rb)) /\ Near(a, b, slack)
      BY <2>2, <2>3, FleetsAlike
    <2>5. a \in Nat /\ b \in Nat /\ ListLimit \in Nat /\ slack \in Nat
      BY <2>4, FS_CardinalityType, TelemetryAssumption DEF PageOK
    <2>6. Cardinality(answers["items"]) = IF a < ListLimit THEN a ELSE ListLimit
      BY <2>2, <2>4, FirstPage
    <2>7. answers["total"] = b
      BY <2>3
    <2> HIDE DEF a, b, answers, slack
    <2>8. Min({ListLimit, b}) = IF b < ListLimit THEN b ELSE ListLimit
      BY <2>5, MinOfTwo
    <2>9. Near(Cardinality(answers["items"]), Min({ListLimit, answers["total"]}), slack)
      BY <2>4, <2>5, <2>6, <2>7, <2>8 DEF Near
    <2> QED
      BY <2>1, <2>9 DEF FleetAnswersOK, answers
  <1> QED
    BY <1>1, <1>2, <1>3 DEF DashboardAddsUp

\* For every number of targets and incidents and every limit: the distribution
\* adds up to the total, the panel shows every unresolved incident or is full,
\* and a page of the list is as long as its total says, except for what changed
\* while the queries ran (dashboard.service.ts, targets.service.ts findAll).
THEOREM DashboardsAddUp == Spec => []DashboardAddsUp
  BY InvHolds, NumbersAddUp, PTL
-----------------------------------------------------------------------------
(* A chart's points.                                                       *)

LEMMA DivBounds ==
  ASSUME NEW a \in Int, NEW b \in Nat \ {0}
  PROVE  a \div b \in Int /\ (a \div b) * b <= a /\ a < (a \div b) * b + b
  OBVIOUS

LEMMA Scaled ==
  ASSUME NEW x \in Int, NEW y \in Int, NEW b \in Nat \ {0}, x * b < y * b + b
  PROVE  x <= y
  <1>1. SUFFICES ASSUME x - y - 1 >= 0 PROVE FALSE
    OBVIOUS
  <1>2. \A n \in Nat : n * b >= 0
    OBVIOUS
  <1>3. (x - y - 1) * b >= 0
    BY <1>1, <1>2
  <1>4. (x - y - 1) * b = x * b - y * b - b
    OBVIOUS
  <1>5. x * b \in Int /\ y * b \in Int
    OBVIOUS
  <1> QED
    BY <1>3, <1>4, <1>5

\* The buckets of a window of width W start at one of that many places.
LEMMA BucketPlace ==
  ASSUME NEW t \in Int, NEW W \in Nat \ {0}, NEW B \in Nat \ {0}, NEW at \in Int,
         t - W <= at, at <= t
  PROVE  /\ at \div B \in Int /\ (t - W) \div B \in Int /\ CeilDiv(W, B) \in Nat
         /\ at \div B - (t - W) \div B \in 0..CeilDiv(W, B)
  <1> DEFINE q == at \div B
             p == (t - W) \div B
             c == CeilDiv(W, B)
             qB == q * B
             pB == p * B
             cB == c * B
  <1>1. q \in Int /\ qB <= at /\ at < qB + B
    BY DivBounds
  <1>2. p \in Int /\ pB <= t - W /\ t - W < pB + B
    BY DivBounds
  <1>3. c \in Int /\ cB <= W + B - 1 /\ W + B - 1 < cB + B
    BY DivBounds DEF CeilDiv
  <1>4. p <= q
    <2>1. qB \in Int /\ pB \in Int
      BY <1>1, <1>2
    <2>2. pB < qB + B
      <3> HIDE DEF q, p, qB, pB
      <3> QED
        BY <1>1, <1>2, <2>1
    <2> QED
      BY <1>1, <1>2, <2>2, Scaled
  <1>5. 0 <= c
    <2>1. cB \in Int
      BY <1>3
    <2>2. 0 * B < cB + B
      <3> HIDE DEF c, cB
      <3> QED
        BY <1>3, <2>1
    <2> QED
      BY <1>3, <2>2, Scaled
  <1>6. q <= p + c
    <2>1. qB \in Int /\ pB \in Int /\ cB \in Int /\ (p + c) * B = pB + cB
      BY <1>1, <1>2, <1>3
    <2>2. qB < (p + c) * B + B
      <3> HIDE DEF q, p, c, qB, pB, cB
      <3> QED
        BY <1>1, <1>2, <1>3, <2>1
    <2>3. p + c \in Int
      BY <1>2, <1>3
    <2> HIDE DEF q, p, c
    <2> QED
      BY <1>1, <2>2, <2>3, Scaled
  <1> HIDE DEF q, p, c
  <1>7. q - p \in 0..c
    BY <1>1, <1>2, <1>3, <1>4, <1>5, <1>6
  <1> QED
    BY <1>1, <1>2, <1>3, <1>5, <1>7 DEF q, p, c

LEMMA ChartFits ==
  ASSUME TablesOK
  PROVE  SeriesFitsChart
  <1> SUFFICES ASSUME NEW w \in Windows
               PROVE  LET series == GetUptimeSeries(checks, Targets, w, now)
                      IN  /\ Cardinality(DOMAIN series) <= CeilDiv(WindowHours[w], BucketHours[w]) + 1
                          /\ \A b \in DOMAIN series :
                               b + BucketHours[w] > WindowStart(w, now) /\ b <= now
    BY DEF SeriesFitsChart
  <1> DEFINE found == InWindow(checks, Targets, w, now)
             D == DOMAIN GetUptimeSeries(checks, Targets, w, now)
             W == WindowHours[w]
             B == BucketHours[w]
             c == CeilDiv(W, B)
             p == (now - W) \div B
             place == [i \in 0..c |-> (p + i) * B]
             places == {place[i] : i \in 0..c}
  <1>1. W \in Nat \ {0} /\ B \in Nat \ {0} /\ now \in Int
    BY WindowAssumption DEF TablesOK
  <1>2. D = {(r.at \div B) * B : r \in found}
    BY DEF GetUptimeSeries, Buckets, BucketExpression
  <1>3. \A r \in found : r.at \in Int /\ now - W <= r.at /\ r.at <= now
    BY DEF InWindow, WindowStart, TablesOK, Rows, CheckRow
  <1>4. p \in Int /\ c \in Nat
    <2>1. now - W <= now - W /\ now - W <= now /\ now - W \in Int
      BY <1>1
    <2> HIDE DEF W, B
    <2> QED
      BY <1>1, <2>1, BucketPlace
  <1>5. ASSUME NEW r \in found
        PROVE  /\ (r.at \div B) * B \in places
               /\ (r.at \div B) * B + B > now - W /\ (r.at \div B) * B <= now
    <2> DEFINE q == r.at \div B
    <2>1. q \in Int /\ q - p \in 0..c
      <3> HIDE DEF W, B, found
      <3> QED
        BY <1>1, <1>3, BucketPlace
    <2>2. q * B <= r.at /\ r.at < q * B + B /\ q * B \in Int
      <3> HIDE DEF W, B, found
      <3>1. r.at \in Int /\ B \in Nat \ {0}
        BY <1>1, <1>3
      <3>2. q * B <= r.at /\ r.at < q * B + B
        BY <3>1, DivBounds
      <3>3. q * B \in Int
        BY <2>1, <3>1
      <3> QED
        BY <3>2, <3>3
    <2>3. p + (q - p) = q
      BY <1>4, <2>1
    <2> HIDE DEF q, p, c, W, B, found
    <2>4. q * B \in places
      <3>1. place[q - p] = q * B
        BY <2>1, <2>3
      <3> QED
        BY <2>1, <3>1
    <2>5. q * B + B > now - W /\ q * B <= now
      BY <1>1, <1>3, <2>2
    <2> QED
      BY <2>4, <2>5 DEF q
  <1>6. IsFiniteSet(0..c) /\ Cardinality(0..c) = c + 1
    <2> HIDE DEF c
    <2>1. 0 \in Int /\ c \in Int /\ ~(0 > c)
      BY <1>4
    <2> QED
      BY <2>1, FS_Interval
  <1>7. IsFiniteSet(places) /\ Cardinality(places) <= c + 1
    <2>1. place \in [0..c -> places] /\ \A x \in places : \E i \in 0..c : place[i] = x
      OBVIOUS
    <2> HIDE DEF place, places, c
    <2>2. place \in Surjection(0..c, places)
      BY <2>1, Fun_IsSurj
    <2> QED
      BY <1>6, <2>2, FS_Surjection
  <1>8. D \subseteq places
    <2> HIDE DEF D, B, places, found
    <2> QED
      BY <1>2, <1>5
  <1>9. Cardinality(D) <= c + 1
    <2> HIDE DEF D, places, c
    <2>1. IsFiniteSet(D) /\ Cardinality(D) <= Cardinality(places)
      BY <1>7, <1>8, FS_Subset
    <2> QED
      BY <1>4, <1>7, <2>1, FS_CardinalityType
  <1>10. \A b \in D : b + B > now - W /\ b <= now
    <2> HIDE DEF D, B, places, found, W
    <2> QED
      BY <1>2, <1>5
  <1> QED
    BY <1>9, <1>10 DEF WindowStart

\* For every window and bucket width, whatever the time: a chart has at most
\* one point for each bucket of its window and one more, and each of them
\* reaches into the window (bucketExpression, metrics.service.ts).
THEOREM ChartsFit == Spec => []SeriesFitsChart
  BY InvHolds, ChartFits, PTL DEF TelemetryInv

-----------------------------------------------------------------------------
(* What the retention job deletes.                                         *)

LEMMA PruneKeepsWindows ==
  ASSUME TablesOK, [Next]_vars
  PROVE  \A r \in checks \ checks' : \A w \in Windows : r.at < WindowStart(w, now)
  <1>1. SUFFICES ASSUME NEW r \in checks \ checks', NEW w \in Windows
                 PROVE  r.at < WindowStart(w, now)
    OBVIOUS
  <1>2. PruneOldChecks
    <2>1. CASE UNCHANGED vars
      BY <2>1 DEF vars
    <2>2. CASE Next
      BY <2>2 DEF Next, Tick, StartCheck, EndCheck, TargetChanges, IncidentOpens, IncidentChanges,
         Change, BeginPage, Begin, RunQuery, EndPage, tables
    <2> QED
      BY <2>1, <2>2
  <1> DEFINE kept == MaxOf(1, RetentionDays) * DayTicks
  <1>3. r.at < now - kept
    BY <1>2 DEF PruneOldChecks, Pruned
  <1>4. WindowHours[w] <= kept /\ kept \in Int
    BY RetentionAssumption DEF MaxOf
  <1>5. r.at \in Int /\ now \in Int /\ WindowHours[w] \in Int
    BY WindowAssumption DEF TablesOK, Rows, CheckRow
  <1> HIDE DEF kept
  <1> QED
    BY <1>3, <1>4, <1>5 DEF WindowStart

\* For every retention that is as long as the longest window: the job deletes no
\* check that a window asked for at that time, or later, holds (retention.service.ts).
THEOREM RetentionKeepsWindows == Spec => WindowsKept
  <1>1. ASSUME TelemetryInv, [Next]_vars
        PROVE  \A r \in checks \ checks' : \A w \in Windows : r.at < WindowStart(w, now)
    BY <1>1, PruneKeepsWindows DEF TelemetryInv
  <1> QED
    BY <1>1, InvHolds, PTL DEF Spec, WindowsKept
-----------------------------------------------------------------------------
(* Percentiles.                                                            *)

\* How many of the values are below v, and how many are not above it.
Below(values, v) == {i \in DOMAIN values : values[i] < v}
UpTo(values, v) == {i \in DOMAIN values : values[i] <= v}

LEMMA Bounded ==
  ASSUME NEW S, IsFiniteSet(S), NEW f \in [S -> Nat]
  PROVE  \E m \in Nat : \A x \in S : f[x] <= m
  <1> DEFINE Good == {T \in SUBSET S : \E m \in Nat : \A x \in T : f[x] <= m}
  <1>1. {} \in Good
    OBVIOUS
  <1>2. ASSUME NEW T \in SUBSET S, NEW x \in S, T \in Good, x \notin T
        PROVE  T \cup {x} \in Good
    <2>1. PICK m \in Nat : \A y \in T : f[y] <= m
      BY <1>2
    <2>2. \A y \in T \cup {x} : f[y] <= m + f[x]
      BY <2>1
    <2>3. m + f[x] \in Nat
      OBVIOUS
    <2> QED
      BY <2>2, <2>3
  <1> HIDE DEF Good
  <1>3. S \in Good
    BY <1>1, <1>2, ElementInduction
  <1> QED
    BY <1>3 DEF Good

LEMMA LeastNatural ==
  ASSUME NEW S \in SUBSET Nat, S # {}
  PROVE  \E m \in S : \A x \in S : m <= x
  <1>1. PICK m \in S : \A x \in S : ~(<<x, m>> \in OpToRel(<, Nat))
    BY NatLessThanWellFounded, WFMin
  <1>2. \A x \in S : ~(x < m)
    BY <1>1 DEF OpToRel
  <1> QED
    BY <1>2

LEMMA CountsGrow ==
  ASSUME NEW n \in Nat, NEW values \in [1..n -> Nat], NEW v
  PROVE  /\ IsFiniteSet(Below(values, v)) /\ Cardinality(Below(values, v)) \in 0..n
         /\ IsFiniteSet(UpTo(values, v)) /\ Cardinality(UpTo(values, v)) \in 0..n
  <1>1. IsFiniteSet(1..n) /\ Cardinality(1..n) = n
    BY FS_Interval
  <1>2. Below(values, v) \in SUBSET (1..n) /\ UpTo(values, v) \in SUBSET (1..n)
    BY DEF Below, UpTo
  <1>3. /\ IsFiniteSet(Below(values, v)) /\ Cardinality(Below(values, v)) <= n
        /\ IsFiniteSet(UpTo(values, v)) /\ Cardinality(UpTo(values, v)) <= n
    BY <1>1, <1>2, FS_Subset
  <1> QED
    BY <1>3, FS_CardinalityType

\* Each place of the ascending order has a value.
LEMMA PlaceHasValue ==
  ASSUME NEW n \in Nat, NEW values \in [1..n -> Nat], NEW k \in 1..n
  PROVE  \E i \in 1..n : /\ Cardinality(Below(values, values[i])) < k
                         /\ k <= Cardinality(UpTo(values, values[i]))
  <1> DEFINE Enough == {v \in Nat : k <= Cardinality(UpTo(values, v))}
  <1>1. Enough # {}
    <2>1. IsFiniteSet(1..n) /\ Cardinality(1..n) = n
      BY FS_Interval
    <2>2. PICK m \in Nat : \A i \in 1..n : values[i] <= m
      BY <2>1, Bounded
    <2>3. UpTo(values, m) = 1..n
      BY <2>2 DEF UpTo
    <2> QED
      BY <2>1, <2>3
  <1>2. PICK v \in Enough : \A u \in Enough : v <= u
    BY <1>1, LeastNatural
  <1>3. v \in Nat /\ k <= Cardinality(UpTo(values, v))
    BY <1>2
  <1>4. Cardinality(Below(values, v)) < k
    <2>1. CASE v = 0
      <3>1. Below(values, v) = {}
        BY <2>1 DEF Below
      <3> QED
        BY <3>1, FS_EmptySet
    <2>2. CASE v # 0
      <3>1. v - 1 \in Nat /\ v - 1 \notin Enough
        BY <1>2, <1>3, <2>2
      <3>2. Below(values, v) = UpTo(values, v - 1)
        BY <1>3 DEF Below, UpTo
      <3>3. Cardinality(UpTo(values, v - 1)) \in Nat
        BY CountsGrow
      <3> QED
        BY <3>1, <3>2, <3>3
    <2> QED
      BY <2>1, <2>2
  <1>5. \E i \in 1..n : values[i] = v
    <2>1. SUFFICES ASSUME \A i \in 1..n : values[i] # v PROVE FALSE
      OBVIOUS
    <2>2. UpTo(values, v) = Below(values, v)
      BY <1>3, <2>1 DEF UpTo, Below
    <2>3. Cardinality(UpTo(values, v)) \in Nat
      BY CountsGrow
    <2> QED
      BY <1>3, <1>4, <2>2, <2>3
  <1> QED
    BY <1>3, <1>4, <1>5

LEMMA SortedValue ==
  ASSUME NEW n \in Nat, NEW values \in [1..n -> Nat], NEW k \in 1..n
  PROVE  /\ \E i \in 1..n : Sorted(values)[k] = values[i]
         /\ Cardinality(Below(values, Sorted(values)[k])) < k
         /\ k <= Cardinality(UpTo(values, Sorted(values)[k]))
  <1> DEFINE P(v) == Cardinality(Below(values, v)) < k /\ k <= Cardinality(UpTo(values, v))
  <1>1. Range(values) = {values[i] : i \in 1..n}
    BY DEF Range
  <1>2. \E v \in Range(values) : P(v)
    BY <1>1, PlaceHasValue
  <1>3. Sorted(values)[k] = CHOOSE v \in Range(values) : P(v)
    BY DEF Sorted, Below, UpTo
  <1> HIDE DEF P
  <1>4. Sorted(values)[k] \in Range(values) /\ P(Sorted(values)[k])
    BY <1>2, <1>3
  <1> QED
    BY <1>1, <1>4 DEF P

\* s is the least value whose share of the values reaches q percent.
LeastReaching(values, n, q, s) ==
  /\ \E i \in 1..n : s = values[i]
  /\ 100 * Cardinality(UpTo(values, s)) >= q * n
  /\ \A i \in 1..n :
       100 * Cardinality(UpTo(values, values[i])) >= q * n => s <= values[i]

LEMMA NearestRank ==
  ASSUME NEW n \in Nat, NEW values \in [1..n -> Nat], NEW p \in Int,
         n # 0, Len(values) = n, values # <<>>
  PROVE  LeastReaching(values, n, IF p < 100 THEN p ELSE 100, NearestRankPercentile(values, p))
  <1> DEFINE q == IF p < 100 THEN p ELSE 100
  <1> DEFINE s == NearestRankPercentile(values, p)
  <1> DEFINE c == IF q < 0 THEN 0 ELSE q
             cn == c * n
             r == CeilDiv(cn, 100)
             k == IF r < 1 THEN 1 ELSE r
  <1>1. c \in 0..100 /\ q \in Int
    OBVIOUS
  <1>2. cn \in Nat /\ cn <= 100 * n /\ q * n \in Int /\ q * n <= cn
    <2>1. \A a \in Nat, b \in Nat : a * b \in Nat
      OBVIOUS
    <2>2. \A a \in Nat, b \in Nat, d \in Nat : a <= b => a * d <= b * d
      OBVIOUS
    <2>3. \A a \in Int, d \in Nat : a < 0 => a * d <= 0
      OBVIOUS
    <2>4. cn \in Nat /\ cn <= 100 * n
      BY <1>1, <2>1, <2>2
    <2>5. q * n <= cn
      <3>1. CASE q < 0
        BY <1>1, <2>3, <2>4, <3>1
      <3>2. CASE ~(q < 0)
        BY <1>1, <3>2
      <3> QED
        BY <3>1, <3>2
    <2> QED
      BY <1>1, <2>4, <2>5
  <1>3. r \in Nat /\ cn <= 100 * r /\ 100 * r < cn + 100
    <2> HIDE DEF cn
    <2> QED
      BY <1>2 DEF CeilDiv
  <1>4. k \in 1..n /\ 100 * k >= cn /\ (k = 1 \/ 100 * (k - 1) < cn)
    <2> HIDE DEF r, cn
    <2> QED
      BY <1>2, <1>3
  <1>5. s = Sorted(values)[k]
    <2> DEFINE m == Max({0, p})
    <2>1. m = IF p < 0 THEN 0 ELSE p
      BY MaxOfTwo
    <2>2. Min({100, m}) = c
      <3> HIDE DEF m, c
      <3>1. m \in Int
        BY <2>1
      <3>2. Min({100, m}) = IF m < 100 THEN m ELSE 100
        BY <3>1, MinOfTwo
      <3> QED
        BY <2>1, <3>2 DEF c
    <2>3. Max({1, r}) = k
      BY <1>3, MaxOfTwo
    <2> HIDE DEF c, r, k
    <2> QED
      BY <2>2, <2>3 DEF NearestRankPercentile, r
  <1> HIDE DEF c, cn, r, k
  <1>6. /\ \E i \in 1..n : s = values[i]
        /\ Cardinality(Below(values, s)) < k
        /\ k <= Cardinality(UpTo(values, s))
    <2>1. n \in Nat /\ k \in 1..n
      BY <1>4
    <2>2. /\ \E i \in 1..n : Sorted(values)[k] = values[i]
          /\ Cardinality(Below(values, Sorted(values)[k])) < k
          /\ k <= Cardinality(UpTo(values, Sorted(values)[k]))
      BY <2>1, SortedValue
    <2> QED
      BY <1>5, <2>2
  <1>7. Cardinality(Below(values, s)) \in Nat /\ Cardinality(UpTo(values, s)) \in Nat
    BY CountsGrow
  <1>8. 100 * Cardinality(UpTo(values, s)) >= q * n
    BY <1>2, <1>4, <1>6, <1>7
  <1>9. ASSUME NEW i \in 1..n, 100 * Cardinality(UpTo(values, values[i])) >= q * n,
               ~(s <= values[i])
        PROVE  FALSE
    <2> DEFINE u == Cardinality(UpTo(values, values[i]))
    <2>1. s \in Nat /\ values[i] \in Nat /\ values[i] < s
      BY <1>6, <1>9
    <2>2. UpTo(values, values[i]) \in SUBSET Below(values, s)
      BY <2>1 DEF UpTo, Below
    <2>3. u <= Cardinality(Below(values, s)) /\ u \in Nat
      BY <2>2, CountsGrow, FS_Subset
    <2>4. u # 0
      <3>1. i \in UpTo(values, values[i])
        BY <2>1 DEF UpTo
      <3>2. IsFiniteSet(UpTo(values, values[i]))
        BY CountsGrow
      <3> QED
        BY <3>1, <3>2, FS_EmptySet
    <2>5. 100 * u >= q * n
      BY <1>9
    <2> HIDE DEF u
    <2>6. k # 1 /\ 100 * (k - 1) < cn
      BY <1>4, <1>6, <1>7, <2>3, <2>4
    <2>7. cn = q * n
      <3>1. CASE q < 0
        BY <1>1, <1>2, <1>4, <2>6, <3>1 DEF c, cn
      <3>2. CASE ~(q < 0)
        BY <3>2 DEF c, cn
      <3> QED
        BY <3>1, <3>2
    <2> QED
      BY <1>2, <1>4, <1>6, <1>7, <2>3, <2>5, <2>6, <2>7
  <1> QED
    BY <1>6, <1>8, <1>9 DEF LeastReaching
\* A sample, listed in any order.
LEMMA SampleListed ==
  ASSUME NEW sample, IsFiniteSet(sample), sample \subseteq CheckRow,
         NEW n, n = Cardinality(sample), NEW listed, listed = SetToSeq(sample),
         NEW values, values = [i \in DOMAIN listed |-> listed[i].latencyMs]
  PROVE  /\ n \in Nat /\ listed \in Bijection(1..n, sample)
         /\ values \in [1..n -> Nat] /\ Len(values) = n
         /\ \A i \in 1..n : values[i] = listed[i].latencyMs
         /\ values = <<>> <=> n = 0
  <1>1. n \in Nat /\ IsFiniteSet(1..n) /\ Cardinality(1..n) = n
    BY FS_CardinalityType, FS_Interval
  <1>2. \E f \in [1..n -> sample] : IsInjective(f)
    <2>1. ExistsBijection(1..n, sample)
      BY <1>1, FS_CardinalityType
    <2>2. PICK f : f \in Bijection(1..n, sample)
      BY <2>1 DEF ExistsBijection
    <2>3. f \in [1..n -> sample] /\ \A i, j \in 1..n : f[i] = f[j] => i = j
      BY <1>1, <2>2, Fun_BijectionProperties
    <2>4. DOMAIN f = 1..n
      BY <2>3
    <2> QED
      BY <2>3, <2>4 DEF IsInjective
  <1>3. listed \in [1..n -> sample] /\ IsInjective(listed)
    BY <1>2 DEF SetToSeq
  <1>4. listed \in Injection(1..n, sample)
    BY <1>3 DEF Injection
  <1>5. listed \in Surjection(1..n, sample)
    BY <1>1, <1>4, FS_Injection
  <1>6. listed \in Bijection(1..n, sample)
    BY <1>4, <1>5 DEF Bijection
  <1>7. values \in [1..n -> Nat] /\ \A i \in 1..n : values[i] = listed[i].latencyMs
    BY <1>3 DEF CheckRow
  <1>8. values \in Seq(Nat)
    BY <1>1, <1>7, SeqDef
  <1>9. Len(values) = n
    <2>1. Len(values) \in Nat /\ DOMAIN values = 1..Len(values)
      BY <1>8, LenProperties
    <2>2. DOMAIN values = 1..n
      BY <1>7
    <2>3. \A m \in Nat : Cardinality(1..m) = m
      BY FS_Interval
    <2> QED
      BY <1>1, <2>1, <2>2, <2>3
  <1>10. values = <<>> <=> n = 0
    BY <1>1, <1>8, <1>9, EmptySeq
  <1> QED
    BY <1>1, <1>6, <1>7, <1>9, <1>10

\* The list has as many values up to v as the sample has rows.
LEMMA SameCounts ==
  ASSUME NEW sample, IsFiniteSet(sample), NEW n \in Nat, NEW listed \in Bijection(1..n, sample),
         NEW values \in [1..n -> Nat], \A i \in 1..n : values[i] = listed[i].latencyMs, NEW v
  PROVE  Cardinality(UpTo(values, v)) = Cardinality({r \in sample : r.latencyMs <= v})
  <1> DEFINE A == UpTo(values, v)
             B == {r \in sample : r.latencyMs <= v}
             g == [i \in A |-> listed[i]]
  <1>1. /\ listed \in [1..n -> sample]
        /\ \A i, j \in 1..n : listed[i] = listed[j] => i = j
        /\ \A r \in sample : \E i \in 1..n : listed[i] = r
    BY Fun_BijectionProperties
  <1>2. A = {i \in 1..n : listed[i].latencyMs <= v}
    BY DEF UpTo
  <1> HIDE DEF A
  <1>3. g \in [A -> B]
    BY <1>1, <1>2
  <1>4. \A i, j \in A : g[i] = g[j] => i = j
    BY <1>1, <1>2
  <1>5. \A r \in B : \E i \in A : g[i] = r
    BY <1>1, <1>2
  <1> HIDE DEF B, g
  <1>6. g \in Bijection(A, B)
    BY <1>3, <1>4, <1>5, Fun_IsBij
  <1>7. IsFiniteSet(A)
    BY CountsGrow DEF A
  <1>8. ExistsBijection(A, B)
    BY <1>6 DEF ExistsBijection
  <1>9. Cardinality(A) = Cardinality(B)
    BY <1>7, <1>8, FS_Bijection
  <1> QED
    BY <1>9 DEF A, B

LEMMA MinIs ==
  ASSUME NEW S \in SUBSET Int, NEW m \in S, \A x \in S : m <= x
  PROVE  Min(S) = m
  <1>1. \A x \in S : (\A y \in S : x <= y) => x = m
    <2> SUFFICES ASSUME NEW x \in S, \A y \in S : x <= y PROVE x = m
      OBVIOUS
    <2>1. x <= m /\ m <= x /\ x \in Int /\ m \in Int
      OBVIOUS
    <2> QED
      BY <2>1
  <1> QED
    BY <1>1 DEF Min

\* percentile_disc is nearest rank.
LEMMA DiscIsNearestRank ==
  ASSUME NEW sample, IsFiniteSet(sample), sample \subseteq CheckRow,
         NEW listed, listed = SetToSeq(sample),
         NEW values, values = [i \in DOMAIN listed |-> listed[i].latencyMs],
         NEW p \in Int
  PROVE  NearestRankPercentile(values, p) = PercentileDisc(sample, Min({100, p}))
  <1> DEFINE n == Cardinality(sample)
             q == IF p < 100 THEN p ELSE 100
             s == NearestRankPercentile(values, p)
             M == {v \in Latencies(sample) :
                     100 * Cardinality({r \in sample : r.latencyMs <= v}) >= q * n}
  <1>1. /\ n \in Nat /\ listed \in Bijection(1..n, sample)
        /\ values \in [1..n -> Nat] /\ Len(values) = n
        /\ \A i \in 1..n : values[i] = listed[i].latencyMs
        /\ values = <<>> <=> n = 0
    <2> HIDE DEF n
    <2> QED
      BY SampleListed DEF n
  <1>2. Min({100, p}) = q
    BY MinOfTwo
  <1>3. CASE n = 0
    <2>1. sample = {}
      BY <1>3, FS_EmptySet
    <2> QED
      BY <1>1, <1>3, <2>1 DEF NearestRankPercentile, PercentileDisc
  <1>4. CASE n # 0
    <2>1. sample # {}
      BY <1>4, FS_EmptySet
    <2>2. PercentileDisc(sample, q) = Min(M)
      BY <2>1 DEF PercentileDisc
    <2>3. \A v \in Latencies(sample) : \E i \in 1..n : v = values[i]
      <3> HIDE DEF n
      <3> QED
        BY <1>1, Fun_BijectionProperties DEF Latencies
    <2>4. \A i \in 1..n : values[i] \in Latencies(sample)
      <3> HIDE DEF n
      <3> QED
        BY <1>1, Fun_BijectionProperties DEF Latencies
    <2>5. \A v : Cardinality(UpTo(values, v)) = Cardinality({r \in sample : r.latencyMs <= v})
      <3> HIDE DEF n
      <3> QED
        BY <1>1, SameCounts
    <2> HIDE DEF n
    <2>6. LeastReaching(values, n, q, s)
      <3>1. n \in Nat /\ n # 0 /\ values # <<>>
        BY <1>1, <1>4
      <3> QED
        BY <1>1, <3>1, NearestRank
    <2> HIDE DEF q, s
    <2>7. s \in M
      BY <2>4, <2>5, <2>6 DEF LeastReaching
    <2>8. \A v \in M : s <= v
      BY <2>3, <2>5, <2>6 DEF LeastReaching
    <2>9. M \in SUBSET Int
      BY <1>1, <2>3
    <2> HIDE DEF M
    <2>10. Min(M) = s
      BY <2>7, <2>8, <2>9, MinIs
    <2> QED
      BY <1>2, <2>2, <2>10 DEF s
  <1> QED
    BY <1>3, <1>4

LEMMA SamplesAgree ==
  ASSUME TablesOK
  PROVE  PercentilesAgree
  <1> SUFFICES ASSUME NEW w \in Windows, NEW t \in Targets
               PROVE  LET found   == InWindow(checks, {t}, w, now)
                          sample  == Successful(found)
                          listed  == SetToSeq(sample)
                          values  == [i \in DOMAIN listed |-> listed[i].latencyMs]
                          rollups == GetUptimeByTarget(checks, Targets, w, now)
                      IN  /\ \A p \in {-1, 0, 50, 95, 101} :
                               NearestRankPercentile(values, p) = PercentileDisc(sample, Min({100, p}))
                          /\ found # {} /\ sample = found =>
                               rollups[t].p95Ms = GetLatency(checks, {t}, w, now).p95Ms
    BY DEF PercentilesAgree
  <1> DEFINE found == InWindow(checks, {t}, w, now)
             sample == Successful(found)
             listed == SetToSeq(sample)
             values == [i \in DOMAIN listed |-> listed[i].latencyMs]
             rollups == GetUptimeByTarget(checks, Targets, w, now)
  <1>1. IsFiniteSet(sample) /\ sample \subseteq CheckRow
    <2>1. sample \in SUBSET checks
      BY DEF Successful, InWindow
    <2> HIDE DEF sample
    <2> QED
      BY <2>1, FS_Subset DEF TablesOK, Rows
  <1>2. \A p \in {-1, 0, 50, 95, 101} :
          NearestRankPercentile(values, p) = PercentileDisc(sample, Min({100, p}))
    <2> SUFFICES ASSUME NEW p \in {-1, 0, 50, 95, 101}
                 PROVE  NearestRankPercentile(values, p) = PercentileDisc(sample, Min({100, p}))
      OBVIOUS
    <2>1. p \in Int
      OBVIOUS
    <2> HIDE DEF sample
    <2> QED
      BY <1>1, <2>1, DiscIsNearestRank
  <1>3. ASSUME found # {}, sample = found
        PROVE  rollups[t].p95Ms = GetLatency(checks, {t}, w, now).p95Ms
    <2> DEFINE all == InWindow(checks, Targets, w, now)
    <2>1. {r \in all : r.target = t} = found
      BY DEF InWindow
    <2>2. t \in {r.target : r \in all}
      BY <1>3, <2>1
    <2> HIDE DEF all, found
    <2>3. rollups[t].p95Ms = PercentileDisc({r \in all : r.target = t}, 95)
      BY <2>2 DEF GetUptimeByTarget, all
    <2>4. GetLatency(checks, {t}, w, now).p95Ms = PercentileDisc(sample, 95)
      BY DEF GetLatency, found
    <2> QED
      BY <1>3, <2>1, <2>3, <2>4
  <1> QED
    BY <1>2, <1>3

\* For every sample of latencies, whatever its order, and every target and
\* window: nearest rank (nearestRankPercentile, uptime.ts) is what
\* percentile_disc answers, and the rollup of a target without failures is the
\* p95 of its page.
THEOREM PercentilesMatch == Spec => []PercentilesAgree
  BY InvHolds, SamplesAgree, PTL DEF TelemetryInv
=============================================================================
