--------------------------- MODULE ReadSideProofs ---------------------------
(***************************************************************************)
(* A walk over the pages of a search misses nothing but what moved or left *)
(* while it went on, and the figures of a report agree up to the number of *)
(* runs written between its SELECTs, whatever the runs, calls, findings    *)
(* and agents, the limits, the lengths of a page and of a window, and the  *)
(* writes.                                                                 *)
(***************************************************************************)
EXTENDS ReadSide, FiniteSetTheorems, SequenceTheorems, WellFoundedInduction, TLAPS

-----------------------------------------------------------------------------
(* Finite sets.                                                            *)

(* Of any subsets of a finite set, one has none of the others within it.   *)
LEMMA MinimalSubset ==
  ASSUME NEW S, IsFiniteSet(S), NEW C \in SUBSET (SUBSET S), C # {}
  PROVE  \E T \in C : \A U \in SUBSET T : U # T => U \notin C
<1>1. IsWellFoundedOn(StrictSubsetOrdering(S), FiniteSubsetsOf(S))
  BY FS_StrictSubsetOrderingWellFounded
<1>2. C \subseteq FiniteSubsetsOf(S)
  BY FS_Subset DEF FiniteSubsetsOf
<1>3. PICK T \in C : \A U \in C : ~ (<<U, T>> \in StrictSubsetOrdering(S))
  BY <1>1, <1>2, WFMin
<1>4. ASSUME NEW U \in SUBSET T, U # T
      PROVE  U \notin C
  BY <1>3, <1>4 DEF StrictSubsetOrdering
<1> QED BY <1>3, <1>4

(* Of finitely many rows, one is exceeded by none. *)
LEMMA OneLeads ==
  ASSUME NEW key, NEW T, IsFiniteSet(T), T # {}, \A x \in T : key[x][1] \in Int /\ key[x][2] \in Int
  PROVE  \E x \in T : \A y \in T : ~ Exceeds(key[y], key[x])
<1>1. PICK Above : Above = [x \in T |-> {y \in T : Exceeds(key[y], key[x])}]
  OBVIOUS
<1>2. PICK C : C = {Above[x] : x \in T}
  OBVIOUS
<1>3. C \in SUBSET (SUBSET T) /\ C # {}
  BY <1>1, <1>2
<1>4. PICK x \in T : \A U \in SUBSET Above[x] : U # Above[x] => U \notin C
  BY <1>2, <1>3, MinimalSubset
<1>5. ASSUME NEW y \in T, Exceeds(key[y], key[x])
      PROVE  FALSE
  <2>1. Above[y] \in SUBSET Above[x]
    <3> SUFFICES ASSUME NEW z \in T, Exceeds(key[z], key[y])
                 PROVE  Exceeds(key[z], key[x])
      BY <1>1
    <3> QED BY <1>5 DEF Exceeds
  <2>2. y \in Above[x] /\ y \notin Above[y]
    BY <1>1, <1>5 DEF Exceeds
  <2> QED BY <1>2, <1>4, <2>1, <2>2
<1> QED BY <1>5

LEMMA Parted ==
  ASSUME NEW P, NEW M, IsFiniteSet(P)
  PROVE  Cardinality(P) = Cardinality(P \ M) + Cardinality(P \cap M)
<1>1. Cardinality(P \ M) = Cardinality(P) - Cardinality(P \cap M)
  BY FS_Difference
<1>2. IsFiniteSet(P \cap M)
  BY FS_Subset
<1>3. Cardinality(P) \in Nat /\ Cardinality(P \cap M) \in Nat
  BY <1>2, FS_CardinalityType
<1> QED BY <1>1, <1>3

LEMMA Sums ==
  ASSUME NEW k \in Nat, NEW p \in Nat, NEW left \in Nat, NEW both \in Nat, NEW m \in Nat,
         NEW rest \in Nat, NEW q \in Nat, NEW v \in Nat, NEW w \in Nat,
         p = left + both, m = rest + both, left <= k, q > k, q + v - 1 <= p, w <= v + rest
  PROVE  w <= m
  OBVIOUS

-----------------------------------------------------------------------------
(* Ranks.  The position of run r among those of S, when no two tie: how    *)
(* many of S are as young as r.                                            *)

Upto(r, S, row) == {q \in S : row[q].start >= row[r].start}

Rank(r, S, row) == Cardinality(Upto(r, S, row))

Dated(S, row) == IsFiniteSet(S) /\ \A r \in S : row[r].start \in Int

Untied(S, row) == \A q, r \in S : q # r => row[q].start # row[r].start

LEMMA RankType ==
  ASSUME NEW S, NEW row, NEW r, IsFiniteSet(S)
  PROVE  IsFiniteSet(Upto(r, S, row)) /\ Rank(r, S, row) \in Nat /\ Rank(r, S, row) <= Cardinality(S)
<1>1. Upto(r, S, row) \in SUBSET S
  BY DEF Upto
<1> QED BY <1>1, FS_Subset, FS_CardinalityType DEF Rank

(* The younger of two runs has the smaller rank. *)
LEMMA RankOrder ==
  ASSUME NEW S, NEW row, Dated(S, row), NEW q \in S, NEW r \in S, row[q].start > row[r].start
  PROVE  Rank(q, S, row) < Rank(r, S, row)
<1>1. IsFiniteSet(S) /\ row[q].start \in Int /\ row[r].start \in Int
  BY DEF Dated
<1>2. Upto(q, S, row) \in SUBSET (Upto(r, S, row) \ {r})
  <2> SUFFICES ASSUME NEW x \in Upto(q, S, row) PROVE x \in Upto(r, S, row) \ {r}
    OBVIOUS
  <2>1. x \in S /\ row[x].start \in Int /\ row[x].start >= row[q].start
    BY DEF Upto, Dated
  <2> QED BY <1>1, <2>1 DEF Upto
<1>3. r \in Upto(r, S, row)
  BY <1>1 DEF Upto
<1>4. IsFiniteSet(Upto(r, S, row)) /\ Rank(r, S, row) \in Nat /\ Rank(q, S, row) \in Nat
  BY <1>1, RankType
<1>5. IsFiniteSet(Upto(r, S, row) \ {r}) /\ Cardinality(Upto(r, S, row) \ {r}) = Rank(r, S, row) - 1
  BY <1>3, <1>4, FS_RemoveElement DEF Rank
<1>6. Rank(q, S, row) <= Cardinality(Upto(r, S, row) \ {r})
  BY <1>2, <1>5, FS_Subset DEF Rank
<1> QED BY <1>4, <1>5, <1>6

(* Without ties, the ranks are the positions: no two runs share one, and   *)
(* every position is taken.                                                *)
LEMMA RanksDiffer ==
  ASSUME NEW S, NEW row, Dated(S, row), NEW q \in S, NEW r \in S, row[q].start # row[r].start
  PROVE  Rank(q, S, row) # Rank(r, S, row)
<1>1. row[q].start > row[r].start \/ row[r].start > row[q].start
  BY DEF Dated
<1>2. Rank(q, S, row) \in Nat /\ Rank(r, S, row) \in Nat
  BY RankType DEF Dated
<1> QED BY <1>1, <1>2, RankOrder

LEMMA RanksFill ==
  ASSUME NEW S, NEW row, Dated(S, row), Untied(S, row), NEW k \in 1 .. Cardinality(S)
  PROVE  \E r \in S : Rank(r, S, row) = k
<1>1. IsFiniteSet(S) /\ Cardinality(S) \in Nat
  BY FS_CardinalityType DEF Dated
<1>2. PICK n \in Nat : n = Cardinality(S)
  BY <1>1
<1>3. \A r \in S : Rank(r, S, row) \in 1 .. n
  <2> TAKE r \in S
  <2>1. r \in Upto(r, S, row)
    BY DEF Upto, Dated
  <2>2. Rank(r, S, row) # 0
    BY <1>1, <2>1, RankType, FS_EmptySet DEF Rank
  <2>3. Rank(r, S, row) \in Nat /\ Rank(r, S, row) <= n
    BY <1>1, <1>2, RankType
  <2> QED BY <1>2, <2>2, <2>3
<1>4. PICK rank : rank = [r \in S |-> Rank(r, S, row)]
  OBVIOUS
<1>5. rank \in [S -> 1 .. n]
  BY <1>3, <1>4
<1>6. \A q, r \in S : rank[q] = rank[r] => q = r
  BY <1>4, RanksDiffer DEF Untied
<1>7. rank \in Injection(S, 1 .. n)
  BY <1>5, <1>6 DEF Injection, IsInjective
<1>8. IsFiniteSet(1 .. n) /\ Cardinality(1 .. n) = n
  BY <1>2, FS_Interval
<1>9. rank \in Surjection(S, 1 .. n)
  BY <1>2, <1>7, <1>8, FS_Injection
<1>10. PICK r \in S : rank[r] = k
  BY <1>2, <1>9 DEF Surjection
<1>11. Rank(r, S, row) = k
  BY <1>4, <1>10
<1> QED BY <1>11

-----------------------------------------------------------------------------
(* Pages.  Without ties, a page holds the runs of its positions, and it is *)
(* full when there is a run behind it.                                     *)
LEMMA PageIsRange ==
  ASSUME NEW S, Dated(S, run), ~ Tied(S), NEW offset \in Nat, NEW X \in Pages(S, offset), NEW r \in S
  PROVE  r \in X <=> Rank(r, S, run) \in (offset + 1) .. (offset + Page)
<1>1. PICK newer : newer = {q \in S : run[q].start > run[r].start}
  OBVIOUS
<1>2. {q \in S : run[q].start = run[r].start} = {r}
  BY DEF Tied
<1>3. IsFiniteSet(newer) /\ Cardinality(newer) \in Nat /\ r \notin newer
  <2>1. newer \in SUBSET S /\ r \notin newer
    BY <1>1 DEF Dated
  <2> QED BY <2>1, FS_Subset, FS_CardinalityType DEF Dated
<1>4. Rank(r, S, run) = Cardinality(newer) + 1
  <2>1. Upto(r, S, run) = newer \cup {r}
    BY <1>1, <1>2 DEF Upto, Dated
  <2> QED BY <1>3, <2>1, FS_AddElement DEF Rank
<1>5. PICK k \in Nat : k = Cardinality(newer) + 1
  BY <1>3
<1>6. Cardinality({r}) = 1 /\ Cardinality({}) = 0 /\ Cardinality({k}) = 1
  BY FS_Singleton, FS_EmptySet
<1>7. Cardinality(X \cap {r}) = Cardinality((k .. k) \cap ((offset + 1) .. (offset + Page)))
  <2>1. Cardinality(X \cap {q \in S : run[q].start = run[r].start})
          = Cardinality(((Cardinality(newer) + 1) .. (Cardinality(newer)
                          + Cardinality({q \in S : run[q].start = run[r].start})))
                        \cap ((offset + 1) .. (offset + Page)))
    BY <1>1 DEF Pages
  <2> QED BY <1>2, <1>5, <1>6, <2>1
<1>8. k .. k = {k}
  BY <1>5
<1>9. X \cap {r} = IF r \in X THEN {r} ELSE {}
  OBVIOUS
<1>10. {k} \cap ((offset + 1) .. (offset + Page))
         = IF k \in (offset + 1) .. (offset + Page) THEN {k} ELSE {}
  OBVIOUS
<1> QED BY <1>4, <1>5, <1>6, <1>7, <1>8, <1>9, <1>10

LEMMA FullPage ==
  ASSUME NEW S, Dated(S, run), ~ Tied(S), NEW offset \in Nat, NEW X \in Pages(S, offset),
         NEW u \in S, Rank(u, S, run) > offset + Page
  PROVE  IsFiniteSet(X) /\ Cardinality(X) >= Page
<1>1. IsFiniteSet(S) /\ Page \in Nat /\ X \in SUBSET S
  BY ReadSideAssumption DEF Dated, Pages
<1>2. IsFiniteSet(X) /\ Cardinality(X) \in Nat
  BY <1>1, FS_Subset, FS_CardinalityType
<1>3. PICK g : g = [r \in X |-> Rank(r, S, run) - offset]
  OBVIOUS
<1>4. Cardinality(S) \in Nat /\ Cardinality(S) >= offset + Page
  BY <1>1, RankType, FS_CardinalityType
<1>5. \A r \in X : g[r] \in 1 .. Page
  <2> TAKE r \in X
  <2>1. Rank(r, S, run) \in (offset + 1) .. (offset + Page)
    BY <1>1, PageIsRange
  <2>2. g[r] = Rank(r, S, run) - offset
    BY <1>3
  <2> QED BY <1>1, <2>1, <2>2
<1>6. \A k \in 1 .. Page : \E r \in X : g[r] = k
  <2> TAKE k \in 1 .. Page
  <2>1. offset + k \in 1 .. Cardinality(S)
    BY <1>1, <1>4
  <2>2. Untied(S, run)
    BY DEF Tied, Untied
  <2>3. PICK r \in S : Rank(r, S, run) = offset + k
    BY <2>1, <2>2, RanksFill
  <2>4. offset + k \in (offset + 1) .. (offset + Page)
    BY <1>1
  <2>5. r \in X
    BY <2>3, <2>4, PageIsRange
  <2>6. g[r] = (offset + k) - offset
    BY <1>3, <2>3, <2>5
  <2>7. g[r] = k
    BY <2>6
  <2> QED BY <2>5, <2>7
<1>7. g \in Surjection(X, 1 .. Page)
  BY <1>3, <1>5, <1>6 DEF Surjection
<1>8. Cardinality(1 .. Page) = Page
  BY <1>1, FS_Interval
<1> QED BY <1>1, <1>2, <1>7, <1>8, FS_Surjection

-----------------------------------------------------------------------------
(* Writes.  A run is out of reach when it lies behind the pages turned so  *)
(* far, and the next pages can tell it from its like.                      *)
OutOfReach(U, S, row, k) == (\A u \in U : Rank(u, S, row) > k) /\ Untied(U, row)

(* S and row are what matched before a write, T and new after it: the runs *)
(* that left, or have another start.                                       *)
Moved(S, row, T, new) == {r \in S : r \notin T \/ new[r].start # row[r].start}

(* Youngest and oldest of some runs. *)
LEMMA Extremes ==
  ASSUME NEW S, NEW row, Dated(S, row), NEW V \in SUBSET S, V # {}
  PROVE  /\ \E v \in V : \A u \in V : row[u].start <= row[v].start
         /\ \E v \in V : \A u \in V : row[u].start >= row[v].start
<1>1. IsFiniteSet(V) /\ \A u \in V : row[u].start \in Int
  BY FS_Subset DEF Dated
<1>2. \E v \in V : \A u \in V : row[u].start <= row[v].start
  <2>1. PICK key : key = [x \in V |-> <<row[x].start, 0>>]
    OBVIOUS
  <2>2. \A x \in V : key[x][1] \in Int /\ key[x][2] \in Int /\ key[x][1] = row[x].start
    BY <1>1, <2>1
  <2>3. PICK v \in V : \A u \in V : ~ Exceeds(key[u], key[v])
    BY <1>1, <2>2, OneLeads
  <2>4. \A u \in V : ~ (row[u].start > row[v].start)
    BY <2>2, <2>3 DEF Exceeds
  <2> QED BY <1>1, <2>4
<1>3. \E v \in V : \A u \in V : row[u].start >= row[v].start
  <2>1. PICK key : key = [x \in V |-> <<0 - row[x].start, 0>>]
    OBVIOUS
  <2>2. \A x \in V : key[x][1] \in Int /\ key[x][2] \in Int /\ key[x][1] = 0 - row[x].start
    BY <1>1, <2>1
  <2>3. PICK v \in V : \A u \in V : ~ Exceeds(key[u], key[v])
    BY <1>1, <2>2, OneLeads
  <2>4. \A u \in V : ~ (0 - row[u].start > 0 - row[v].start)
    BY <2>2, <2>3 DEF Exceeds
  <2> QED BY <1>1, <2>4
<1> QED BY <1>2, <1>3

(* No more runs come within reach of the pages already turned than moved:  *)
(* those that moved themselves, and as many right behind the pages as of   *)
(* the runs before them have gone.  Let z be the oldest that slipped, and  *)
(* v the youngest of those excused up to z: k or more are younger than v,  *)
(* and k at most of those up to z are left.                                *)
LEMMA Slips ==
  ASSUME NEW S, NEW T, NEW row, NEW new, Dated(S, row), Dated(T, new), NEW k \in Nat,
         NEW U \in SUBSET S, OutOfReach(U, S, row, k)
  PROVE  \E W \in SUBSET S : /\ Cardinality(W) <= Cardinality(Moved(S, row, T, new))
                             /\ OutOfReach(U \ W, T, new, k)
<1>1. PICK M \in SUBSET S : M = Moved(S, row, T, new)
  BY DEF Moved
<1>2. /\ IsFiniteSet(S) /\ \A X \in SUBSET S : IsFiniteSet(X) /\ Cardinality(X) \in Nat
      /\ \A u \in S : row[u].start \in Int
  BY FS_Subset, FS_CardinalityType DEF Dated
<1>3. PICK slipped : slipped = {u \in U \ M : ~ (Rank(u, T, new) > k)}
  OBVIOUS
<1>4. \A u \in S \ M : u \in T /\ new[u].start = row[u].start
  BY <1>1 DEF Moved
<1>5. ASSUME NEW W, slipped \cup (U \cap M) \subseteq W
      PROVE  OutOfReach(U \ W, T, new, k)
  <2>1. \A u \in U \ W : Rank(u, T, new) > k
    BY <1>3, <1>5
  <2>2. Untied(U \ W, new)
    <3> SUFFICES ASSUME NEW q \in U \ W, NEW r \in U \ W, q # r PROVE new[q].start # new[r].start
      BY DEF Untied
    <3>1. row[q].start # row[r].start
      BY DEF OutOfReach, Untied
    <3> QED BY <1>4, <1>5, <3>1
  <2> QED BY <2>1, <2>2 DEF OutOfReach
<1>6. CASE slipped = {}
  <2>1. Cardinality(U \cap M) <= Cardinality(M)
    BY <1>2, FS_Subset
  <2>2. OutOfReach(U \ (U \cap M), T, new, k)
    BY <1>5, <1>6
  <2> QED BY <1>1, <2>1, <2>2
<1>7. CASE slipped # {}
  <2>1. PICK z \in slipped : \A u \in slipped : row[u].start >= row[z].start
    <3>1. slipped \in SUBSET S
      BY <1>3
    <3> QED BY <1>7, <3>1, Extremes
  <2>2. PICK P \in SUBSET S : P = Upto(z, S, row)
    BY DEF Upto
  <2>3. z \in S \ M /\ slipped \in SUBSET P
    BY <1>3, <2>1, <2>2 DEF Upto
  <2>4. Cardinality(P \ M) <= k
    <3>1. IsFiniteSet(Upto(z, T, new)) /\ Rank(z, T, new) \in Nat
      BY RankType DEF Dated
    <3>2. P \ M \in SUBSET Upto(z, T, new)
      BY <1>4, <2>2, <2>3 DEF Upto
    <3>3. Cardinality(P \ M) <= Rank(z, T, new)
      BY <3>1, <3>2, FS_Subset DEF Rank
    <3>4. ~ (Rank(z, T, new) > k) /\ Cardinality(P \ M) \in Nat
      BY <1>2, <1>3
    <3> QED BY <3>1, <3>3, <3>4
  <2>5. PICK V : V = slipped \cup (U \cap M \cap P)
    OBVIOUS
  <2>6. V \in SUBSET (U \cap P) /\ V \in SUBSET S /\ V # {}
    BY <1>3, <1>7, <2>3, <2>5
  <2>7. PICK v \in V : \A u \in V : row[u].start <= row[v].start
    BY <2>6, Extremes
  <2>8. PICK Q \in SUBSET S : Q = Upto(v, S, row)
    BY DEF Upto
  <2>9. Q \cap V = {v}
    <3>1. \A u \in V : u # v => row[u].start # row[v].start
      BY <2>6 DEF OutOfReach, Untied
    <3> QED BY <1>2, <2>6, <2>7, <2>8, <3>1 DEF Upto
  <2>10. Q \in SUBSET P
    <3>1. row[v].start >= row[z].start /\ row[v].start \in Int /\ row[z].start \in Int
      BY <1>2, <2>2, <2>3, <2>6 DEF Upto
    <3> QED BY <1>2, <2>2, <2>8, <3>1 DEF Upto
  <2>11. Cardinality(Q) > k
    BY <2>6, <2>8 DEF OutOfReach, Rank
  <2>12. Cardinality(Q) + Cardinality(V) - 1 <= Cardinality(P)
    <3>1. Cardinality(Q \cup V) = Cardinality(Q) + Cardinality(V) - Cardinality(Q \cap V)
      BY <1>2, <2>6, FS_Union
    <3>2. Cardinality(Q \cap V) = 1
      BY <2>9, FS_Singleton
    <3>3. Q \cup V \in SUBSET P
      BY <2>6, <2>10
    <3>4. Cardinality(Q \cup V) <= Cardinality(P)
      BY <1>2, <3>3, FS_Subset
    <3> QED BY <3>1, <3>2, <3>4
  <2>13. Cardinality(P) = Cardinality(P \ M) + Cardinality(P \cap M)
    BY <1>2, Parted
  <2>14. Cardinality(M) = Cardinality(M \ P) + Cardinality(M \cap P)
    BY <1>2, Parted
  <2>15. PICK W \in SUBSET S : W = V \cup ((U \cap M) \ P)
    BY <2>6
  <2>16. Cardinality(W) <= Cardinality(V) + Cardinality(M \ P)
    <3>1. Cardinality(W) = Cardinality(V) + Cardinality((U \cap M) \ P) - Cardinality(V \cap ((U \cap M) \ P))
      BY <1>2, <2>6, <2>15, FS_Union
    <3>2. Cardinality((U \cap M) \ P) <= Cardinality(M \ P)
      BY <1>2, FS_Subset
    <3>3. /\ Cardinality(V \cap ((U \cap M) \ P)) \in Nat /\ Cardinality(V) \in Nat
          /\ Cardinality((U \cap M) \ P) \in Nat /\ Cardinality(M \ P) \in Nat
      BY <1>2, <2>6
    <3> QED BY <3>1, <3>2, <3>3
  <2>17. M \cap P = P \cap M
    OBVIOUS
  <2>18. Cardinality(W) <= Cardinality(M)
    <3>1. PICK both \in Nat : both = Cardinality(P \cap M) /\ both = Cardinality(M \cap P)
      BY <1>2, <2>17
    <3>2. PICK left \in Nat, rest \in Nat : left = Cardinality(P \ M) /\ rest = Cardinality(M \ P)
      BY <1>2
    <3>3. PICK q \in Nat, n \in Nat : q = Cardinality(Q) /\ n = Cardinality(V)
      BY <1>2, <2>6
    <3>4. PICK p \in Nat, m \in Nat, w \in Nat : p = Cardinality(P) /\ m = Cardinality(M) /\ w = Cardinality(W)
      BY <1>2
    <3>5. p = left + both /\ m = rest + both
      BY <2>13, <2>14, <3>1, <3>2, <3>4
    <3>6. left <= k /\ q > k
      BY <2>4, <2>11, <3>2, <3>3
    <3>7. q + n - 1 <= p
      BY <2>12, <3>3, <3>4
    <3>8. w <= n + rest
      BY <2>16, <3>2, <3>3, <3>4
    <3> QED BY <3>4, <3>5, <3>6, <3>7, <3>8, Sums
  <2>19. OutOfReach(U \ W, T, new, k)
    <3>1. slipped \cup (U \cap M) \subseteq W
      BY <2>5, <2>15
    <3> QED BY <1>5, <3>1
  <2> QED BY <1>1, <2>18, <2>19
<1> QED BY <1>6, <1>7

-----------------------------------------------------------------------------
(* The walk. *)
Fields == {"op", "agent", "filter", "since", "at", "todo", "got", "writes", "torn",
           "offset", "seen", "base", "lost", "tied"}

RunsOK ==
  /\ now \in Int
  /\ agent \in [Agents -> AgentRow \cup {None}]
  /\ run \in [Runs -> RunRow \cup {NoRun}]

Shaped == reader.op # "idle" => DOMAIN reader = Fields

Unseen == reader.base \ reader.seen

(* The runs a walk may miss, X, are no more than what moved or left; the   *)
(* others it has not seen yet are out of reach until a page reaches them.  *)
Excuses(X) ==
  /\ X \in SUBSET Unseen /\ Cardinality(X) <= reader.lost
  /\ reader.todo = <<>> => Unseen = X
  /\ reader.todo # <<>> /\ reader.offset > 0 =>
       OutOfReach(Unseen \ X, Matching(reader.filter), run, reader.offset)

Walking ==
  reader.op = "walk" =>
    /\ reader.todo \in {<<"total", "page">>, <<"page">>, <<>>}
    /\ reader.offset \in Nat /\ reader.lost \in Nat
    /\ reader.base \subseteq Matching(reader.filter)
    /\ ~ reader.tied => \E X : Excuses(X)

WalkInv == RunsOK /\ Shaped /\ Walking

LEMMA MatchingDated ==
  ASSUME RunsOK, NEW f
  PROVE  Dated(Matching(f), run) /\ Matching(f) \in SUBSET Runs
<1>1. Matching(f) \in SUBSET Runs
  BY DEF Matching
<1>2. \A r \in Matching(f) : run[r] \in RunRow
  BY <1>1 DEF Matching, Matches, RunsOK
<1>3. \A r \in Matching(f) : run[r].start \in Int
  BY <1>2 DEF RunRow
<1>4. IsFiniteSet(Matching(f))
  BY <1>1, FS_Subset, ReadSideAssumption
<1> QED BY <1>1, <1>3, <1>4 DEF Dated

LEMMA OutOfReachSubset ==
  ASSUME NEW U, NEW V \in SUBSET U, NEW S, NEW row, NEW k, OutOfReach(U, S, row, k)
  PROVE  OutOfReach(V, S, row, k)
  BY DEF OutOfReach, Untied

LEMMA BeginWalk ==
  ASSUME WalkInv, NEW op, NEW a, NEW f, op # "idle", Begin(op, a, f)
  PROVE  WalkInv'
<1>1. RunsOK'
  BY DEF WalkInv, RunsOK, Begin
<1>2. /\ DOMAIN reader' = Fields /\ reader'.op = op /\ reader'.todo = Queries[op]
      /\ reader'.offset = 0 /\ reader'.lost = 0 /\ reader'.base = {}
  BY DEF Begin, Fields
<1>3. ASSUME op = "walk"
      PROVE  reader'.todo = <<"total", "page">> /\ Excuses({})'
  <2>1. reader'.todo = <<"total", "page">>
    BY <1>2, <1>3 DEF Queries
  <2>2. Unseen' = {}
    BY <1>2 DEF Unseen
  <2> QED BY <1>2, <2>1, <2>2, FS_EmptySet DEF Excuses
<1>4. Shaped'
  BY <1>2 DEF Shaped
<1>5. Walking'
  <2> SUFFICES ASSUME reader'.op = "walk" PROVE Walking'
    BY DEF Walking
  <2>1. reader'.todo = <<"total", "page">> /\ Excuses({})'
    BY <1>2, <1>3
  <2>2. reader'.offset \in Nat /\ reader'.lost \in Nat
    BY <1>2
  <2>3. reader'.base \subseteq Matching(reader.filter)'
    BY <1>2
  <2> QED BY <2>1, <2>2, <2>3 DEF Walking
<1> QED BY <1>1, <1>4, <1>5 DEF WalkInv

LEMMA SelectWalk == ASSUME WalkInv, Select PROVE WalkInv'
<1>1. RunsOK'
  BY DEF WalkInv, RunsOK, Select
<1>2. DOMAIN reader' = Fields /\ reader'.op = reader.op /\ reader.op # "walk"
  BY DEF WalkInv, Shaped, Fields, Select
<1> QED BY <1>1, <1>2 DEF WalkInv, Shaped, Walking

LEMMA CountWalk == ASSUME WalkInv, Count PROVE WalkInv'
<1>1. RunsOK' /\ UNCHANGED <<agent, run, hits>>
  BY DEF WalkInv, RunsOK, Count
<1>2. PICK M : M = Matching(reader.filter)
  OBVIOUS
<1>3. reader.todo = <<"total", "page">> /\ reader.op = "walk" /\ DOMAIN reader = Fields
  BY DEF WalkInv, Walking, Shaped, Count
<1>4. /\ DOMAIN reader' = Fields /\ reader'.op = "walk" /\ reader'.todo = <<"page">>
      /\ reader'.offset = reader.offset /\ reader'.lost = reader.lost
      /\ reader'.filter = reader.filter /\ reader'.seen = reader.seen /\ reader'.tied = reader.tied
      /\ reader'.base = IF reader.offset = 0 THEN M ELSE reader.base
  BY <1>2, <1>3 DEF Count, Fields
<1>5. Matching(reader.filter)' = M
  BY <1>1, <1>2, <1>4 DEF Matching
<1>6. reader.offset \in Nat /\ reader.lost \in Nat /\ reader.base \subseteq M
  BY <1>2, <1>3 DEF WalkInv, Walking
<1>7. CASE reader.offset = 0
  <2>1. Excuses({})'
    BY <1>4, <1>6, <1>7, FS_EmptySet DEF Excuses
  <2> QED BY <1>1, <1>4, <1>5, <1>6, <1>7, <2>1 DEF WalkInv, Shaped, Walking
<1>8. CASE reader.offset # 0
  <2>1. \A X : Excuses(X) => Excuses(X)'
    BY <1>1, <1>2, <1>3, <1>4, <1>5, <1>8, <1>6 DEF Excuses, Unseen
  <2> QED BY <1>1, <1>3, <1>4, <1>5, <1>6, <1>8, <2>1 DEF WalkInv, Shaped, Walking
<1> QED BY <1>7, <1>8

LEMMA TurnWalk == ASSUME WalkInv, Turn PROVE WalkInv'
<1>1. RunsOK' /\ UNCHANGED <<agent, run, hits>>
  BY DEF WalkInv, RunsOK, Turn
<1>2. PICK M : M = Matching(reader.filter)
  OBVIOUS
<1>3. reader.todo = <<"page">> /\ reader.op = "walk" /\ DOMAIN reader = Fields
  BY DEF WalkInv, Shaped, Turn
<1>4. PICK page \in Pages(M, reader.offset) :
        reader' = [reader EXCEPT !.seen = @ \cup page, !.offset = @ + Page,
                                 !.tied = @ \/ Tied(M),
                                 !.todo = IF Cardinality(page) < Page THEN <<>> ELSE Queries["walk"]]
  BY <1>2 DEF Turn
<1>5. /\ DOMAIN reader' = Fields /\ reader'.op = "walk"
      /\ reader'.todo = IF Cardinality(page) < Page THEN <<>> ELSE Queries["walk"]
      /\ reader'.offset = reader.offset + Page /\ reader'.lost = reader.lost
      /\ reader'.filter = reader.filter /\ reader'.seen = reader.seen \cup page
      /\ reader'.tied = (reader.tied \/ Tied(M)) /\ reader'.base = reader.base
  BY <1>3, <1>4 DEF Fields
<1>6. Matching(reader.filter)' = M
  BY <1>1, <1>2, <1>5 DEF Matching
<1>7. reader.offset \in Nat /\ reader.lost \in Nat /\ reader.base \subseteq M /\ Page \in Nat \ {0}
  BY <1>2, <1>3, ReadSideAssumption DEF WalkInv, Walking
<1>8. ASSUME ~ reader.tied, ~ Tied(M) PROVE \E X : Excuses(X)'
  <2>1. PICK X : Excuses(X)
    BY <1>3, <1>8 DEF WalkInv, Walking
  <2>2. Dated(M, run) /\ Untied(M, run) /\ IsFiniteSet(M)
    BY <1>2, <1>8, MatchingDated DEF WalkInv, Tied, Untied, Dated
  <2>3. ASSUME NEW u \in (Unseen \ page) \ X PROVE Rank(u, M, run) > reader.offset + Page
    <3>1. u \in M /\ u \notin page
      BY <1>7, <2>3 DEF Unseen
    <3>2. Rank(u, M, run) \notin (reader.offset + 1) .. (reader.offset + Page)
      BY <1>4, <1>7, <1>8, <2>2, <3>1, PageIsRange
    <3>3. Rank(u, M, run) \in Nat /\ Rank(u, M, run) > 0
      <4>1. u \in Upto(u, M, run)
        BY <2>2, <3>1 DEF Upto, Dated
      <4> QED BY <2>2, <4>1, RankType, FS_EmptySet DEF Rank
    <3>4. Rank(u, M, run) > reader.offset
      BY <1>2, <1>3, <1>7, <2>1, <2>3, <3>3 DEF Excuses, OutOfReach
    <3> QED BY <1>7, <3>2, <3>3, <3>4
  <2>4. OutOfReach((Unseen \ page) \ X, M, run, reader.offset + Page)
    <3>1. (Unseen \ page) \ X \subseteq M
      BY <1>7 DEF Unseen
    <3> QED BY <2>2, <2>3, <3>1 DEF OutOfReach, Untied
  <2>5. Unseen' = Unseen \ page
    BY <1>5 DEF Unseen
  <2>6. PICK Y : Y = X \ page
    OBVIOUS
  <2>7. Y \in SUBSET Unseen' /\ Unseen' \ Y = (Unseen \ page) \ X
    BY <2>1, <2>5, <2>6 DEF Excuses
  <2>8. Cardinality(Y) <= reader.lost
    <3>1. X \in SUBSET M
      BY <1>7, <2>1 DEF Excuses, Unseen
    <3>2. IsFiniteSet(X) /\ Y \in SUBSET X
      BY <2>2, <2>6, <3>1, FS_Subset
    <3>3. Cardinality(Y) <= Cardinality(X) /\ Cardinality(X) \in Nat /\ Cardinality(Y) \in Nat
      BY <3>2, FS_Subset, FS_CardinalityType
    <3> QED BY <1>7, <2>1, <3>3 DEF Excuses
  <2>9. reader'.todo = <<>> => Unseen' = Y
    <3> SUFFICES ASSUME reader'.todo = <<>>, NEW u \in (Unseen \ page) \ X PROVE FALSE
      BY <2>5, <2>6, <2>7
    <3>1. Cardinality(page) < Page
      BY <1>5 DEF Queries
    <3>2. u \in M
      BY <1>7 DEF Unseen
    <3>3. IsFiniteSet(page) /\ Cardinality(page) >= Page
      BY <1>4, <1>7, <1>8, <2>2, <2>3, <3>2, FullPage
    <3> QED BY <1>7, <3>1, <3>3, FS_CardinalityType
  <2>10. Excuses(Y)'
    BY <1>1, <1>5, <1>6, <2>4, <2>7, <2>8, <2>9 DEF Excuses
  <2> QED BY <2>10
<1>9. reader'.todo \in {<<"total", "page">>, <<"page">>, <<>>}
  BY <1>5 DEF Queries
<1>10. reader'.offset \in Nat /\ reader'.lost \in Nat /\ reader'.base \subseteq M
  BY <1>5, <1>7
<1>11. ~ reader'.tied => \E X : Excuses(X)'
  BY <1>5, <1>8
<1>12. Walking'
  BY <1>6, <1>9, <1>10, <1>11 DEF Walking
<1> QED BY <1>1, <1>5, <1>12 DEF WalkInv, Shaped

(* A write, of any runs. *)
LEMMA WroteWalk ==
  ASSUME WalkInv, NEW agents \in [Agents -> AgentRow \cup {None}],
         NEW rows \in [Runs -> RunRow \cup {NoRun}], NEW found, Wrote(agents, rows, found)
  PROVE  WalkInv'
<1>1. RunsOK' /\ agent' = agents /\ run' = rows
  BY DEF WalkInv, RunsOK, Wrote
<1>2. PICK f : f = reader.filter
  OBVIOUS
<1>3. PICK stay : stay = {r \in Runs : Matches(rows[r], agents, f)}
  OBVIOUS
<1>4. PICK moved : moved = {r \in Matching(f) : r \notin stay \/ rows[r].start # run[r].start}
  OBVIOUS
<1>5. /\ DOMAIN reader' = Fields /\ reader'.op = reader.op /\ reader'.todo = reader.todo
      /\ reader'.offset = reader.offset /\ reader'.filter = f
      /\ reader'.seen = reader.seen /\ reader'.tied = reader.tied
      /\ reader.todo # <<>> /\ reader.op # "idle"
      /\ reader.op = "walk" => reader'.base = reader.base \cap stay
                              /\ reader'.lost = reader.lost + Cardinality(moved)
  BY <1>2, <1>3, <1>4 DEF Wrote, WalkInv, Shaped, Fields
<1>6. Shaped'
  BY <1>5 DEF Shaped
<1>7. Walking'
  <2> SUFFICES ASSUME reader.op = "walk" PROVE Walking'
    BY <1>5 DEF Walking
  <2>1. PICK S \in SUBSET Runs : S = Matching(f)
    BY DEF Matching
  <2>2. stay \in SUBSET Runs /\ Matching(reader.filter)' = stay
    BY <1>1, <1>3, <1>5 DEF Matching
  <2>3. Dated(S, run) /\ Dated(stay, rows)
    <3>1. Dated(S, run)
      BY <2>1, MatchingDated DEF WalkInv
    <3>2. \A q \in stay : rows[q] \in RunRow
      BY <1>3 DEF Matches
    <3>3. \A q \in stay : rows[q].start \in Int
      BY <3>2 DEF RunRow
    <3>4. IsFiniteSet(stay)
      BY <2>2, FS_Subset, ReadSideAssumption
    <3> QED BY <3>1, <3>3, <3>4 DEF Dated
  <2>4. moved = Moved(S, run, stay, rows)
    BY <1>4, <2>1 DEF Moved
  <2>5. reader.base \subseteq S /\ reader.offset \in Nat /\ reader.lost \in Nat
    BY <1>2, <2>1 DEF WalkInv, Walking
  <2>6. reader'.base \subseteq stay /\ Unseen' \in SUBSET Unseen /\ Unseen \in SUBSET Runs
    BY <1>5, <2>1, <2>5 DEF Unseen
  <2>7. Cardinality(moved) \in Nat /\ reader'.lost = reader.lost + Cardinality(moved)
    <3>1. moved \in SUBSET S
      BY <2>4 DEF Moved
    <3> QED BY <1>5, <2>1, <3>1, FS_Subset, FS_CardinalityType, ReadSideAssumption
  <2>8. ASSUME ~ reader.tied PROVE \E X : Excuses(X)'
    <3>1. CASE reader.offset = 0
      <4>1. Excuses({})'
        BY <1>5, <2>5, <2>7, <3>1, FS_EmptySet DEF Excuses
      <4> QED BY <4>1
    <3>2. CASE reader.offset # 0
      <4>1. PICK X : Excuses(X)
        BY <2>8 DEF WalkInv, Walking
      <4>2. PICK U \in SUBSET S : U = Unseen \ X
        BY <2>5 DEF Unseen
      <4>3. OutOfReach(U, S, run, reader.offset)
        BY <1>2, <1>5, <2>1, <2>5, <3>2, <4>1, <4>2 DEF Excuses
      <4>4. X \in SUBSET Runs /\ Cardinality(X) <= reader.lost
        BY <2>6, <4>1 DEF Excuses
      <4>5. PICK W \in SUBSET S : /\ Cardinality(W) <= Cardinality(moved)
                                  /\ OutOfReach(U \ W, stay, rows, reader.offset)
        BY <2>3, <2>4, <2>5, <4>3, Slips
      <4>6. PICK Y : Y = (X \cup W) \cap Unseen'
        OBVIOUS
      <4>7. Cardinality(Y) <= reader'.lost
        <5>1. /\ IsFiniteSet(X) /\ IsFiniteSet(W) /\ Cardinality(X) \in Nat /\ Cardinality(W) \in Nat
              /\ IsFiniteSet(X \cap W) /\ Cardinality(X \cap W) \in Nat
          BY <4>4, FS_Subset, FS_CardinalityType, ReadSideAssumption
        <5>2. IsFiniteSet(X \cup W) /\ Cardinality(X \cup W)
                = Cardinality(X) + Cardinality(W) - Cardinality(X \cap W)
          BY <5>1, FS_Union
        <5>3. Cardinality(Y) <= Cardinality(X \cup W) /\ Cardinality(Y) \in Nat
          BY <4>6, <5>2, FS_Subset, FS_CardinalityType
        <5> QED BY <2>5, <2>7, <4>4, <4>5, <5>1, <5>2, <5>3
      <4>8. (Unseen' \ Y) \in SUBSET (U \ W)
        BY <2>6, <4>2, <4>6
      <4>9. OutOfReach(Unseen' \ Y, stay, rows, reader.offset)
        BY <4>5, <4>8, OutOfReachSubset
      <4>10. Excuses(Y)'
        BY <1>1, <1>5, <2>2, <4>6, <4>7, <4>9 DEF Excuses
      <4> QED BY <4>10
    <3> QED BY <3>1, <3>2
  <2>9. reader'.todo \in {<<"total", "page">>, <<"page">>, <<>>}
        /\ reader'.offset \in Nat /\ reader'.lost \in Nat
    BY <1>5, <2>5, <2>7 DEF WalkInv, Walking
  <2> QED BY <1>5, <2>2, <2>6, <2>8, <2>9 DEF Walking
<1> QED BY <1>1, <1>6, <1>7 DEF WalkInv

(* What others write.                                                      *)
Writing ==
  \/ \E r \in Touched :
       \/ \E age \in Ages, b \in Batches : Arrive(r, age, b)
       \/ \E b \in Batches : Deliver(r, b)
       \/ Thumb(r)
       \/ \E tag \in Tags : PatchTag(r, tag)
       \/ \E found \in Outcomes : Evaluate(r, found)
  \/ \E a \in Asked : Delete(a) \/ \E name \in Names : Rename(a, name)

HitsType == [Runs -> [found : SUBSET Findings, at : Int]]

(* All of it leaves rows of the types of their columns, and findings that  *)
(* there may be.                                                           *)
LEMMA WritesTyped ==
  ASSUME RunsOK, Writing
  PROVE  \E agents \in [Agents -> AgentRow \cup {None}], rows \in [Runs -> RunRow \cup {NoRun}] :
           \E found : Wrote(agents, rows, found) /\ (hits \in HitsType => found \in HitsType)
<1>1. /\ Touched \subseteq Runs /\ now \in Int /\ agent \in [Agents -> AgentRow \cup {None}]
      /\ run \in [Runs -> RunRow \cup {NoRun}]
  BY ReadSideAssumption DEF RunsOK
<1>2. ASSUME NEW r \in Touched, NEW row \in RunRow
      PROVE  r \in Runs /\ [run EXCEPT ![r] = row] \in [Runs -> RunRow \cup {NoRun}]
  BY <1>1, <1>2
<1>3. ASSUME NEW b \in Batches, agent[b.agent] # None
      PROVE  /\ b \in Batch /\ b.agent \in Agents /\ agent[b.agent] \in AgentRow
             /\ Versioned(b) \in [Agents -> AgentRow \cup {None}]
             /\ VersionOf(b) \in (Agents \X Labels) \cup {None}
  <2>1. b \in Batch
    BY ReadSideAssumption
  <2>2. b.agent \in Agents /\ b.version \in Labels \cup {None}
    BY <2>1 DEF Batch
  <2>3. agent[b.agent] \in AgentRow
    BY <1>1, <1>3, <2>2
  <2>4. Versioned(b) \in [Agents -> AgentRow \cup {None}]
    BY <1>1, <2>2, <2>3 DEF Versioned, AgentRow
  <2> QED BY <2>1, <2>2, <2>3, <2>4 DEF VersionOf
<1>4. CASE \E r \in Touched, age \in Ages, b \in Batches : Arrive(r, age, b)
  <2>1. PICK r \in Touched, age \in Ages, b \in Batches : Arrive(r, age, b)
    BY <1>4
  <2>2. /\ b \in Batch /\ agent[b.agent] \in AgentRow /\ Versioned(b) \in [Agents -> AgentRow \cup {None}]
        /\ VersionOf(b) \in (Agents \X Labels) \cup {None}
    BY <1>3, <2>1 DEF Arrive
  <2>3. PICK row : row =
              [start |-> now - age, tag |-> b.tag, done |-> b.done, down |-> 0,
               agent |-> b.agent, service |-> agent[b.agent].name, env |-> b.env,
               version |-> VersionOf(b), prompt |-> b.prompt,
               dur |-> b.dur, input |-> b.input, output |-> b.output]
    OBVIOUS
  <2>4. row \in RunRow
    <3>1. now - age \in Int /\ 0 \in Nat
      BY <1>1, <2>1, ReadSideAssumption
    <3>2. /\ b.tag \in Verdicts /\ b.done \in {"yes", "no", None} /\ b.agent \in Agents
          /\ b.env \in Envs \cup {None} /\ b.prompt \in Prompts \cup {None} /\ agent[b.agent].name \in Names
          /\ b.dur \in Nat \cup {None} /\ b.input \in Nat /\ b.output \in Nat
      BY <2>2 DEF Batch, AgentRow
    <3> QED BY <2>2, <2>3, <3>1, <3>2 DEF RunRow
  <2>5. Wrote(Versioned(b), [run EXCEPT ![r] = row], hits)
    BY <2>1, <2>3 DEF Arrive
  <2> QED BY <1>2, <2>2, <2>4, <2>5
<1>5. CASE \E r \in Touched, b \in Batches : Deliver(r, b)
  <2>1. PICK r \in Touched, b \in Batches : Deliver(r, b)
    BY <1>5
  <2>2. /\ b \in Batch /\ agent[b.agent] \in AgentRow /\ Versioned(b) \in [Agents -> AgentRow \cup {None}]
        /\ VersionOf(b) \in (Agents \X Labels) \cup {None}
    BY <1>3, <2>1 DEF Deliver
  <2>3. PICK old : old = run[r]
    OBVIOUS
  <2>4. old \in RunRow
    BY <1>1, <2>1, <2>3 DEF Deliver
  <2>5. PICK row : row =
              [start |-> old.start + b.by, tag |-> Or(b.tag, old.tag), done |-> Or(b.done, old.done),
               down |-> old.down,
               agent |-> Or(old.agent, b.agent), service |-> agent[b.agent].name, env |-> Or(old.env, b.env),
               version |-> Or(old.version, VersionOf(b)), prompt |-> Or(old.prompt, b.prompt),
               dur |-> Or(b.dur, old.dur), input |-> b.input, output |-> b.output]
    OBVIOUS
  <2>6. row \in RunRow
    BY <2>2, <2>4, <2>5 DEF RunRow, Batch, AgentRow, Or
  <2>7. Wrote(Versioned(b), [run EXCEPT ![r] = row], hits)
    BY <2>1, <2>3, <2>5 DEF Deliver
  <2> QED BY <1>2, <2>2, <2>6, <2>7
<1>6. CASE \E r \in Touched : Thumb(r)
  <2>1. PICK r \in Touched : Thumb(r)
    BY <1>6
  <2>2. PICK row : row = [run[r] EXCEPT !.down = @ + 1]
    OBVIOUS
  <2>3. run[r] \in RunRow
    BY <1>1, <2>1 DEF Thumb
  <2>4. row \in RunRow
    BY <2>2, <2>3 DEF RunRow
  <2>5. Wrote(agent, [run EXCEPT ![r] = row], hits)
    BY <2>1, <2>2 DEF Thumb, WroteRun
  <2> QED BY <1>1, <1>2, <2>4, <2>5
<1>7. CASE \E r \in Touched, tag \in Tags : PatchTag(r, tag)
  <2>1. PICK r \in Touched, tag \in Tags : PatchTag(r, tag)
    BY <1>7
  <2>2. PICK row : row = [run[r] EXCEPT !.tag = tag]
    OBVIOUS
  <2>3. run[r] \in RunRow /\ tag \in Verdicts
    BY <1>1, <2>1, ReadSideAssumption DEF PatchTag
  <2>4. row \in RunRow
    BY <2>2, <2>3 DEF RunRow
  <2>5. Wrote(agent, [run EXCEPT ![r] = row], hits)
    BY <2>1, <2>2 DEF PatchTag, WroteRun
  <2> QED BY <1>1, <1>2, <2>4, <2>5
<1>8. CASE \E r \in Touched, found \in Outcomes : Evaluate(r, found)
  <2>1. PICK r \in Touched, found \in Outcomes : Evaluate(r, found)
    BY <1>8
  <2>2. PICK h : h = [found |-> found, at |-> now]
    OBVIOUS
  <2>3. h \in [found : SUBSET Findings, at : Int] /\ r \in Runs
    BY <1>1, <2>1, <2>2, ReadSideAssumption
  <2>4. Wrote(agent, run, [hits EXCEPT ![r] = h])
    BY <2>1, <2>2 DEF Evaluate
  <2>5. hits \in HitsType => [hits EXCEPT ![r] = h] \in HitsType
    BY <2>3 DEF HitsType
  <2> QED BY <1>1, <2>4, <2>5
<1>9. CASE \E a \in Asked, name \in Names : Rename(a, name)
  <2>1. PICK a \in Asked, name \in Names : Rename(a, name)
    BY <1>9
  <2>2. agent[a] \in AgentRow \/ a \notin Agents
    BY <1>1, <2>1 DEF Rename
  <2>3. [agent EXCEPT ![a].name = name] \in [Agents -> AgentRow \cup {None}]
    BY <1>1, <2>2 DEF AgentRow
  <2>4. Wrote([agent EXCEPT ![a].name = name], run, hits)
    BY <2>1 DEF Rename
  <2> QED BY <1>1, <2>3, <2>4
<1>10. CASE \E a \in Asked : Delete(a)
  <2>1. PICK a \in Asked : Delete(a)
    BY <1>10
  <2>2. PICK rows : rows =
           [r \in Runs |->
              IF run[r] = NoRun THEN NoRun
              ELSE [run[r] EXCEPT !.agent = IF @ = a THEN None ELSE @,
                                  !.version = IF @ # None /\ @[1] = a THEN None ELSE @]]
    OBVIOUS
  <2>3. ASSUME NEW r \in Runs, run[r] # NoRun PROVE rows[r] \in RunRow
    <3>1. run[r] \in RunRow
      BY <1>1, <2>3
    <3>2. rows[r] = [run[r] EXCEPT !.agent = IF @ = a THEN None ELSE @,
                                  !.version = IF @ # None /\ @[1] = a THEN None ELSE @]
      BY <2>2, <2>3
    <3> QED BY <3>1, <3>2 DEF RunRow
  <2>4. rows \in [Runs -> RunRow \cup {NoRun}]
    BY <2>2, <2>3
  <2>5. [agent EXCEPT ![a] = None] \in [Agents -> AgentRow \cup {None}]
    BY <1>1
  <2>6. Wrote([agent EXCEPT ![a] = None], rows, hits)
    BY <2>1, <2>2 DEF Delete
  <2> QED BY <2>4, <2>5, <2>6
<1> QED BY <1>4, <1>5, <1>6, <1>7, <1>8, <1>9, <1>10 DEF Writing

LEMMA QuietWalk ==
  ASSUME WalkInv, UNCHANGED <<agent, run, reader>>, now' \in Int
  PROVE  WalkInv'
<1>1. RunsOK' /\ Shaped'
  BY DEF WalkInv, RunsOK, Shaped
<1>2. Matching(reader.filter)' = Matching(reader.filter)
  BY DEF Matching
<1>3. \A X : Excuses(X)' = Excuses(X)
  BY <1>2 DEF Excuses, Unseen
<1>4. Walking'
  BY <1>2, <1>3 DEF WalkInv, Walking
<1> QED BY <1>1, <1>4 DEF WalkInv

LEMMA WalkStep == ASSUME WalkInv, [Next]_vars PROVE WalkInv'
<1>1. CASE \/ \E a \in Asked : \E op \in {"metrics", "timeseries", "worklist", "profile", "failures"} :
                BeginOf(op, a)
           \/ \E op \in {"overview", "agents", "clusters", "facets"} : Begin(op, None, {})
           \/ \E f : Begin("queue", None, f)
           \/ \E f : Begin("walk", None, f)
  BY <1>1, BeginWalk DEF BeginOf
<1>2. CASE Select BY <1>2, SelectWalk
<1>3. CASE Count BY <1>3, CountWalk
<1>4. CASE Turn BY <1>4, TurnWalk
<1>5. CASE Writing
  <2>1. PICK agents \in [Agents -> AgentRow \cup {None}], rows \in [Runs -> RunRow \cup {NoRun}] :
               \E found : Wrote(agents, rows, found)
    BY <1>5, WritesTyped DEF WalkInv
  <2> QED BY <2>1, WroteWalk
<1>6. CASE Tick
  BY <1>6, QuietWalk DEF Tick, WalkInv, RunsOK
<1>7. CASE UNCHANGED vars
  BY <1>7, QuietWalk DEF vars, WalkInv, RunsOK
<1> QED BY <1>1, <1>2, <1>3, <1>4, <1>5, <1>6, <1>7 DEF Next, Writing

(* In every state of every execution, the runs a walk over the pages of a  *)
(* search may miss are no more than those whose start changed, either way, *)
(* or that left.                                                           *)
THEOREM WalkInvariant == Spec => []WalkInv
<1>1. Init => WalkInv
  BY ReadSideAssumption DEF Init, WalkInv, RunsOK, Shaped, Walking
<1>2. WalkInv /\ [Next]_vars => WalkInv'
  BY WalkStep
<1> QED BY <1>1, <1>2, PTL DEF Spec

(* When it is over, the walk has shown every run that matched all along,   *)
(* but for as many as got another start, older or newer, or stopped to     *)
(* match meanwhile, unless two matching runs had started at the same time. *)
THEOREM PagingIsComplete == Spec => []PagingMissesNothing
<1>1. WalkInv => PagingMissesNothing
  BY DEF WalkInv, Walking, Excuses, Unseen, PagingMissesNothing
<1> QED BY <1>1, WalkInvariant, PTL

-----------------------------------------------------------------------------
(* Sums. SumFunction unfolds by a recursion over finite sets; what it is   *)
(* for every finite set follows from a minimal counterexample, by the      *)
(* orderings that are well-founded.                                        *)

LEMMA SumDef ==
  ASSUME NEW f, NEW I
  PROVE  SumFunctionOnSet(f, I) =
    (CHOOSE g : g = [s \in SUBSET I |->
       IF s = {} THEN 0 ELSE f[CHOOSE x \in s : TRUE] + g[s \ {CHOOSE x \in s : TRUE}]])[I]
BY DEF SumFunctionOnSet, FoldFunctionOnSet, MapThenFoldSet

LEMMA LeastNatural ==
  ASSUME NEW T \in SUBSET Nat, T # {}
  PROVE  \E m \in T : \A k \in T : m <= k
<1>1. IsWellFoundedOn(OpToRel(<, Nat), Nat)
  BY NatLessThanWellFounded
<1>2. PICK m \in T : \A k \in T : ~ (<<k, m>> \in OpToRel(<, Nat))
  BY <1>1, WFMin
<1>3. ASSUME NEW k \in T, ~ m <= k
      PROVE  FALSE
  <2>1. k \in Nat /\ m \in Nat /\ k < m
    BY <1>3
  <2>2. <<k, m>> \in OpToRel(<, Nat)
    BY <2>1 DEF OpToRel
  <2> QED BY <1>2, <1>3, <2>2
<1> QED BY <1>2, <1>3

(* What SumFunctionOnSet takes out of a set next, and the function it      *)
(* recurs on.                                                              *)
Some(s) == CHOOSE x \in s : TRUE

LEMMA SomeIn == ASSUME NEW s, s # {} PROVE Some(s) \in s
  BY DEF Some

Summed(f, g, F) ==
  g = [s \in F |-> IF s = {} THEN 0 ELSE f[Some(s)] + g[s \ {Some(s)}]]

(* That function exists: of the sizes for which there is none, none is the *)
(* least.                                                                  *)
LEMMA SummedExists ==
  ASSUME NEW f, NEW I, IsFiniteSet(I)
  PROVE  \E g : Summed(f, g, SUBSET I)
<1>1. PICK Sized : Sized = [n \in Nat |-> {s \in SUBSET I : Cardinality(s) <= n}]
  OBVIOUS
<1>2. PICK Fails : Fails = {n \in Nat : ~ \E g : Summed(f, g, Sized[n])}
  OBVIOUS
<1>3. \A s \in SUBSET I : IsFiniteSet(s) /\ Cardinality(s) \in Nat
  BY FS_Subset, FS_CardinalityType
<1>4. 0 \notin Fails
  <2>1. Sized[0] = {{}}
    BY <1>1, <1>3, FS_EmptySet
  <2>2. Summed(f, [s \in {{}} |-> 0], Sized[0])
    BY <2>1 DEF Summed
  <2> QED BY <1>2, <2>2
<1>5. ASSUME NEW n \in Nat, n \notin Fails
      PROVE  n + 1 \notin Fails
  <2>1. PICK g : Summed(f, g, Sized[n])
    BY <1>2, <1>5
  <2>2. PICK h : h = [s \in Sized[n + 1] |->
                       IF s = {} THEN 0 ELSE f[Some(s)] + g[s \ {Some(s)}]]
    OBVIOUS
  <2>3. \A s \in Sized[n] : h[s] = g[s]
    <3>1. Sized[n] \subseteq Sized[n + 1]
      BY <1>1, <1>3, <1>5
    <3> QED BY <2>1, <2>2, <3>1 DEF Summed
  <2>4. \A s \in Sized[n + 1] : s # {} => s \ {Some(s)} \in Sized[n]
    <3> TAKE s \in Sized[n + 1]
    <3> HAVE s # {}
    <3>1. PICK x \in s : x = Some(s)
      BY SomeIn
    <3>2. s \in SUBSET I /\ Cardinality(s) <= n + 1
      BY <1>1
    <3>3. IsFiniteSet(s) /\ Cardinality(s) \in Nat
      BY <1>3, <3>2
    <3>4. Cardinality(s \ {x}) = Cardinality(s) - 1
      BY <3>3, FS_RemoveElement
    <3>5. Cardinality(s \ {x}) <= n /\ s \ {x} \in SUBSET I
      BY <3>2, <3>3, <3>4
    <3> QED BY <1>1, <3>1, <3>5
  <2>5. Summed(f, h, Sized[n + 1])
    <3>1. \A s \in Sized[n + 1] :
            h[s] = IF s = {} THEN 0 ELSE f[Some(s)] + h[s \ {Some(s)}]
      BY <2>2, <2>3, <2>4
    <3>2. h = [s \in Sized[n + 1] |-> h[s]]
      BY <2>2
    <3> QED BY <3>1, <3>2 DEF Summed
  <2> QED BY <1>2, <2>5
<1>6. Fails = {}
  <2>1. ASSUME Fails # {} PROVE FALSE
    <3>1. PICK m \in Fails : \A k \in Fails : m <= k
      BY <1>2, <2>1, LeastNatural
    <3>2. m \in Nat /\ m # 0
      BY <1>2, <1>4, <3>1
    <3>3. m - 1 \in Nat /\ m - 1 \notin Fails
      BY <3>1, <3>2
    <3> QED BY <1>5, <3>1, <3>2, <3>3
  <2> QED BY <2>1
<1>7. PICK n \in Nat : n = Cardinality(I)
  BY FS_CardinalityType
<1>8. Sized[n] = SUBSET I
  BY <1>1, <1>7, FS_Subset
<1>9. \E g : Summed(f, g, Sized[n])
  BY <1>2, <1>6
<1> QED BY <1>8, <1>9

(* So a sum is what the function unfolds to.                               *)
LEMMA SumUnfolds ==
  ASSUME NEW f, NEW I, IsFiniteSet(I)
  PROVE  \E g : Summed(f, g, SUBSET I) /\ SumFunctionOnSet(f, I) = g[I]
<1>1. PICK g : g = CHOOSE h : Summed(f, h, SUBSET I)
  OBVIOUS
<1>2. Summed(f, g, SUBSET I)
  BY <1>1, SummedExists
<1>3. SumFunctionOnSet(f, I) = g[I]
  BY <1>1, SumDef DEF Summed, Some
<1> QED BY <1>2, <1>3

(* Disjoint finite sets A[i], and what those of s have together.           *)
Split(A, I) ==
  /\ \A i \in I : IsFiniteSet(A[i])
  /\ \A i, j \in I : i # j => A[i] \cap A[j] = {}

Joined(A, s) == UNION {A[i] : i \in s}

(* Counts of disjoint parts add up to the count of the whole.              *)
LEMMA SumOfParts ==
  ASSUME NEW f, NEW A, NEW I, IsFiniteSet(I), Split(A, I), \A i \in I : f[i] = Cardinality(A[i])
  PROVE  IsFiniteSet(Joined(A, I)) /\ SumFunctionOnSet(f, I) = Cardinality(Joined(A, I))
<1>1. PICK g : Summed(f, g, SUBSET I) /\ SumFunctionOnSet(f, I) = g[I]
  BY SumUnfolds
<1>2. PICK Fails : Fails = {s \in SUBSET I :
               ~ (IsFiniteSet(Joined(A, s)) /\ g[s] = Cardinality(Joined(A, s)))}
  OBVIOUS
<1>3. ASSUME Fails # {} PROVE FALSE
  <2>1. PICK s \in Fails : \A U \in SUBSET s : U # s => U \notin Fails
    BY <1>2, <1>3, MinimalSubset
  <2>2. s \in SUBSET I
    BY <1>2
  <2>3. s # {}
    <3>1. Joined(A, {}) = {} /\ g[{}] = 0
      BY <1>1 DEF Joined, Summed
    <3> QED BY <1>2, <3>1, FS_EmptySet
  <2>4. PICK x \in s : x = Some(s)
    BY <2>3, SomeIn
  <2>5. IsFiniteSet(Joined(A, s \ {x})) /\ g[s \ {x}] = Cardinality(Joined(A, s \ {x}))
    BY <1>2, <2>1, <2>2
  <2>6. g[s] = f[x] + g[s \ {x}]
    BY <1>1, <2>2, <2>3, <2>4 DEF Summed
  <2>7. Joined(A, s) = A[x] \cup Joined(A, s \ {x})
    BY DEF Joined
  <2>8. A[x] \cap Joined(A, s \ {x}) = {}
    BY <2>2 DEF Joined, Split
  <2>9. IsFiniteSet(A[x]) /\ f[x] = Cardinality(A[x])
    BY <2>2 DEF Split
  <2>10. IsFiniteSet(Joined(A, s))
             /\ Cardinality(Joined(A, s)) = Cardinality(A[x]) + Cardinality(Joined(A, s \ {x}))
    <3>1. Cardinality(A[x]) \in Nat /\ Cardinality(Joined(A, s \ {x})) \in Nat
      BY <2>5, <2>9, FS_CardinalityType
    <3>2. Cardinality(A[x] \cap Joined(A, s \ {x})) = 0
      BY <2>8, FS_EmptySet
    <3>3. /\ IsFiniteSet(A[x] \cup Joined(A, s \ {x}))
          /\ Cardinality(A[x] \cup Joined(A, s \ {x}))
               = Cardinality(A[x]) + Cardinality(Joined(A,
                   s \ {x})) - Cardinality(A[x] \cap Joined(A, s \ {x}))
      BY <2>5, <2>9, FS_Union
    <3> QED BY <2>7, <3>1, <3>2, <3>3
  <2> QED BY <1>2, <2>1, <2>5, <2>6, <2>9, <2>10
<1> QED BY <1>1, <1>2, <1>3

-----------------------------------------------------------------------------
(* ORDER BY and LIMIT: there is always a result, and it descends.          *)

LEMMA ImageFinite ==
  ASSUME NEW f, IsFiniteSet(DOMAIN f)
  PROVE  IsFiniteSet({f[x] : x \in DOMAIN f})
           /\ Cardinality({f[x] : x \in DOMAIN f}) <= Cardinality(DOMAIN f)
<1>1. PICK g : g = [x \in DOMAIN f |-> f[x]]
  OBVIOUS
<1>2. g \in Surjection(DOMAIN f, {f[x] : x \in DOMAIN f})
  BY <1>1 DEF Surjection
<1> QED BY <1>2, FS_Surjection

(* The first m rows by key, in their order: what Largest chooses.          *)
Ranking(key, m, s) ==
  /\ s \in [1 .. m -> DOMAIN key]
  /\ \A i \in 1 .. m :
       /\ \A j \in 1 .. (i - 1) : s[j] # s[i]
       /\ \A x \in DOMAIN key : Exceeds(key[x], key[s[i]]) => \E j \in 1 .. (i - 1) : s[j] = x

(* There is such an order of finitely many rows, up to any length.         *)
LEMMA RankingExists ==
  ASSUME NEW key, IsFiniteSet(DOMAIN key), \A x \in DOMAIN key : key[x][1] \in Int
         /\ key[x][2] \in Int,
         NEW m \in Nat, m <= Cardinality(DOMAIN key)
  PROVE  \E s : Ranking(key, m, s)
<1>1. PICK Fails : Fails = {n \in Nat : n <= Cardinality(DOMAIN key) /\ ~ \E s : Ranking(key, n, s)}
  OBVIOUS
<1>2. Cardinality(DOMAIN key) \in Nat
  BY FS_CardinalityType
<1>3. 0 \notin Fails
  <2>1. Ranking(key, 0, <<>>)
    BY DEF Ranking
  <2> QED BY <1>1, <2>1
<1>4. ASSUME NEW n \in Nat, n \notin Fails, n + 1 <= Cardinality(DOMAIN key)
      PROVE  n + 1 \notin Fails
  <2>1. PICK s : Ranking(key, n, s)
    BY <1>1, <1>2, <1>4
  <2>2. PICK T : T = DOMAIN key \ {s[i] : i \in 1 .. n}
    OBVIOUS
  <2>3. DOMAIN s = 1 .. n /\ IsFiniteSet(1 .. n) /\ Cardinality(1 .. n) = n
    BY <1>4, <2>1, FS_Interval DEF Ranking
  <2>4. IsFiniteSet({s[i] : i \in 1 .. n}) /\ Cardinality({s[i] : i \in 1 .. n}) <= n
    BY <2>3, ImageFinite
  <2>5. T # {}
    <3>1. ASSUME T = {} PROVE FALSE
      <4>1. DOMAIN key \in SUBSET {s[i] : i \in 1 .. n}
        BY <2>2, <3>1
      <4>2. Cardinality(DOMAIN key) <= Cardinality({s[i] : i \in 1 .. n})
        BY <2>4, <4>1, FS_Subset
      <4>3. Cardinality({s[i] : i \in 1 .. n}) \in Nat
        BY <2>4, FS_CardinalityType
      <4> QED BY <1>2, <1>4, <2>4, <4>2, <4>3
    <3> QED BY <3>1
  <2>6. T \in SUBSET DOMAIN key /\ IsFiniteSet(T)
    BY <2>2, FS_Subset
  <2>7. PICK x \in T : \A y \in T : ~ Exceeds(key[y], key[x])
    BY <2>5, <2>6, OneLeads
  <2>8. PICK u : u = [i \in 1 .. (n + 1) |-> IF i = n + 1 THEN x ELSE s[i]]
    OBVIOUS
  <2>9. u \in [1 .. (n + 1) -> DOMAIN key] /\ u[n + 1] = x /\ \A i \in 1 .. n : u[i] = s[i]
            /\ u[i] # x
    BY <1>4, <2>1, <2>2, <2>6, <2>7, <2>8 DEF Ranking
  <2>10. ASSUME NEW i \in 1 .. (n + 1)
         PROVE  /\ \A j \in 1 .. (i - 1) : u[j] # u[i]
                /\ \A y \in DOMAIN key :
                     Exceeds(key[y], key[u[i]]) => \E j \in 1 .. (i - 1) : u[j] = y
    <3>1. CASE i = n + 1
      <4>1. \A y \in DOMAIN key : Exceeds(key[y], key[x]) => \E j \in 1 .. n : s[j] = y
        BY <2>2, <2>7
      <4> QED BY <1>4, <2>9, <3>1, <4>1
    <3>2. CASE i # n + 1
      <4>1. i \in 1 .. n /\ \A j \in 1 .. (i - 1) : j \in 1 .. n
        BY <1>4, <3>2
      <4> QED BY <2>1, <2>9, <4>1 DEF Ranking
    <3> QED BY <3>1, <3>2
  <2>11. Ranking(key, n + 1, u)
    BY <2>9, <2>10 DEF Ranking
  <2> QED BY <1>1, <2>11
<1>5. Fails = {}
  <2>1. ASSUME Fails # {} PROVE FALSE
    <3>1. PICK n \in Fails : \A k \in Fails : n <= k
      BY <1>1, <2>1, LeastNatural
    <3>2. n \in Nat /\ n # 0 /\ n <= Cardinality(DOMAIN key)
      BY <1>1, <1>3, <3>1
    <3>3. n - 1 \in Nat /\ n - 1 \notin Fails /\ (n - 1) + 1 = n
      BY <3>1, <3>2
    <3> QED BY <1>4, <3>1, <3>2, <3>3
  <2> QED BY <2>1
<1> QED BY <1>1, <1>5

(* So Largest is one.                                                      *)
LEMMA LargestRanks ==
  ASSUME NEW key, IsFiniteSet(DOMAIN key), \A x \in DOMAIN key : key[x][1] \in Int
         /\ key[x][2] \in Int,
         NEW n \in Nat
  PROVE  Ranking(key, Smaller(Cardinality(DOMAIN key), n), Largest(key, n))
<1>1. PICK m \in Nat : m = Smaller(Cardinality(DOMAIN key), n) /\ m <= Cardinality(DOMAIN key)
  BY FS_CardinalityType DEF Smaller
<1> DEFINE P(s) == \A i \in 1 .. m :
                    /\ \A j \in 1 .. (i - 1) : s[j] # s[i]
                    /\ \A x \in DOMAIN key :
                         Exceeds(key[x], key[s[i]]) => \E j \in 1 .. (i - 1) : s[j] = x
<1>2. Largest(key, n) = CHOOSE s \in [1 .. m -> DOMAIN key] : P(s)
  BY <1>1 DEF Largest
<1>3. \E s \in [1 .. m -> DOMAIN key] : P(s)
  <2>1. PICK s : Ranking(key, m, s)
    BY <1>1, RankingExists
  <2>2. s \in [1 .. m -> DOMAIN key] /\ P(s)
    BY <2>1 DEF Ranking
  <2> QED BY <2>2
<1>4. Largest(key, n) \in [1 .. m -> DOMAIN key] /\ P(Largest(key, n))
  <2> HIDE DEF P
  <2> QED BY <1>2, <1>3, Zenon
<1>5. Ranking(key, m, Largest(key, n))
  BY <1>4 DEF Ranking
<1> QED BY <1>1, <1>5

(* Its rows are in descending order. *)
LEMMA RankingDescends ==
  ASSUME NEW key, \A x \in DOMAIN key : key[x][1] \in Int /\ key[x][2] \in Int,
         NEW m \in Nat, NEW s, Ranking(key, m, s), NEW i \in 1 .. m, NEW j \in 1 .. i
  PROVE  key[s[j]][1] >= key[s[i]][1]
<1>1. ASSUME key[s[i]][1] > key[s[j]][1] PROVE FALSE
  <2>1. s[i] \in DOMAIN key /\ s[j] \in DOMAIN key /\ Exceeds(key[s[i]], key[s[j]])
    BY <1>1 DEF Ranking, Exceeds
  <2>2. PICK h \in 1 .. (j - 1) : s[h] = s[i]
    BY <2>1 DEF Ranking
  <2>3. h \in 1 .. (i - 1)
    OBVIOUS
  <2> QED BY <2>2, <2>3 DEF Ranking
<1>2. key[s[i]][1] \in Int /\ key[s[j]][1] \in Int
  BY DEF Ranking
<1> QED BY <1>1, <1>2

-----------------------------------------------------------------------------
(* percentile_cont: percentiles of the same values ascend.                 *)

(* The values up to v, and what it is to be the k-th of all.               *)
AtOrBelow(value, v) == {x \in DOMAIN value : value[x] <= v}

Below(value, v) == {x \in DOMAIN value : value[x] < v}

Numbers(value) == IsFiniteSet(DOMAIN value) /\ \A x \in DOMAIN value : value[x] \in Nat

IsPlace(value, k, v) ==
  v \in Range(value) /\ Cardinality(Below(value, v)) < k /\ Cardinality(AtOrBelow(value, v)) >= k

(* A number that is the greatest of some of the values. *)
LEMMA GreatestOf ==
  ASSUME NEW value, Numbers(value), NEW T \in SUBSET DOMAIN value, T # {}
  PROVE  \E x \in T : \A y \in T : value[y] <= value[x]
<1>1. PICK key : key = [x \in DOMAIN value |-> <<value[x], 0>>]
  OBVIOUS
<1>2. IsFiniteSet(T) /\ \A x \in T : key[x][1] \in Int /\ key[x][2] \in Int
  BY <1>1, FS_Subset DEF Numbers
<1>3. PICK x \in T : \A y \in T : ~ Exceeds(key[y], key[x])
  BY <1>2, OneLeads
<1>4. \A y \in T : value[y] <= value[x]
  BY <1>1, <1>3 DEF Exceeds, Numbers
<1> QED BY <1>4

LEMMA CountsType ==
  ASSUME NEW value, Numbers(value), NEW v
  PROVE  /\ IsFiniteSet(Below(value, v)) /\ Cardinality(Below(value, v)) \in Nat
         /\ IsFiniteSet(AtOrBelow(value, v)) /\ Cardinality(AtOrBelow(value, v)) \in Nat
<1>1. Below(value, v) \in SUBSET DOMAIN value /\ AtOrBelow(value, v) \in SUBSET DOMAIN value
  BY DEF Below, AtOrBelow
<1> QED BY <1>1, FS_Subset, FS_CardinalityType DEF Numbers

(* Every place is taken, and the k-th value does not fall as k grows.      *)
LEMMA PlaceExists ==
  ASSUME NEW value, Numbers(value), NEW k \in 1 .. Cardinality(DOMAIN value)
  PROVE  IsPlace(value, k, Place(value, k)) /\ Place(value, k) \in Nat
<1>1. Cardinality(DOMAIN value) \in Nat
  BY FS_CardinalityType DEF Numbers
<1>2. PICK Reach : Reach = {v \in Nat : v \in Range(value) /\ Cardinality(AtOrBelow(value, v)) >= k}
  OBVIOUS
<1>3. Reach # {}
  <2>1. DOMAIN value # {}
    BY <1>1, FS_EmptySet
  <2>2. PICK x \in DOMAIN value : \A y \in DOMAIN value : value[y] <= value[x]
    BY <2>1, GreatestOf
  <2>3. AtOrBelow(value, value[x]) = DOMAIN value
    BY <2>2 DEF AtOrBelow
  <2>4. value[x] \in Range(value) /\ value[x] \in Nat
    BY DEF Range, Numbers
  <2> QED BY <1>1, <1>2, <2>3, <2>4
<1>4. PICK v \in Reach : \A w \in Reach : v <= w
  BY <1>2, <1>3, LeastNatural
<1>5. v \in Nat /\ v \in Range(value) /\ Cardinality(AtOrBelow(value, v)) >= k
  BY <1>2
<1>6. Cardinality(Below(value, v)) < k
  <2>1. CASE Below(value, v) = {}
    BY <1>1, <2>1, FS_EmptySet
  <2>2. CASE Below(value, v) # {}
    <3>1. PICK x \in Below(value, v) : \A y \in Below(value, v) : value[y] <= value[x]
      <4>1. Below(value, v) \in SUBSET DOMAIN value
        BY DEF Below
      <4> QED BY <2>2, <4>1, GreatestOf
    <3>2. x \in DOMAIN value /\ value[x] \in Nat /\ value[x] < v /\ value[x] \in Range(value)
      BY <3>1 DEF Below, Numbers, Range
    <3>3. AtOrBelow(value, value[x]) = Below(value, v)
      BY <1>5, <3>1, <3>2 DEF AtOrBelow, Below, Numbers
    <3>4. value[x] \notin Reach
      BY <1>4, <1>5, <3>2
    <3>5. Cardinality(Below(value, v)) \in Nat
      BY CountsType
    <3> QED BY <1>1, <1>2, <3>2, <3>3, <3>4, <3>5
  <2> QED BY <2>1, <2>2
<1>7. IsPlace(value, k, v)
  BY <1>5, <1>6 DEF IsPlace
<1>8. IsPlace(value, k, Place(value, k))
  BY <1>7 DEF IsPlace, Place, Below, AtOrBelow
<1>9. Place(value, k) \in Nat
  BY <1>8 DEF IsPlace, Range, Numbers
<1> QED BY <1>8, <1>9

LEMMA PlacesAscend ==
  ASSUME NEW value, Numbers(value), NEW j \in 1 .. Cardinality(DOMAIN value),
         NEW k \in 1 .. Cardinality(DOMAIN value), j <= k
  PROVE  Place(value, j) <= Place(value, k)
<1>1. PICK v \in Nat : v = Place(value, j) /\ IsPlace(value, j, v)
  BY PlaceExists
<1>2. PICK w \in Nat : w = Place(value, k) /\ IsPlace(value, k, w)
  BY PlaceExists
<1>3. ASSUME w < v PROVE FALSE
  <2>1. AtOrBelow(value, w) \in SUBSET Below(value, v)
    BY <1>3 DEF AtOrBelow, Below, Numbers
  <2>2. Cardinality(AtOrBelow(value, w)) <= Cardinality(Below(value, v))
    BY <2>1, CountsType, FS_Subset
  <2>3. Cardinality(AtOrBelow(value, w)) \in Nat /\ Cardinality(Below(value, v)) \in Nat
    BY CountsType
  <2>4. Cardinality(DOMAIN value) \in Nat
    BY FS_CardinalityType DEF Numbers
  <2> QED BY <1>1, <1>2, <2>2, <2>3, <2>4 DEF IsPlace
<1> QED BY <1>1, <1>2, <1>3

LEMMA MixBounds ==
  ASSUME NEW low \in Nat, NEW high \in Nat, low <= high, NEW part \in 0 .. 99
  PROVE  low * (100 - part) + high * part \in (100 * low) .. (100 * high)
<1>1. PICK d \in Nat : high = low + d
  OBVIOUS
<1>2. low * (100 - part) + high * part = 100 * low + d * part
  BY <1>1
<1>3. d * part \in 0 .. (100 * d)
  BY <1>1
<1> QED BY <1>1, <1>2, <1>3

(* What percentile_cont returns of a rank. *)
AtRank(value, rank) ==
  LET part == rank % 100
      low == Place(value, (rank \div 100) + 1)
      high == Place(value, (rank \div 100) + (IF part = 0 THEN 1 ELSE 2))
  IN low * (100 - part) + high * part

(* The value between two places grows with the part of the way to the      *)
(* second.                                                                 *)
LEMMA MixGrows ==
  ASSUME NEW low \in Nat, NEW high \in Nat, low <= high, NEW p \in 0 .. 99, NEW q \in p .. 99
  PROVE  low * (100 - p) + high * p <= low * (100 - q) + high * q
<1>1. PICK d \in Nat : high = low + d
  OBVIOUS
<1>2. PICK e \in Nat : q = p + e
  OBVIOUS
<1>3. d * e >= 0
  OBVIOUS
<1>4. low * (100 - q) + high * q = low * (100 - p) + high * p + d * e
  BY <1>1, <1>2
<1> QED BY <1>3, <1>4

LEMMA RankPlaces ==
  ASSUME NEW value, Numbers(value), Cardinality(DOMAIN value) >= 1,
         NEW rank \in 0 .. 100 * (Cardinality(DOMAIN value) - 1)
  PROVE  \E f \in Nat, p \in 0 .. 99 :
           /\ f = rank \div 100 /\ p = rank % 100 /\ rank = 100 * f + p
           /\ f + 1 \in 1 .. Cardinality(DOMAIN value)
           /\ f + (IF p = 0 THEN 1 ELSE 2) \in 1 .. Cardinality(DOMAIN value)
<1>1. PICK n \in Nat : n = Cardinality(DOMAIN value)
  BY FS_CardinalityType DEF Numbers
<1>2. PICK f \in Int, p \in 0 .. 99 : f = rank \div 100 /\ p = rank % 100 /\ rank = 100 * f + p
  <2>1. rank \in Int
    BY <1>1
  <2> QED BY <2>1
<1>3. f \in Nat /\ f <= n - 1 /\ (p # 0 => f < n - 1)
  BY <1>1, <1>2
<1>4. f + 1 \in 1 .. n
  BY <1>1, <1>3
<1>5. f + (IF p = 0 THEN 1 ELSE 2) \in 1 .. n
  BY <1>1, <1>2, <1>3
<1> QED BY <1>1, <1>2, <1>3, <1>4, <1>5

(* What is returned grows with the rank.                                   *)
LEMMA AtRankAscends ==
  ASSUME NEW value, Numbers(value), Cardinality(DOMAIN value) >= 1,
         NEW k \in 0 .. 100 * (Cardinality(DOMAIN value) - 1), NEW j \in 0 .. k
  PROVE  AtRank(value, j) \in Nat /\ AtRank(value, k) \in Nat
           /\ AtRank(value, j) <= AtRank(value, k)
<1>1. PICK n \in Nat : n = Cardinality(DOMAIN value)
  BY FS_CardinalityType DEF Numbers
<1>2. j \in 0 .. 100 * (n - 1) /\ k \in 0 .. 100 * (n - 1) /\ j <= k
  BY <1>1
<1>3. PICK fj \in Nat, pj \in 0 .. 99, hj \in 1 .. n :
        fj = j \div 100 /\ pj = j % 100 /\ j = 100 * fj + pj /\ fj + 1 \in 1 .. n
        /\ hj = fj + (IF pj = 0 THEN 1 ELSE 2)
  BY <1>1, <1>2, RankPlaces
<1>4. PICK fk \in Nat, pk \in 0 .. 99, hk \in 1 .. n :
        fk = k \div 100 /\ pk = k % 100 /\ k = 100 * fk + pk /\ fk + 1 \in 1 .. n
        /\ hk = fk + (IF pk = 0 THEN 1 ELSE 2)
  BY <1>1, <1>2, RankPlaces
<1>5. PICK lowj \in Nat, highj \in Nat, lowk \in Nat, highk \in Nat :
        lowj = Place(value, fj + 1) /\ highj = Place(value, hj)
        /\ lowk = Place(value, fk + 1) /\ highk = Place(value, hk)
  BY <1>1, <1>3, <1>4, PlaceExists
<1>6. lowj <= highj /\ lowk <= highk
  BY <1>1, <1>3, <1>4, <1>5, PlacesAscend
<1>7. AtRank(value, j) = lowj * (100 - pj) + highj * pj
          /\ AtRank(value, k) = lowk * (100 - pk) + highk * pk
  <2>1. AtRank(value, j) = lowj * (100 - pj) + highj * pj
    BY <1>3, <1>5, Zenon DEF AtRank
  <2>2. AtRank(value, k) = lowk * (100 - pk) + highk * pk
    BY <1>4, <1>5, Zenon DEF AtRank
  <2> QED BY <2>1, <2>2
<1>8. /\ AtRank(value, j) \in (100 * lowj) .. (100 * highj)
      /\ AtRank(value, k) \in (100 * lowk) .. (100 * highk)
  BY <1>6, <1>7, MixBounds
<1>9. CASE fj = fk
  <2>1. pj <= pk /\ lowj = lowk
    BY <1>2, <1>3, <1>4, <1>5, <1>9
  <2>2. CASE pj = 0
    BY <1>7, <1>8, <2>1, <2>2
  <2>3. CASE pj # 0
    <3>1. highj = highk
      BY <1>3, <1>4, <1>5, <1>9, <2>1, <2>3
    <3>2. pk \in pj .. 99
      BY <2>1
    <3>3. lowk * (100 - pj) + highk * pj <= lowk * (100 - pk) + highk * pk
      BY <1>6, <3>2, MixGrows
    <3> QED BY <1>7, <1>8, <2>1, <3>1, <3>3
  <2> QED BY <2>2, <2>3
<1>10. CASE fj # fk
  <2>1. fj < fk
    BY <1>2, <1>3, <1>4, <1>10
  <2>2. hj <= fk + 1
    BY <1>3, <2>1
  <2>3. highj <= lowk
    BY <1>1, <1>4, <1>5, <2>2, PlacesAscend
  <2> QED BY <1>8, <2>3
<1> QED BY <1>8, <1>9, <1>10

(* So p50 <= p95 <= p99.                                                   *)
LEMMA QuantilesAscend ==
  ASSUME NEW value, Numbers(value), DOMAIN value # {}, NEW q \in 0 .. 100, NEW p \in 0 .. q
  PROVE  Quantile(p, value) \in Nat /\ Quantile(p, value) <= Quantile(q, value)
<1>1. PICK m \in Nat : Cardinality(DOMAIN value) = m + 1
  <2>1. Cardinality(DOMAIN value) \in Nat /\ Cardinality(DOMAIN value) # 0
    BY FS_CardinalityType, FS_EmptySet DEF Numbers
  <2>2. Cardinality(DOMAIN value) - 1 \in Nat
            /\ Cardinality(DOMAIN value) = (Cardinality(DOMAIN value) - 1) + 1
    BY <2>1
  <2> QED BY <2>2
<1>2. PICK j \in Nat, k \in Nat : j = p * m /\ k = q * m
  OBVIOUS
<1>3. j <= k /\ k <= 100 * m
  <2>1. PICK d \in Nat : q = p + d
    OBVIOUS
  <2>2. PICK e \in Nat : 100 = q + e
    OBVIOUS
  <2>3. d * m \in Nat /\ e * m \in Nat
    OBVIOUS
  <2>4. k = j + d * m
    BY <1>2, <2>1
  <2>5. 100 * m = k + e * m
    <3>1. 100 * m = (q + e) * m
      BY <2>2
    <3>2. (q + e) * m = q * m + e * m
      OBVIOUS
    <3> QED BY <1>2, <3>1, <3>2
  <2> QED BY <1>2, <2>3, <2>4, <2>5
<1>4. Cardinality(DOMAIN value) - 1 = m
  BY <1>1
<1>5. Quantile(p, value) = AtRank(value, j) \div 100
          /\ Quantile(q, value) = AtRank(value, k) \div 100
  BY <1>2, <1>4 DEF Quantile, AtRank
<1>6. AtRank(value, j) \in Nat /\ AtRank(value, k) \in Nat /\ AtRank(value, j) <= AtRank(value, k)
  BY <1>1, <1>2, <1>3, <1>4, AtRankAscends
<1> QED BY <1>5, <1>6

-----------------------------------------------------------------------------
(* What one SELECT counts, against the runs that began since.              *)

(* The runs of W that began at t or after, in a table of runs. *)
Began(W, row, t) == {r \in W : row[r] # NoRun /\ row[r].start >= t}

(* The runs of an agent, in a table.                                       *)
Owned(row, a) == {r \in Runs : row[r] # NoRun /\ row[r].agent = a}

LEMMA SinceIsBegan ==
  ASSUME NEW t, NEW a
  PROVE  Since(t) = Began(Runs, run, t) /\ Of(a, Since(t)) = Began(Owned(run, a), run, t)
  BY DEF Since, Rows, Of, Began, Owned

LEMMA RunsFinite ==
  ASSUME NEW S \in SUBSET Runs
  PROVE  IsFiniteSet(S) /\ Cardinality(S) \in Nat
  BY FS_Subset, FS_CardinalityType, ReadSideAssumption

LEMMA RowStarts ==
  ASSUME RunsOK, NEW r \in Rows
  PROVE  run[r] \in RunRow /\ run[r].start \in Int /\ run[r].down \in Nat
<1>1. run[r] \in RunRow
  BY DEF RunsOK, Rows
<1> QED BY <1>1 DEF RunRow

(* A sum of counts of disjoint sets of runs is no more than all of them,   *)
(* and as many when it leaves none out.                                    *)
LEMMA SumAsCount ==
  ASSUME NEW f, NEW A, IsFiniteSet(DOMAIN f), NEW S \in SUBSET Runs,
         \A i \in DOMAIN f : A[i] \in SUBSET S /\ f[i] = Cardinality(A[i]),
         \A i, j \in DOMAIN f : i # j => A[i] \cap A[j] = {}
  PROVE  /\ SumFunction(f) = Cardinality(Joined(A, DOMAIN f))
         /\ SumFunction(f) \in Nat
         /\ SumFunction(f) <= Cardinality(S)
         /\ S \in SUBSET Joined(A, DOMAIN f) => SumFunction(f) = Cardinality(S)
<1>1. Split(A, DOMAIN f)
  <2>1. \A i \in DOMAIN f : IsFiniteSet(A[i])
    BY RunsFinite
  <2> QED BY <2>1 DEF Split
<1>2. SumFunction(f) = Cardinality(Joined(A, DOMAIN f))
  BY <1>1, SumOfParts DEF SumFunction
<1>3. Joined(A, DOMAIN f) \in SUBSET S
  BY DEF Joined
<1>4. IsFiniteSet(S) /\ IsFiniteSet(Joined(A, DOMAIN f)) /\ Cardinality(Joined(A, DOMAIN f)) \in Nat
  BY <1>3, RunsFinite
<1>5. Cardinality(Joined(A, DOMAIN f)) <= Cardinality(S)
  BY <1>3, <1>4, FS_Subset
<1>6. S \in SUBSET Joined(A, DOMAIN f) => Joined(A, DOMAIN f) = S
  BY <1>3
<1> QED BY <1>2, <1>4, <1>5, <1>6

LEMMA LatenciesAscend ==
  ASSUME RunsOK, NEW S \in SUBSET Rows
  PROVE  Ascending(Latencies(S))
<1>1. PICK value : value = [r \in Timed(S) |-> run[r].dur]
  OBVIOUS
<1>2. Numbers(value) /\ DOMAIN value = Timed(S)
  <2>1. Timed(S) \in SUBSET Runs /\ \A r \in Timed(S) : run[r] \in RunRow /\ run[r].dur # None
    BY RowStarts DEF Timed, Rows
  <2>2. \A r \in Timed(S) : run[r].dur \in Nat
    BY <2>1 DEF RunRow
  <2> QED BY <1>1, <2>1, <2>2, RunsFinite DEF Numbers
<1>3. Latencies(S) = <<Quantile(50, value), Quantile(95, value), Quantile(99, value)>>
  BY <1>1 DEF Latencies, Latency
<1>4. CASE DOMAIN value = {}
  <2>1. Quantile(50, value) = None
    BY <1>4 DEF Quantile
  <2> QED BY <1>3, <2>1 DEF Ascending
<1>5. CASE DOMAIN value # {}
  <2>1. Quantile(50, value) <= Quantile(95, value) /\ Quantile(95, value) <= Quantile(99, value)
    BY <1>2, <1>5, QuantilesAscend
  <2> QED BY <1>3, <2>1 DEF Ascending
<1> QED BY <1>4, <1>5

LEMMA TruncBounds ==
  ASSUME NEW t \in Int, NEW unit \in Nat \ {0}
  PROVE  Trunc(t, unit) \in Int /\ Trunc(t, unit) <= t /\ t < Trunc(t, unit) + unit
<1>1. PICK q \in Int, p \in 0 .. (unit - 1) : q = t \div unit /\ t = unit * q + p
  OBVIOUS
<1>2. Trunc(t, unit) = unit * q /\ unit * q \in Int
  BY <1>1 DEF Trunc
<1> QED BY <1>1, <1>2

(* The bars of a series. *)
Bar(t, i) == Trunc(t, Hour) - (Bars - i) * Hour

LEMMA BarsDiffer ==
  ASSUME NEW t \in Int, NEW i \in 1 .. Bars, NEW since \in Int, since <= t - Window
  PROVE  /\ Bar(t, i) \in Int
         /\ \A j \in 1 .. Bars : i # j => Bar(t, i) # Bar(t, j)
         /\ \A s \in Int : Trunc(s, Hour) = Bar(t, i) => s >= since
<1>1. Hour \in Nat \ {0} /\ Bars \in Nat \ {0}
  BY ReadSideAssumption
<1>2. PICK T \in Int : T = Trunc(t, Hour) /\ t < T + Hour
  BY <1>1, TruncBounds
<1>3. \A j \in 1 .. Bars : (Bars - j) * Hour \in Nat
  BY <1>1
<1>4. Bar(t, i) \in Int
  BY <1>2, <1>3 DEF Bar
<1>5. ASSUME NEW j \in 1 .. Bars, i # j PROVE Bar(t, i) # Bar(t, j)
  <2>1. ASSUME (Bars - i) * Hour = (Bars - j) * Hour PROVE FALSE
    <3>1. (i - j) * Hour = 0
      <4>1. (i - j) * Hour = (Bars - j) * Hour - (Bars - i) * Hour
        BY <1>1
      <4> QED BY <2>1, <1>3, <4>1
    <3> QED BY <1>1, <1>5, <3>1
  <2> QED BY <1>2, <1>3, <2>1 DEF Bar
<1>6. ASSUME NEW s \in Int, Trunc(s, Hour) = Bar(t, i) PROVE s >= since
  <2>1. Bar(t, i) <= s
    BY <1>1, <1>6, TruncBounds
  <2>2. (Bars - i) * Hour <= (Bars - 1) * Hour
    BY <1>1
  <2>3. (Bars - 1) * Hour = Window - Hour /\ Window \in Int
    BY <1>1 DEF Window
  <2> QED BY <1>1, <1>2, <1>3, <2>1, <2>2, <2>3 DEF Bar
<1> QED BY <1>4, <1>5, <1>6

(* The bars of a series count no run twice, and none of before the window. *)
LEMMA SeriesCounts ==
  ASSUME RunsOK, NEW W \in SUBSET Runs, NEW t \in Int, NEW since \in Int, since <= t - Window
  PROVE  /\ RunsOf(LatencySeries(t, Rows \cap W)) \in Nat
         /\ RunsOf(LatencySeries(t, Rows \cap W)) <= Cardinality(Began(W, run, since))
<1>1. PICK A : A = [i \in 1 .. Bars |-> {r \in Timed(Rows \cap W) : Trunc(run[r].start, Hour)
               = Bar(t, i)}]
  OBVIOUS
<1>2. PICK f : f = [i \in 1 .. Bars |-> Cardinality(A[i])]
  OBVIOUS
<1>3. RunsOf(LatencySeries(t, Rows \cap W)) = SumFunction(f)
  BY <1>1, <1>2 DEF RunsOf, LatencySeries, Bar
<1>4. Began(W, run, since) \in SUBSET Runs
  BY DEF Began
<1>5. \A i \in 1 .. Bars : A[i] \in SUBSET Began(W, run, since)
  <2> SUFFICES ASSUME NEW i \in 1 .. Bars, NEW r \in A[i] PROVE r \in Began(W, run, since)
    OBVIOUS
  <2>1. r \in Rows /\ r \in W /\ Trunc(run[r].start, Hour) = Bar(t, i)
    BY <1>1 DEF Timed
  <2>2. run[r].start \in Int
    BY <2>1, RowStarts
  <2> QED BY <2>1, <2>2, BarsDiffer DEF Began, Rows
<1>6. \A i, j \in 1 .. Bars : i # j => A[i] \cap A[j] = {}
  BY <1>1, BarsDiffer
<1>7. IsFiniteSet(DOMAIN f) /\ DOMAIN f = 1 .. Bars
  BY <1>2, FS_Interval, ReadSideAssumption
<1> QED BY <1>2, <1>3, <1>4, <1>5, <1>6, <1>7, SumAsCount

(* A table of runs.                                                        *)
RowsTyped(row) == row \in [Runs -> RunRow \cup {NoRun}]

LEMMA BeganType ==
  ASSUME NEW row, RowsTyped(row), NEW W \in SUBSET Runs, NEW t
  PROVE  /\ Began(W, row, t) \in SUBSET Runs
         /\ \A r \in Began(W, row, t) : row[r] \in RunRow /\ row[r].start \in Int
<1>1. \A r \in Began(W, row, t) : r \in Runs /\ row[r] \in RunRow
  BY DEF Began, RowsTyped
<1> QED BY <1>1 DEF RunRow

LEMMA ImagesFinite ==
  ASSUME NEW S, IsFiniteSet(S), NEW f
  PROVE  IsFiniteSet({f[x] : x \in S})
<1>1. PICK g : g = [x \in S |-> f[x]]
  OBVIOUS
<1>2. IsFiniteSet({g[x] : x \in DOMAIN g})
  BY <1>1, ImageFinite
<1>3. {f[x] : x \in S} = {g[x] : x \in DOMAIN g}
  BY <1>1
<1> QED BY <1>2, <1>3

(* The environments add up to the runs.                                    *)
LEMMA EnvSplitCounts ==
  ASSUME RunsOK, NEW since
  PROVE  SumFunction([e \in EnvSplit(since) |-> e[2]]) = Cardinality(Began(Runs, run, since))
<1>1. PICK S \in SUBSET Runs : S = Began(Runs, run, since) /\ S = Since(since)
  BY SinceIsBegan DEF Began
<1>2. PICK pair : pair = [r \in S |-> <<run[r].env,
               Cardinality({q \in S : run[q].env = run[r].env})>>]
  OBVIOUS
<1>3. EnvSplit(since) = {pair[r] : r \in S}
  BY <1>1, <1>2 DEF EnvSplit
<1>4. IsFiniteSet(EnvSplit(since))
  BY <1>3, ImagesFinite, RunsFinite
<1>5. PICK A : A = [e \in EnvSplit(since) |-> {r \in S : run[r].env = e[1]}]
  OBVIOUS
<1>6. PICK f : f = [e \in EnvSplit(since) |-> e[2]]
  OBVIOUS
<1>7. \A e \in EnvSplit(since) : e = <<e[1], Cardinality(A[e])>> /\ A[e] \in SUBSET S
          /\ f[e] = Cardinality(A[e])
  <2> TAKE e \in EnvSplit(since)
  <2>1. PICK r \in S : e = pair[r]
    BY <1>3
  <2>2. e = <<run[r].env, Cardinality({q \in S : run[q].env = run[r].env})>>
    BY <1>2, <2>1
  <2>3. A[e] = {q \in S : run[q].env = run[r].env}
    BY <1>5, <2>2
  <2>4. f[e] = e[2]
    BY <1>6
  <2> QED BY <2>2, <2>3, <2>4
<1>8. ASSUME NEW d \in EnvSplit(since), NEW e \in EnvSplit(since), d # e PROVE A[d] \cap A[e] = {}
  <2>1. ASSUME d[1] = e[1] PROVE FALSE
    <3>1. A[d] = A[e]
      BY <1>5, <2>1
    <3>2. d = <<d[1], Cardinality(A[d])>> /\ e = <<e[1], Cardinality(A[e])>>
      BY <1>7
    <3> QED BY <1>8, <2>1, <3>1, <3>2
  <2> QED BY <1>5, <2>1
<1>9. S \in SUBSET Joined(A, EnvSplit(since))
  <2> SUFFICES ASSUME NEW r \in S PROVE \E e \in EnvSplit(since) : r \in A[e]
    BY DEF Joined
  <2>1. pair[r] \in EnvSplit(since) /\ pair[r][1] = run[r].env
    BY <1>2, <1>3
  <2> QED BY <1>5, <2>1
<1>10. DOMAIN f = EnvSplit(since)
  BY <1>6
<1> QED BY <1>1, <1>4, <1>6, <1>7, <1>8, <1>9, <1>10, SumAsCount

(* The days of a sparkline add up to the runs of the agent.                *)
LEMMA SparklineCounts ==
  ASSUME NEW S \in SUBSET Runs
  PROVE  SumFunction(Sparkline(S)) = Cardinality(S)
<1>1. PICK day : day = [r \in S |-> Trunc(run[r].start, Hour)]
  OBVIOUS
<1>2. PICK f : f = Sparkline(S)
  OBVIOUS
<1>3. DOMAIN f = {day[r] : r \in S}
  BY <1>1, <1>2 DEF Sparkline
<1>4. IsFiniteSet(DOMAIN f)
  BY <1>3, ImagesFinite, RunsFinite
<1>5. PICK A : A = [d \in DOMAIN f |-> {r \in S : Trunc(run[r].start, Hour) = d}]
  OBVIOUS
<1>6. \A d \in DOMAIN f : A[d] \in SUBSET S /\ f[d] = Cardinality(A[d])
  BY <1>2, <1>5 DEF Sparkline
<1>7. \A c, d \in DOMAIN f : c # d => A[c] \cap A[d] = {}
  BY <1>5
<1>8. S \in SUBSET Joined(A, DOMAIN f)
  <2> SUFFICES ASSUME NEW r \in S PROVE \E d \in DOMAIN f : r \in A[d]
    BY DEF Joined
  <2>1. day[r] \in DOMAIN f /\ day[r] = Trunc(run[r].start, Hour)
    BY <1>1, <1>3
  <2> QED BY <1>5, <2>1
<1> QED BY <1>2, <1>4, <1>6, <1>7, <1>8, SumAsCount

(* What ORDER BY and LIMIT return of a finite set of rows. *)
LEMMA LargestType ==
  ASSUME NEW key, IsFiniteSet(DOMAIN key), \A x \in DOMAIN key : key[x][1] \in Int
         /\ key[x][2] \in Int,
         NEW n \in Nat
  PROVE  \E m \in Nat :
           /\ m = Smaller(Cardinality(DOMAIN key), n) /\ m <= n
           /\ Largest(key, n) \in [1 .. m -> DOMAIN key]
           /\ \A i, j \in 1 .. m : i # j => Largest(key, n)[i] # Largest(key, n)[j]
           /\ \A i \in 1 .. m : \A j \in 1 .. i :
                key[Largest(key, n)[j]][1] >= key[Largest(key, n)[i]][1]
<1>1. PICK m \in Nat : m = Smaller(Cardinality(DOMAIN key), n) /\ m <= n
  BY FS_CardinalityType DEF Smaller
<1>2. PICK s : s = Largest(key, n) /\ Ranking(key, m, s)
  BY <1>1, LargestRanks
<1>3. \A i \in 1 .. m : \A j \in 1 .. i : key[s[j]][1] >= key[s[i]][1]
  BY <1>2, RankingDescends
<1>4. \A i, j \in 1 .. m : i # j => s[i] # s[j]
  <2> SUFFICES ASSUME NEW i \in 1 .. m, NEW j \in 1 .. m, i # j PROVE s[i] # s[j]
    OBVIOUS
  <2>1. i \in 1 .. (j - 1) \/ j \in 1 .. (i - 1)
    OBVIOUS
  <2> QED BY <1>2, <2>1 DEF Ranking
<1>5. s \in [1 .. m -> DOMAIN key]
  BY <1>2 DEF Ranking
<1> QED BY <1>1, <1>2, <1>3, <1>4, <1>5

(* The runs with a tag.                                                    *)
Marked(S, row) == {r \in S : row[r].tag # None}

(* The flagged runs listed are all, or as many as the limit.               *)
LEMMA RecentCounts ==
  ASSUME RunsOK, NEW since
  PROVE  Len(RecentFlagged(since))
           = Smaller(Cardinality(Marked(Began(Runs, run, since), run)), Limit)
<1>1. PICK S \in SUBSET Runs : S = Marked(Began(Runs, run, since), run)
               /\ S = Flagged(Since(since)) /\ S \in SUBSET Rows
  BY SinceIsBegan DEF Began, Marked, Flagged, Rows
<1>2. PICK key : key = [r \in S |-> <<run[r].start, 0>>]
  OBVIOUS
<1>3. IsFiniteSet(DOMAIN key) /\ \A r \in DOMAIN key : key[r][1] \in Int /\ key[r][2] \in Int
  BY <1>1, <1>2, RunsFinite, RowStarts
<1>4. Limit \in Nat /\ DOMAIN key = S /\ RecentFlagged(since) = Largest(key, Limit)
  BY <1>1, <1>2, ReadSideAssumption DEF RecentFlagged
<1>5. PICK m \in Nat : m = Smaller(Cardinality(S), Limit) /\ Largest(key, Limit) \in [1 .. m -> S]
  BY <1>3, <1>4, LargestType
<1>6. Len(Largest(key, Limit)) = m
  BY <1>5
<1> QED BY <1>1, <1>4, <1>5, <1>6

(* The agents that ran most have no more runs than there are.              *)
LEMMA MostRanCounts ==
  ASSUME RunsOK, NEW since
  PROVE  RunsOf(MostRan(since)) \in Nat
           /\ RunsOf(MostRan(since)) <= Cardinality(Began(Runs, run, since))
<1>1. PICK S \in SUBSET Runs : S = Began(Runs, run, since) /\ S = Since(since)
  BY SinceIsBegan DEF Began
<1>2. PICK row : row = [a \in {run[r].agent : r \in S} |->
                 [name |-> a, runs |-> Cardinality(Of(a, S)),
                     errors |-> Cardinality(Errors(Of(a, S)))]]
  OBVIOUS
<1>3. PICK agents : agents = {run[r].agent : r \in S} \ {None}
  OBVIOUS
<1>4. PICK ran : ran = {row[a] : a \in agents}
  OBVIOUS
<1>5. IsFiniteSet(agents)
  <2>1. PICK of : of = [r \in S |-> run[r].agent]
    OBVIOUS
  <2>2. IsFiniteSet({of[r] : r \in S})
    BY ImagesFinite, RunsFinite
  <2>3. agents \in SUBSET {of[r] : r \in S}
    BY <1>3, <2>1
  <2> QED BY <2>2, <2>3, FS_Subset
<1>6. IsFiniteSet(ran)
  BY <1>4, <1>5, ImagesFinite
<1>7. PICK key : key = [m \in ran |-> <<m.runs, 0>>]
  OBVIOUS
<1>8. MostRan(since) = Largest(key, Limit)
  <2>1. ran = {[name |-> a, runs |-> Cardinality(Of(a, S)),
            errors |-> Cardinality(Errors(Of(a, S)))] : a \in agents}
    BY <1>2, <1>3, <1>4
  <2> QED BY <1>1, <1>3, <1>7, <2>1 DEF MostRan
<1>9. \A m \in ran : m.runs = Cardinality(Of(m.name, S)) /\ m = row[m.name]
          /\ Of(m.name, S) \in SUBSET S
  <2> TAKE m \in ran
  <2>1. PICK a \in agents : m = row[a]
    BY <1>4
  <2>2. m = [name |-> a, runs |-> Cardinality(Of(a, S)), errors |-> Cardinality(Errors(Of(a, S)))]
    BY <1>2, <1>3, <2>1
  <2>3. m.name = a /\ m.runs = Cardinality(Of(a, S))
    BY <2>2
  <2>4. Of(a, S) \in SUBSET S
    BY DEF Of
  <2> QED BY <2>1, <2>3, <2>4
<1>10. \A m \in DOMAIN key : key[m][1] \in Int /\ key[m][2] \in Int
  <2> SUFFICES ASSUME NEW m \in ran PROVE m.runs \in Int
    BY <1>7
  <2>1. Of(m.name, S) \in SUBSET Runs
    BY <1>9
  <2> QED BY <1>9, <2>1, RunsFinite
<1>11. PICK s : s = Largest(key, Limit)
  OBVIOUS
<1>12. PICK n \in Nat : s \in [1 .. n -> ran] /\ \A i, j \in 1 .. n : i # j => s[i] # s[j]
  <2>1. IsFiniteSet(DOMAIN key) /\ DOMAIN key = ran /\ Limit \in Nat
    BY <1>6, <1>7, ReadSideAssumption
  <2>2. PICK m \in Nat : /\ Largest(key, Limit) \in [1 .. m -> DOMAIN key]
                         /\ \A i, j \in 1 .. m : i # j
                              => Largest(key, Limit)[i] # Largest(key, Limit)[j]
    BY <1>10, <2>1, LargestType
  <2> QED BY <1>11, <2>1, <2>2
<1>13. PICK A : A = [i \in 1 .. n |-> Of(s[i].name, S)]
  OBVIOUS
<1>14. PICK f : f = [i \in DOMAIN s |-> s[i].runs]
  OBVIOUS
<1>15. DOMAIN f = 1 .. n /\ IsFiniteSet(1 .. n)
  BY <1>12, <1>14, FS_Interval
<1>16. \A i \in 1 .. n : A[i] \in SUBSET S /\ f[i] = Cardinality(A[i])
  BY <1>9, <1>12, <1>13, <1>14
<1>17. \A i, j \in 1 .. n : i # j => A[i] \cap A[j] = {}
  <2> SUFFICES ASSUME NEW i \in 1 .. n, NEW j \in 1 .. n, i # j PROVE A[i] \cap A[j] = {}
    OBVIOUS
  <2>1. s[i] # s[j] /\ s[i] \in ran /\ s[j] \in ran
    BY <1>12
  <2>2. s[i].name # s[j].name
    BY <1>9, <2>1
  <2> QED BY <1>13, <2>2 DEF Of
<1>18. SumFunction(f) \in Nat /\ SumFunction(f) <= Cardinality(S)
  <2>1. \A i \in DOMAIN f : A[i] \in SUBSET S /\ f[i] = Cardinality(A[i])
    BY <1>15, <1>16
  <2>2. \A i, j \in DOMAIN f : i # j => A[i] \cap A[j] = {}
    BY <1>15, <1>17
  <2>3. IsFiniteSet(DOMAIN f)
    BY <1>15
  <2> QED BY <2>1, <2>2, <2>3, SumAsCount
<1> QED BY <1>1, <1>8, <1>11, <1>12, <1>14, <1>18 DEF RunsOf

-----------------------------------------------------------------------------
(* The bars of the dashboard, filled up from rows read before.             *)

(* The rows of the volume as a table of runs gives them. *)
Within(row, t, hour) == {r \in Began(Runs, row, t) : Trunc(row[r].start, Hour) = hour}

VolumeOf(row, t) ==
  [hour \in {Trunc(row[r].start, Hour) : r \in Began(Runs, row, t)} |->
    [k \in EnvKeys |-> Cardinality({r \in Within(row, t, hour) : EnvKey(row[r].env) = k})]]

LEMMA VolumeRowsAre ==
  ASSUME NEW t
  PROVE  VolumeRows(t) = VolumeOf(run, t)
<1>1. \A hour, k : {r \in Since(t) : Trunc(run[r].start, Hour) = hour /\ EnvKey(run[r].env) = k}
                     = {r \in Within(run, t, hour) : EnvKey(run[r].env) = k}
  BY SinceIsBegan DEF Within
<1> QED BY <1>1, SinceIsBegan DEF VolumeRows, VolumeOf

LEMMA KeysFinite == IsFiniteSet(EnvKeys)
<1>1. IsFiniteSet({"prod"})
  BY FS_Singleton
<1>2. IsFiniteSet({"prod"} \cup {"staging"})
  BY <1>1, FS_AddElement
<1>3. IsFiniteSet(({"prod"} \cup {"staging"}) \cup {"dev"})
  BY <1>2, FS_AddElement
<1>4. IsFiniteSet((({"prod"} \cup {"staging"}) \cup {"dev"}) \cup {"other"})
  BY <1>3, FS_AddElement
<1>5. EnvKeys = (({"prod"} \cup {"staging"}) \cup {"dev"}) \cup {"other"}
  BY DEF EnvKeys
<1> QED BY <1>4, <1>5

(* A bar of the volume counts the runs of its hour.                        *)
LEMMA VolumeBarCounts ==
  ASSUME NEW row, NEW t, NEW u, NEW i \in 1 .. Bars
  PROVE  SumFunction(VolumeByDay(VolumeOf(row, t), u)[i]) = Cardinality(Within(row, t, Bar(u, i)))
<1>1. PICK S \in SUBSET Runs : S = Within(row, t, Bar(u, i))
  BY DEF Within, Began
<1>2. PICK f : f = VolumeByDay(VolumeOf(row, t), u)[i]
  OBVIOUS
<1>3. PICK A : A = [k \in EnvKeys |-> {r \in S : EnvKey(row[r].env) = k}]
  OBVIOUS
<1>4. DOMAIN f = EnvKeys /\ \A k \in EnvKeys : f[k] = Cardinality(A[k])
  <2>1. CASE Bar(u, i) \in DOMAIN VolumeOf(row, t)
    <3>1. f = VolumeOf(row, t)[Bar(u, i)]
      BY <1>2, <2>1 DEF VolumeByDay, Bar
    <3>2. f = [k \in EnvKeys |-> Cardinality({r \in S : EnvKey(row[r].env) = k})]
      BY <1>1, <2>1, <3>1 DEF VolumeOf
    <3> QED BY <1>3, <3>2
  <2>2. CASE Bar(u, i) \notin DOMAIN VolumeOf(row, t)
    <3>1. f = [k \in EnvKeys |-> 0]
      BY <1>2, <2>2 DEF VolumeByDay, Bar
    <3>2. S = {}
      BY <1>1, <2>2 DEF VolumeOf, Within
    <3> QED BY <1>3, <3>1, <3>2, FS_EmptySet
  <2> QED BY <2>1, <2>2
<1>5. \A k \in EnvKeys : A[k] \in SUBSET S
  BY <1>3
<1>6. \A j, k \in EnvKeys : j # k => A[j] \cap A[k] = {}
  BY <1>3
<1>7. S \in SUBSET Joined(A, EnvKeys)
  <2> SUFFICES ASSUME NEW r \in S PROVE \E k \in EnvKeys : r \in A[k]
    BY DEF Joined
  <2>1. EnvKey(row[r].env) \in EnvKeys
    BY DEF EnvKeys, EnvKey
  <2> QED BY <1>3, <2>1
<1> QED BY <1>1, <1>2, <1>4, <1>5, <1>6, <1>7, KeysFinite, SumAsCount

(* The bars together count no more than the runs, however long ago the     *)
(* rows were read.                                                         *)
LEMMA VolumeCounts ==
  ASSUME NEW row, NEW t, NEW u \in Int
  PROVE  LET n == SumFunction([i \in 1 .. Bars |-> SumFunction(VolumeByDay(VolumeOf(row, t),
           u)[i])])
         IN n \in Nat /\ n <= Cardinality(Began(Runs, row, t))
<1>1. PICK f : f = [i \in 1 .. Bars |-> SumFunction(VolumeByDay(VolumeOf(row, t), u)[i])]
  OBVIOUS
<1>2. PICK A : A = [i \in 1 .. Bars |-> Within(row, t, Bar(u, i))]
  OBVIOUS
<1>3. DOMAIN f = 1 .. Bars /\ \A i \in 1 .. Bars : f[i] = Cardinality(A[i])
  BY <1>1, <1>2, VolumeBarCounts
<1>4. Began(Runs, row, t) \in SUBSET Runs
          /\ \A i \in 1 .. Bars : A[i] \in SUBSET Began(Runs, row, t)
  BY <1>2 DEF Within, Began
<1>5. \A i, j \in 1 .. Bars : i # j => A[i] \cap A[j] = {}
  <2> SUFFICES ASSUME NEW i \in 1 .. Bars, NEW j \in 1 .. Bars, i # j PROVE A[i] \cap A[j] = {}
    OBVIOUS
  <2>1. u - Window \in Int
    BY ReadSideAssumption DEF Window
  <2>2. Bar(u, i) # Bar(u, j)
    BY <2>1, BarsDiffer
  <2> QED BY <1>2, <2>2 DEF Within
<1>6. IsFiniteSet(1 .. Bars)
  BY FS_Interval, ReadSideAssumption
<1>7. SumFunction(f) \in Nat /\ SumFunction(f) <= Cardinality(Began(Runs, row, t))
  <2>1. IsFiniteSet(DOMAIN f)
    BY <1>3, <1>6
  <2>2. \A i \in DOMAIN f : A[i] \in SUBSET Began(Runs, row, t) /\ f[i] = Cardinality(A[i])
    BY <1>3, <1>4
  <2>3. \A i, j \in DOMAIN f : i # j => A[i] \cap A[j] = {}
    BY <1>3, <1>5
  <2> QED BY <1>4, <2>1, <2>2, <2>3, SumAsCount
<1> QED BY <1>1, <1>7

-----------------------------------------------------------------------------
(* Tables that differ in few runs.                                         *)

(* Two tables which differ only in the runs X. *)
Alike(X, row, new) == \A r \in Runs \ X : row[r] = new[r]

(* Sets that differ only in the runs X differ in size by as many at most.  *)
LEMMA CountsApart ==
  ASSUME NEW X \in SUBSET Runs, NEW n \in Int, Cardinality(X) <= n,
         NEW S \in SUBSET Runs, NEW T \in SUBSET Runs, S \ X \in SUBSET T
  PROVE  Cardinality(S) <= Cardinality(T) + n
<1>1. IsFiniteSet(T \cup X) /\ Cardinality(T \cup X) <= Cardinality(T) + Cardinality(X)
  <2>1. IsFiniteSet(T) /\ IsFiniteSet(X) /\ T \cap X \in SUBSET Runs
    BY RunsFinite
  <2>2. Cardinality(T \cup X) = Cardinality(T) + Cardinality(X) - Cardinality(T \cap X)
            /\ IsFiniteSet(T \cup X)
    BY <2>1, FS_Union
  <2>3. Cardinality(T \cap X) \in Nat /\ Cardinality(T) \in Nat /\ Cardinality(X) \in Nat
    BY <2>1, RunsFinite
  <2> QED BY <2>2, <2>3
<1>2. S \in SUBSET (T \cup X)
  OBVIOUS
<1>3. Cardinality(S) <= Cardinality(T \cup X)
  BY <1>1, <1>2, FS_Subset
<1>4. /\ Cardinality(S) \in Nat /\ Cardinality(T) \in Nat /\ Cardinality(X) \in Nat
      /\ Cardinality(T \cup X) \in Nat
  BY <1>1, RunsFinite, FS_CardinalityType
<1> QED BY <1>1, <1>3, <1>4

-----------------------------------------------------------------------------
(* The items of the worklist have scores that can be compared.             *)

(* The hits are sets of findings and times.                                *)
HitsOK == hits \in [Runs -> [found : SUBSET Findings, at : Int]]

LEMMA ColumnFinite ==
  ASSUME NEW i, NEW n \in Nat
  PROVE  IsFiniteSet({i} \X (1 .. n)) /\ Cardinality({i} \X (1 .. n)) = n
<1>1. IsFiniteSet({i}) /\ Cardinality({i}) = 1 /\ IsFiniteSet(1 .. n) /\ Cardinality(1 .. n) = n
  <2>1. IsFiniteSet({i}) /\ Cardinality({i}) = 1
    BY FS_Singleton
  <2>2. IsFiniteSet(1 .. n) /\ Cardinality(1 .. n) = n
    BY FS_Interval
  <2> QED BY <2>1, <2>2
<1>2. PICK S, T : S = {i} /\ T = 1 .. n
  OBVIOUS
<1>3. IsFiniteSet(S \X T) /\ Cardinality(S \X T) = Cardinality(S) * Cardinality(T)
  BY <1>1, <1>2, FS_Product, Zenon
<1>4. Cardinality(S) * Cardinality(T) = n
  BY <1>1, <1>2
<1> QED BY <1>2, <1>3, <1>4, Zenon

(* A sum of naturals is one, and grows with what is summed. *)
LEMMA SumsGrow ==
  ASSUME NEW S, IsFiniteSet(S), NEW T \in SUBSET S, NEW d, \A r \in S : d[r] \in Nat
  PROVE  /\ SumFunction([r \in T |-> d[r]]) \in Nat /\ SumFunction([r \in S |-> d[r]]) \in Nat
         /\ SumFunction([r \in T |-> d[r]]) <= SumFunction([r \in S |-> d[r]])
<1>1. PICK A : A = [r \in S |-> {r} \X (1 .. d[r])]
  OBVIOUS
<1>2. ASSUME NEW U \in SUBSET S
      PROVE  SumFunction([r \in U |-> d[r]]) = Cardinality(Joined(A, U))
               /\ IsFiniteSet(Joined(A, U))
  <2>1. PICK f : f = [r \in U |-> d[r]]
    OBVIOUS
  <2>2. \A r \in U : IsFiniteSet(A[r]) /\ f[r] = Cardinality(A[r])
    BY <1>1, <2>1, ColumnFinite
  <2>3. \A q, r \in U : q # r => A[q] \cap A[r] = {}
    BY <1>1
  <2>4. Split(A, U) /\ IsFiniteSet(U)
    BY <2>2, <2>3, FS_Subset DEF Split
  <2>5. SumFunctionOnSet(f, U) = Cardinality(Joined(A, U)) /\ IsFiniteSet(Joined(A, U))
    BY <2>2, <2>4, SumOfParts
  <2>6. SumFunction(f) = SumFunctionOnSet(f, U)
    BY <2>1 DEF SumFunction
  <2> QED BY <2>1, <2>5, <2>6
<1>3. Joined(A, T) \in SUBSET Joined(A, S)
  BY DEF Joined
<1>4. /\ IsFiniteSet(Joined(A, S)) /\ SumFunction([r \in S |-> d[r]]) = Cardinality(Joined(A, S))
      /\ SumFunction([r \in T |-> d[r]]) = Cardinality(Joined(A, T))
  BY <1>2
<1>5. /\ Cardinality(Joined(A, T)) <= Cardinality(Joined(A, S))
      /\ Cardinality(Joined(A, T)) \in Nat /\ Cardinality(Joined(A, S)) \in Nat
  BY <1>3, <1>4, FS_Subset, FS_CardinalityType
<1> QED BY <1>4, <1>5

LEMMA MaxIn ==
  ASSUME NEW T \in SUBSET Int, IsFiniteSet(T), T # {}
  PROVE  Max(T) \in T
<1>1. PICK key : key = [x \in T |-> <<x, 0>>]
  OBVIOUS
<1>2. \A x \in T : key[x][1] \in Int /\ key[x][2] \in Int
  BY <1>1
<1>3. PICK x \in T : \A y \in T : ~ Exceeds(key[y], key[x])
  BY <1>2, OneLeads
<1>4. \A y \in T : x >= y
  BY <1>1, <1>3 DEF Exceeds
<1> QED BY <1>4 DEF Max

(* The items of the worklist. *)
Scored(items) == IsFiniteSet(items) /\ \A x \in items : x.score \in Int /\ x.seen \in Int

LEMMA ItemScore ==
  ASSUME now \in Int, NEW signal, NEW severity \in Nat, NEW affected, NEW weight \in Nat,
         NEW seen \in Int
  PROVE  LET i == Item(signal, severity, affected, weight, seen) IN
         i.score \in Int /\ i.seen \in Int /\ i.affected = affected /\ i.signal = signal
<1>1. \A table \in {Log2, Decay} : \A n \in Nat : Entry(table, n) \in Nat
  <2> TAKE table \in {Log2, Decay}
  <2> TAKE n \in Nat
  <2>1. table \in Seq(Nat) /\ table # <<>>
    BY ReadSideAssumption
  <2>2. Len(table) \in Nat /\ Len(table) # 0 /\ \A i \in 1 .. Len(table) : table[i] \in Nat
    BY <2>1
  <2>3. Smaller(n + 1, Len(table)) \in 1 .. Len(table)
    BY <2>2 DEF Smaller
  <2> QED BY <2>2, <2>3 DEF Entry
<1>2. (IF now > seen THEN now - seen ELSE 0) \in Nat
  OBVIOUS
<1>3. Entry(Log2, weight) \in Nat /\ Entry(Decay, IF now > seen THEN now - seen ELSE 0) \in Nat
  BY <1>1, <1>2
<1>4. Score(severity, weight, seen) \in Int
  BY <1>3 DEF Score
<1> QED BY <1>4 DEF Item

LEMMA HeuristicItemsScored ==
  ASSUME RunsOK, HitsOK, NEW S \in SUBSET Runs, NEW t
  PROVE  Scored(HeuristicItems(Hits(S, t)))
<1>1. PICK rows : rows = Hits(S, t)
  OBVIOUS
<1>2. IsFiniteSet(rows) /\ rows \in SUBSET (S \X Findings)
  <2>1. IsFiniteSet(S \X Findings)
    BY RunsFinite, FS_Product, ReadSideAssumption
  <2>2. rows \in SUBSET (S \X Findings)
    BY <1>1 DEF Hits
  <2> QED BY <2>1, <2>2, FS_Subset
<1>3. PICK kind : kind = [h \in rows |-> <<h[2].heuristic, h[2].tool>>]
  OBVIOUS
<1>4. PICK K : K = {kind[h] : h \in rows}
  OBVIOUS
<1>5. PICK group : group = [k \in K |-> {h \in rows : h[2].heuristic = k[1] /\ h[2].tool = k[2]}]
  OBVIOUS
<1>6. PICK severity : severity
               = [k \in K |-> IF k[1] \in DOMAIN Severities THEN Severities[k[1]] ELSE 1]
  OBVIOUS
<1>7. PICK item : item = [k \in K |->
                   Item(k, severity[k], Cardinality(group[k]), Cardinality(group[k]),
                       Max({hits[h[1]].at : h \in group[k]}))]
  OBVIOUS
<1>8. HeuristicItems(rows) = {item[k] : k \in K} /\ IsFiniteSet(HeuristicItems(rows))
  <2>1. {<<h[2].heuristic, h[2].tool>> : h \in rows} = K
    BY <1>3, <1>4
  <2> DEFINE G(k) ==
        Item(k, IF k[1] \in DOMAIN Severities THEN Severities[k[1]] ELSE 1,
             Cardinality({h \in rows : h[2].heuristic = k[1] /\ h[2].tool = k[2]}),
             Cardinality({h \in rows : h[2].heuristic = k[1] /\ h[2].tool = k[2]}),
             Max({hits[h[1]].at : h \in {h \in rows : h[2].heuristic = k[1] /\ h[2].tool = k[2]}}))
  <2>2. \A k \in K : item[k] = G(k)
    BY <1>5, <1>6, <1>7
  <2>3. HeuristicItems(rows) = {item[k] : k \in K}
    <3>1. HeuristicItems(rows) = {G(k) : k \in {<<h[2].heuristic, h[2].tool>> : h \in rows}}
      BY DEF HeuristicItems
    <3>2. HeuristicItems(rows) = {G(k) : k \in K}
      BY <2>1, <3>1
    <3> HIDE DEF G
    <3> QED BY <2>2, <3>2
  <2>4. IsFiniteSet(K)
    BY <1>2, <1>4, ImagesFinite
  <2> QED BY <2>3, <2>4, ImagesFinite
<1>9. ASSUME NEW k \in K PROVE item[k].score \in Int /\ item[k].seen \in Int
  <2>1. severity[k] \in Nat
    BY <1>6 DEF Severities
  <2>2. group[k] \in SUBSET rows /\ group[k] # {}
    BY <1>3, <1>4, <1>5
  <2>3. IsFiniteSet(group[k]) /\ Cardinality(group[k]) \in Nat
    BY <1>2, <2>2, FS_Subset, FS_CardinalityType
  <2>4. PICK at : at = [h \in rows |-> hits[h[1]].at]
    OBVIOUS
  <2>5. \A h \in rows : at[h] \in Int
    BY <1>2, <2>4 DEF HitsOK
  <2>6. {hits[h[1]].at : h \in group[k]} = {at[h] : h \in group[k]}
    BY <2>2, <2>4
  <2>7. Max({at[h] : h \in group[k]}) \in Int
    <3>1. IsFiniteSet({at[h] : h \in group[k]})
      BY <2>3, ImagesFinite
    <3>2. {at[h] : h \in group[k]} \in SUBSET Int /\ {at[h] : h \in group[k]} # {}
      BY <2>2, <2>5
    <3> QED BY <3>1, <3>2, MaxIn
  <2>8. item[k] = Item(k, severity[k], Cardinality(group[k]), Cardinality(group[k]),
            Max({at[h] : h \in group[k]}))
    BY <1>7, <2>6
  <2> QED BY <2>1, <2>3, <2>7, <2>8, ItemScore DEF RunsOK
<1> QED BY <1>1, <1>8, <1>9 DEF Scored

(* The thumbs down of the runs S.                                          *)
Sum(row, S) == SumFunction([r \in S |-> row[r].down])

LEMMA FeedbackScored ==
  ASSUME RunsOK, NEW S \in SUBSET Rows
  PROVE  /\ Scored(FeedbackItems(S))
         /\ \A i \in FeedbackItems(S) : i.signal[2] = Cardinality(S) /\ i.affected = Sum(run, S)
<1>1. S \in SUBSET Runs /\ IsFiniteSet(S) /\ Cardinality(S) \in Nat
  <2>1. S \in SUBSET Runs
    BY DEF Rows
  <2> QED BY <2>1, RunsFinite
<1>2. Down(S) = Sum(run, S) /\ Down(S) \in Nat
  <2>1. PICK d : d = [r \in S |-> run[r].down]
    OBVIOUS
  <2>2. \A r \in S : d[r] \in Nat
    BY <2>1, RowStarts
  <2>3. [r \in S |-> d[r]] = d
    BY <2>1
  <2>4. SumFunction(d) \in Nat
    BY <1>1, <2>2, <2>3, SumsGrow
  <2> QED BY <2>1, <2>4 DEF Down, Sum
<1>3. CASE S = {}
  BY <1>3, FS_EmptySet DEF FeedbackItems, Scored
<1>4. CASE S # {}
  <2>1. PICK start : start = [r \in S |-> run[r].start]
    OBVIOUS
  <2>2. {run[r].start : r \in S} = {start[r] : r \in S} /\ \A r \in S : start[r] \in Int
    BY <2>1, RowStarts
  <2>3. IsFiniteSet({start[r] : r \in S})
    BY <1>1, ImagesFinite
  <2>4. Max({start[r] : r \in S}) \in Int
    BY <1>4, <2>2, <2>3, MaxIn
  <2>5. FeedbackItems(S) =
          {Item(<<"thumbs_down", Cardinality(S)>>, 3, Down(S), Down(S), Max({start[r] : r \in S}))}
    BY <1>4, <2>2 DEF FeedbackItems
  <2>6. PICK i : i = Item(<<"thumbs_down", Cardinality(S)>>, 3, Down(S), Down(S),
                 Max({start[r] : r \in S}))
    OBVIOUS
  <2>7. i.score \in Int /\ i.seen \in Int /\ i.affected = Down(S)
            /\ i.signal = <<"thumbs_down", Cardinality(S)>>
    <3>1. now \in Int /\ 3 \in Nat
      BY DEF RunsOK
    <3>0. PICK g : g = <<"thumbs_down", Cardinality(S)>>
      OBVIOUS
    <3>2. PICK n \in Nat, t \in Int : n = Down(S) /\ t = Max({start[r] : r \in S})
      BY <1>2, <2>4
    <3>3. i = Item(g, 3, n, n, t)
      BY <2>6, <3>0, <3>2
    <3>4. i.score \in Int /\ i.seen \in Int /\ i.affected = n /\ i.signal = g
      BY <3>1, <3>3, ItemScore
    <3> QED BY <3>0, <3>2, <3>4
  <2>8. FeedbackItems(S) = {i} /\ IsFiniteSet({i})
    BY <2>5, <2>6, FS_Singleton
  <2>9. i.signal[2] = Cardinality(S)
    BY <2>7
  <2> QED BY <1>2, <2>7, <2>8, <2>9 DEF Scored
<1> QED BY <1>3, <1>4

(* An item of what has become worse.                                       *)
LEMMA DeltaScored ==
  ASSUME now \in Int
  PROVE  \A signal : \A severity, n \in Nat : \A t \in Int : \A i :
           i = Item(signal, severity, n, OrOne(n), t)
             => Scored({i}) /\ i.affected = n
<1> TAKE signal
<1> TAKE severity, n \in Nat
<1> TAKE t \in Int
<1> TAKE i
<1> HAVE i = Item(signal, severity, n, OrOne(n), t)
<1>1. OrOne(n) \in Nat
  BY DEF OrOne
<1>2. i.score \in Int /\ i.seen \in Int /\ i.affected = n
  BY <1>1, ItemScore
<1> QED BY <1>2, FS_Singleton DEF Scored

(* What ToolStats returns.                                                 *)
Tallied(stats) == IsFiniteSet(DOMAIN stats) /\ \A n \in DOMAIN stats : stats[n].total \in Nat

LEMMA ToolStatsTallied ==
  ASSUME NEW a, NEW t, NEW u
  PROVE  Tallied(ToolStats(a, t, u))
<1>1. PICK C \in SUBSET Calls :
               C = {c \in CallsIn(Of(a, Rows)) : c.named /\ StartOf(c) >= t /\ StartOf(c) < u}
  BY DEF CallsIn
<1>2. PICK tool : tool = [c \in C |-> c.tool]
  OBVIOUS
<1>3. DOMAIN ToolStats(a, t, u) = {tool[c] : c \in C}
  BY <1>1, <1>2 DEF ToolStats
<1>4. IsFiniteSet(C)
  BY FS_Subset, ReadSideAssumption
<1>5. ASSUME NEW n \in DOMAIN ToolStats(a, t, u) PROVE ToolStats(a, t, u)[n].total \in Nat
  <2>1. ToolStats(a, t, u)[n].total = Cardinality({c \in C : c.tool = n})
    BY <1>1, <1>5 DEF ToolStats
  <2>2. {c \in C : c.tool = n} \in SUBSET C
    OBVIOUS
  <2> QED BY <1>4, <2>1, <2>2, FS_Subset, FS_CardinalityType
<1> QED BY <1>3, <1>4, <1>5, ImagesFinite DEF Tallied

LEMMA ToolDropsScored ==
  ASSUME now \in Int, NEW stats, Tallied(stats), NEW before, NEW t \in Int
  PROVE  Scored(ToolDrops(stats, before, t))
<1>1. PICK item : item = [n \in DOMAIN stats |-> Item(<<"tool_success_drop", n>>, 2,
               stats[n].total, stats[n].total, t)]
  OBVIOUS
<1>2. PICK names : names \in SUBSET DOMAIN stats
               /\ ToolDrops(stats, before, t) = {item[n] : n \in names}
  <2>1. PICK names : names = {m \in DOMAIN stats \cap DOMAIN before :
              stats[m].total >= MinSample
              /\ Pct(before[m].ok, before[m].total) - Pct(stats[m].ok, stats[m].total) >= 5}
    OBVIOUS
  <2>2. names \in SUBSET DOMAIN stats
    BY <2>1
  <2>3. ToolDrops(stats, before, t) = {item[n] : n \in names}
    BY <1>1, <2>1, <2>2 DEF ToolDrops
  <2> QED BY <2>2, <2>3
<1>3. IsFiniteSet(names)
  BY <1>2, FS_Subset DEF Tallied
<1>4. \A n \in names : item[n].score \in Int /\ item[n].seen \in Int
  BY <1>1, <1>2, ItemScore DEF Tallied
<1> QED BY <1>2, <1>3, <1>4, ImagesFinite DEF Scored

-----------------------------------------------------------------------------
(* What the SELECTs of a report say of the tables they have read, as far   *)
(* as one is compared with another.                                        *)

(* The runs tagged bad.                                                    *)
Failing(S, row) == {r \in S : row[r].tag = "bad"}

(* The dashboard; and below, the list of agents, one agent's metrics, the  *)
(* profile with its worklist, failures.csv and the queue.                  *)
OverviewSays(q, x, row, since) ==
  LET began == Began(Runs, row, since)
      n == Cardinality(began)
  IN /\ q = "runs" => x = n
     /\ q = "flagged" => x = Cardinality(Marked(began, row))
     /\ q = "errors" => x = Cardinality(Failing(began, row))
     /\ q = "envs" => SumFunction([e \in x |-> e[2]]) = n
     /\ q = "recent" => Len(x) = Smaller(Cardinality(Marked(began, row)), Limit)
     /\ q \in {"most ran", "series"} => RunsOf(x) \in Nat /\ RunsOf(x) <= n
     /\ q = "volume rows" => \E t \in Int : t >= since /\ x = VolumeOf(row, t)
     /\ q = "volume" =>
          LET m == SumFunction([i \in 1 .. Bars |-> SumFunction(x[i])])
          IN m \in Nat /\ m <= n
     /\ q = "latency" => Ascending(x)

AgentListSays(q, x, row, since) ==
  \A a \in Agents :
    LET began == Began(Owned(row, a), row, since) IN
    /\ q = "runs" => x[a] = Cardinality(began)
    /\ q = "errors" => x[a] = Cardinality(Failing(began, row))
    /\ q = "spark" => SumFunction(x[a]) = Cardinality(began)

MetricsSays(q, x, row, a, since) ==
  LET began == Began(Owned(row, a), row, since) IN
  /\ q = "runs" => x = Cardinality(began)
  /\ q = "errors" => x = Cardinality(Failing(began, row))
  /\ q = "series" => RunsOf(x) \in Nat /\ RunsOf(x) <= Cardinality(began)
  /\ q = "latency" => Ascending(x)

ProfileSays(q, x, row, a, since) ==
  LET began == Began(Owned(row, a), row, since)
      n == Cardinality(began)
  IN /\ q = "snapshot runs" => x = n
     /\ q = "snapshot down" => x = Sum(row, began)
     /\ q \in {"hits", "thumbs", "latency", "completion", "tool drops"} => Scored(x)
     /\ q \in {"latency", "completion"} => \A i \in x : i.affected \in Nat /\ i.affected <= n
     /\ q = "thumbs" =>
          \A i \in x : i.signal[2] \in Nat /\ i.signal[2] <= n /\ i.affected <= Sum(row, began)
     /\ q = "tools" => Tallied(x)

(* The runs with a hit at since or after.                                  *)
HitSince(s, since) ==
  {r \in Runs : s.run[r] # NoRun /\ s.hits[r].found # {} /\ s.hits[r].at >= since}

FailuresSays(q, x, s, since) ==
  /\ q = "kinds" => DOMAIN x = HitSince(s, since)
  /\ q = "rows" =>
       /\ \A y \in x : y.id \in Runs
                       /\ (y.down = 0 /\ y.tag \notin {"bad", "todo"}
                            => y.id \in HitSince(s, since))
       /\ \A y, z \in x : y.id = z.id => y = z

(* The findings of run r of these heuristics.                              *)
FoundIn(s, r, heuristics) == {f \in s.hits[r].found : heuristics # {} => f.heuristic \in heuristics}

QueueSays(q, x, s, heuristics) ==
  q = "page" =>
    /\ Len(x) \in Nat /\ Len(x) <= Limit /\ DOMAIN x = 1 .. Len(x)
    /\ \A i \in 1 .. Len(x) :
         x[i].id \in Runs /\ x[i].count = Cardinality(FoundIn(s, x[i].id, heuristics))
    /\ \A i, j \in 1 .. Len(x) : i # j => x[i].id # x[j].id

LEMMA ErrorsAre ==
  ASSUME NEW t, NEW a
  PROVE  /\ Errors(Since(t)) = Failing(Began(Runs, run, t), run)
         /\ Flagged(Since(t)) = Marked(Began(Runs, run, t), run)
         /\ Errors(Of(a, Since(t))) = Failing(Began(Owned(run, a), run, t), run)
  BY SinceIsBegan DEF Errors, Failing, Flagged, Marked

LEMMA BeganRuns ==
  ASSUME NEW a, NEW row, NEW t
  PROVE  /\ Owned(row, a) \in SUBSET Runs /\ Began(Owned(row, a), row, t) \in SUBSET Runs
         /\ Began(Runs, row, t) \in SUBSET Runs
  BY DEF Owned, Began

LEMMA BeganGrows ==
  ASSUME NEW row, RowsTyped(row), NEW W \in SUBSET Runs, NEW since \in Int, NEW t \in Int,
         t >= since
  PROVE  /\ Began(W, row, t) \in SUBSET Began(W, row, since)
         /\ Cardinality(Began(W, row, t)) <= Cardinality(Began(W, row, since))
<1>1. Began(W, row, t) \in SUBSET Began(W, row, since)
  <2> SUFFICES ASSUME NEW r \in Began(W, row, t) PROVE row[r].start >= since
    BY DEF Began
  <2>1. row[r].start \in Int /\ row[r].start >= t
    BY BeganType DEF Began
  <2> QED BY <2>1
<1>2. Began(W, row, since) \in SUBSET Runs
  BY DEF Began
<1> QED BY <1>1, <1>2, RunsFinite, FS_Subset

LEMMA WindowType == Window \in Int /\ Window = Bars * Hour
<1>1. Bars \in Nat /\ Hour \in Nat
  BY ReadSideAssumption
<1> QED BY <1>1 DEF Window

LEMMA WindowBack ==
  ASSUME NEW t \in Int, NEW since \in Int, since + Window <= t
  PROVE  since <= t - Window /\ t - Window \in Int /\ t - Bars * Hour = t - Window
<1>1. Window \in Int /\ Window = Bars * Hour
  BY WindowType
<1> QED BY <1>1

LEMMA VolumeAnswers ==
  ASSUME now \in Int, NEW row, RowsTyped(row), NEW since \in Int, NEW t \in Int, t >= since
  PROVE  LET m == SumFunction([i \in 1 .. Bars |-> SumFunction(VolumeByDay(VolumeOf(row, t),
           now)[i])])
         IN m \in Nat /\ m <= Cardinality(Began(Runs, row, since))
<1>1. Cardinality(Began(Runs, row, t)) <= Cardinality(Began(Runs, row, since))
  BY BeganGrows
<1>2. PICK n : n = SumFunction([i \in 1 .. Bars |-> SumFunction(VolumeByDay(VolumeOf(row, t),
               now)[i])])
  OBVIOUS
<1>3. n \in Nat /\ n <= Cardinality(Began(Runs, row, t))
  BY <1>2, VolumeCounts
<1>4. Cardinality(Began(Runs, row, t)) \in Nat /\ Cardinality(Began(Runs, row, since)) \in Nat
  BY BeganRuns, RunsFinite
<1>5. n <= Cardinality(Began(Runs, row, since))
  BY <1>1, <1>3, <1>4
<1> QED BY <1>2, <1>3, <1>5

(* Each SELECT of the dashboard says what it should of the table it reads; *)
(* the bars of the volume, of the table their rows were read from.         *)
LEMMA OverviewAnswers ==
  ASSUME RunsOK, NEW q, NEW since \in Int, since + Window <= now, NEW got,
         NEW row, RowsTyped(row), q = "volume" => \E t \in Int : t >= since
             /\ got["volume rows"] = VolumeOf(row, t),
         q # "volume" => row = run
  PROVE  OverviewSays(q, Overview(q, since, got), row, since)
<1>1. now \in Int
  BY DEF RunsOK
<1>0. Window \in Int /\ since <= now - Window /\ now - Window \in Int
          /\ now - Bars * Hour = now - Window
  BY <1>1, WindowType, WindowBack
<1>2. CASE q = "volume"
  <2>1. PICK t \in Int : t >= since /\ got["volume rows"] = VolumeOf(row, t)
    BY <1>2
  <2>2. Overview(q, since, got) = VolumeByDay(VolumeOf(row, t), now)
    BY <1>2, <2>1 DEF Overview
  <2>3. LET m == SumFunction([i \in 1 .. Bars |-> SumFunction(VolumeByDay(VolumeOf(row, t),
            now)[i])])
        IN m \in Nat /\ m <= Cardinality(Began(Runs, row, since))
    BY <1>1, <2>1, VolumeAnswers
  <2>4. PICK y : y = VolumeByDay(VolumeOf(row, t), now)
    OBVIOUS
  <2> QED BY <1>2, <2>2, <2>3, <2>4 DEF OverviewSays
<1>3. CASE q = "volume rows"
  <2>1. Overview(q, since, got) = VolumeRows(now - Bars * Hour)
    BY <1>3 DEF Overview
  <2>2. Overview(q, since, got) = VolumeOf(run, now - Window)
    BY <1>0, <2>1, VolumeRowsAre
  <2>3. row = run
    BY <1>3
  <2> QED BY <1>0, <1>3, <2>2, <2>3 DEF OverviewSays
<1>4. CASE q = "latency"
  <2>1. Overview(q, since, got) = Latencies(Since(since)) /\ Since(since) \in SUBSET Rows
    BY <1>4 DEF Overview, Since
  <2> QED BY <1>4, <2>1, LatenciesAscend DEF OverviewSays
<1>5. CASE q = "series"
  <2>1. Overview(q, since, got) = LatencySeries(now, Rows \cap Runs)
    <3>1. Rows \cap Runs = Rows
      BY DEF Rows
    <3> QED BY <1>5, <3>1 DEF Overview
  <2> QED BY <1>1, <1>0, <1>5, <2>1, SeriesCounts DEF OverviewSays
<1>6. CASE q \in {"runs", "flagged", "errors"}
  BY <1>6, SinceIsBegan, ErrorsAre DEF Overview, OverviewSays
<1>7. CASE q \in {"envs", "recent", "most ran"}
  <2>1. CASE q = "envs"
    <3>1. Overview(q, since, got) = EnvSplit(since)
      BY <2>1 DEF Overview
    <3> QED BY <1>7, <2>1, <3>1, EnvSplitCounts DEF OverviewSays
  <2>2. CASE q = "recent"
    <3>1. Overview(q, since, got) = RecentFlagged(since)
      BY <2>2 DEF Overview
    <3> QED BY <1>7, <2>2, <3>1, RecentCounts DEF OverviewSays
  <2>3. CASE q = "most ran"
    <3>1. Overview(q, since, got) = MostRan(since)
      BY <2>3 DEF Overview
    <3> QED BY <1>7, <2>3, <3>1, MostRanCounts DEF OverviewSays
  <2> QED BY <1>7, <2>1, <2>2, <2>3
<1>8. CASE q \notin {"runs", "flagged", "errors", "envs", "recent", "most ran", "series",
               "volume rows", "volume", "latency"}
  BY <1>8 DEF OverviewSays
<1> QED BY <1>2, <1>3, <1>4, <1>5, <1>6, <1>7, <1>8

(* Each SELECT of the list of agents says what it should of the table it   *)
(* reads.                                                                  *)
LEMMA AgentListAnswers ==
  ASSUME NEW q, NEW since
  PROVE  AgentListSays(q, AgentList(q, since), run, since)
<1> SUFFICES ASSUME NEW a \in Agents
             PROVE  LET began == Began(Owned(run, a), run, since) IN
                    /\ q = "runs" => AgentList(q, since)[a] = Cardinality(began)
                    /\ q = "errors" => AgentList(q, since)[a] = Cardinality(Failing(began, run))
                    /\ q = "spark" => SumFunction(AgentList(q, since)[a]) = Cardinality(began)
  BY DEF AgentListSays
<1>1. q = "runs" => AgentList(q, since)[a] = Cardinality(Of(a, Since(since)))
  BY DEF AgentList
<1>2. q = "errors" => AgentList(q, since)[a] = Cardinality(Errors(Of(a, Since(since))))
  BY DEF AgentList
<1>3. q = "spark" => AgentList(q, since)[a] = Sparkline(Of(a, Since(since)))
  BY DEF AgentList
<1>4. SumFunction(Sparkline(Of(a, Since(since)))) = Cardinality(Of(a, Since(since)))
  BY SinceIsBegan, BeganRuns, SparklineCounts
<1> QED BY <1>1, <1>2, <1>3, <1>4, SinceIsBegan, ErrorsAre

(* Each SELECT of the metrics does.                                        *)
LEMMA MetricsAnswers ==
  ASSUME RunsOK, NEW q, NEW a, NEW since \in Int, since + Window <= now
  PROVE  MetricsSays(q, Metrics(q, a, since), run, a, since)
<1>1. now \in Int
  BY DEF RunsOK
<1>0. Window \in Int /\ since <= now - Window /\ now - Window \in Int
          /\ now - Bars * Hour = now - Window
  BY <1>1, WindowType, WindowBack
<1>2. CASE q = "runs" \/ q = "errors"
  BY <1>2, SinceIsBegan, ErrorsAre DEF Metrics, MetricsSays
<1>3. CASE q = "latency"
  <2>1. Metrics(q, a, since) = Latencies(Of(a, Since(since))) /\ Of(a, Since(since)) \in SUBSET Rows
    BY <1>3 DEF Metrics, Of, Since
  <2> QED BY <1>3, <2>1, LatenciesAscend DEF MetricsSays
<1>4. CASE q = "series"
  <2>1. Metrics(q, a, since) = LatencySeries(now, Rows \cap Owned(run, a))
    <3>1. Rows \cap Owned(run, a) = Of(a, Rows)
      BY DEF Rows, Owned, Of
    <3> QED BY <1>4, <3>1 DEF Metrics
  <2> QED BY <1>1, <1>0, <1>4, <2>1, BeganRuns, SeriesCounts DEF MetricsSays
<1>5. CASE q \notin {"runs", "errors", "latency", "series"}
  BY <1>5 DEF MetricsSays
<1> QED BY <1>2, <1>3, <1>4, <1>5

LEMMA EmptyScored == Scored({})
  BY FS_EmptySet DEF Scored

(* The runs of the worklist's window are runs of the snapshot.             *)
LEMMA WindowRuns ==
  ASSUME RunsOK, NEW a, NEW since \in Int, NEW t \in Int, since + Window <= t
  PROVE  /\ Of(a, Since(t - Window)) \in SUBSET Began(Owned(run, a), run, since)
         /\ Of(a, Between(t - Window, t)) \in SUBSET Began(Owned(run, a), run, since)
<1>1. since <= t - Window /\ t - Window \in Int
  BY WindowBack
<1>2. Of(a, Since(t - Window)) = Began(Owned(run, a), run, t - Window)
  BY SinceIsBegan
<1>3. Owned(run, a) \in SUBSET Runs /\ RowsTyped(run)
  BY BeganRuns DEF RunsOK, RowsTyped
<1>4. Of(a, Since(t - Window)) \in SUBSET Began(Owned(run, a), run, since)
  BY <1>1, <1>2, <1>3, BeganGrows
<1>5. Of(a, Between(t - Window, t)) \in SUBSET Of(a, Since(t - Window))
  BY DEF Of, Between
<1> QED BY <1>4, <1>5

LEMMA ThumbsAnswer ==
  ASSUME RunsOK, NEW S \in SUBSET Rows, NEW T \in SUBSET S
  PROVE  LET x == FeedbackItems(T) IN
         Scored(x) /\ \A i \in x : i.signal[2] \in Nat /\ i.signal[2] <= Cardinality(S)
             /\ i.affected <= Sum(run, S)
<1>1. IsFiniteSet(S) /\ Cardinality(T) \in Nat /\ Cardinality(T) <= Cardinality(S)
  <2>1. S \in SUBSET Runs
    BY DEF Rows
  <2> QED BY <2>1, RunsFinite, FS_Subset
<1>2. Sum(run, T) <= Sum(run, S)
  <2>1. PICK d : d = [r \in S |-> run[r].down]
    OBVIOUS
  <2>2. \A r \in S : d[r] \in Nat
    BY <2>1, RowStarts
  <2>3. [r \in S |-> d[r]] = [r \in S |-> run[r].down]
            /\ [r \in T |-> d[r]] = [r \in T |-> run[r].down]
    BY <2>1
  <2>4. SumFunction([r \in T |-> d[r]]) <= SumFunction([r \in S |-> d[r]])
    BY <1>1, <2>2, SumsGrow
  <2> QED BY <2>3, <2>4 DEF Sum
<1>3. /\ Scored(FeedbackItems(T))
      /\ \A i \in FeedbackItems(T) : i.signal[2] = Cardinality(T) /\ i.affected = Sum(run, T)
  BY FeedbackScored
<1> QED BY <1>1, <1>2, <1>3

(* Each SELECT of the profile does, what the worklist is ranked from       *)
(* included.                                                               *)
LEMMA ProfileAnswers ==
  ASSUME RunsOK, HitsOK, NEW q, NEW a, NEW since \in Int, NEW t \in Int, since + Window <= t,
         NEW got,
         q = "tool drops" => Tallied(got["tools"])
  PROVE  ProfileSays(q, Profile(q, a, since, t, got), run, a, since)
<1>1. PICK S : S = Began(Owned(run, a), run, since) /\ S = Of(a, Since(since)) /\ S \in SUBSET Rows
               /\ S \in SUBSET Runs
  <2>1. Began(Owned(run, a), run, since) = Of(a, Since(since))
    BY SinceIsBegan
  <2>2. Of(a, Since(since)) \in SUBSET Rows /\ Rows \in SUBSET Runs
    BY DEF Of, Since, Rows
  <2> QED BY <2>1, <2>2
<1>2. now \in Int
  BY DEF RunsOK
<1>3. CASE q = "snapshot runs"
  BY <1>1, <1>3 DEF Profile, ProfileSays
<1>4. CASE q = "snapshot down"
  <2>1. Profile(q, a, since, t, got) = Down(S)
    BY <1>1, <1>4 DEF Profile
  <2>2. Down(S) = Sum(run, S)
    BY DEF Down, Sum
  <2> QED BY <1>1, <1>4, <2>1, <2>2 DEF ProfileSays
<1>5. CASE q = "hits"
  <2>1. Profile(q, a, since, t, got) = HeuristicItems(Hits(Of(a, Rows), t - Window))
    BY <1>5 DEF Profile, Worklist
  <2>2. Of(a, Rows) \in SUBSET Runs
    BY DEF Of, Rows
  <2>3. Scored(Profile(q, a, since, t, got))
    BY <2>1, <2>2, HeuristicItemsScored
  <2> QED BY <1>5, <2>3 DEF ProfileSays
<1>6. CASE q = "thumbs"
  <2>1. PICK T : T = {r \in Of(a, Since(t - Window)) : run[r].down > 0}
    OBVIOUS
  <2>2. T \in SUBSET S
    BY <1>1, <2>1, WindowRuns
  <2>3. Profile(q, a, since, t, got) = FeedbackItems(T)
    BY <1>6, <2>1 DEF Profile, Worklist
  <2>4. /\ Scored(FeedbackItems(T))
        /\ \A i \in FeedbackItems(T) : i.signal[2] \in Nat /\ i.signal[2] <= Cardinality(S)
             /\ i.affected <= Sum(run, S)
    BY <1>1, <2>2, ThumbsAnswer
  <2> QED BY <1>1, <1>6, <2>3, <2>4 DEF ProfileSays
<1>7. ASSUME NEW x, Scored(x) /\ \A i \in x : i.affected \in Nat /\ i.affected <= Cardinality(S),
             q \in {"latency", "completion"},
             Profile(q, a, since, t, got) = x
      PROVE  ProfileSays(q, Profile(q, a, since, t, got), run, a, since)
  BY <1>1, <1>7 DEF ProfileSays
<1>8. PICK n \in Nat : n = Cardinality(Of(a, Between(t - Window, t))) /\ n <= Cardinality(S)
  <2>1. Of(a, Between(t - Window, t)) \in SUBSET S
    BY <1>1, WindowRuns
  <2>2. IsFiniteSet(S) /\ Of(a, Between(t - Window, t)) \in SUBSET Runs
    BY <1>1, <2>1, RunsFinite
  <2>3. Cardinality(Of(a, Between(t - Window, t))) <= Cardinality(S)
    BY <2>1, <2>2, FS_Subset
  <2>4. Cardinality(Of(a, Between(t - Window, t))) \in Nat
    BY <2>2, RunsFinite
  <2> QED BY <2>3, <2>4
<1>9. ASSUME NEW signal, NEW severity \in Nat
      PROVE  LET x == {Item(signal, severity, n, OrOne(n), t)} IN Scored(x)
               /\ \A i \in x : i.affected \in Nat /\ i.affected <= Cardinality(S)
  <2>1. PICK i : i = Item(signal, severity, n, OrOne(n), t)
    OBVIOUS
  <2>2. Scored({i}) /\ i.affected = n
    <3>1. now \in Int /\ severity \in Nat /\ n \in Nat /\ t \in Int
      BY <1>2
    <3>2. \A s, u \in Nat : \A v \in Int : \A j :
            j = Item(signal, s, u, OrOne(u), v) => Scored({j}) /\ j.affected = u
      BY <1>2, DeltaScored, Zenon
    <3>3. \A v \in Int : \A j :
            j = Item(signal, severity, n, OrOne(n), v) => Scored({j}) /\ j.affected = n
      BY <3>1, <3>2, Zenon
    <3>4. \A j : j = Item(signal, severity, n, OrOne(n), t) => Scored({j}) /\ j.affected = n
      BY <3>1, <3>3, Zenon
    <3> QED BY <2>1, <3>4, Zenon
  <2> QED BY <1>8, <2>1, <2>2, Zenon
<1>10. CASE q = "latency"
  <2>1. \/ Profile(q, a, since, t, got) = {}
        \/ Profile(q, a, since, t, got) = {Item(<<"latency_delta", None>>, 2, n, OrOne(n), t)}
    BY <1>8, <1>10 DEF Profile, Worklist
  <2>2. PICK x : x = {Item(<<"latency_delta", None>>, 2, n, OrOne(n), t)}
    OBVIOUS
  <2>3. Scored(x) /\ \A i \in x : i.affected \in Nat /\ i.affected <= Cardinality(S)
    BY <1>9, <2>2
  <2> QED BY <1>7, <1>10, <2>1, <2>2, <2>3, EmptyScored
<1>11. CASE q = "completion"
  <2>1. \/ Profile(q, a, since, t, got) = {}
        \/ Profile(q, a, since, t, got) = {Item(<<"completion_drop", None>>, 3, n, OrOne(n), t)}
    BY <1>8, <1>11 DEF Profile, Worklist
  <2>2. PICK x : x = {Item(<<"completion_drop", None>>, 3, n, OrOne(n), t)}
    OBVIOUS
  <2>3. Scored(x) /\ \A i \in x : i.affected \in Nat /\ i.affected <= Cardinality(S)
    BY <1>9, <2>2
  <2> QED BY <1>7, <1>11, <2>1, <2>2, <2>3, EmptyScored
<1>12. CASE q = "tools"
  <2>1. Profile(q, a, since, t, got) = ToolStats(a, t - Window, t)
    BY <1>12 DEF Profile, Worklist
  <2> QED BY <1>12, <2>1, ToolStatsTallied DEF ProfileSays
<1>13. CASE q = "tool drops"
  <2>1. Profile(q, a, since, t, got)
            = ToolDrops(got["tools"], ToolStats(a, t - 2 * Window, t - Window), t)
    BY <1>13 DEF Profile, Worklist
  <2>2. Scored(Profile(q, a, since, t, got))
    BY <1>2, <1>13, <2>1, ToolDropsScored
  <2> QED BY <1>13, <2>2 DEF ProfileSays
<1>14. CASE q \notin {"snapshot runs", "snapshot down", "hits", "thumbs", "latency", "completion",
                "tools", "tool drops"}
  BY <1>14 DEF ProfileSays
<1> QED BY <1>3, <1>4, <1>5, <1>6, <1>10, <1>11, <1>12, <1>13, <1>14

(* The tables as they are.                                                 *)
Current == [run |-> run, hits |-> hits]

(* Both SELECTs of failures.csv do.                                        *)
LEMMA FailuresAnswers ==
  ASSUME RunsOK, HitsOK, NEW q, NEW a, NEW since \in Int
  PROVE  FailuresSays(q, FailuresCsv(q, a, since), Current, since)
<1>1. PICK hit : hit = {h[1] : h \in Hits(Rows, since)}
  OBVIOUS
<1>2. hit = HitSince(Current, since)
  <2>1. \A r \in hit : r \in HitSince(Current, since)
    BY <1>1 DEF Hits, Rows, HitSince, Current
  <2>2. ASSUME NEW r \in HitSince(Current, since) PROVE r \in hit
    <3>1. r \in Rows /\ hits[r].found # {} /\ hits[r].at >= since
      BY DEF HitSince, Current, Rows
    <3>2. PICK f \in Findings : f \in hits[r].found
      BY <3>1 DEF Rows, HitsOK
    <3>3. <<r, f>> \in Hits(Rows, since)
      BY <3>1, <3>2 DEF Hits
    <3> QED BY <1>1, <3>3
  <2> QED BY <2>1, <2>2
<1>3. CASE q = "kinds"
  BY <1>1, <1>2, <1>3 DEF FailuresCsv, FailuresSays
<1>4. CASE q = "rows"
  <2>1. PICK shown : shown = {s \in Of(a, Since(since)) :
                 s \in hit \/ run[s].down > 0 \/ run[s].tag \in {"bad", "todo"}}
    OBVIOUS
  <2>2. PICK x : x = FailuresCsv(q, a, since)
    OBVIOUS
  <2>3. x = {[id |-> r, errored |-> Cardinality({c \in Failed(CallsIn({r})) : StartOf(c) >= since}),
              tag |-> run[r].tag, down |-> run[r].down] : r \in shown}
    BY <1>1, <1>4, <2>1, <2>2 DEF FailuresCsv
  <2>4. PICK errored : errored
                 = [r \in shown |-> Cardinality({c \in Failed(CallsIn({r})) : StartOf(c) >= since})]
    OBVIOUS
  <2>7. \A y \in x : \E r \in shown :
            y = [id |-> r, errored |-> errored[r], tag |-> run[r].tag, down |-> run[r].down]
    BY <2>3, <2>4
  <2>5. \A y, z \in x : y.id = z.id => y = z
    <3> SUFFICES ASSUME NEW y \in x, NEW z \in x, y.id = z.id PROVE y = z
      OBVIOUS
    <3>1. PICK r \in shown : y
                   = [id |-> r, errored |-> errored[r], tag |-> run[r].tag, down |-> run[r].down]
      BY <2>7
    <3>2. PICK p \in shown : z
                   = [id |-> p, errored |-> errored[p], tag |-> run[p].tag, down |-> run[p].down]
      BY <2>7
    <3>3. r = p
      BY <3>1, <3>2
    <3> QED BY <3>1, <3>2, <3>3
  <2>6. ASSUME NEW y \in x
        PROVE  y.id \in Runs
                 /\ (y.down = 0 /\ y.tag \notin {"bad", "todo"}
                      => y.id \in HitSince(Current, since))
    <3>1. y.id \in shown /\ y.tag = run[y.id].tag /\ y.down = run[y.id].down
      <4>1. PICK r \in shown : y
                     = [id |-> r, errored |-> errored[r], tag |-> run[r].tag, down |-> run[r].down]
        BY <2>7
      <4> QED BY <4>1
    <3>2. y.id \in Runs
      BY <2>1, <3>1 DEF Of, Since, Rows
    <3>3. y.down = 0 => ~ (y.down > 0)
      OBVIOUS
    <3> QED BY <1>2, <2>1, <3>1, <3>2, <3>3
  <2> QED BY <1>4, <2>2, <2>5, <2>6 DEF FailuresSays
<1>5. CASE q \notin {"kinds", "rows"}
  BY <1>5 DEF FailuresSays
<1> QED BY <1>3, <1>4, <1>5

(* The page of the queue does.                                             *)
LEMMA QueueAnswers ==
  ASSUME RunsOK, HitsOK, NEW heuristics
  PROVE  QueueSays("page", Queue(heuristics), Current, heuristics)
<1>1. PICK found : found = [r \in Runs |-> {f \in hits[r].found : heuristics # {}
               => f.heuristic \in heuristics}]
  OBVIOUS
<1>2. PICK weight : weight = [r \in Runs |-> SumFunction([f \in found[r] |-> Clamp(f.severity)])]
  OBVIOUS
<1>3. PICK key : key = [r \in {q \in Rows : found[q] # {}} |-> <<weight[r], run[r].start>>]
  OBVIOUS
<1>4. \A r \in Runs : weight[r] \in Int
  <2> TAKE r \in Runs
  <2>1. PICK d : d = [f \in Findings |-> Clamp(f.severity)]
    OBVIOUS
  <2>2. \A f \in Findings : d[f] \in Nat
    BY <2>1, ReadSideAssumption DEF Clamp
  <2>3. found[r] \in SUBSET Findings /\ IsFiniteSet(Findings)
    BY <1>1, ReadSideAssumption DEF HitsOK
  <2>4. SumFunction([f \in found[r] |-> d[f]]) \in Nat
    BY <2>2, <2>3, SumsGrow
  <2>5. [f \in found[r] |-> d[f]] = [f \in found[r] |-> Clamp(f.severity)]
    BY <2>1, <2>3
  <2> QED BY <1>2, <2>4, <2>5
<1>5. DOMAIN key \in SUBSET Rows /\ IsFiniteSet(DOMAIN key) /\ Limit \in Nat
  <2>1. DOMAIN key \in SUBSET Rows /\ Rows \in SUBSET Runs
    BY <1>3 DEF Rows
  <2> QED BY <2>1, RunsFinite, ReadSideAssumption
<1>6. \A r \in DOMAIN key : key[r][1] \in Int /\ key[r][2] \in Int
  BY <1>3, <1>4, RowStarts DEF Rows
<1>7. PICK m \in Nat : /\ m <= Limit /\ Largest(key, Limit) \in [1 .. m -> DOMAIN key]
                       /\ \A i, j \in 1 .. m : i # j
                            => Largest(key, Limit)[i] # Largest(key, Limit)[j]
  BY <1>5, <1>6, LargestType
<1>8. PICK s : s = Largest(key, Limit)
  OBVIOUS
<1>9. Queue(heuristics)
          = [i \in DOMAIN s |-> [id |-> s[i], score |-> weight[s[i]],
              count |-> Cardinality(found[s[i]])]]
  <2>1. \A r \in Runs : found[r]
            = {f \in hits[r].found : heuristics # {} => f.heuristic \in heuristics}
    BY <1>1
  <2>2. \A r \in Runs : weight[r]
            = SumFunction([f \in {g \in hits[r].found : heuristics # {}
                => g.heuristic \in heuristics} |-> Clamp(f.severity)])
    BY <1>2, <2>1
  <2>3. key = [r \in {q \in Rows :
            {f \in hits[q].found : heuristics # {} => f.heuristic \in heuristics} # {}} |->
                 <<SumFunction([f \in {g \in hits[r].found : heuristics # {}
                     => g.heuristic \in heuristics} |-> Clamp(f.severity)]),
                   run[r].start>>]
    BY <1>3, <2>1, <2>2 DEF Rows
  <2>4. DOMAIN s = 1 .. m /\ \A i \in 1 .. m : s[i] \in Runs
    BY <1>5, <1>7, <1>8 DEF Rows
  <2> QED BY <1>8, <2>1, <2>2, <2>3, <2>4 DEF Queue
<1>10. PICK x : x = Queue(heuristics)
  OBVIOUS
<1>11. DOMAIN s = 1 .. m /\ \A i \in 1 .. m : s[i] \in Runs
  BY <1>5, <1>7, <1>8 DEF Rows
<1>12. /\ DOMAIN x = 1 .. m /\ Len(x) = m
       /\ \A i \in 1 .. m : x[i].id = s[i] /\ x[i].count = Cardinality(found[s[i]])
  BY <1>9, <1>10, <1>11
<1>13. \A i \in 1 .. m : x[i].id \in Runs
           /\ x[i].count = Cardinality(FoundIn(Current, x[i].id, heuristics))
  <2>1. \A r \in Runs : FoundIn(Current, r, heuristics) = found[r]
    BY <1>1 DEF FoundIn, Current
  <2> TAKE i \in 1 .. m
  <2>2. x[i].id = s[i] /\ s[i] \in Runs /\ x[i].count = Cardinality(found[s[i]])
    BY <1>11, <1>12, Zenon
  <2>3. FoundIn(Current, s[i], heuristics) = found[s[i]]
    BY <2>1, <2>2, Zenon
  <2> QED BY <2>2, <2>3, Zenon
<1>14. \A i, j \in 1 .. m : i # j => x[i].id # x[j].id
  BY <1>7, <1>8, <1>12
<1> QED BY <1>7, <1>10, <1>12, <1>13, <1>14 DEF QueueSays

-----------------------------------------------------------------------------
(* What two of them say of tables that differ in few runs.                 *)

(* Two tables that differ in at most n runs.                               *)
Close(n, row, new) == \E X \in SUBSET Runs : Cardinality(X) <= n /\ Alike(X, row, new)

(* The figures of two tables that differ in n runs differ by n at most.    *)
LEMMA CountsClose ==
  ASSUME NEW n \in Nat, NEW row, NEW new, NEW X \in SUBSET Runs, Cardinality(X) <= n, Alike(X, row, new),
         NEW W \in SUBSET Runs, NEW V \in SUBSET Runs, W \ X \in SUBSET V, NEW t
  PROVE  LET b == Began(W, row, t)
             c == Began(V, new, t)
         IN /\ Cardinality(b) \in Nat /\ Cardinality(c) \in Nat
            /\ Cardinality(Marked(b, row)) \in Nat /\ Cardinality(Marked(c, new)) \in Nat
            /\ Cardinality(b) <= Cardinality(c) + n
            /\ Cardinality(Marked(b, row)) <= Cardinality(Marked(c, new)) + n
            /\ Cardinality(Marked(b, row)) <= Cardinality(c) + n
            /\ Cardinality(Failing(b, row)) <= Cardinality(Marked(c, new)) + n
            /\ Cardinality(Failing(b, row)) <= Cardinality(c) + n
<1>1. PICK b : b = Began(W, row, t)
  OBVIOUS
<1>2. PICK c : c = Began(V, new, t)
  OBVIOUS
<1>4. /\ b \in SUBSET Runs /\ c \in SUBSET Runs /\ Marked(b, row) \in SUBSET Runs
           /\ Marked(c, new) \in SUBSET Runs
      /\ Failing(b, row) \in SUBSET Runs
  BY <1>1, <1>2 DEF Began, Marked, Failing
<1>5. /\ b \ X \in SUBSET c
      /\ Marked(b, row) \ X \in SUBSET Marked(c, new) /\ Marked(b, row) \ X \in SUBSET c
      /\ Failing(b, row) \ X \in SUBSET Marked(c, new) /\ Failing(b, row) \ X \in SUBSET c
  BY <1>1, <1>2, ReadSideAssumption DEF Alike, Began, Marked, Failing
<1> QED BY <1>1, <1>2, <1>4, <1>5, CountsApart, RunsFinite

(* Those of all the runs, and those of an agent's: a run that has changed  *)
(* hands is one of the n.                                                  *)
LEMMA CloseCounts ==
  ASSUME NEW n \in Nat, NEW row, NEW new, Close(n, row, new), NEW t
  PROVE  LET b == Began(Runs, row, t)
             c == Began(Runs, new, t)
         IN /\ Cardinality(b) \in Nat /\ Cardinality(Marked(b, row)) \in Nat
            /\ Cardinality(b) <= Cardinality(c) + n
            /\ Cardinality(Marked(b, row)) <= Cardinality(Marked(c, new)) + n
            /\ Cardinality(Marked(b, row)) <= Cardinality(c) + n
            /\ Cardinality(Failing(b, row)) <= Cardinality(Marked(c, new)) + n
<1>1. PICK X \in SUBSET Runs : Cardinality(X) <= n /\ Alike(X, row, new)
  BY DEF Close
<1> QED BY <1>1, CountsClose

LEMMA OwnedCounts ==
  ASSUME NEW n \in Nat, NEW row, NEW new, Close(n, row, new), NEW a, NEW t
  PROVE  LET b == Began(Owned(row, a), row, t)
             c == Began(Owned(new, a), new, t)
         IN /\ Cardinality(b) \in Nat
            /\ Cardinality(b) <= Cardinality(c) + n
            /\ Cardinality(Failing(b, row)) <= Cardinality(c) + n
<1>1. PICK X \in SUBSET Runs : Cardinality(X) <= n /\ Alike(X, row, new)
  BY DEF Close
<1>2. PICK W \in SUBSET Runs, V \in SUBSET Runs : W = Owned(row, a) /\ V = Owned(new, a)
  BY BeganRuns
<1>3. W \ X \in SUBSET V
  BY <1>1, <1>2 DEF Alike, Owned
<1> QED BY <1>1, <1>2, <1>3, CountsClose

LEMMA NumbersApart ==
  ASSUME NEW t \in Nat, NEW x \in Nat, NEW y \in Nat, x <= y + t, y <= x + t
  PROVE  /\ x - y \in (- t) .. t
         /\ \A l \in Nat : Smaller(x, l) - Smaller(y, l) \in (- t) .. t
         /\ \A z \in Nat : z <= x => z <= y + t
  BY DEF Smaller

LEMMA NoneTouched ==
  ASSUME NEW X \in SUBSET Runs, Cardinality(X) <= 0
  PROVE  X = {}
<1>1. IsFiniteSet(X) /\ Cardinality(X) \in Nat
  BY RunsFinite
<1>2. Cardinality(X) = 0
  BY <1>1
<1> QED BY <1>1, <1>2, FS_EmptySet

(* Figures of the dashboard that were read from tables which differ in as  *)
(* many runs as there were writes agree up to that many.                   *)
LEMMA OverviewAgreement ==
  ASSUME NEW got, NEW since, reader.torn \in Nat, NEW rows,
         {"runs", "flagged", "errors", "envs", "recent", "most ran", "series", "volume",
             "latency"} \subseteq DOMAIN got,
         \A q \in DOMAIN got : OverviewSays(q, got[q], rows[q], since),
         \A p, q \in DOMAIN got : Close(reader.torn, rows[p], rows[q])
  PROVE  OverviewAgrees(got)
<1> DEFINE began(q) == Began(Runs, rows[q], since)
           n(q) == Cardinality(began(q))
           m(q) == Cardinality(Marked(began(q), rows[q]))
           e(q) == Cardinality(Failing(began(q), rows[q]))
<1>1. ASSUME NEW p \in DOMAIN got, NEW q \in DOMAIN got
      PROVE  /\ n(p) \in Nat /\ m(p) \in Nat
             /\ n(p) <= n(q) + reader.torn /\ m(p) <= m(q) + reader.torn
                  /\ m(p) <= n(q) + reader.torn
             /\ e(p) <= m(q) + reader.torn
  BY CloseCounts
<1>2. /\ got["runs"] = n("runs") /\ got["flagged"] = m("flagged") /\ got["errors"] = e("errors")
      /\ SumFunction([x \in got["envs"] |-> x[2]]) = n("envs")
      /\ Len(got["recent"]) = Smaller(m("recent"), Limit)
      /\ Ascending(got["latency"])
  BY DEF OverviewSays
<1>3. /\ RunsOf(got["most ran"]) \in Nat /\ RunsOf(got["most ran"]) <= n("most ran")
      /\ RunsOf(got["series"]) \in Nat /\ RunsOf(got["series"]) <= n("series")
  BY DEF OverviewSays
<1>4. PICK sum : sum = SumFunction([i \in 1 .. Bars |-> SumFunction(got["volume"][i])])
  OBVIOUS
<1>5. sum \in Nat /\ sum <= n("volume")
  BY <1>4 DEF OverviewSays
<1>6. Limit \in Nat
  BY ReadSideAssumption
<1> HIDE DEF began, n, m, e
<1>7. AtMost(got["errors"], got["flagged"]) /\ AtMost(got["flagged"], got["runs"])
  BY <1>1, <1>2 DEF AtMost
<1>8. Apart(SumFunction([x \in got["envs"] |-> x[2]]), got["runs"])
  <2>1. n("envs") <= n("runs") + reader.torn /\ n("runs") <= n("envs") + reader.torn
            /\ n("envs") \in Nat /\ n("runs") \in Nat
    BY <1>1
  <2>2. n("envs") - n("runs") \in (- reader.torn) .. reader.torn
    BY <2>1, NumbersApart
  <2> QED BY <1>2, <2>2 DEF Apart
<1>9. Apart(Len(got["recent"]), Smaller(got["flagged"], Limit))
  <2>1. /\ m("recent") <= m("flagged") + reader.torn /\ m("flagged") <= m("recent") + reader.torn
        /\ m("recent") \in Nat /\ m("flagged") \in Nat
    BY <1>1
  <2>2. Smaller(m("recent"), Limit) - Smaller(m("flagged"),
            Limit) \in (- reader.torn) .. reader.torn
    BY <1>6, <2>1, NumbersApart
  <2> QED BY <1>2, <2>2 DEF Apart
<1>10. AtMost(RunsOf(got["most ran"]), got["runs"]) /\ AtMost(RunsOf(got["series"]), got["runs"])
  <2>1. ASSUME NEW q \in {"most ran", "series"} PROVE RunsOf(got[q]) <= n("runs") + reader.torn
    <3>1. n(q) <= n("runs") + reader.torn /\ n("runs") <= n(q) + reader.torn /\ n(q) \in Nat
              /\ n("runs") \in Nat
      BY <1>1
    <3>2. RunsOf(got[q]) \in Nat /\ RunsOf(got[q]) <= n(q)
      BY <1>3
    <3> QED BY <3>1, <3>2, NumbersApart
  <2> QED BY <1>2, <2>1 DEF AtMost
<1>11. AtMost(SumFunction([i \in 1 .. Bars |-> SumFunction(got["volume"][i])]), got["runs"])
  <2>1. /\ n("volume") <= n("runs") + reader.torn /\ n("runs") <= n("volume") + reader.torn
        /\ n("volume") \in Nat /\ n("runs") \in Nat
    BY <1>1
  <2>2. sum <= n("runs") + reader.torn
    BY <1>5, <2>1, NumbersApart
  <2> QED BY <1>2, <1>4, <2>2 DEF AtMost
<1> QED BY <1>2, <1>7, <1>8, <1>9, <1>10, <1>11 DEF OverviewAgrees

(* Those of the list of agents do.                                         *)
LEMMA AgentListAgreement ==
  ASSUME NEW got, NEW since, reader.torn \in Nat, NEW rows,
         {"runs", "errors", "spark"} \subseteq DOMAIN got,
         \A q \in DOMAIN got : AgentListSays(q, got[q], rows[q], since),
         \A p, q \in DOMAIN got : Close(reader.torn, rows[p], rows[q])
  PROVE  AgentListAgrees(got)
<1> SUFFICES ASSUME NEW a \in Agents
             PROVE  /\ AtMost(got["errors"][a], got["runs"][a])
                    /\ Apart(SumFunction(got["spark"][a]), got["runs"][a])
  BY DEF AgentListAgrees
<1> DEFINE n(q) == Cardinality(Began(Owned(rows[q], a), rows[q], since))
           e(q) == Cardinality(Failing(Began(Owned(rows[q], a), rows[q], since), rows[q]))
<1>1. ASSUME NEW p \in DOMAIN got, NEW q \in DOMAIN got
      PROVE  n(p) \in Nat /\ n(p) <= n(q) + reader.torn /\ e(p) <= n(q) + reader.torn
  BY OwnedCounts
<1>2. got["runs"][a] = n("runs") /\ got["errors"][a] = e("errors")
          /\ SumFunction(got["spark"][a]) = n("spark")
  BY DEF AgentListSays
<1> HIDE DEF n, e
<1>3. n("spark") - n("runs") \in (- reader.torn) .. reader.torn
  <2>1. n("spark") <= n("runs") + reader.torn /\ n("runs") <= n("spark") + reader.torn
            /\ n("spark") \in Nat /\ n("runs") \in Nat
    BY <1>1
  <2> QED BY <2>1
<1> QED BY <1>1, <1>2, <1>3 DEF AtMost, Apart

(* Those of the metrics do.                                                *)
LEMMA MetricsAgreement ==
  ASSUME NEW got, NEW a, NEW since, reader.torn \in Nat, NEW rows,
         {"runs", "errors", "series", "latency"} \subseteq DOMAIN got,
         \A q \in DOMAIN got : MetricsSays(q, got[q], rows[q], a, since),
         \A p, q \in DOMAIN got : Close(reader.torn, rows[p], rows[q])
  PROVE  MetricsAgree(got)
<1> DEFINE n(q) == Cardinality(Began(Owned(rows[q], a), rows[q], since))
           e(q) == Cardinality(Failing(Began(Owned(rows[q], a), rows[q], since), rows[q]))
<1>1. ASSUME NEW p \in DOMAIN got, NEW q \in DOMAIN got
      PROVE  n(p) \in Nat /\ n(p) <= n(q) + reader.torn /\ e(p) <= n(q) + reader.torn
  BY OwnedCounts
<1>2. /\ got["runs"] = n("runs") /\ got["errors"] = e("errors") /\ Ascending(got["latency"])
      /\ RunsOf(got["series"]) \in Nat /\ RunsOf(got["series"]) <= n("series")
  BY DEF MetricsSays
<1> HIDE DEF n, e
<1>3. AtMost(got["errors"], got["runs"]) /\ AtMost(RunsOf(got["series"]), got["runs"])
  BY <1>1, <1>2 DEF AtMost
<1> QED BY <1>2, <1>3 DEF MetricsAgree

(* What the worklist is ranked from.                                       *)
Worked == {"hits", "thumbs", "latency", "completion", "tool drops"}

(* The worklist is in the order of its scores.                             *)
LEMMA RankedDescends ==
  ASSUME NEW got, \A q \in Worked : Scored(got[q])
  PROVE  LET ranked == Ranked(got) IN
         \A i \in DOMAIN ranked : \A j \in 1 .. i : ranked[j].score >= ranked[i].score
<1>1. PICK items : items = UNION {got[q] : q \in Worked}
  OBVIOUS
<1>2. IsFiniteSet(items)
  <2>1. items = got["hits"]
            \cup (got["thumbs"]
                \cup (got["latency"] \cup (got["completion"] \cup got["tool drops"])))
    BY <1>1 DEF Worked
  <2>2. IsFiniteSet(got["completion"] \cup got["tool drops"])
    BY FS_Union DEF Scored, Worked
  <2>3. IsFiniteSet(got["latency"] \cup (got["completion"] \cup got["tool drops"]))
    BY <2>2, FS_Union DEF Scored, Worked
  <2>4. IsFiniteSet(got["thumbs"]
            \cup (got["latency"] \cup (got["completion"] \cup got["tool drops"])))
    BY <2>3, FS_Union DEF Scored, Worked
  <2>5. IsFiniteSet(got["hits"]
            \cup (got["thumbs"]
                \cup (got["latency"] \cup (got["completion"] \cup got["tool drops"]))))
    BY <2>4, FS_Union DEF Scored, Worked
  <2> QED BY <2>1, <2>5
<1>3. \A x \in items : x.score \in Int /\ x.seen \in Int
  BY <1>1 DEF Scored
<1>4. PICK key : key = [x \in items |-> <<x.score, x.seen>>]
  OBVIOUS
<1>5. IsFiniteSet(DOMAIN key) /\ 2 * Limit \in Nat /\ \A x \in DOMAIN key : key[x][1] \in Int
          /\ key[x][2] \in Int
  BY <1>2, <1>3, <1>4, ReadSideAssumption
<1>6. PICK s : s = Largest(key, 2 * Limit)
  OBVIOUS
<1>7. PICK m \in Nat :
        /\ s \in [1 .. m -> items]
        /\ \A i \in 1 .. m : \A j \in 1 .. i : key[s[j]][1] >= key[s[i]][1]
  BY <1>4, <1>5, <1>6, LargestType
<1>8. Ranked(got) = s
  BY <1>1, <1>4, <1>6 DEF Ranked, Worked
<1>9. \A i \in DOMAIN s : \A j \in 1 .. i : s[j].score >= s[i].score
  <2> SUFFICES ASSUME NEW i \in 1 .. m, NEW j \in 1 .. i PROVE s[j].score >= s[i].score
    BY <1>7
  <2>1. s[i] \in items /\ s[j] \in items
    BY <1>7
  <2>2. key[s[i]][1] = s[i].score /\ key[s[j]][1] = s[j].score
    BY <1>4, <2>1
  <2> QED BY <1>7, <2>2
<1> QED BY <1>8, <1>9

(* The figures of the profile agree.                                       *)
LEMMA ProfileAgreement ==
  ASSUME NEW got, NEW a, NEW since, reader.torn \in Nat, NEW rows,
         Worked \cup {"snapshot runs", "snapshot down"} \subseteq DOMAIN got,
         \A q \in DOMAIN got : ProfileSays(q, got[q], rows[q], a, since),
         \A p, q \in DOMAIN got : Close(reader.torn, rows[p], rows[q])
  PROVE  ProfileAgrees(got)
<1> DEFINE n(q) == Cardinality(Began(Owned(rows[q], a), rows[q], since))
<1>0. {"latency", "completion", "thumbs", "snapshot runs", "snapshot down"} \subseteq DOMAIN got
  BY DEF Worked
<1>1. ASSUME NEW p \in DOMAIN got, NEW q \in DOMAIN got
      PROVE  n(p) \in Nat /\ n(p) <= n(q) + reader.torn
  BY OwnedCounts
<1>2. /\ got["snapshot runs"] = n("snapshot runs")
      /\ got["snapshot down"]
           = Sum(rows["snapshot down"], Began(Owned(rows["snapshot down"], a), rows["snapshot down"], since))
  BY DEF ProfileSays
<1>3. /\ \A i \in got["latency"] : i.affected \in Nat /\ i.affected <= n("latency")
      /\ \A i \in got["completion"] : i.affected \in Nat /\ i.affected <= n("completion")
      /\ \A i \in got["thumbs"] : i.signal[2] \in Nat /\ i.signal[2] <= n("thumbs")
  BY DEF ProfileSays, Worked
<1>4. \A i \in got["thumbs"] :
          i.affected <= Sum(rows["thumbs"], Began(Owned(rows["thumbs"], a), rows["thumbs"], since))
  BY DEF ProfileSays, Worked
<1>5. reader.torn = 0 => \A i \in got["thumbs"] : i.affected <= got["snapshot down"]
  <2> SUFFICES ASSUME reader.torn = 0
               PROVE  Sum(rows["thumbs"], Began(Owned(rows["thumbs"], a), rows["thumbs"], since))
                        = got["snapshot down"]
    BY <1>4
  <2>1. PICK X \in SUBSET Runs : Cardinality(X) <= 0
                 /\ Alike(X, rows["thumbs"], rows["snapshot down"])
    BY <1>0 DEF Close
  <2>2. X = {}
    BY <2>1, NoneTouched
  <2>3. \A r \in Runs : rows["thumbs"][r] = rows["snapshot down"][r]
    BY <2>1, <2>2 DEF Alike
  <2>4. PICK S : S = Began(Owned(rows["thumbs"], a), rows["thumbs"], since)
    OBVIOUS
  <2>5. S = Began(Owned(rows["snapshot down"], a), rows["snapshot down"], since) /\ S \in SUBSET Runs
    BY <2>3, <2>4 DEF Began, Owned
  <2>6. [r \in S |-> rows["thumbs"][r].down] = [r \in S |-> rows["snapshot down"][r].down]
    BY <2>3, <2>5
  <2> QED BY <1>2, <2>4, <2>5, <2>6 DEF Sum
<1>6. \A q \in Worked : Scored(got[q])
  BY DEF ProfileSays, Worked
<1> HIDE DEF n
<1>7. \A i \in got["latency"] \cup got["completion"] : AtMost(i.affected, got["snapshot runs"])
  <2>1. /\ n("latency") \in Nat /\ n("completion") \in Nat /\ n("snapshot runs") \in Nat
        /\ n("latency") <= n("snapshot runs") + reader.torn
             /\ n("completion") <= n("snapshot runs") + reader.torn
        /\ n("snapshot runs") <= n("latency") + reader.torn
             /\ n("snapshot runs") <= n("completion") + reader.torn
    BY <1>0, <1>1
  <2>2. \A i \in got["latency"] \cup got["completion"] :
            i.affected <= n("snapshot runs") + reader.torn
    BY <1>3, <2>1, NumbersApart
  <2> QED BY <1>2, <2>2 DEF AtMost
<1>8. \A i \in got["thumbs"] : AtMost(i.signal[2], got["snapshot runs"])
  <2>1. n("thumbs") \in Nat /\ n("snapshot runs") \in Nat
            /\ n("thumbs") <= n("snapshot runs") + reader.torn
        /\ n("snapshot runs") <= n("thumbs") + reader.torn
    BY <1>0, <1>1
  <2>2. \A i \in got["thumbs"] : i.signal[2] <= n("snapshot runs") + reader.torn
    BY <1>3, <2>1, NumbersApart
  <2> QED BY <1>2, <2>2 DEF AtMost
<1> QED BY <1>5, <1>6, <1>7, <1>8, RankedDescends DEF ProfileAgrees

LEMMA ToDistinct ==
  ASSUME NEW X \in SUBSET Runs, NEW B, NEW g, \A i \in B : g[i] \in X, \A i, j \in B : g[i] = g[j]
         => i = j,
         NEW n \in Nat, Cardinality(X) <= n
  PROVE  Cardinality(B) <= n
<1>1. PICK f : f = [i \in B |-> g[i]]
  OBVIOUS
<1>2. f \in Injection(B, X)
  BY <1>1 DEF Injection, IsInjective
<1>3. IsFiniteSet(X) /\ Cardinality(X) \in Nat
  BY RunsFinite
<1>4. IsFiniteSet(B) /\ Cardinality(B) <= Cardinality(X)
  BY <1>2, <1>3, FS_Injection
<1>5. Cardinality(B) \in Nat
  BY <1>4, FS_CardinalityType
<1> QED BY <1>3, <1>4, <1>5

(* A table s which differs from t in the runs X only. *)
Unlike(X, s, t) == Alike(X, s.run, t.run) /\ Alike(X, s.hits, t.hits)

(* The rows of failures.csv have a reason, but for as many as there were   *)
(* writes.                                                                 *)
LEMMA FailuresAgreement ==
  ASSUME NEW got, NEW since, reader.torn \in Nat, NEW tables, NEW X \in SUBSET Runs,
         Cardinality(X) <= reader.torn,
         {"kinds", "rows"} \subseteq DOMAIN got,
         \A q \in DOMAIN got : FailuresSays(q, got[q], tables[q], since),
         Unlike(X, tables["rows"], tables["kinds"])
  PROVE  FailuresAgree(got)
<1>1. PICK B : B = {row \in got["rows"] : row.down = 0 /\ row.tag \notin {"bad", "todo"}
                                          /\ row.id \notin DOMAIN got["kinds"]}
  OBVIOUS
<1>2. PICK g : g = [row \in B |-> row.id]
  OBVIOUS
<1>3. \A row \in B : g[row] \in X
  <2> TAKE row \in B
  <2>1. row.id \in Runs /\ row.id \in HitSince(tables["rows"], since)
            /\ row.id \notin HitSince(tables["kinds"], since)
    BY <1>1 DEF FailuresSays
  <2>2. row.id \in X
    BY <2>1 DEF Unlike, Alike, HitSince
  <2> QED BY <1>2, <2>2
<1>4. \A y, z \in B : g[y] = g[z] => y = z
  BY <1>1, <1>2 DEF FailuresSays
<1>5. Cardinality(B) <= reader.torn
  BY <1>3, <1>4, ToDistinct
<1>6. 0 + reader.torn = reader.torn
  OBVIOUS
<1> QED BY <1>1, <1>5, <1>6 DEF FailuresAgree, AtMost

(* The hits the queue lists, but of the runs X, are those of a table. *)
Lists(page, items, X, s) ==
  /\ items \in Seq(SUBSET Findings)
  /\ Len(items) <= Len(page)
  /\ \A i \in 1 .. Len(items) : page[i].id \notin X => items[i] = s.hits[page[i].id].found

(* The queue lists the hits it counts, but for as many runs as there were  *)
(* writes.                                                                 *)
LEMMA QueueAgreement ==
  ASSUME HitsOK, NEW got, reader.torn \in Nat, NEW s, NEW X \in SUBSET Runs,
         Cardinality(X) <= reader.torn,
         QueueSays("page", got["page"], s, reader.filter),
         Unlike(X, s, Current),
         Lists(got["page"], got["items"], X, Current), Len(got["items"]) = Len(got["page"])
  PROVE  QueueAgrees(got)
<1>1. PICK page : page = got["page"]
  OBVIOUS
<1>2. PICK items : items = got["items"]
  OBVIOUS
<1>3. /\ DOMAIN page = 1 .. Len(page) /\ Len(page) \in Nat
      /\ \A i \in DOMAIN page : page[i].id \in Runs
           /\ page[i].count = Cardinality(FoundIn(s, page[i].id, reader.filter))
      /\ \A i, j \in DOMAIN page : page[i].id = page[j].id => i = j
  BY <1>1 DEF QueueSays
<1>4. ASSUME NEW i \in DOMAIN page, page[i].id \notin X
      PROVE  /\ Cardinality(items[i]) \in Nat /\ page[i].count \in Nat
             /\ page[i].count <= Cardinality(items[i])
             /\ reader.filter = {} => page[i].count = Cardinality(items[i])
  <2>1. items[i] = hits[page[i].id].found
    BY <1>1, <1>2, <1>3, <1>4 DEF Lists, Current
  <2>2. s.hits[page[i].id] = hits[page[i].id]
    BY <1>3, <1>4 DEF Unlike, Alike, Current
  <2>3. FoundIn(s, page[i].id, reader.filter) \in SUBSET items[i]
        /\ (reader.filter = {} => FoundIn(s, page[i].id, reader.filter) = items[i])
    BY <2>1, <2>2 DEF FoundIn
  <2>4. items[i] \in SUBSET Findings
    BY <1>3, <2>1 DEF HitsOK
  <2>5. IsFiniteSet(items[i])
    BY <2>4, FS_Subset, ReadSideAssumption
  <2> QED BY <1>3, <2>3, <2>5, FS_Subset, FS_CardinalityType
<1>5. PICK g : g = [i \in DOMAIN page |-> page[i].id]
  OBVIOUS
<1>6. \A i, j \in DOMAIN page : g[i] = g[j] => i = j
  BY <1>3, <1>5
<1>7. Cardinality({i \in DOMAIN page : Cardinality(items[i]) < page[i].count}) <= reader.torn
  <2>1. \A i \in {i \in DOMAIN page : Cardinality(items[i]) < page[i].count} : g[i] \in X
    BY <1>4, <1>5
  <2> QED BY <1>6, <2>1, ToDistinct
<1>8. reader.filter = {}
          => Cardinality({i \in DOMAIN page : Cardinality(items[i]) > page[i].count}) <= reader.torn
  <2> SUFFICES ASSUME reader.filter = {}
               PROVE  Cardinality({i \in DOMAIN page : Cardinality(items[i]) > page[i].count})
                        <= reader.torn
    OBVIOUS
  <2>1. \A i \in {i \in DOMAIN page : Cardinality(items[i]) > page[i].count} : g[i] \in X
    BY <1>4, <1>5
  <2> QED BY <1>6, <2>1, ToDistinct
<1>9. 0 + reader.torn = reader.torn
  OBVIOUS
<1> QED BY <1>1, <1>2, <1>7, <1>8, <1>9 DEF QueueAgrees, AtMost

-----------------------------------------------------------------------------
(* A report in progress.                                                   *)

(* What the tables may hold.                                               *)
Tables ==
  [run : [Runs -> RunRow \cup {NoRun}], hits : [Runs -> [found : SUBSET Findings, at : Int]]]

(* What the SELECT q of a report returned, x, says of the tables s it      *)
(* read.                                                                   *)
Says(op, a, heuristics, since, q, x, s) ==
  /\ op = "overview" => OverviewSays(q, x, s.run, since)
  /\ op = "agents" => AgentListSays(q, x, s.run, since)
  /\ op = "metrics" => MetricsSays(q, x, s.run, a, since)
  /\ op = "profile" => ProfileSays(q, x, s.run, a, since)
  /\ op = "failures" => FailuresSays(q, x, s, since)
  /\ op = "queue" => QueueSays(q, x, s, heuristics)

(* What the SELECT q of this report returned.                              *)
Answered(q, s) == Says(reader.op, reader.agent, reader.filter, reader.since, q, reader.got[q], s)

(* The runs others have written since the report began, X: what each of    *)
(* its SELECTs has read is the tables as they are but for X.               *)
Accounts(X) ==
  /\ Cardinality(X) <= reader.torn
  /\ \A q \in DOMAIN reader.got : \E s \in Tables : Unlike(X, s, Current) /\ Answered(q, s)
  /\ reader.op = "queue" /\ "items" \in DOMAIN reader.got =>
       Lists(reader.got["page"], reader.got["items"], X, Current)

(* The first k SELECTs of the report have been done, and no other.         *)
Done(k) ==
  LET todo == Queries[reader.op] IN
  /\ k <= Len(todo)
  /\ reader.todo = [i \in 1 .. (Len(todo) - k) |-> todo[i + k]]
  /\ DOMAIN reader.got = {todo[i] : i \in 1 .. k}
  /\ reader.op = "queue" /\ k > 1 =>
       Len(reader.got["items"]) = Smaller(k - 1, Len(reader.got["page"]))

(* A report has read, of tables that differ from those of now in few runs, *)
(* what its SELECTs so far return; its window lies in the past.            *)
Reporting ==
  reader.op \notin {"idle", "walk"} =>
    /\ reader.op \in DOMAIN Queries /\ reader.torn \in Nat
    /\ reader.since \in Int /\ reader.at \in Int
    /\ reader.since + Window <= reader.at /\ reader.at <= now
    /\ \E k \in Nat : Done(k)
    /\ \E X \in SUBSET Runs : Accounts(X)

ReportInv == RunsOK /\ HitsOK /\ Shaped /\ Reporting

-----------------------------------------------------------------------------
(* The lists of SELECTs.                                                   *)

Listed(Q) == Len(Q) \in Nat /\ DOMAIN Q = 1 .. Len(Q) /\ Q = [i \in DOMAIN Q |-> Q[i]]

(* The queue is a page and a SELECT for each of its places.                *)
LEMMA QueueQueries ==
  /\ Listed(Queries["queue"]) /\ Len(Queries["queue"]) = Limit + 1
  /\ Queries["queue"][1] = "page" /\ \A i \in 2 .. (Limit + 1) : Queries["queue"][i] = "items"
<1>1. Limit \in Nat
  BY ReadSideAssumption
<1>2. PICK s : s = [i \in 1 .. Limit |-> "items"]
  OBVIOUS
<1>3. s \in Seq({"page", "items"}) /\ Len(s) = Limit
  BY <1>1, <1>2
<1>4. Queries["queue"] = <<"page">> \o s
  BY <1>2 DEF Queries
<1>5. <<"page">> \in Seq({"page", "items"}) /\ Len(<<"page">>) = 1 /\ <<"page">>[1] = "page"
  OBVIOUS
<1>6. Listed(Queries["queue"]) /\ Len(Queries["queue"]) = Limit + 1
  <2>1. Queries["queue"] \in Seq({"page", "items"}) /\ Len(Queries["queue"]) = Limit + 1
    BY <1>1, <1>3, <1>4, <1>5
  <2> QED BY <1>1, <2>1 DEF Listed
<1>7. Queries["queue"][1] = "page"
  BY <1>1, <1>3, <1>4, <1>5
<1>8. ASSUME NEW i \in 2 .. (Limit + 1) PROVE Queries["queue"][i] = "items"
  <2>1. i - 1 \in 1 .. Limit /\ i \in 1 .. (Limit + 1)
    BY <1>1
  <2>2. Queries["queue"][i] = s[i - 1]
    BY <1>1, <1>3, <1>4, <1>5, <2>1
  <2> QED BY <1>2, <2>1, <2>2
<1> QED BY <1>6, <1>7, <1>8

LEMMA QueriesType ==
  ASSUME NEW op \in DOMAIN Queries
  PROVE  Listed(Queries[op])
<1>1. CASE op = "queue"
  BY <1>1, QueueQueries
<1>2. CASE op # "queue"
  <2>1. op \in {"overview", "agents", "metrics", "timeseries", "worklist", "profile", "failures",
            "clusters", "facets", "walk"}
    BY <1>2 DEF Queries
  <2>2. CASE op = "overview" BY <2>2 DEF Queries, Listed
  <2>3. CASE op = "agents" BY <2>3 DEF Queries, Listed
  <2>4. CASE op = "metrics" BY <2>4 DEF Queries, Listed
  <2>5. CASE op = "timeseries" BY <2>5 DEF Queries, Listed
  <2>6. CASE op = "worklist" BY <2>6 DEF Queries, Listed
  <2>7. CASE op = "profile" BY <2>7 DEF Queries, Listed
  <2>8. CASE op = "failures" BY <2>8 DEF Queries, Listed
  <2>9. CASE op = "clusters" BY <2>9 DEF Queries, Listed
  <2>10. CASE op = "facets" BY <2>10 DEF Queries, Listed
  <2>11. CASE op = "walk" BY <2>11 DEF Queries, Listed
  <2> QED BY <2>1, <2>2, <2>3, <2>4, <2>5, <2>6, <2>7, <2>8, <2>9, <2>10, <2>11
<1> QED BY <1>1, <1>2

LEMMA TailOf ==
  ASSUME NEW T, NEW m \in Nat, NEW s \in [1 .. m -> T], s # <<>>
  PROVE  m # 0 /\ Head(s) = s[1] /\ Tail(s) = [i \in 1 .. (m - 1) |-> s[i + 1]]
<1>1. s \in Seq(T) /\ Len(s) = m
  OBVIOUS
<1>2. m # 0 /\ Head(s) = s[1]
  BY <1>1
<1>3. Tail(s) \in Seq(T) /\ Len(Tail(s)) = m - 1 /\ DOMAIN Tail(s) = 1 .. (m - 1)
  BY <1>1, <1>2
<1>4. \A i \in 1 .. (m - 1) : Tail(s)[i] = s[i + 1]
  BY <1>1, <1>2
<1>5. PICK t : t = [i \in 1 .. (m - 1) |-> s[i + 1]]
  OBVIOUS
<1>6. t \in [1 .. (m - 1) -> T] /\ m - 1 \in Nat
  <2>1. \A i \in 1 .. (m - 1) : s[i + 1] \in T
    OBVIOUS
  <2> QED BY <1>2, <1>5, <2>1
<1>7. t \in Seq(T) /\ Len(t) = m - 1
  BY <1>6
<1>8. Tail(s) = t
  BY <1>3, <1>4, <1>5, <1>7, SeqEqual
<1> QED BY <1>2, <1>5, <1>8

LEMMA NextQuery ==
  ASSUME NEW Q, NEW n \in Nat, NEW k \in Nat, k <= n, NEW todo,
         todo = [i \in 1 .. (n - k) |-> Q[i + k]], todo # <<>>
  PROVE  /\ k < n /\ Head(todo) = Q[k + 1]
         /\ Tail(todo) = [i \in 1 .. (n - (k + 1)) |-> Q[i + (k + 1)]]
<1>1. PICK T : T = {Q[i] : i \in 1 .. n}
  OBVIOUS
<1>2. PICK m \in Nat : m = n - k
  OBVIOUS
<1>3. todo \in [1 .. m -> T]
  <2>1. \A i \in 1 .. m : Q[i + k] \in T
    BY <1>1, <1>2
  <2> QED BY <1>2, <2>1
<1>4. m # 0 /\ Head(todo) = todo[1] /\ Tail(todo) = [i \in 1 .. (m - 1) |-> todo[i + 1]]
  BY <1>3, TailOf
<1>5. k < n /\ 1 \in 1 .. m
  BY <1>2, <1>4
<1>6. todo[1] = Q[1 + k] /\ 1 + k = k + 1
  BY <1>2, <1>5
<1>7. \A i \in 1 .. (m - 1) : todo[i + 1] = Q[i + (k + 1)]
  <2> TAKE i \in 1 .. (m - 1)
  <2>1. i + 1 \in 1 .. (n - k) /\ (i + 1) + k = i + (k + 1)
    BY <1>2
  <2> QED BY <2>1
<1>8. Tail(todo) = [i \in 1 .. (m - 1) |-> Q[i + (k + 1)]]
  BY <1>4, <1>7
<1>9. m - 1 = n - (k + 1)
  BY <1>2
<1> QED BY <1>4, <1>5, <1>6, <1>8, <1>9

LEMMA CurrentType ==
  ASSUME RunsOK, HitsOK
  PROVE  /\ Current \in Tables /\ Current.run = run /\ Current.hits = hits
         /\ \A X : Unlike(X, Current, Current)
  BY DEF Current, Tables, RunsOK, HitsOK, Unlike, Alike

(* A report that begins has read nothing.                                  *)
LEMMA BeginReport ==
  ASSUME ReportInv, NEW op \in DOMAIN Queries, NEW a, NEW f, Begin(op, a, f)
  PROVE  ReportInv'
<1>1. RunsOK' /\ HitsOK' /\ now' = now
  BY DEF ReportInv, RunsOK, HitsOK, Begin
<1>2. /\ DOMAIN reader' = Fields /\ reader'.op = op /\ reader'.todo = Queries[op]
           /\ reader'.got = <<>>
      /\ reader'.torn = 0 /\ reader'.since = now - Window /\ reader'.at = now
  BY DEF Begin, Fields
<1>3. DOMAIN reader'.got = {}
  BY <1>2
<1>4. Done(0)'
  <2>1. Len(Queries[op]) \in Nat /\ Queries[op] = [i \in 1 .. Len(Queries[op]) |-> Queries[op][i]]
    BY QueriesType DEF Listed
  <2>2. Queries[op] = [i \in 1 .. (Len(Queries[op]) - 0) |-> Queries[op][i + 0]]
    BY <2>1
  <2>3. 0 <= Len(Queries[op]) /\ ~ (0 > 1) /\ 1 .. 0 = {}
    BY <2>1
  <2>4. DOMAIN reader'.got = {Queries[op][i] : i \in 1 .. 0}
    BY <1>3, <2>3
  <2> QED BY <1>2, <2>2, <2>3, <2>4 DEF Done
<1>5. Accounts({})'
  BY <1>2, <1>3, FS_EmptySet DEF Accounts
<1>6. now \in Int /\ Window \in Int
  BY WindowType DEF ReportInv, RunsOK
<1>7. Reporting'
  <2>1. /\ reader'.since \in Int /\ reader'.at \in Int /\ reader'.since + Window <= reader'.at
             /\ reader'.at <= now'
    BY <1>1, <1>2, <1>6
  <2> QED BY <1>2, <1>4, <1>5, <2>1 DEF Reporting
<1> QED BY <1>1, <1>2, <1>7 DEF ReportInv, Shaped

(* The rows of the volume are read before its bars are filled up.          *)
LEMMA OverviewOrder ==
  /\ Len(Queries["overview"]) = 13 /\ Queries["overview"][7] = "volume rows"
  /\ \A k \in 0 .. 12 : Queries["overview"][k + 1] = "volume" => k = 7
<1>1. PICK Q : Q = <<"runs", "agents", "flagged", "errors", "tokens", "latency", "volume rows",
               "volume",
                    "envs", "tools", "recent", "most ran", "series">>
  OBVIOUS
<1>2. Queries["overview"] = Q
  BY <1>1 DEF Queries
<1>3. \A i \in 1 .. 13 : Q[i] = "volume" => i = 8
  <2>0. /\ Q[1] # "volume" /\ Q[2] # "volume" /\ Q[3] # "volume" /\ Q[4] # "volume"
             /\ Q[5] # "volume"
        /\ Q[6] # "volume" /\ Q[7] # "volume" /\ Q[9] # "volume" /\ Q[10] # "volume"
             /\ Q[11] # "volume"
        /\ Q[12] # "volume" /\ Q[13] # "volume"
    BY <1>1
  <2>1. \A i \in {1, 2, 3, 4, 5, 6, 7, 9, 10, 11, 12, 13} : Q[i] # "volume"
    BY <2>0
  <2>2. \A i \in 1 .. 13 : i # 8 => i \in {1, 2, 3, 4, 5, 6, 7, 9, 10, 11, 12, 13}
    OBVIOUS
  <2> QED BY <2>1, <2>2
<1>4. Len(Q) = 13 /\ Q[7] = "volume rows"
  BY <1>1
<1>5. ASSUME NEW k \in 0 .. 12, Q[k + 1] = "volume" PROVE k = 7
  <2>1. k + 1 \in 1 .. 13
    OBVIOUS
  <2>2. k + 1 = 8
    BY <1>3, <1>5, <2>1
  <2> QED BY <2>2
<1> QED BY <1>2, <1>4, <1>5

(* The tools are read before their drops.                                  *)
LEMMA ProfileOrder ==
  /\ Len(Queries["profile"]) = 16 /\ Queries["profile"][14] = "tools"
  /\ \A k \in 0 .. 15 : Queries["profile"][k + 1] = "tool drops" => k = 14
<1>1. PICK Q : Q = <<"snapshot runs", "snapshot p95", "snapshot p95 before", "snapshot tools",
               "snapshot down",
                    "hits", "thumbs", "p95", "p95 before", "latency", "rate", "rate before",
                        "completion",
                    "tools", "tool drops", "landscape">>
  OBVIOUS
<1>2. Queries["profile"] = Q
  BY <1>1 DEF Queries
<1>3. \A i \in 1 .. 16 : Q[i] = "tool drops" => i = 15
  <2>0. /\ Q[1] # "tool drops" /\ Q[2] # "tool drops" /\ Q[3] # "tool drops" /\ Q[4] # "tool drops"
        /\ Q[5] # "tool drops" /\ Q[6] # "tool drops" /\ Q[7] # "tool drops" /\ Q[8] # "tool drops"
        /\ Q[9] # "tool drops" /\ Q[10] # "tool drops" /\ Q[11] # "tool drops"
             /\ Q[12] # "tool drops"
        /\ Q[13] # "tool drops" /\ Q[14] # "tool drops" /\ Q[16] # "tool drops"
    BY <1>1
  <2>1. \A i \in {1, 2, 3, 4, 5, 6, 7, 8, 9, 10, 11, 12, 13, 14, 16} : Q[i] # "tool drops"
    BY <2>0
  <2>2. \A i \in 1 .. 16 : i # 15 => i \in {1, 2, 3, 4, 5, 6, 7, 8, 9, 10, 11, 12, 13, 14, 16}
    OBVIOUS
  <2> QED BY <2>1, <2>2
<1>4. Len(Q) = 16 /\ Q[14] = "tools"
  BY <1>1
<1>5. ASSUME NEW k \in 0 .. 15, Q[k + 1] = "tool drops" PROVE k = 14
  <2>1. k + 1 \in 1 .. 16
    OBVIOUS
  <2>2. k + 1 = 15
    BY <1>3, <1>5, <2>1
  <2> QED BY <2>2
<1> QED BY <1>2, <1>4, <1>5

(* The SELECTs that use what another returned come after it.               *)
LEMMA Before ==
  ASSUME NEW op \in DOMAIN Queries, NEW k \in Nat, k < Len(Queries[op])
  PROVE  LET Q == Queries[op]
             q == Q[k + 1]
             asked == {Q[i] : i \in 1 .. k}
         IN /\ op = "overview" /\ q = "volume" => "volume rows" \in asked
            /\ op = "profile" /\ q = "tool drops" => "tools" \in asked
            /\ op = "queue" => /\ q = IF k = 0 THEN "page" ELSE "items"
                               /\ k > 0 => "page" \in asked
                               /\ k > 1 <=> "items" \in asked
<1>0. PICK n \in Nat : n = Len(Queries[op]) /\ k < n
  BY QueriesType DEF Listed
<1>1. CASE op = "overview"
  <2>1. n = 13
    BY <1>0, <1>1, OverviewOrder
  <2>2. k \in 0 .. 12
    BY <1>0, <2>1
  <2>3. Queries["overview"][k + 1] = "volume" => 7 \in 1 .. k
    <3>1. k = 7 => 7 \in 1 .. k
      OBVIOUS
    <3> QED BY <2>2, <3>1, OverviewOrder
  <2> QED BY <1>1, <2>3, OverviewOrder
<1>2. CASE op = "profile"
  <2>1. n = 16
    BY <1>0, <1>2, ProfileOrder
  <2>2. k \in 0 .. 15
    BY <1>0, <2>1
  <2>3. Queries["profile"][k + 1] = "tool drops" => 14 \in 1 .. k
    <3>1. k = 14 => 14 \in 1 .. k
      OBVIOUS
    <3> QED BY <2>2, <3>1, ProfileOrder
  <2> QED BY <1>2, <2>3, ProfileOrder
<1>3. CASE op = "queue"
  <2>1. PICK Q : Q = Queries[op]
    OBVIOUS
  <2>2. /\ Limit \in Nat /\ Len(Q) = Limit + 1 /\ Q[1] = "page"
        /\ \A i \in 2 .. (Limit + 1) : Q[i] = "items"
    BY <1>3, <2>1, QueueQueries, ReadSideAssumption
  <2>3. Q[k + 1] = IF k = 0 THEN "page" ELSE "items"
    <3>1. k < Limit + 1
      BY <1>0, <2>1, <2>2
    <3>2. k # 0 => k + 1 \in 2 .. (Limit + 1)
      BY <2>2, <3>1
    <3> QED BY <2>2, <3>2
  <2>4. k > 0 => "page" \in {Q[i] : i \in 1 .. k}
    BY <2>2
  <2>5. k > 1 => "items" \in {Q[i] : i \in 1 .. k}
    <3>1. k > 1 => 2 \in 1 .. k /\ Q[2] = "items"
      BY <1>0, <2>1, <2>2
    <3> QED BY <3>1
  <2>6. "items" \in {Q[i] : i \in 1 .. k} => k > 1
    <3> SUFFICES ASSUME NEW i \in 1 .. k, Q[i] = "items" PROVE k > 1
      OBVIOUS
    <3>1. i # 1
      BY <2>2
    <3> QED BY <3>1
  <2> QED BY <1>3, <2>1, <2>3, <2>4, <2>5, <2>6
<1>4. CASE op \notin {"overview", "profile", "queue"}
  BY <1>4
<1> QED BY <1>1, <1>2, <1>3, <1>4

LEMMA SumOrder ==
  ASSUME NEW u \in Int, NEW w \in Int, NEW t \in Int, NEW n \in Int, u + w <= t, t <= n
  PROVE  u + w <= n
  OBVIOUS

-----------------------------------------------------------------------------
(* Steps.                                                                  *)

(* The next SELECT reads the tables as they are.                           *)
LEMMA SelectAnswers ==
  ASSUME ReportInv, reader.op \notin {"idle", "walk"}, NEW X \in SUBSET Runs, Accounts(X), NEW q,
         reader.op = "overview" /\ q = "volume" => "volume rows" \in DOMAIN reader.got,
         reader.op = "profile" /\ q = "tool drops" => "tools" \in DOMAIN reader.got,
         reader.op = "queue" => q \in {"page", "items"}
  PROVE  \E s \in Tables : Unlike(X, s, Current)
                           /\ Says(reader.op, reader.agent, reader.filter, reader.since, q,
                                Answer(q), s)
<1>1. RunsOK /\ HitsOK /\ now \in Int /\ reader.since \in Int /\ reader.at \in Int
      /\ reader.since + Window <= reader.at /\ reader.since + Window <= now
  <2>1. RunsOK /\ HitsOK /\ now \in Int
    BY DEF ReportInv, RunsOK
  <2>2. reader.since \in Int /\ reader.at \in Int /\ reader.since + Window <= reader.at
            /\ reader.at <= now
    BY DEF ReportInv, Reporting
  <2>3. PICK w \in Int : w = Window
    BY WindowType
  <2>4. PICK u \in Int, t \in Int, n \in Int : u = reader.since /\ t = reader.at /\ n = now
                 /\ u + w <= t /\ t <= n
    BY <2>1, <2>2, <2>3
  <2>5. u + w <= n
    BY <2>3, <2>4, SumOrder
  <2> QED BY <2>1, <2>2, <2>3, <2>4, <2>5
<1>2. /\ Current \in Tables /\ Current.run = run /\ Current.hits = hits
           /\ Unlike(X, Current, Current)
      /\ RowsTyped(run)
  BY <1>1, CurrentType DEF RunsOK, RowsTyped
<1>3. CASE reader.op = "overview"
  <2>1. Answer(q) = Overview(q, reader.since, reader.got)
    BY <1>3 DEF Answer
  <2>2. CASE q = "volume"
    <3>1. PICK s \in Tables : Unlike(X, s, Current) /\ Answered("volume rows", s)
      BY <1>3, <2>2 DEF Accounts
    <3>2. OverviewSays("volume rows", reader.got["volume rows"], s.run, reader.since)
      BY <1>3, <3>1 DEF Answered, Says
    <3>3. \E t \in Int : t >= reader.since /\ reader.got["volume rows"] = VolumeOf(s.run, t)
      BY <3>2 DEF OverviewSays
    <3>4. RowsTyped(s.run)
      BY DEF Tables, RowsTyped
    <3>5. OverviewSays(q, Answer(q), s.run, reader.since)
      BY <1>1, <2>1, <2>2, <3>3, <3>4, OverviewAnswers
    <3> QED BY <1>3, <3>1, <3>5 DEF Says
  <2>3. CASE q # "volume"
    <3>1. OverviewSays(q, Answer(q), run, reader.since)
      BY <1>1, <1>2, <2>1, <2>3, OverviewAnswers
    <3> QED BY <1>2, <1>3, <3>1 DEF Says
  <2> QED BY <2>2, <2>3
<1>4. CASE reader.op = "agents"
  <2>1. Answer(q) = AgentList(q, reader.since)
    BY <1>4 DEF Answer
  <2>2. AgentListSays(q, Answer(q), run, reader.since)
    BY <2>1, AgentListAnswers
  <2> QED BY <1>2, <1>4, <2>2 DEF Says
<1>5. CASE reader.op = "metrics"
  <2>1. Answer(q) = Metrics(q, reader.agent, reader.since)
    BY <1>5 DEF Answer
  <2>2. MetricsSays(q, Answer(q), run, reader.agent, reader.since)
    BY <1>1, <2>1, MetricsAnswers
  <2> QED BY <1>2, <1>5, <2>2 DEF Says
<1>6. CASE reader.op = "profile"
  <2>1. PICK t \in Int : t = (IF q = "hits" THEN now ELSE reader.at) /\ reader.since + Window <= t
    BY <1>1
  <2>2. Answer(q) = Profile(q, reader.agent, reader.since, t, reader.got)
    BY <1>6, <2>1 DEF Answer
  <2>3. q = "tool drops" => Tallied(reader.got["tools"])
    <3> SUFFICES ASSUME q = "tool drops" PROVE Tallied(reader.got["tools"])
      OBVIOUS
    <3>1. PICK s \in Tables : Answered("tools", s)
      BY <1>6 DEF Accounts
    <3> QED BY <1>6, <3>1 DEF Answered, Says, ProfileSays
  <2>4. ProfileSays(q, Answer(q), run, reader.agent, reader.since)
    BY <1>1, <2>1, <2>2, <2>3, ProfileAnswers
  <2> QED BY <1>2, <1>6, <2>4 DEF Says
<1>7. CASE reader.op = "failures"
  <2>1. Answer(q) = FailuresCsv(q, reader.agent, reader.since)
    BY <1>7 DEF Answer
  <2>2. FailuresSays(q, Answer(q), Current, reader.since)
    BY <1>1, <2>1, FailuresAnswers
  <2> QED BY <1>2, <1>7, <2>2 DEF Says
<1>8. CASE reader.op = "queue"
  <2>1. CASE q = "page"
    <3>1. Answer(q) = Queue(reader.filter)
      BY <1>8, <2>1 DEF Answer
    <3>2. QueueSays(q, Answer(q), Current, reader.filter)
      BY <1>1, <2>1, <3>1, QueueAnswers
    <3> QED BY <1>2, <1>8, <3>2 DEF Says
  <2>2. CASE q = "items"
    BY <1>2, <1>8, <2>2 DEF Says, QueueSays
  <2> QED BY <1>8, <2>1, <2>2
<1>9. CASE reader.op \notin {"overview", "agents", "metrics", "profile", "failures", "queue"}
  BY <1>2, <1>9 DEF Says
<1> QED BY <1>3, <1>4, <1>5, <1>6, <1>7, <1>8, <1>9

LEMMA Updated ==
  ASSUME NEW g, NEW q, NEW v, NEW new, new = [p \in DOMAIN g \cup {q} |-> IF p = q THEN v ELSE g[p]]
  PROVE  /\ DOMAIN new = DOMAIN g \cup {q} /\ new[q] = v
         /\ \A p \in DOMAIN g : p # q => new[p] = g[p]
  OBVIOUS

LEMMA SmallerGrows ==
  ASSUME NEW j \in Nat, NEW n \in Nat, NEW m, m = Smaller(j, n)
  PROVE  /\ m \in Nat /\ m <= n
         /\ m < n => m + 1 = Smaller(j + 1, n) /\ m + 1 \in 1 .. n
         /\ ~ (m < n) => m = Smaller(j + 1, n)
  BY DEF Smaller

(* The hits of the next run of the page are added to the list.             *)
LEMMA ItemsListed ==
  ASSUME HitsOK, NEW page, Len(page) \in Nat, \A i \in 1 .. Len(page) : page[i].id \in Runs,
         NEW X, NEW items, Lists(page, items, X, Current), NEW j \in Nat, Len(items)
             = Smaller(j, Len(page))
  PROVE  /\ Lists(page, QueueItems(page, items), X, Current)
         /\ Len(QueueItems(page, items)) = Smaller(j + 1, Len(page))
<1>1. PICK n \in Nat : n = Len(page)
  OBVIOUS
<1>2. PICK m \in Nat : m = Len(items) /\ m <= n
  BY <1>1, SmallerGrows
<1>3. CASE m < n
  <2>1. m + 1 = Smaller(j + 1, n) /\ m + 1 \in 1 .. n
    BY <1>1, <1>2, <1>3, SmallerGrows
  <2>2. PICK found : found = hits[page[m + 1].id].found
    OBVIOUS
  <2>3. found \in SUBSET Findings
    BY <1>1, <2>1, <2>2 DEF HitsOK
  <2>4. items \in Seq(SUBSET Findings)
    BY DEF Lists
  <2>5. PICK new : new = Append(items, found)
    OBVIOUS
  <2>6. /\ new \in Seq(SUBSET Findings) /\ Len(new) = m + 1 /\ new[m + 1] = found
        /\ \A i \in 1 .. m : new[i] = items[i]
    BY <1>2, <2>3, <2>4, <2>5
  <2>7. QueueItems(page, items) = new
    BY <1>1, <1>2, <1>3, <2>2, <2>5 DEF QueueItems
  <2>8. ASSUME NEW i \in 1 .. (m + 1), page[i].id \notin X PROVE new[i] = hits[page[i].id].found
    <3>1. CASE i = m + 1
      BY <2>2, <2>6, <3>1
    <3>2. CASE i # m + 1
      <4>1. i \in 1 .. m
        BY <3>2
      <4> QED BY <1>2, <2>6, <2>8, <4>1 DEF Lists, Current
    <3> QED BY <3>1, <3>2
  <2>9. m + 1 <= n
    BY <1>3
  <2>10. Lists(page, new, X, Current)
    BY <1>1, <2>6, <2>8, <2>9 DEF Lists, Current
  <2> QED BY <1>1, <2>1, <2>6, <2>7, <2>10
<1>4. CASE ~ (m < n)
  <2>1. QueueItems(page, items) = items
    BY <1>1, <1>2, <1>4 DEF QueueItems
  <2>2. m = Smaller(j + 1, n)
    BY <1>1, <1>2, <1>4, SmallerGrows
  <2> QED BY <1>1, <1>2, <2>1, <2>2
<1> QED BY <1>3, <1>4

LEMMA QueueSelect ==
  ASSUME ReportInv, reader.op = "queue", NEW X \in SUBSET Runs, Accounts(X), NEW k \in Nat,
         Done(k), k > 0,
         "page" \in DOMAIN reader.got, k > 1 <=> "items" \in DOMAIN reader.got
  PROVE  /\ Lists(reader.got["page"], Answer("items"), X, Current)
         /\ Len(Answer("items")) = Smaller(k, Len(reader.got["page"]))
<1>1. PICK page : page = reader.got["page"]
  OBVIOUS
<1>2. Len(page) \in Nat /\ \A i \in 1 .. Len(page) : page[i].id \in Runs
  BY <1>1 DEF Accounts, Answered, Says, QueueSays
<1>3. PICK items : items = IF "items" \in DOMAIN reader.got THEN reader.got["items"] ELSE <<>>
  OBVIOUS
<1>4. PICK j \in Nat : j = k - 1
  OBVIOUS
<1>5. Lists(page, items, X, Current) /\ Len(items) = Smaller(j, Len(page))
  <2>1. CASE k > 1
    BY <1>1, <1>3, <1>4, <2>1 DEF Accounts, Done
  <2>2. CASE ~ (k > 1)
    <3>1. j = 0 /\ items = <<>>
      BY <1>3, <1>4, <2>2
    <3>2. items \in Seq(SUBSET Findings) /\ Len(items) = 0
      BY <3>1
    <3>3. 0 = Smaller(0, Len(page)) /\ 0 <= Len(page) /\ 1 .. 0 = {}
      BY <1>2 DEF Smaller
    <3> QED BY <3>1, <3>2, <3>3 DEF Lists
  <2> QED BY <2>1, <2>2
<1>6. Answer("items") = QueueItems(page, items)
  BY <1>1, <1>3 DEF Answer
<1>7. HitsOK
  BY DEF ReportInv
<1>8. j + 1 = k
  BY <1>4
<1> QED BY <1>1, <1>2, <1>5, <1>6, <1>7, <1>8, ItemsListed

(* A SELECT adds what it has read of the tables as they are. *)
LEMMA SelectReport == ASSUME ReportInv, Select PROVE ReportInv'
<1>1. RunsOK' /\ HitsOK' /\ UNCHANGED <<now, agent, run, hits>>
  BY DEF ReportInv, RunsOK, HitsOK, Select
<1>2. /\ RunsOK /\ HitsOK /\ DOMAIN reader = Fields /\ reader.op \notin {"idle", "walk"}
           /\ reader.todo # <<>>
      /\ reader.op \in DOMAIN Queries /\ reader.torn \in Nat
      /\ reader.since \in Int /\ reader.at \in Int /\ reader.since + Window <= reader.at
           /\ reader.at <= now
  BY DEF ReportInv, Shaped, Reporting, Select
<1>3. PICK k \in Nat : Done(k)
  BY <1>2 DEF ReportInv, Reporting
<1>4. PICK X \in SUBSET Runs : Accounts(X)
  BY <1>2 DEF ReportInv, Reporting
<1>5. PICK Q : Q = Queries[reader.op]
  OBVIOUS
<1>6. PICK n \in Nat : n = Len(Q) /\ k <= n /\ Listed(Q)
  BY <1>2, <1>3, <1>5, QueriesType DEF Listed, Done
<1>7. PICK q : q = Head(reader.todo)
  OBVIOUS
<1>8. k < n /\ q = Q[k + 1] /\ Tail(reader.todo) = [i \in 1 .. (n - (k + 1)) |-> Q[i + (k + 1)]]
  <2>1. reader.todo = [i \in 1 .. (n - k) |-> Q[i + k]]
    BY <1>3, <1>5, <1>6 DEF Done
  <2> QED BY <1>2, <1>6, <1>7, <2>1, NextQuery
<1>9. /\ DOMAIN reader' = Fields /\ reader'.op = reader.op /\ reader'.agent = reader.agent
      /\ reader'.filter = reader.filter /\ reader'.since = reader.since
           /\ reader'.torn = reader.torn
      /\ reader'.todo = Tail(reader.todo) /\ reader'.at = (IF q = "hits" THEN now ELSE reader.at)
      /\ reader'.got = [p \in DOMAIN reader.got \cup {q} |-> IF p
           = q THEN Answer(q) ELSE reader.got[p]]
  BY <1>2, <1>7 DEF Select, Fields
<1>10. PICK got : got = reader.got
  OBVIOUS
<1>11. PICK new : new = reader'.got
  OBVIOUS
<1>12. DOMAIN new = DOMAIN got \cup {q} /\ new[q] = Answer(q) /\ \A p \in DOMAIN got : p # q
           => new[p] = got[p]
  BY <1>9, <1>10, <1>11, Updated
<1>13. /\ reader.op = "overview" /\ q = "volume" => "volume rows" \in DOMAIN got
       /\ reader.op = "profile" /\ q = "tool drops" => "tools" \in DOMAIN got
       /\ reader.op = "queue" => /\ q = IF k = 0 THEN "page" ELSE "items"
                                 /\ k > 0 => "page" \in DOMAIN got
                                 /\ k > 1 <=> "items" \in DOMAIN got
  <2>1. DOMAIN got = {Queries[reader.op][i] : i \in 1 .. k}
    BY <1>3, <1>10 DEF Done
  <2>2. k < Len(Queries[reader.op]) /\ q = Queries[reader.op][k + 1]
    BY <1>5, <1>6, <1>8
  <2> QED BY <1>2, <2>1, <2>2, Before
<1>14. PICK s \in Tables : Unlike(X, s, Current)
                           /\ Says(reader.op, reader.agent, reader.filter, reader.since, q,
                                Answer(q), s)
  <2>1. reader.op = "queue" => q \in {"page", "items"}
    BY <1>13
  <2> QED BY <1>2, <1>4, <1>10, <1>13, <2>1, SelectAnswers
<1>15. Current' = Current
  BY <1>1 DEF Current
<1>16. ASSUME NEW p \in DOMAIN new PROVE \E t \in Tables : Unlike(X, t, Current') /\ Answered(p, t)'
  <2>1. CASE p = q
    BY <1>9, <1>11, <1>12, <1>14, <1>15, <2>1 DEF Answered
  <2>2. CASE p # q
    <3>1. p \in DOMAIN got /\ new[p] = got[p]
      BY <1>12, <2>2
    <3>2. PICK t \in Tables : Unlike(X, t, Current) /\ Answered(p, t)
      BY <1>4, <1>10, <3>1 DEF Accounts
    <3> QED BY <1>9, <1>10, <1>11, <1>15, <3>1, <3>2 DEF Answered
  <2> QED BY <2>1, <2>2
<1>17. ASSUME reader.op = "queue", k > 0
       PROVE  Lists(new["page"], new["items"], X, Current)
                /\ Len(new["items"]) = Smaller(k, Len(new["page"]))
  <2>1. q = "items" /\ "page" \in DOMAIN got /\ (k > 1 <=> "items" \in DOMAIN got)
    BY <1>13, <1>17
  <2>2. new["page"] = got["page"] /\ new["items"] = Answer("items")
    BY <1>12, <2>1
  <2> QED BY <1>3, <1>4, <1>10, <1>17, <2>1, <2>2, QueueSelect
<1>18. Done(k + 1)'
  <2>1. k + 1 <= n /\ (k + 1) - 1 = k
    BY <1>8
  <2>2. DOMAIN new = {Q[i] : i \in 1 .. (k + 1)}
    <3>1. DOMAIN got = {Q[i] : i \in 1 .. k}
      BY <1>3, <1>5, <1>10 DEF Done
    <3>2. 1 .. (k + 1) = 1 .. k \cup {k + 1}
      OBVIOUS
    <3> QED BY <1>8, <1>12, <3>1, <3>2
  <2>3. reader.op = "queue" /\ k + 1 > 1 => Len(new["items"]) = Smaller(k, Len(new["page"]))
    BY <1>17
  <2> QED BY <1>5, <1>6, <1>8, <1>9, <1>11, <2>1, <2>2, <2>3 DEF Done
<1>19. Accounts(X)'
  <2>1. reader.op = "queue" /\ "items" \in DOMAIN new
            => Lists(new["page"], new["items"], X, Current)
    <3> SUFFICES ASSUME reader.op = "queue", "items" \in DOMAIN new PROVE k > 0
      BY <1>17
    <3>1. k = 0 => q = "page" /\ "items" \notin DOMAIN got
      BY <1>13
    <3> QED BY <1>12, <3>1
  <2> QED BY <1>4, <1>9, <1>11, <1>15, <1>16, <2>1 DEF Accounts
<1>20. Reporting'
  <2>1. reader'.at \in Int /\ reader'.since + Window <= reader'.at /\ reader'.at <= now'
    <3>1. now \in Int /\ Window \in Int
      BY <1>2, WindowType DEF RunsOK
    <3>2. reader.since + Window <= now
      BY <1>2, <3>1, SumOrder
    <3> QED BY <1>1, <1>2, <1>9, <3>1, <3>2
  <2>2. k + 1 \in Nat
    OBVIOUS
  <2> QED BY <1>2, <1>9, <1>18, <1>19, <2>1, <2>2 DEF Reporting
<1> QED BY <1>1, <1>9, <1>20 DEF ReportInv, Shaped

LEMMA PageRead ==
  ASSUME Reporting, reader.op = "queue", "items" \in DOMAIN reader.got
  PROVE  "page" \in DOMAIN reader.got
<1>1. PICK k \in Nat : Done(k)
  BY DEF Reporting
<1>2. PICK Q : Q = Queries["queue"]
  OBVIOUS
<1>3. DOMAIN reader.got = {Q[i] : i \in 1 .. k}
  BY <1>1, <1>2 DEF Done
<1>4. PICK i \in 1 .. k : Q[i] = "items"
  BY <1>3
<1>5. 1 \in 1 .. k /\ Q[1] = "page"
  BY <1>2, <1>4, QueueQueries
<1> QED BY <1>3, <1>5

(* A write excuses the runs it changed from what the report has read so    *)
(* far.                                                                    *)
LEMMA WroteReport ==
  ASSUME ReportInv, NEW agents \in [Agents -> AgentRow \cup {None}],
         NEW rows \in [Runs -> RunRow \cup {NoRun}], NEW found \in HitsType,
         Wrote(agents, rows, found)
  PROVE  ReportInv'
<1>1. /\ RunsOK' /\ HitsOK' /\ now' = now
      /\ run' = rows /\ hits' = found
  BY DEF ReportInv, RunsOK, HitsOK, HitsType, Wrote
<1>2. PICK changed \in SUBSET Runs : changed = {r \in Runs : rows[r] # run[r] \/ found[r] # hits[r]}
  OBVIOUS
<1>3. /\ DOMAIN reader = Fields /\ DOMAIN reader' = Fields /\ reader.op # "idle"
           /\ reader'.op = reader.op
      /\ reader'.agent = reader.agent /\ reader'.filter = reader.filter
      /\ reader'.since = reader.since /\ reader'.at = reader.at /\ reader'.todo = reader.todo
      /\ reader'.got = reader.got /\ reader'.torn = reader.torn + Cardinality(changed)
  BY <1>2 DEF ReportInv, Shaped, Fields, Wrote
<1>4. Shaped'
  BY <1>3 DEF Shaped
<1>5. Reporting'
  <2> SUFFICES ASSUME reader.op \notin {"idle", "walk"} PROVE Reporting'
    BY <1>3 DEF Reporting
  <2>1. Reporting /\ reader.torn \in Nat
    BY DEF ReportInv, Reporting
  <2>2. PICK k \in Nat : Done(k)
    BY <2>1 DEF Reporting
  <2>3. PICK X \in SUBSET Runs : Accounts(X)
    BY <2>1 DEF Reporting
  <2>4. Done(k)'
    BY <1>3, <2>2 DEF Done
  <2>5. PICK Y \in SUBSET Runs : Y = X \cup changed
    OBVIOUS
  <2>6. Cardinality(Y) <= reader'.torn /\ reader'.torn \in Nat
    <3>1. /\ IsFiniteSet(X) /\ Cardinality(X) \in Nat /\ Cardinality(X) <= reader.torn
          /\ IsFiniteSet(changed) /\ Cardinality(changed) \in Nat
          /\ Cardinality(X \cap changed) \in Nat
      BY <2>3, RunsFinite DEF Accounts
    <3>2. Cardinality(Y) = Cardinality(X) + Cardinality(changed) - Cardinality(X \cap changed)
      BY <2>5, <3>1, FS_Union
    <3> QED BY <1>3, <2>1, <3>1, <3>2
  <2>7. /\ Current.run = run /\ Current.hits = hits /\ Current'.run = run' /\ Current'.hits = hits'
        /\ \A p \in Runs : p \notin changed => run'[p] = run[p] /\ hits'[p] = hits[p]
    BY <1>1, <1>2 DEF Current
  <2>8. \A s : Unlike(X, s, Current) => Unlike(Y, s, Current')
    BY <2>5, <2>7 DEF Unlike, Alike
  <2>9. \A q \in DOMAIN reader'.got : \E s \in Tables : Unlike(Y, s, Current') /\ Answered(q, s)'
    BY <1>3, <2>3, <2>8 DEF Accounts, Answered
  <2>10. ASSUME reader.op = "queue", "items" \in DOMAIN reader.got
         PROVE  Lists(reader.got["page"], reader.got["items"], Y, Current')
    <3>1. PICK page : page = reader.got["page"]
      OBVIOUS
    <3>2. PICK items : items = reader.got["items"]
      OBVIOUS
    <3>3. Lists(page, items, X, Current)
      BY <2>3, <2>10, <3>1, <3>2 DEF Accounts
    <3>4. Len(page) \in Nat /\ \A i \in 1 .. Len(page) : page[i].id \in Runs
      BY <2>1, <2>3, <2>10, <3>1, PageRead DEF Accounts, Answered, Says, QueueSays
    <3>5. PICK m \in Nat : m = Len(items) /\ m <= Len(page)
      BY <3>3 DEF Lists
    <3>6. ASSUME NEW i \in 1 .. m, page[i].id \notin Y PROVE items[i] = hits'[page[i].id].found
      <4>1. page[i].id \in Runs
        BY <3>4, <3>5
      <4>2. items[i] = hits[page[i].id].found
        BY <2>5, <2>7, <3>3, <3>5, <3>6 DEF Lists
      <4> QED BY <2>5, <2>7, <3>6, <4>1, <4>2
    <3> QED BY <2>7, <3>1, <3>2, <3>3, <3>5, <3>6 DEF Lists
  <2>11. Accounts(Y)'
    BY <1>3, <2>6, <2>9, <2>10 DEF Accounts
  <2> QED BY <1>1, <1>3, <2>1, <2>4, <2>6, <2>11 DEF Reporting
<1> QED BY <1>1, <1>4, <1>5 DEF ReportInv

(* A walk is no report.                                                    *)
LEMMA WalkReport ==
  ASSUME ReportInv, Count \/ Turn
  PROVE  ReportInv'
<1>1. RunsOK' /\ HitsOK'
  BY DEF ReportInv, RunsOK, HitsOK, Count, Turn
<1>2. reader.op = "walk" /\ DOMAIN reader = Fields
  BY DEF ReportInv, Shaped, Count, Turn
<1>3. DOMAIN reader' = Fields /\ reader'.op = "walk"
  BY <1>2 DEF Count, Turn, Fields
<1> QED BY <1>1, <1>3 DEF ReportInv, Shaped, Reporting

(* Time alone changes nothing of the tables.                               *)
LEMMA QuietReport ==
  ASSUME ReportInv, UNCHANGED <<agent, run, hits, reader>>, now' \in Int, now' >= now
  PROVE  ReportInv'
<1>1. RunsOK' /\ HitsOK' /\ Shaped'
  BY DEF ReportInv, RunsOK, HitsOK, Shaped
<1>2. Current' = Current
  BY DEF Current
<1>3. ASSUME reader.op \notin {"idle", "walk"} PROVE Reporting'
  <2>1. PICK k \in Nat, X \in SUBSET Runs : Done(k) /\ Accounts(X)
    BY <1>3 DEF ReportInv, Reporting
  <2>2. Done(k)' /\ Accounts(X)'
    BY <1>2, <2>1 DEF Done, Accounts, Answered
  <2>3. /\ reader.op \in DOMAIN Queries /\ reader.torn \in Nat
        /\ reader.since \in Int /\ reader.at \in Int /\ reader.since + Window <= reader.at
             /\ reader.at <= now
        /\ now \in Int
    BY <1>3 DEF ReportInv, Reporting, RunsOK
  <2>4. PICK t \in Int : t = reader.at
    BY <2>3
  <2>5. t <= now'
    BY <2>3, <2>4
  <2> QED BY <2>2, <2>3, <2>4, <2>5 DEF Reporting
<1> QED BY <1>1, <1>3 DEF ReportInv, Reporting

LEMMA ReportStep == ASSUME ReportInv, [Next]_vars PROVE ReportInv'
<1>1. CASE \/ \E a \in Asked :
               \E op \in {"metrics", "timeseries", "worklist", "profile", "failures"} :
                BeginOf(op, a)
           \/ \E op \in {"overview", "agents", "clusters", "facets"} : Begin(op, None, {})
           \/ \E f : Begin("queue", None, f)
           \/ \E f : Begin("walk", None, f)
  <2>1. {"metrics", "timeseries", "worklist", "profile", "failures", "overview", "agents",
            "clusters",
         "facets", "queue", "walk"} \subseteq DOMAIN Queries
    BY DEF Queries
  <2> QED BY <1>1, <2>1, BeginReport DEF BeginOf
<1>2. CASE Select BY <1>2, SelectReport
<1>3. CASE Count \/ Turn BY <1>3, WalkReport
<1>4. CASE Writing
  <2>1. hits \in HitsType
    BY DEF ReportInv, HitsOK, HitsType
  <2>2. PICK agents \in [Agents -> AgentRow \cup {None}], rows \in [Runs -> RunRow \cup {NoRun}] :
               \E found \in HitsType : Wrote(agents, rows, found)
    BY <1>4, <2>1, WritesTyped DEF ReportInv
  <2> QED BY <2>2, WroteReport
<1>5. CASE Tick
  <2>1. now \in Int
    BY DEF ReportInv, RunsOK
  <2> QED BY <1>5, <2>1, QuietReport DEF Tick
<1>6. CASE UNCHANGED vars
  <2>1. now \in Int
    BY DEF ReportInv, RunsOK
  <2> QED BY <1>6, <2>1, QuietReport DEF vars
<1> QED BY <1>1, <1>2, <1>3, <1>4, <1>5, <1>6 DEF Next, Writing

(* In every state of every execution, what each SELECT of a report in      *)
(* progress returned is what it should be of tables that differ from those *)
(* of now in no more runs than others have written to since the report was *)
(* asked.                                                                  *)
THEOREM ReportInvariant == Spec => []ReportInv
<1>1. Init => ReportInv
  BY ReadSideAssumption DEF Init, ReportInv, RunsOK, HitsOK, Shaped, Reporting
<1>2. ReportInv /\ [Next]_vars => ReportInv'
  BY ReportStep
<1> QED BY <1>1, <1>2, PTL DEF Spec

-----------------------------------------------------------------------------
(* A report that is complete.                                              *)

LEMMA AllOf ==
  ASSUME NEW Q, NEW n \in Nat, NEW k \in Nat, k <= n, NEW todo,
         todo = [i \in 1 .. (n - k) |-> Q[i + k]], todo = <<>>
  PROVE  k = n
<1>1. PICK m \in Nat : m = n - k
  OBVIOUS
<1>2. DOMAIN todo = 1 .. m /\ DOMAIN todo = {}
  BY <1>1
<1>3. ~ (1 \in 1 .. m)
  BY <1>2
<1>4. m = 0
  BY <1>3
<1> QED BY <1>1, <1>4

(* The SELECTs of a report. *)
Reads(op) == {Queries[op][i] : i \in 1 .. Len(Queries[op])}

(* What is compared has been read. *)
LEMMA FiguresRead ==
  /\ {"runs", "flagged", "errors", "latency", "volume", "envs", "recent", "most ran",
      "series"} \subseteq Reads("overview")
  /\ {"runs", "errors", "spark"} \subseteq Reads("agents")
  /\ {"runs", "errors", "latency", "series"} \subseteq Reads("metrics")
  /\ {"snapshot runs", "snapshot down", "hits", "thumbs", "latency", "completion",
      "tool drops"} \subseteq Reads("profile")
  /\ {"kinds", "rows"} \subseteq Reads("failures")
<1>1. {"runs", "flagged", "errors", "latency", "volume", "envs", "recent", "most ran",
      "series"} \subseteq Reads("overview")
  <2>1. PICK Q : Q = Queries["overview"]
    OBVIOUS
  <2>2. Q[1] = "runs" /\ Q[3] = "flagged" /\ Q[4] = "errors" /\ Q[6] = "latency" /\
        Q[8] = "volume" /\ Q[9] = "envs" /\ Q[11] = "recent" /\ Q[12] = "most ran" /\
        Q[13] = "series" /\ Len(Q) = 13
    BY <2>1 DEF Queries
  <2>3. \A i \in 1 .. 13 : Q[i] \in Reads("overview")
    BY <2>1, <2>2 DEF Reads
  <2>4. {1, 3, 4, 6, 8, 9, 11, 12, 13} \subseteq 1 .. 13
    OBVIOUS
  <2> QED BY <2>2, <2>3, <2>4
<1>2. {"runs", "errors", "spark"} \subseteq Reads("agents")
  <2>1. PICK Q : Q = Queries["agents"]
    OBVIOUS
  <2>2. Q[1] = "runs" /\ Q[2] = "errors" /\ Q[4] = "spark" /\ Len(Q) = 6
    BY <2>1 DEF Queries
  <2>3. \A i \in 1 .. 6 : Q[i] \in Reads("agents")
    BY <2>1, <2>2 DEF Reads
  <2>4. {1, 2, 4} \subseteq 1 .. 6
    OBVIOUS
  <2> QED BY <2>2, <2>3, <2>4
<1>3. {"runs", "errors", "latency", "series"} \subseteq Reads("metrics")
  <2>1. PICK Q : Q = Queries["metrics"]
    OBVIOUS
  <2>2. Q[1] = "runs" /\ Q[2] = "errors" /\ Q[4] = "latency" /\ Q[5] = "series" /\ Len(Q) = 7
    BY <2>1 DEF Queries
  <2>3. \A i \in 1 .. 7 : Q[i] \in Reads("metrics")
    BY <2>1, <2>2 DEF Reads
  <2>4. {1, 2, 4, 5} \subseteq 1 .. 7
    OBVIOUS
  <2> QED BY <2>2, <2>3, <2>4
<1>4. {"snapshot runs", "snapshot down", "hits", "thumbs", "latency", "completion",
      "tool drops"} \subseteq Reads("profile")
  <2>1. PICK Q : Q = Queries["profile"]
    OBVIOUS
  <2>2. Q[1] = "snapshot runs" /\ Q[5] = "snapshot down" /\ Q[6] = "hits" /\
        Q[7] = "thumbs" /\ Q[10] = "latency" /\ Q[13] = "completion" /\
        Q[15] = "tool drops" /\ Len(Q) = 16
    BY <2>1 DEF Queries
  <2>3. \A i \in 1 .. 16 : Q[i] \in Reads("profile")
    BY <2>1, <2>2 DEF Reads
  <2>4. {1, 5, 6, 7, 10, 13, 15} \subseteq 1 .. 16
    OBVIOUS
  <2> QED BY <2>2, <2>3, <2>4
<1>5. {"kinds", "rows"} \subseteq Reads("failures")
  <2>1. PICK Q : Q = Queries["failures"]
    OBVIOUS
  <2>2. Q[1] = "kinds" /\ Q[2] = "rows" /\ Len(Q) = 2
    BY <2>1 DEF Queries
  <2>3. \A i \in 1 .. 2 : Q[i] \in Reads("failures")
    BY <2>1, <2>2 DEF Reads
  <2>4. {1, 2} \subseteq 1 .. 2
    OBVIOUS
  <2> QED BY <2>2, <2>3, <2>4
<1> QED BY <1>1, <1>2, <1>3, <1>4, <1>5

(* What a finished report returned agrees.                                 *)
LEMMA FiguresOfReport ==
  ASSUME ReportInv, reader.op \in DOMAIN Queries, reader.op # "walk", reader.op # "idle",
         reader.todo = <<>>
  PROVE  Agrees(reader.op, reader.got)
<1>1. PICK k \in Nat : Done(k)
  BY DEF ReportInv, Reporting
<1>2. PICK X \in SUBSET Runs : Accounts(X)
  BY DEF ReportInv, Reporting
<1>3. PICK n \in Nat : n = Len(Queries[reader.op]) /\ k = n
  <2>1. PICK n \in Nat : n = Len(Queries[reader.op])
    BY QueriesType DEF Listed
  <2>2. k <= n /\ reader.todo = [i \in 1 .. (n - k) |-> Queries[reader.op][i + k]]
    BY <1>1, <2>1 DEF Done
  <2> QED BY <2>1, <2>2, AllOf
<1>4. PICK got : got = reader.got
  OBVIOUS
<1>5. DOMAIN got = Reads(reader.op)
  BY <1>1, <1>3, <1>4 DEF Done, Reads
<1>6. reader.torn \in Nat /\ Cardinality(X) <= reader.torn
  BY <1>2 DEF ReportInv, Reporting, Accounts
<1>7. PICK tables : tables = [q \in DOMAIN got |-> CHOOSE s \in Tables : Unlike(X, s, Current)
               /\ Answered(q, s)]
  OBVIOUS
<1>8. \A q \in DOMAIN got : Unlike(X, tables[q], Current) /\ Answered(q, tables[q])
  BY <1>2, <1>4, <1>7 DEF Accounts
<1>9. \A p, q \in DOMAIN got : Unlike(X, tables[p], tables[q])
  BY <1>8 DEF Unlike, Alike
<1>10. PICK rows : rows = [q \in DOMAIN got |-> tables[q].run]
  OBVIOUS
<1>11. \A p, q \in DOMAIN got : Close(reader.torn, rows[p], rows[q])
  BY <1>6, <1>9, <1>10 DEF Close, Unlike
<1>12. CASE reader.op = "overview"
  <2>1. \A q \in DOMAIN got : OverviewSays(q, got[q], rows[q], reader.since)
    BY <1>4, <1>8, <1>10, <1>12 DEF Answered, Says
  <2>2. {"runs", "flagged", "errors", "latency", "volume", "envs", "recent", "most ran",
         "series"} \subseteq DOMAIN got
    BY <1>5, <1>12, FiguresRead
  <2>3. OverviewAgrees(got)
    BY <1>6, <1>11, <2>1, <2>2, OverviewAgreement
  <2> QED BY <1>4, <1>12, <2>3 DEF Agrees
<1>13. CASE reader.op = "agents"
  <2>1. \A q \in DOMAIN got : AgentListSays(q, got[q], rows[q], reader.since)
    BY <1>4, <1>8, <1>10, <1>13 DEF Answered, Says
  <2>2. {"runs", "errors", "spark"} \subseteq DOMAIN got
    BY <1>5, <1>13, FiguresRead
  <2>3. AgentListAgrees(got)
    BY <1>6, <1>11, <2>1, <2>2, AgentListAgreement
  <2> QED BY <1>4, <1>13, <2>3 DEF Agrees
<1>14. CASE reader.op = "metrics"
  <2>1. \A q \in DOMAIN got : MetricsSays(q, got[q], rows[q], reader.agent, reader.since)
    BY <1>4, <1>8, <1>10, <1>14 DEF Answered, Says
  <2>2. {"runs", "errors", "latency", "series"} \subseteq DOMAIN got
    BY <1>5, <1>14, FiguresRead
  <2>3. MetricsAgree(got)
    BY <1>6, <1>11, <2>1, <2>2, MetricsAgreement
  <2> QED BY <1>4, <1>14, <2>3 DEF Agrees
<1>15. CASE reader.op = "profile"
  <2>1. \A q \in DOMAIN got : ProfileSays(q, got[q], rows[q], reader.agent, reader.since)
    BY <1>4, <1>8, <1>10, <1>15 DEF Answered, Says
  <2>2. Worked \cup {"snapshot runs", "snapshot down"} \subseteq DOMAIN got
    BY <1>5, <1>15, FiguresRead DEF Worked
  <2>3. ProfileAgrees(got)
    BY <1>6, <1>11, <2>1, <2>2, ProfileAgreement
  <2> QED BY <1>4, <1>15, <2>3 DEF Agrees
<1>16. CASE reader.op = "failures"
  <2>1. \A q \in DOMAIN got : FailuresSays(q, got[q], tables[q], reader.since)
    BY <1>4, <1>8, <1>16 DEF Answered, Says
  <2>2. {"kinds", "rows"} \subseteq DOMAIN got
    BY <1>5, <1>16, FiguresRead
  <2>3. FailuresAgree(got)
    BY <1>6, <1>9, <2>1, <2>2, FailuresAgreement
  <2> QED BY <1>4, <1>16, <2>3 DEF Agrees
<1>17. CASE reader.op = "queue"
  <2>1. Limit \in Nat /\ Limit > 0
    BY ReadSideAssumption
  <2>2. n = Limit + 1 /\ 1 \in 1 .. n /\ 2 \in 1 .. n
    BY <1>3, <1>17, <2>1, QueueQueries
  <2>3. "page" \in DOMAIN got /\ "items" \in DOMAIN got
    <3>1. Queries["queue"][1] = "page" /\ Queries["queue"][2] = "items"
      BY <2>1, QueueQueries
    <3> QED BY <1>3, <1>5, <1>17, <2>2, <3>1 DEF Reads
  <2>4. QueueSays("page", got["page"], tables["page"], reader.filter)
    BY <1>4, <1>8, <1>17, <2>3 DEF Answered, Says
  <2>5. Lists(got["page"], got["items"], X, Current)
    BY <1>2, <1>4, <1>17, <2>3 DEF Accounts
  <2>6. Len(got["items"]) = Len(got["page"])
    <3>1. PICK m \in Nat : m = Len(got["page"]) /\ m <= Limit
      BY <2>4 DEF QueueSays
    <3>2. k > 1 /\ k - 1 = Limit
      BY <1>3, <2>1, <2>2
    <3>3. Len(got["items"]) = Smaller(k - 1, Len(got["page"]))
      BY <1>1, <1>4, <1>17, <3>2 DEF Done
    <3>4. Smaller(Limit, m) = m
      BY <2>1, <3>1 DEF Smaller
    <3> QED BY <3>1, <3>2, <3>3, <3>4
  <2>7. HitsOK /\ Unlike(X, tables["page"], Current)
    BY <1>8, <2>3 DEF ReportInv
  <2>8. QueueAgrees(got)
    BY <1>6, <2>4, <2>5, <2>6, <2>7, QueueAgreement
  <2> QED BY <1>4, <1>17, <2>8 DEF Agrees
<1>18. CASE reader.op \notin {"overview", "agents", "metrics", "profile", "failures", "queue"}
  BY <1>18 DEF Agrees
<1> QED BY <1>12, <1>13, <1>14, <1>15, <1>16, <1>17, <1>18

(* The figures of a report that is complete differ from each other by no   *)
(* more than the number of runs written between its SELECTs (the deletion  *)
(* of an agent writes all of its runs): of the dashboard, the list of      *)
(* agents, the metrics, the profile, failures.csv and the triage queue,    *)
(* for any runs, calls and findings, any limits and any length of the      *)
(* window, and however the writes and the clock ran meanwhile.             *)
THEOREM FiguresDoAgree == Spec => []FiguresAgree
<1>1. ReportInv => FiguresAgree
  <2> SUFFICES ASSUME ReportInv, reader.op \in DOMAIN Queries, reader.todo = <<>>
               PROVE  Agrees(reader.op, reader.got)
    BY DEF FiguresAgree
  <2>1. "idle" \notin DOMAIN Queries
    BY DEF Queries
  <2>2. CASE reader.op = "walk"
    BY <2>2 DEF Agrees
  <2>3. CASE reader.op # "walk"
    BY <2>1, <2>3, FiguresOfReport
  <2> QED BY <2>2, <2>3
<1> QED BY <1>1, ReportInvariant, PTL
=============================================================================
