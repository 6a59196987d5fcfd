---------------------------- MODULE SweepProofs ----------------------------
(***************************************************************************)
(* Proofs about Sweep, and the case page beside it, for any tables, any    *)
(* designation and any order in which the ledger lists a node's payers.    *)
(*                                                                         *)
(* The walk: every queued node is at most one hop nearer than any node     *)
(* found, the queue is sorted by distance, and a node that has left it has *)
(* all its payers found, at most one hop farther.  When the queue is empty *)
(* the distances satisfy the equations of the shortest distance, which one *)
(* function alone satisfies (HopsAreShortest).                             *)
(*                                                                         *)
(* The stages: AskInv, GeoInv and FoundInv say of every stage that what an *)
(* earlier one put into the result is still the function of the world it   *)
(* was; rows, escalations and ring are then read off their definitions.    *)
(* ChainInv says of every stage which records it has left in the chain.    *)
(***************************************************************************)
EXTENDS DesignationCheck, ProofLemmas

Queued(m) == \E i \in 1..Len(queue) : queue[i] = m

\* The payers of m are found, no farther than one hop beyond it.
Settled(m) == \A n \in Payers(m) : n \in DOMAIN dist /\ dist[n] <= dist[m] + 1

WalkType ==
    /\ DOMAIN dist \subseteq Nodes
    /\ dist \in [DOMAIN dist -> Nat]
    /\ queue \in Seq(DOMAIN dist)

Sources == \A n \in Nodes : n \in world.listed <=> (n \in DOMAIN dist /\ dist[n] = 0)

Stepwise ==
    \A n \in DOMAIN dist : dist[n] > 0 =>
        \E m \in DOMAIN dist : n \in Payers(m) /\ dist[n] = dist[m] + 1

Frontier ==
    /\ \A n \in DOMAIN dist, i \in 1..Len(queue) : dist[n] <= dist[queue[i]] + 1
    /\ \A i, j \in 1..Len(queue) : i < j => dist[queue[i]] <= dist[queue[j]]

Covered == \A m \in DOMAIN dist : Queued(m) \/ Settled(m)

WalkInv == WalkType /\ Sources /\ Stepwise /\ Frontier /\ Covered

\* The distances of a finished walk: 0 exactly at the listed addresses, one
\* more than some payee's elsewhere, and never more than one above a payee's.
Exact ==
    /\ DOMAIN dist \subseteq Nodes /\ dist \in [DOMAIN dist -> Nat]
    /\ Sources /\ Stepwise
    /\ \A m \in DOMAIN dist : Settled(m)

Walked == {"ring"} \cup AfterRing

SweepInv ==
    /\ world \in Worlds
    /\ stage \in Stages
    /\ stage = "walk" => WalkInv
    /\ stage \in Walked => Exact
-----------------------------------------------------------------------------
\* An order of a finite set is a sequence of all its elements.
LEMMA OrderIsSequence ==
    ASSUME NEW S, IsFiniteSet(S), NEW order \in Orders(S)
    PROVE  /\ order \in Seq(S)
           /\ \A i \in 1..Len(order) : order[i] \in S
           /\ \A x \in S : \E i \in 1..Len(order) : order[i] = x
<1>1. Cardinality(S) \in Nat
  BY FS_CardinalityType
<1>2. order \in [1..Cardinality(S) -> S]
  BY DEF Orders
<1>3. order \in Seq(S)
  BY <1>1, <1>2
<1>4. Len(order) = Cardinality(S)
  BY <1>1, <1>2, <1>3
<1> QED
  BY <1>2, <1>3, <1>4 DEF Orders

\* Accounts and addresses are finitely many.
LEMMA NodesAreFinite == IsFiniteSet(Nodes)
  BY FlowAssumption, FS_Union DEF Nodes

\* The walk starts at the listed addresses.
LEMMA WalkStarts ==
    ASSUME world \in Worlds, UNCHANGED world, StartWalk
    PROVE  WalkInv'
<1> DEFINE L == world.listed
<1>1. L \subseteq Addresses /\ L \subseteq Nodes /\ IsFiniteSet(L)
  BY FlowAssumption, FS_Subset DEF Nodes
<1>2. dist' = [a \in L |-> 0] /\ queue' \in Orders(L)
  BY DEF StartWalk
<1>3. /\ queue' \in Seq(L)
      /\ \A i \in 1..Len(queue') : queue'[i] \in L
      /\ \A x \in L : \E i \in 1..Len(queue') : queue'[i] = x
  BY <1>1, <1>2, OrderIsSequence
<1>4. WalkType'
  BY <1>1, <1>2, <1>3 DEF WalkType
<1>5. Sources' /\ Stepwise'
  BY <1>1, <1>2 DEF Sources, Stepwise
<1>6. Frontier'
  <2>1. DOMAIN dist' = L /\ \A n \in L : dist'[n] = 0
    BY <1>2
  <2>2. \A i \in 1..Len(queue') : dist'[queue'[i]] = 0
    BY <1>3, <2>1
  <2> QED
    BY <2>1, <2>2 DEF Frontier
<1>7. Covered'
  BY <1>2, <1>3 DEF Covered, Queued
<1> QED
  BY <1>4, <1>5, <1>6, <1>7 DEF WalkInv

\* One node leaves the queue and its new payers join it, one hop farther.
LEMMA WalkContinues ==
    ASSUME WalkInv, UNCHANGED world, Visit
    PROVE  WalkInv'
<1> DEFINE node == Head(queue)
           fresh == Payers(node) \ DOMAIN dist
           rest == Tail(queue)
<1>1. PICK order \in Orders(fresh) :
        /\ dist' = [n \in DOMAIN dist \cup fresh |->
                      IF n \in fresh THEN dist[node] + 1 ELSE dist[n]]
        /\ queue' = rest \o order
  BY DEF Visit
<1>2. fresh \subseteq Nodes /\ IsFiniteSet(fresh) /\ fresh \cap DOMAIN dist = {}
  BY NodesAreFinite, FS_Subset DEF Payers
<1>3. /\ order \in Seq(fresh)
      /\ \A i \in 1..Len(order) : order[i] \in fresh
      /\ \A x \in fresh : \E i \in 1..Len(order) : order[i] = x
  BY <1>2, OrderIsSequence
<1>4. /\ queue \in Seq(DOMAIN dist) /\ queue # << >>
      /\ dist \in [DOMAIN dist -> Nat] /\ DOMAIN dist \subseteq Nodes
  BY DEF WalkInv, WalkType, Visit
<1>5. /\ node \in DOMAIN dist /\ node = queue[1] /\ 1 \in 1..Len(queue)
      /\ rest \in Seq(DOMAIN dist) /\ Len(rest) = Len(queue) - 1
      /\ \A i \in 1..Len(rest) : rest[i] = queue[i + 1]
  BY <1>4
<1>6. DOMAIN dist' = DOMAIN dist \cup fresh
  BY <1>1
<1>7. /\ \A n \in DOMAIN dist : dist'[n] = dist[n]
      /\ \A n \in fresh : dist'[n] = dist[node] + 1
  BY <1>1, <1>2
<1>8. /\ queue' \in Seq(DOMAIN dist') /\ Len(queue') = Len(rest) + Len(order)
      /\ \A i \in 1..Len(rest) : queue'[i] = queue[i + 1]
      /\ \A i \in 1..Len(queue') : i > Len(rest) => queue'[i] = order[i - Len(rest)]
  <2>1. rest \in Seq(DOMAIN dist') /\ order \in Seq(DOMAIN dist')
    BY <1>3, <1>5, <1>6
  <2> QED
    BY <2>1, <1>1, <1>5
<1>9. \A i \in 1..Len(queue') :
         \/ i <= Len(rest) /\ i + 1 \in 1..Len(queue) /\ queue'[i] = queue[i + 1]
                           /\ queue[i + 1] \in DOMAIN dist
         \/ i > Len(rest) /\ queue'[i] \in fresh
  <2> SUFFICES ASSUME NEW i \in 1..Len(queue')
               PROVE  \/ i <= Len(rest) /\ i + 1 \in 1..Len(queue) /\ queue'[i] = queue[i + 1]
                                        /\ queue[i + 1] \in DOMAIN dist
                      \/ i > Len(rest) /\ queue'[i] \in fresh
    OBVIOUS
  <2>1. Len(rest) \in Nat /\ Len(queue) \in Nat /\ Len(order) \in Nat
    BY <1>3, <1>4, <1>5
  <2>2. CASE i <= Len(rest)
    <3>1. i \in 1..Len(rest) /\ i + 1 \in 1..Len(queue)
      BY <2>1, <2>2, <1>5
    <3>2. queue[i + 1] \in DOMAIN dist
      BY <3>1, <1>4
    <3> QED
      BY <3>1, <3>2, <2>2, <1>8
  <2>3. CASE i > Len(rest)
    <3>1. i - Len(rest) \in 1..Len(order)
      BY <2>1, <2>3, <1>8
    <3>2. queue'[i] = order[i - Len(rest)]
      BY <2>3, <1>8
    <3> QED
      BY <3>1, <3>2, <2>3, <1>3
  <2> QED
    BY <2>1, <2>2, <2>3
<1>10. WalkType'
  BY <1>2, <1>4, <1>5, <1>6, <1>7, <1>8, <1>1 DEF WalkType
<1>11. Sources'
  BY <1>2, <1>4, <1>5, <1>6, <1>7 DEF WalkInv, Sources
<1>12. Stepwise'
  <2> SUFFICES ASSUME NEW n \in DOMAIN dist', dist'[n] > 0
               PROVE  \E m \in DOMAIN dist' :
                        n \in Nodes /\ <<n, m>> \in world.pays /\ dist'[n] = dist'[m] + 1
    BY DEF Stepwise, Payers
  <2>1. CASE n \in fresh
    <3>1. n \in Nodes /\ <<n, node>> \in world.pays /\ dist'[n] = dist'[node] + 1
      BY <2>1, <1>5, <1>7 DEF Payers
    <3> QED
      BY <3>1, <1>5, <1>6
  <2>2. CASE n \in DOMAIN dist
    <3>1. PICK m \in DOMAIN dist :
             n \in Nodes /\ <<n, m>> \in world.pays /\ dist[n] = dist[m] + 1
      BY <2>2, <1>7 DEF WalkInv, Stepwise, Payers
    <3> QED
      BY <3>1, <2>2, <1>6, <1>7
  <2> QED
    BY <2>1, <2>2, <1>6
<1>13. \A n \in DOMAIN dist : dist[n] <= dist[node] + 1
  BY <1>5 DEF WalkInv, Frontier
<1>14. \A i \in 1..Len(queue) : dist[node] <= dist[queue[i]]
  BY <1>4, <1>5 DEF WalkInv, Frontier
<1>15. Frontier'
  <2>1. ASSUME NEW n \in DOMAIN dist', NEW i \in 1..Len(queue')
        PROVE  dist'[n] <= dist'[queue'[i]] + 1
    <3>1. CASE queue'[i] \in fresh
      BY <3>1, <1>4, <1>5, <1>6, <1>7, <1>13
    <3>2. CASE i <= Len(rest)
      BY <3>2, <1>4, <1>5, <1>6, <1>7, <1>9, <1>14 DEF WalkInv, Frontier
    <3> QED
      BY <3>1, <3>2, <1>9
  <2>2. ASSUME NEW i \in 1..Len(queue'), NEW j \in 1..Len(queue'), i < j
        PROVE  dist'[queue'[i]] <= dist'[queue'[j]]
    <3>1. CASE j <= Len(rest)
      <4>1. i <= Len(rest) /\ i + 1 < j + 1
        BY <3>1, <2>2, <1>5
      <4>2. /\ queue'[i] = queue[i + 1] /\ queue[i + 1] \in DOMAIN dist
            /\ queue'[j] = queue[j + 1] /\ queue[j + 1] \in DOMAIN dist
            /\ i + 1 \in 1..Len(queue) /\ j + 1 \in 1..Len(queue)
        BY <3>1, <4>1, <1>9, <1>5
      <4> QED
        BY <4>1, <4>2, <1>7 DEF WalkInv, Frontier
    <3>2. CASE queue'[j] \in fresh
      BY <3>2, <1>4, <1>5, <1>7, <1>9, <1>13
    <3> QED
      BY <3>1, <3>2, <1>9
  <2> QED
    BY <2>1, <2>2 DEF Frontier
<1>16. Covered'
  <2> SUFFICES ASSUME NEW m \in DOMAIN dist', ~Queued(m)'
               PROVE  Settled(m)'
    BY DEF Covered
  <2>1. m \notin fresh
    <3> SUFFICES ASSUME m \in fresh PROVE FALSE
      OBVIOUS
    <3>1. PICK k \in 1..Len(order) : order[k] = m
      BY <1>3
    <3>2. Len(rest) + k \in 1..Len(queue') /\ queue'[Len(rest) + k] = m
      <4>1. Len(rest) \in Nat /\ Len(order) \in Nat
        BY <1>3, <1>5
      <4>2. Len(rest) + k \in 1..Len(queue') /\ Len(rest) + k > Len(rest)
        BY <4>1, <1>8
      <4>3. queue'[Len(rest) + k] = order[(Len(rest) + k) - Len(rest)]
        BY <4>2, <1>8
      <4>4. (Len(rest) + k) - Len(rest) = k
        BY <4>1
      <4> QED
        BY <4>2, <4>3, <4>4, <3>1
    <3> QED
      BY <3>2 DEF Queued
  <2>2. m \in DOMAIN dist
    BY <2>1, <1>6
  <2>3. CASE m = node
    BY <2>3, <1>2, <1>4, <1>5, <1>6, <1>7, <1>13 DEF Settled, Payers
  <2>4. CASE m # node
    <3>1. ~Queued(m)
      <4> SUFFICES ASSUME NEW k \in 1..Len(queue), queue[k] = m PROVE FALSE
        BY DEF Queued
      <4>1. k - 1 \in 1..Len(rest) /\ k - 1 \in 1..Len(queue')
        BY <2>4, <1>3, <1>4, <1>5, <1>8
      <4>2. queue'[k - 1] = m
        BY <4>1, <1>8
      <4> QED
        BY <4>1, <4>2 DEF Queued
    <3>2. Settled(m)
      BY <3>1, <2>2 DEF WalkInv, Covered
    <3> QED
      BY <3>2, <2>2, <1>2, <1>6, <1>7 DEF Settled, Payers
  <2> QED
    BY <2>3, <2>4
<1> QED
  BY <1>10, <1>11, <1>12, <1>15, <1>16 DEF WalkInv

\* With an empty queue nothing is left to settle.
LEMMA WalkEnds ==
    ASSUME WalkInv, queue = << >>
    PROVE  Exact
  BY DEF WalkInv, WalkType, Exact, Covered, Queued
-----------------------------------------------------------------------------
(***************************************************************************)
(* The walk keeps its invariant from the first queue to the last, and no   *)
(* later stage touches the distances (sweep/exposure.py).                  *)
(***************************************************************************)
THEOREM SweepInvariant == Spec => []SweepInv
<1>1. Init => SweepInv
  BY DEF Init, SweepInv, Stages, Walked, AfterRing, AfterWorksheet
<1>2. ASSUME SweepInv, [Next]_vars
      PROVE  SweepInv'
  <2> USE <1>2
  <2>1. CASE Expose
    <3>1. WalkInv'
      BY <2>1, WalkStarts DEF SweepInv, Expose
    <3> QED
      BY <2>1, <3>1 DEF SweepInv, Expose, Goto, Stages, Walked, AfterRing, AfterWorksheet
  <2>2. CASE Walk
    <3>1. WalkInv'
      BY <2>2, WalkContinues DEF SweepInv, Walk
    <3> QED
      BY <2>2, <3>1 DEF SweepInv, Walk, Stages, Walked, AfterRing, AfterWorksheet
  <2>3. CASE ExposureSweep
    <3>1. Exact /\ UNCHANGED <<world, dist>>
      BY <2>3, WalkEnds DEF SweepInv, ExposureSweep, Goto
    <3>2. Exact'
      BY <3>1 DEF Exact, Sources, Stepwise, Settled, Payers
    <3> QED
      BY <2>3, <3>2 DEF SweepInv, ExposureSweep, Goto, Stages, Walked, AfterRing, AfterWorksheet
  <2>4. CASE /\ UNCHANGED <<world, dist, queue>>
             /\ stage' \in Stages /\ stage' # "walk"
             /\ stage' \in Walked => stage \in Walked
    BY <2>4 DEF SweepInv, Exact, Sources, Stepwise, Settled, Payers
  <2>5. CASE UNCHANGED vars
    BY <2>5 DEF vars, SweepInv, WalkInv, WalkType, Exact, Sources, Stepwise, Frontier,
                Covered, Queued, Settled, Payers
  <2>6. CASE Open \/ NameScreen \/ Corroborate \/ OwnershipWalk \/ ProximityRing
             \/ GeoTriangulate \/ GeoPropose \/ BlockVerify \/ WorksheetBuild \/ WorksheetRaises
             \/ EscalationsDraft \/ IdentityReviewRfi
             \/ SweepComplete \/ WriteSweepPackage \/ Packaged \/ Abort
    BY <2>6, <2>4 DEF Open, NameScreen, Corroborate, OwnershipWalk, ProximityRing,
         GeoTriangulate, GeoPropose, BlockVerify,
         WorksheetBuild, WorksheetRaises, EscalationsDraft, IdentityReviewRfi, SweepComplete,
         WriteSweepPackage, Packaged, Abort, Goto, Stages, Walked, AfterRing, AfterWorksheet
  <2> QED
    BY <2>1, <2>2, <2>3, <2>5, <2>6 DEF Next
<1> QED
  BY <1>1, <1>2, PTL DEF Spec

(***************************************************************************)
(* From the ring on the distances are exact: 0 at the listed addresses and *)
(* nowhere else, one more than some payee's at every other node found, at  *)
(* most one above any payee's, and every payer of a node found is found:   *)
(* whatever the order in which the ledger lists a node's payers.           *)
(***************************************************************************)
THEOREM WalkIsExact == Spec => [](stage \in Walked => Exact)
<1>1. SweepInv => (stage \in Walked => Exact)
  BY DEF SweepInv
<1> QED
  BY <1>1, SweepInvariant, PTL

-----------------------------------------------------------------------------
(* The distances are the levels of the payments.                           *)

\* WithinHops is what its recursion says.
LEMMA WithinUnfold ==
    ASSUME world \in Worlds
    PROVE  /\ Cardinality(Nodes) \in Nat
           /\ Levels(WithinHops, Cardinality(Nodes), world.pays, world.listed)
<1> DEFINE N == Cardinality(Nodes)
           V == SUBSET Nodes
           step == [k \in 1..N |-> [X \in V |-> Into(world.pays, X)]]
           L == WithinHops
           Is(g) == g = [k \in 0..N |->
                           IF k = 0 THEN world.listed
                           ELSE LET nearer == g[k - 1] IN
                                nearer \cup {n \in Nodes : \E m \in nearer : <<n, m>> \in world.pays}]
<1>1. N \in Nat
  BY NodesAreFinite, FS_CardinalityType
<1>2. world.pays \subseteq Nodes \X Nodes /\ world.listed \in V
  BY FlowAssumption DEF Nodes
<1>3. \A X \in V : Into(world.pays, X) \in V
  BY <1>2 DEF Into
<1>4. \A X \in V : Into(world.pays, X) = X \cup {n \in Nodes : \E m \in X : <<n, m>> \in world.pays}
  <2> SUFFICES ASSUME NEW X \in V
               PROVE  {e[1] : e \in {e \in world.pays : e[2] \in X}}
                        = {n \in Nodes : \E m \in X : <<n, m>> \in world.pays}
    BY DEF Into
  <2>1. \A n \in Nodes : (\E m \in X : <<n, m>> \in world.pays) =>
          \E e \in world.pays : e[2] \in X /\ e[1] = n
    <3> SUFFICES ASSUME NEW n \in Nodes, NEW m \in X, <<n, m>> \in world.pays
                 PROVE  \E e \in world.pays : e[2] \in X /\ e[1] = n
      OBVIOUS
    <3>1. <<n, m>>[2] \in X /\ <<n, m>>[1] = n
      OBVIOUS
    <3> QED
      BY <3>1
  <2>2. \A e \in world.pays : e = <<e[1], e[2]>> /\ e[1] \in Nodes /\ e[2] \in Nodes
    BY <1>2
  <2> QED
    BY <2>1, <2>2
<1>5. step \in [1..N -> [V -> V]]
  BY <1>3
<1>6. \A k \in 1..N, X \in V : step[k][X] = Into(world.pays, X)
  OBVIOUS
<1> HIDE DEF V, step, N
<1>7. PICK f : Iterated(f, N, V, world.listed, step)
  BY <1>1, <1>2, <1>5, Iterates
<1>8. /\ f \in [0..N -> V] /\ f[0] = world.listed
      /\ \A k \in 1..N : f[k] = step[k][f[k - 1]]
  BY <1>7 DEF Iterated
<1>9. \A k \in 1..N : k - 1 \in 0..N /\ k \in 0..N /\ k # 0
  BY <1>1
<1>10. \A k \in 1..N : f[k] = f[k - 1] \cup {n \in Nodes : \E m \in f[k - 1] : <<n, m>> \in world.pays}
  BY <1>4, <1>6, <1>8, <1>9
<1>11. Is(f)
  <2>1. \A k \in 0..N :
          f[k] = IF k = 0 THEN world.listed
                 ELSE LET nearer == f[k - 1] IN
                      nearer \cup {n \in Nodes : \E m \in nearer : <<n, m>> \in world.pays}
    <3> SUFFICES ASSUME NEW k \in 0..N, k # 0 PROVE k \in 1..N
      BY <1>8, <1>10
    <3> QED
      BY <1>1
  <2>2. f = [k \in 0..N |-> f[k]]
    BY <1>8
  <2> QED
    BY <2>1, <2>2
<1>12. L = CHOOSE g : Is(g)
  BY DEF WithinHops, N
<1> HIDE DEF L
<1>13. Is(L)
  <2> HIDE DEF Is
  <2> QED
    BY <1>11, <1>12, Zenon
<1>14. /\ DOMAIN L = 0..N /\ L[0] = world.listed
       /\ \A k \in 1..N : L[k] = L[k - 1] \cup {n \in Nodes : \E m \in L[k - 1] : <<n, m>> \in world.pays}
  <2>1. 0 \in 0..N
    BY <1>1
  <2> QED
    BY <1>9, <1>13, <2>1
<1> DEFINE S == {k \in 0..N : L[k] \in V}
<1>15. 0 \in S
  <2>1. 0 \in 0..N
    BY <1>1
  <2>2. L[0] \in V
    BY <1>2, <1>14, Zenon
  <2> QED
    BY <2>1, <2>2
<1>16. \A k \in 1..N : k - 1 \in S => k \in S
  <2> SUFFICES ASSUME NEW k \in 1..N, L[k - 1] \in V PROVE L[k] \in V
    BY <1>9
  <2>1. L[k] = Into(world.pays, L[k - 1])
    BY <1>4, <1>14
  <2> QED
    BY <1>3, <2>1
<1> HIDE DEF S
<1>17. 0..N \subseteq S
  BY <1>1, <1>15, <1>16, UpTo
<1>18. \A k \in 0..N : L[k] \in V
  BY <1>17 DEF S
<1>19. \A k \in 1..N : L[k] = Into(world.pays, L[k - 1])
  BY <1>4, <1>9, <1>14, <1>18
<1> QED
  BY <1>1, <1>14, <1>19 DEF Levels, N, L

\* In a finished walk the nodes of a level are those found at most that far.
LEMMA LevelIsDistance ==
    ASSUME world \in Worlds, Exact
    PROVE  /\ \A k \in 0..Cardinality(Nodes) :
                 WithinHops[k] = {n \in DOMAIN dist : dist[n] <= k}
           /\ WithinHops[Cardinality(Nodes)] = DOMAIN dist
           /\ \A n \in DOMAIN dist : dist[n] \in 0..Cardinality(Nodes)
<1> DEFINE N == Cardinality(Nodes)
           L == WithinHops
<1>1. N \in Nat /\ Levels(L, N, world.pays, world.listed)
  BY WithinUnfold
<1>2. /\ DOMAIN dist \subseteq Nodes /\ dist \in [DOMAIN dist -> Nat]
      /\ Sources /\ Stepwise /\ \A m \in DOMAIN dist : Settled(m)
  BY DEF Exact
<1>3. world.pays \subseteq Nodes \X Nodes /\ world.listed \subseteq Nodes
  BY FlowAssumption DEF Nodes
<1>4. /\ L[0] = world.listed
      /\ \A k \in 1..N : L[k] = Into(world.pays, L[k - 1])
  BY <1>1 DEF Levels
<1>5. \A n \in DOMAIN dist : dist[n] \in Nat
  BY <1>2
<1>6. \A e \in world.pays : e = <<e[1], e[2]>> /\ e[1] \in Nodes /\ e[2] \in Nodes
  BY <1>3
<1>7. \A e \in world.pays : e[2] \in DOMAIN dist => e[1] \in DOMAIN dist /\ dist[e[1]] <= dist[e[2]] + 1
  BY <1>2, <1>6 DEF Settled, Payers
<1>8. \A n \in DOMAIN dist : dist[n] > 0 =>
         \E e \in world.pays : e[1] = n /\ e[2] \in DOMAIN dist /\ dist[n] = dist[e[2]] + 1
  <2> SUFFICES ASSUME NEW n \in DOMAIN dist, dist[n] > 0
               PROVE  \E e \in world.pays : e[1] = n /\ e[2] \in DOMAIN dist /\ dist[n] = dist[e[2]] + 1
    OBVIOUS
  <2>1. PICK m \in DOMAIN dist : n \in Payers(m) /\ dist[n] = dist[m] + 1
    BY <1>2 DEF Stepwise
  <2>2. <<n, m>> \in world.pays /\ <<n, m>>[1] = n /\ <<n, m>>[2] = m
    BY <2>1 DEF Payers
  <2> QED
    BY <2>1, <2>2
<1> HIDE DEF L, N
<1> DEFINE Ball(k) == {n \in DOMAIN dist : dist[n] <= k}
           S == {k \in 0..N : L[k] = Ball(k)}
<1>9. 0 \in S
  <2>1. world.listed = Ball(0)
    BY <1>2, <1>3, <1>5 DEF Sources
  <2>2. 0 \in 0..N
    BY <1>1
  <2> QED
    BY <1>4, <2>1, <2>2
<1>10. ASSUME NEW k \in 1..N, k - 1 \in S
       PROVE  k \in S
  <2>1. k \in 0..N /\ k - 1 \in Nat /\ k \in Nat
    BY <1>1
  <2>2. L[k] = Into(world.pays, Ball(k - 1))
    BY <1>4, <1>10
  <2>3. Into(world.pays, Ball(k - 1)) \subseteq Ball(k)
    <3>1. Ball(k - 1) \subseteq Ball(k)
      BY <1>5, <2>1
    <3>2. ASSUME NEW e \in world.pays, e[2] \in Ball(k - 1)
          PROVE  e[1] \in Ball(k)
      <4>1. e[2] \in DOMAIN dist /\ dist[e[2]] <= k - 1
        BY <3>2
      <4>2. e[1] \in DOMAIN dist /\ dist[e[1]] <= dist[e[2]] + 1
        BY <4>1, <1>7
      <4>3. dist[e[1]] \in Nat /\ dist[e[2]] \in Nat
        BY <4>1, <4>2, <1>5
      <4> QED
        BY <4>1, <4>2, <4>3, <2>1
    <3> QED
      BY <3>1, <3>2 DEF Into
  <2>4. Ball(k) \subseteq Into(world.pays, Ball(k - 1))
    <3> SUFFICES ASSUME NEW n \in DOMAIN dist, dist[n] <= k
                 PROVE  n \in Into(world.pays, Ball(k - 1))
      OBVIOUS
    <3>1. CASE dist[n] <= k - 1
      BY <3>1 DEF Into
    <3>2. CASE dist[n] = k
      <4>1. PICK e \in world.pays : e[1] = n /\ e[2] \in DOMAIN dist /\ dist[n] = dist[e[2]] + 1
        BY <3>2, <1>8, <2>1
      <4>2. e[2] \in Ball(k - 1)
        BY <4>1, <3>2, <1>5, <2>1
      <4> HIDE DEF Ball
      <4> QED
        BY <4>1, <4>2 DEF Into
    <3> QED
      BY <3>1, <3>2, <1>5, <2>1
  <2> QED
    BY <2>1, <2>2, <2>3, <2>4
<1> HIDE DEF S
<1>11. 0..N \subseteq S
  BY <1>1, <1>9, <1>10, UpTo
<1>12. \A k \in 0..N : L[k] = Ball(k)
  BY <1>11 DEF S
<1>13. L[N] \subseteq Nodes /\ \A e \in world.pays : e[2] \in L[N] => e[1] \in L[N]
  BY <1>1, <1>3, <1>6, NodesAreFinite, LevelsSaturate DEF N
<1>14. \A n \in DOMAIN dist : n \in L[N]
  <2> DEFINE T == {k \in Nat : \A n \in DOMAIN dist : dist[n] <= k => n \in L[N]}
  <2>1. 0 \in T
    <3>1. L[0] \subseteq L[N]
      BY <1>1, LevelsGrow
    <3>2. \A n \in DOMAIN dist : dist[n] <= 0 => n \in L[0]
      <4>1. 0 \in 0..N
        BY <1>1
      <4> QED
        BY <4>1, <1>12
    <3> QED
      BY <3>1, <3>2
  <2>2. ASSUME NEW k \in Nat, k \in T
        PROVE  k + 1 \in T
    <3> SUFFICES ASSUME NEW n \in DOMAIN dist, dist[n] <= k + 1 PROVE n \in L[N]
      OBVIOUS
    <3>1. CASE dist[n] <= k
      BY <2>2, <3>1
    <3>2. CASE dist[n] = k + 1
      <4>1. PICK e \in world.pays : e[1] = n /\ e[2] \in DOMAIN dist /\ dist[n] = dist[e[2]] + 1
        BY <3>2, <1>8
      <4>2. dist[e[2]] <= k
        BY <4>1, <3>2, <1>5
      <4> QED
        BY <4>1, <4>2, <2>2, <1>13
    <3> QED
      BY <3>1, <3>2, <1>5
  <2> HIDE DEF T
  <2>3. Nat \subseteq T
    BY <2>1, <2>2, NatSetInduction
  <2> SUFFICES ASSUME NEW n \in DOMAIN dist PROVE n \in L[N]
    OBVIOUS
  <2>4. dist[n] \in T /\ dist[n] <= dist[n]
    BY <2>3, <1>5
  <2> QED
    BY <2>4 DEF T
<1>15. N \in 0..N
  BY <1>1
<1>16. \A n \in DOMAIN dist : dist[n] \in 0..N
  BY <1>5, <1>12, <1>14, <1>15
<1>17. L[N] = DOMAIN dist
  BY <1>12, <1>14, <1>15
<1> QED
  BY <1>12, <1>16, <1>17 DEF L, N

(***************************************************************************)
(* A foreign signal binds nobody, and a hold is confirmed only where both  *)
(* systems record one (sweep/worksheet.py).                                *)
(***************************************************************************)
THEOREM SignalBindsNobody == Spec => []SignalNeverBinds
<1> DEFINE RowsInv == SignalNeverBinds /\ {"rows", "drafted", "asked"} \subseteq DOMAIN result
<1>1. Init => RowsInv
  BY DEF Init, SignalNeverBinds, AfterWorksheet, NothingFound
<1>2. ASSUME RowsInv, [Next]_vars
      PROVE  RowsInv'
  <2> USE <1>2
  <2>1. CASE WorksheetBuild
    <3>1. /\ result'.rows = Rows /\ Calibrated(Rows) /\ UNCHANGED world
          /\ DOMAIN result' = DOMAIN result
      BY <2>1 DEF WorksheetBuild
    <3> SUFFICES ASSUME NEW r \in Rows
                 PROVE  /\ world.signal =>
                             /\ r.action \notin {"flags_reconciliation_gap",
                                                 "proposes_confirm_existing_hold",
                                                 "proposes_designation_hold_review"}
                             /\ "legal" \notin world.terms[r.uid]
                        /\ r.action = "proposes_confirm_existing_hold" =>
                             world.warehouse[r.uid] = "blocked" /\ world.admin[r.uid] = "blocked"
      BY <3>1 DEF SignalNeverBinds
    <3>2. PICK u, kind, links : kind \in Kinds /\ r = Row(u, kind, links)
      <4>1. \/ \E u \in Exposed : r = Row(u, "exposed", {})
            \/ \E a \in result.adjacent : r = Row(a.uid, "adjacent", a.links)
            \/ \E u \in result.direct : r = Row(u, "name_match", {})
            \/ \E u \in result.variant : r = Row(u, "variant_match", {})
        BY DEF Rows
      <4>2. \A u, links : \A kind \in Kinds :
               r = Row(u, kind, links) => \E v, k, l : k \in Kinds /\ r = Row(v, k, l)
        BY Zenon
      <4> QED
        BY <4>1, <4>2 DEF Kinds
    <3>3. world.signal => "legal" \notin world.terms[r.uid]
      BY <3>1 DEF Calibrated
    <3> DEFINE gap == IF u \in DOMAIN result.gaps THEN result.gaps[u] ELSE "none"
               warehouse == HoldStatus(world.warehouse, u)
               admin == HoldStatus(world.admin, u)
    <3>4. /\ r.uid = u
          /\ r.action = ActionFor(kind, gap, warehouse, admin, u \in world.tagged,
                                  u \in world.staff, links)
      BY <3>2 DEF Row
    <3>5. /\ world.signal =>
               r.action \notin {"flags_reconciliation_gap", "proposes_confirm_existing_hold",
                               "proposes_designation_hold_review"}
          /\ r.action = "proposes_confirm_existing_hold" =>
               warehouse = "blocked" /\ admin = "blocked"
      <4> HIDE DEF gap, warehouse, admin
      <4>0. {warehouse, admin} = {"blocked"} => warehouse = "blocked" /\ admin = "blocked"
        OBVIOUS
      <4>1. CASE kind = "exposed"
        <5>1. CASE world.signal
          BY <4>1, <5>1, <3>4 DEF ActionFor
        <5>2. CASE ~world.signal
          BY <4>0, <4>1, <5>2, <3>4 DEF ActionFor
        <5> QED
          BY <5>1, <5>2
      <4>2. CASE kind = "adjacent"
        BY <4>2, <3>4 DEF ActionFor
      <4>3. CASE kind \in {"name_match", "variant_match"}
        BY <4>3, <3>4 DEF ActionFor
      <4> QED
        BY <4>1, <4>2, <4>3, <3>2 DEF Kinds
    <3> QED
      BY <3>3, <3>4, <3>5 DEF HoldStatus
  <2>2. CASE /\ UNCHANGED world
             /\ DOMAIN result' = DOMAIN result /\ result'.rows = result.rows
             /\ stage' \in AfterWorksheet => stage \in AfterWorksheet
    BY <2>2 DEF SignalNeverBinds
  <2>3. CASE Open \/ NameScreen \/ Corroborate \/ OwnershipWalk \/ Expose \/ Walk
             \/ ExposureSweep \/ ProximityRing \/ GeoTriangulate \/ GeoPropose \/ BlockVerify
             \/ WorksheetRaises
    BY <2>3, <2>2 DEF Open, NameScreen, Corroborate, OwnershipWalk, Expose, Walk, ExposureSweep,
         ProximityRing, GeoTriangulate, GeoPropose, BlockVerify, WorksheetRaises, Goto, AfterWorksheet
  <2>4. CASE EscalationsDraft \/ IdentityReviewRfi
    BY <2>4, <2>2 DEF EscalationsDraft, IdentityReviewRfi, Goto, AfterWorksheet
  <2>5. CASE SweepComplete \/ WriteSweepPackage \/ Packaged \/ Abort \/ UNCHANGED vars
    BY <2>5, <2>2 DEF SweepComplete, WriteSweepPackage, Packaged, Abort, vars, Goto, AfterWorksheet
  <2> QED
    BY <2>1, <2>3, <2>4, <2>5 DEF Next
<1>3. RowsInv => SignalNeverBinds
  OBVIOUS
<1> QED
  BY <1>1, <1>2, <1>3, PTL DEF Spec
-----------------------------------------------------------------------------
\* The hits of the name screen and their corroboration, once they are taken,
\* and the requests, once they are drafted.
HitsTaken ==
    /\ result.direct = match_designated_name
    /\ result.variant = screen_name_variants(match_designated_name)

Candidates == {u \in Accounts : Hit(u) /\ world.published /\ u \in DOMAIN world.identity}

HitsWeighed ==
    result.corroboration = [u \in Candidates |-> decide_corroboration(world.identity[u])]

RequestsDrafted ==
    /\ result.asked = {u \in OpenMatches : "tipping" \notin world.terms[u]}
    /\ result.unasked = OpenMatches \ result.asked

Asked == AfterEscalation \ {"ask"}

AskInv ==
    /\ world \in Worlds
    /\ {"direct", "variant", "corroboration", "asked", "unasked"} \subseteq DOMAIN result
    /\ stage \notin {"open", "screen", "raised"} => HitsTaken
    /\ stage \notin {"open", "screen", "corroborate", "raised"} => HitsWeighed
    /\ stage \notin Asked \cup {"raised"} => result.asked = {} /\ result.unasked = {}
    /\ stage \in Asked => RequestsDrafted
    /\ result.asked \cap result.unasked = {}
    /\ \A u \in result.asked : "tipping" \notin world.terms[u]

\* Two or more is more than one element.
LEMMA TwoOrMore ==
    ASSUME NEW S, IsFiniteSet(S)
    PROVE  Cardinality(S) >= 2 <=> \E x, y \in S : x # y
<1>1. Cardinality(S) \in Nat
  BY FS_CardinalityType
<1>2. Cardinality(S) = 0 <=> S = {}
  BY FS_EmptySet
<1>3. Cardinality(S) = 1 <=> \E x : S = {x}
  BY FS_Singleton
<1>4. (\E x, y \in S : x # y) => Cardinality(S) # 0 /\ Cardinality(S) # 1
  BY <1>2, <1>3
<1>5. ~(\E x, y \in S : x # y) => S = {} \/ \E x : S = {x}
  OBVIOUS
<1> QED
  BY <1>1, <1>2, <1>3, <1>4, <1>5

\* What the comparison of a hit decides: contradicted hits are dismissed, hits
\* neither confirmed nor contradicted left open.
LEMMA DecisionIsReasoned ==
    ASSUME NEW u \in Candidates
    PROVE  LET outcome == decide_corroboration(world.identity[u]) IN
           /\ outcome = "corroborated_true_hit" <=> Confirmed(u)
           /\ outcome = "name_only_dismissed" <=> Contradicted(u)
           /\ outcome = "possible_match_needs_human" <=> ~Confirmed(u) /\ ~Contradicted(u)
<1> DEFINE cmp == world.identity[u]
           differing == {f \in Fields : cmp[f] = "mismatch"}
<1>1. IsFiniteSet(Fields)
  <2>1. IsFiniteSet({"dob"})
    BY FS_Singleton
  <2>2. IsFiniteSet({"dob"} \cup {"nationality"})
    BY <2>1, FS_AddElement
  <2>3. IsFiniteSet(({"dob"} \cup {"nationality"}) \cup {"doc_number"})
    BY <2>2, FS_AddElement
  <2>4. Fields = ({"dob"} \cup {"nationality"}) \cup {"doc_number"}
    BY DEF Fields
  <2> QED
    BY <2>3, <2>4
<1>2. IsFiniteSet(differing)
  BY <1>1, FS_Subset
<1>3. Cardinality(differing) >= 2 <=> \E f, g \in differing : f # g
  BY <1>2, TwoOrMore
<1>4. Contradicted(u) <=> /\ cmp.doc_number # "match"
                          /\ ~(cmp.dob = "match" /\ cmp.nationality = "match")
                          /\ Cardinality(differing) >= 2
  BY <1>3 DEF Contradicted, Candidates
<1>5. Confirmed(u) <=> cmp.doc_number = "match" \/ (cmp.dob = "match" /\ cmp.nationality = "match")
  BY DEF Confirmed
<1> HIDE DEF cmp
<1>6. /\ decide_corroboration(cmp) = "corroborated_true_hit" <=> Confirmed(u)
      /\ decide_corroboration(cmp) = "name_only_dismissed"
           <=> ~Confirmed(u) /\ Cardinality(differing) >= 2
      /\ decide_corroboration(cmp) = "possible_match_needs_human"
           <=> ~Confirmed(u) /\ ~(Cardinality(differing) >= 2)
  BY <1>5 DEF decide_corroboration
<1> QED
  BY <1>4, <1>5, <1>6 DEF cmp

\* A hit is left open iff the identifiers neither confirm nor contradict it.
LEMMA OpenIsUndecided ==
    ASSUME HitsWeighed, world \in Worlds
    PROVE  OpenMatches = {u \in DOMAIN world.identity :
                            world.published /\ Hit(u) /\ ~Confirmed(u) /\ ~Contradicted(u)}
<1>1. OpenMatches =
        {u \in Candidates : decide_corroboration(world.identity[u]) = "possible_match_needs_human"}
  BY DEF HitsWeighed, OpenMatches, Outcome
<1>2. \A u \in DOMAIN world.identity : u \in Accounts
  BY SweepAssumption DEF IdentityTables
<1> QED
  BY <1>1, <1>2, DecisionIsReasoned DEF Candidates

\* The parties are the hits that are not contradicted.
LEMMA PartiesAreUncontradicted ==
    ASSUME HitsTaken, HitsWeighed, world \in Worlds
    PROVE  /\ result.direct \cup result.variant = {u \in Accounts : Hit(u)}
           /\ \A u \in Accounts : Hit(u) =>
                 (Outcome(u) = "name_only_dismissed" <=> Contradicted(u))
           /\ ResolvedParties = {u \in Accounts : Hit(u) /\ ~Contradicted(u)}
<1>1. result.direct \cup result.variant = {u \in Accounts : Hit(u)}
  <2>1. \A u \in Accounts : world.name[u] \subseteq {"direct", "variant"}
    BY SweepAssumption DEF IdentityTables
  <2> QED
    BY <2>1 DEF HitsTaken, match_designated_name, screen_name_variants, Hit
<1>2. ASSUME NEW u \in Accounts, Hit(u)
      PROVE  Outcome(u) = "name_only_dismissed" <=> Contradicted(u)
  <2>1. CASE u \in Candidates
    <3>1. Outcome(u) = decide_corroboration(world.identity[u])
      BY <2>1 DEF Outcome, HitsWeighed
    <3> QED
      BY <2>1, <3>1, DecisionIsReasoned
  <2>2. CASE u \notin Candidates
    <3>1. Outcome(u) = "none"
      BY <2>2 DEF Outcome, HitsWeighed
    <3>2. ~Contradicted(u)
      BY <1>2, <2>2 DEF Contradicted, Candidates
    <3> QED
      BY <3>1, <3>2
  <2> QED
    BY <2>1, <2>2
<1> QED
  BY <1>1, <1>2 DEF ResolvedParties

\* The screens' verdicts reach the stage that asks.
LEMMA AskHolds == Spec => []AskInv
<1>1. Init => AskInv
  BY DEF Init, AskInv, NothingFound, Asked, AfterEscalation, AfterWorksheet
<1>2. ASSUME AskInv, [Next]_vars
      PROVE  AskInv'
  <2> USE <1>2
  <2>1. CASE NameScreen
    BY <2>1 DEF NameScreen, AskInv, HitsTaken, Goto, Asked, AfterEscalation, AfterWorksheet,
                match_designated_name, screen_name_variants
  <2>2. CASE Corroborate
    <3>1. HitsTaken /\ stage = "corroborate" /\ UNCHANGED world
      BY <2>2 DEF Corroborate, AskInv, Goto
    <3>2. {u \in result.direct \cup result.variant :
             world.published /\ u \in DOMAIN world.identity} = Candidates
      <4>1. \A u \in Accounts : u \in result.direct \cup result.variant <=>
              "direct" \in world.name[u] \/ "variant" \in world.name[u]
        BY <3>1 DEF HitsTaken, match_designated_name, screen_name_variants
      <4>2. world.name \in [Accounts -> SUBSET {"direct", "variant"}]
        BY SweepAssumption DEF IdentityTables, AskInv
      <4>3. result.direct \cup result.variant \subseteq Accounts
        BY <3>1 DEF HitsTaken, match_designated_name, screen_name_variants
      <4> QED
        BY <4>1, <4>2, <4>3 DEF Candidates, Hit
    <3>3. result' = [result EXCEPT !.corroboration =
                       [u \in Candidates |-> decide_corroboration(world.identity[u])]]
      BY <2>2, <3>2 DEF Corroborate
    <3>4. HitsWeighed'
      BY <3>1, <3>3 DEF AskInv, HitsWeighed, Candidates, Hit
    <3>5. HitsTaken' /\ UNCHANGED <<result.asked, result.unasked, DOMAIN result>>
      BY <3>1, <3>3 DEF HitsTaken, AskInv, match_designated_name, screen_name_variants
    <3> QED
      BY <2>2, <3>1, <3>4, <3>5 DEF Corroborate, AskInv, Goto, Asked, AfterEscalation,
                                    AfterWorksheet
  <2>3. CASE IdentityReviewRfi
    <3>1. /\ HitsTaken /\ HitsWeighed /\ UNCHANGED world /\ stage = "ask" /\ stage' = "complete"
          /\ result' = [result EXCEPT !.asked = {u \in OpenMatches : "tipping" \notin world.terms[u]},
                                      !.unasked = {u \in OpenMatches : "tipping" \in world.terms[u]}]
      <4>1. OpenMatches \ {u \in OpenMatches : "tipping" \in world.terms[u]}
              = {u \in OpenMatches : "tipping" \notin world.terms[u]}
        OBVIOUS
      <4> QED
        BY <2>3, <4>1 DEF IdentityReviewRfi, AskInv, Goto, Asked, AfterEscalation, AfterWorksheet
    <3>2. UNCHANGED <<result.direct, result.variant, result.corroboration, DOMAIN result>>
      BY <3>1
    <3>3. HitsTaken' /\ HitsWeighed' /\ OpenMatches' = OpenMatches
      BY <3>1, <3>2 DEF HitsTaken, HitsWeighed, Candidates, Hit, OpenMatches, Outcome,
                        match_designated_name, screen_name_variants
    <3>4. /\ result'.asked = {u \in OpenMatches : "tipping" \notin world.terms[u]}
          /\ result'.unasked = {u \in OpenMatches : "tipping" \in world.terms[u]}
      BY <3>1 DEF AskInv
    <3>5. RequestsDrafted'
      BY <3>1, <3>3, <3>4 DEF RequestsDrafted
    <3>6. /\ result'.asked \cap result'.unasked = {}
          /\ \A u \in result'.asked : "tipping" \notin world.terms[u]
      BY <3>4
    <3> QED
      BY <3>1, <3>2, <3>3, <3>5, <3>6 DEF AskInv, Asked, AfterEscalation, AfterWorksheet
  <2>4. CASE /\ UNCHANGED <<world, result.direct, result.variant, result.corroboration,
                            result.asked, result.unasked, DOMAIN result>>
             /\ stage' \in {"open", "screen"} => stage = stage'
             /\ stage' = "corroborate" => stage = "corroborate"
             /\ stage' \notin {"open", "screen", "corroborate", "raised"} =>
                  stage \notin {"open", "screen", "corroborate", "raised"}
             /\ stage' \in Asked => stage \in Asked
             /\ stage' \notin Asked \cup {"raised"} => stage \notin Asked \cup {"raised"}
    BY <2>4 DEF AskInv, HitsTaken, HitsWeighed, RequestsDrafted, OpenMatches, Outcome,
                Candidates, Hit, match_designated_name, screen_name_variants
  <2>5. CASE Open
    BY <2>5 DEF Open, AskInv, Goto, Asked, AfterEscalation, AfterWorksheet
  <2>6. CASE OwnershipWalk
    BY <2>6, <2>4 DEF OwnershipWalk, Goto, Asked, AfterEscalation, AfterWorksheet
  <2>7. CASE Expose
    BY <2>7, <2>4 DEF Expose, Goto, Asked, AfterEscalation, AfterWorksheet
  <2>8. CASE Walk
    BY <2>8, <2>4 DEF Walk, Goto, Asked, AfterEscalation, AfterWorksheet
  <2>9. CASE ExposureSweep
    BY <2>9, <2>4 DEF ExposureSweep, Goto, Asked, AfterEscalation, AfterWorksheet
  <2>10. CASE ProximityRing
    BY <2>10, <2>4 DEF ProximityRing, Goto, Asked, AfterEscalation, AfterWorksheet
  <2>11. CASE GeoTriangulate
    BY <2>11, <2>4 DEF GeoTriangulate, Goto, Asked, AfterEscalation, AfterWorksheet
  <2>12. CASE GeoPropose
    BY <2>12, <2>4 DEF GeoPropose, Goto, Asked, AfterEscalation, AfterWorksheet
  <2>13. CASE BlockVerify
    BY <2>13, <2>4 DEF BlockVerify, Goto, Asked, AfterEscalation, AfterWorksheet
  <2>14. CASE WorksheetBuild
    BY <2>14, <2>4 DEF WorksheetBuild, Goto, Asked, AfterEscalation, AfterWorksheet
  <2>15. CASE WorksheetRaises
    BY <2>15, <2>4 DEF WorksheetRaises, Goto, Asked, AfterEscalation, AfterWorksheet
  <2>16. CASE EscalationsDraft
    BY <2>16, <2>4 DEF EscalationsDraft, Goto, Asked, AfterEscalation, AfterWorksheet
  <2>17. CASE SweepComplete \/ WriteSweepPackage \/ Packaged \/ UNCHANGED vars
    BY <2>17, <2>4 DEF SweepComplete, WriteSweepPackage, Packaged, vars, Goto, Asked,
                      AfterEscalation, AfterWorksheet
  <2>18. CASE Abort
    BY <2>18, <2>4 DEF Abort, Asked, AfterEscalation, AfterWorksheet
  <2> QED
    BY <2>1, <2>2, <2>3, <2>5, <2>6, <2>7, <2>8, <2>9, <2>10, <2>11, <2>12, <2>13, <2>14,
       <2>15, <2>16, <2>17, <2>18 DEF Next
<1> QED
  BY <1>1, <1>2, PTL DEF Spec

(***************************************************************************)
(* Whatever the tables hold, the customers written to about their identity *)
(* and those the guard withheld are together exactly the hits the          *)
(* identifiers leave open, and no text tips off (sweep/identity_rfi.py).   *)
(***************************************************************************)
THEOREM EveryOpenMatchIsAsked == Spec => []OpenMatchesAreAsked
<1>1. AskInv => OpenMatchesAreAsked
  <2> SUFFICES ASSUME AskInv PROVE OpenMatchesAreAsked
    OBVIOUS
  <2>1. CASE stage \in Asked
    <3>1. HitsWeighed /\ RequestsDrafted
      BY <2>1 DEF AskInv, Asked, AfterEscalation, AfterWorksheet
    <3>2. result.asked \cup result.unasked = OpenMatches
      BY <3>1 DEF RequestsDrafted
    <3> QED
      BY <3>1, <3>2, OpenIsUndecided DEF AskInv, OpenMatchesAreAsked, Asked
  <2>2. CASE stage \notin Asked
    BY <2>2 DEF AskInv, OpenMatchesAreAsked, Asked
  <2> QED
    BY <2>1, <2>2
<1> QED
  BY <1>1, AskHolds, PTL
-----------------------------------------------------------------------------
\* A signal is one row of a source; the rows are finitely many.
LEMMA SignalIsFinite ==
    ASSUME NEW id, NEW rows, IsFiniteSet(rows)
    PROVE  IsFiniteSet(Signal(id, rows))
<1> DEFINE f == [n \in rows |-> [id |-> id, row |-> n]]
<1>1. f \in Surjection(rows, Signal(id, rows))
  BY DEF Signal, Surjection
<1> QED
  BY <1>1, FS_Surjection

\* An account has finitely many signals.
LEMMA SignalsAreFinite ==
    ASSUME NEW g \in Records
    PROVE  IsFiniteSet(Signals(g))
<1>1. IsFiniteSet(DOMAIN g.logins) /\ IsFiniteSet(DOMAIN g.phones) /\ IsFiniteSet(1..g.zones)
  <2>1. /\ DOMAIN g.logins = 1..Len(g.logins) /\ Len(g.logins) \in Int
        /\ DOMAIN g.phones = 1..Len(g.phones) /\ Len(g.phones) \in Int /\ g.zones \in Int
    BY DEF Records
  <2> QED
    BY <2>1, FS_Interval
<1>2. IsFiniteSet({1})
  BY FS_Singleton
<1>3. /\ IsFiniteSet(Slips(g)) /\ IsFiniteSet({n \in Sightings(g) : g.logins[n].at \notin SlipTimes(g)})
      /\ IsFiniteSet({n \in DOMAIN g.phones : g.phones[n].prefix})
      /\ IsFiniteSet({n \in DOMAIN g.phones : g.phones[n].carrier})
      /\ IsFiniteSet({n \in {1} : g.kyc}) /\ IsFiniteSet({n \in {1} : g.residence})
  <2>1. /\ Slips(g) \subseteq DOMAIN g.logins
        /\ {n \in Sightings(g) : g.logins[n].at \notin SlipTimes(g)} \subseteq DOMAIN g.logins
    BY DEF Slips, Sightings
  <2> QED
    BY <1>1, <1>2, <2>1, FS_Subset
<1> QED
  BY <1>1, <1>3, SignalIsFinite, FS_Union DEF Signals

\* Exactly the accounts with a record that places them inside have a signal.
LEMMA SignalsAreLocations ==
    ASSUME NEW g \in Records
    PROVE  Signals(g) # {} <=> Located(g)
<1>1. (\E n \in Slips(g) : TRUE) \/ (\E n \in Sightings(g) : g.logins[n].at \notin SlipTimes(g))
        <=> \E n \in Sightings(g) : TRUE
  BY DEF Slips, SlipTimes
<1>2. (\E n \in 1..g.zones : TRUE) <=> g.zones > 0
  <2>1. g.zones \in Nat
    BY DEF Records
  <2> QED
    BY <2>1
<1>3. \A id, rows : Signal(id, rows) # {} <=> \E n \in rows : TRUE
  BY DEF Signal
<1>4. Signals(g) # {} <=>
        \/ \E n \in Slips(g) : TRUE
        \/ \E n \in {n \in Sightings(g) : g.logins[n].at \notin SlipTimes(g)} : TRUE
        \/ \E n \in {n \in DOMAIN g.phones : g.phones[n].prefix} : TRUE
        \/ \E n \in {n \in DOMAIN g.phones : g.phones[n].carrier} : TRUE
        \/ \E n \in {n \in {1} : g.kyc} : TRUE
        \/ \E n \in {n \in {1} : g.residence} : TRUE
        \/ \E n \in 1..g.zones : TRUE
  <2> DEFINE ip == {n \in Sightings(g) : g.logins[n].at \notin SlipTimes(g)}
             prefix == {n \in DOMAIN g.phones : g.phones[n].prefix}
             carrier == {n \in DOMAIN g.phones : g.phones[n].carrier}
             kyc == {n \in {1} : g.kyc}
             residence == {n \in {1} : g.residence}
  <2>1. Signals(g) # {} <=>
          \/ Signal("vpn_slip", Slips(g)) # {} \/ Signal("ip_geolocation", ip) # {}
          \/ Signal("phone_prefix", prefix) # {} \/ Signal("exclusive_carrier", carrier) # {}
          \/ Signal("kyc_geography", kyc) # {} \/ Signal("declared_residence", residence) # {}
          \/ Signal("device_timezone", 1..g.zones) # {}
    BY Zenon DEF Signals
  <2> HIDE DEF ip, prefix, carrier, kyc, residence
  <2>2. Signal("vpn_slip", Slips(g)) # {} <=> \E n \in Slips(g) : TRUE
    BY <1>3
  <2>3. Signal("ip_geolocation", ip) # {} <=> \E n \in ip : TRUE
    BY <1>3
  <2>4. Signal("phone_prefix", prefix) # {} <=> \E n \in prefix : TRUE
    BY <1>3
  <2>5. Signal("exclusive_carrier", carrier) # {} <=> \E n \in carrier : TRUE
    BY <1>3
  <2>6. Signal("kyc_geography", kyc) # {} <=> \E n \in kyc : TRUE
    BY <1>3
  <2>7. Signal("declared_residence", residence) # {} <=> \E n \in residence : TRUE
    BY <1>3
  <2>8. Signal("device_timezone", 1..g.zones) # {} <=> \E n \in 1..g.zones : TRUE
    BY <1>3
  <2> QED
    BY <2>1, <2>2, <2>3, <2>4, <2>5, <2>6, <2>7, <2>8 DEF ip, prefix, carrier, kyc, residence
<1>5. (\E n \in Sightings(g) : TRUE) <=> \E n \in DOMAIN g.logins : g.logins[n].inside /\ ~g.logins[n].vpn
  BY DEF Sightings
<1> QED
  BY <1>1, <1>2, <1>4, <1>5 DEF Located

\* The rows behind the signals grow with the records.
LEMMA RowsGrow ==
    ASSUME NEW g \in Records, NEW h \in Records, Incriminates(g, h)
    PROVE  /\ Sightings(g) \subseteq Sightings(h) /\ Slips(g) \subseteq Slips(h)
           /\ {n \in DOMAIN g.phones : g.phones[n].prefix}
                 \subseteq {n \in DOMAIN h.phones : h.phones[n].prefix}
           /\ {n \in DOMAIN g.phones : g.phones[n].carrier}
                 \subseteq {n \in DOMAIN h.phones : h.phones[n].carrier}
           /\ 1..g.zones \subseteq 1..h.zones
<1>1. /\ \A n \in DOMAIN g.logins : n \in DOMAIN h.logins /\ g.logins[n] = h.logins[n]
      /\ \A n \in DOMAIN g.phones : n \in DOMAIN h.phones /\ g.phones[n] = h.phones[n]
  BY DEF Records, Incriminates, Begins
<1>2. Sightings(g) \subseteq Sightings(h) /\ vpn_markers(g) \subseteq vpn_markers(h)
  BY <1>1 DEF Sightings, vpn_markers
<1>3. vpn_markers(g) \subseteq DOMAIN g.logins /\ Sightings(g) \subseteq DOMAIN g.logins
  BY DEF Sightings, vpn_markers
<1>4. Slips(g) \subseteq Slips(h)
  BY <1>1, <1>2, <1>3 DEF Slips
<1>5. 1..g.zones \subseteq 1..h.zones
  BY DEF Records, Incriminates
<1> QED
  BY <1>1, <1>2, <1>4, <1>5

\* The rows of each class of signals.
Ordinary(g) == {n \in Sightings(g) : g.logins[n].at \notin SlipTimes(g)}
Prefixed(g) == {n \in DOMAIN g.phones : g.phones[n].prefix}
Carried(g) == {n \in DOMAIN g.phones : g.phones[n].carrier}

HighValue(g) == Signal("vpn_slip", Slips(g)) \cup Signal("exclusive_carrier", Carried(g))
Personal(g) ==
    Signal("phone_prefix", Prefixed(g)) \cup Signal("kyc_geography", {n \in {1} : g.kyc})
      \cup Signal("declared_residence", {n \in {1} : g.residence})
Standard(g) == Signal("ip_geolocation", Ordinary(g)) \cup Personal(g)
Weak(g) == Signal("device_timezone", 1..g.zones)

\* Signals by what they weigh.
LEMMA SignalClasses ==
    ASSUME NEW g \in Records
    PROVE  /\ OfClass(Signals(g), "high_value") = HighValue(g)
           /\ OfClass(Signals(g), "standard") = Standard(g)
           /\ OfClass(Signals(g), "weak") = Weak(g)
<1>1. Signals(g) = HighValue(g) \cup Standard(g) \cup Weak(g)
  BY Zenon DEF Signals, HighValue, Standard, Personal, Weak, Ordinary, Prefixed, Carried
<1>2. \A id, rows : \A s \in Signal(id, rows) : s.id = id
  BY DEF Signal
<1>3. \A s \in HighValue(g) : s.id \in {"vpn_slip", "exclusive_carrier"}
  BY <1>2 DEF HighValue
<1>4. \A s \in Standard(g) :
         s.id \in {"ip_geolocation", "phone_prefix", "kyc_geography", "declared_residence"}
  BY <1>2 DEF Standard, Personal
<1>5. \A s \in Weak(g) : s.id = "device_timezone"
  BY <1>2 DEF Weak
<1>6. /\ \A s \in HighValue(g) : WeightClass(s.id) = "high_value"
      /\ \A s \in Standard(g) : WeightClass(s.id) = "standard"
      /\ \A s \in Weak(g) : WeightClass(s.id) = "weak"
  BY <1>3, <1>4, <1>5 DEF WeightClass
<1> QED
  BY <1>1, <1>6 DEF OfClass

\* A login that becomes a slip keeps its place among the non-weak signals.
LEMMA StrongSignalsGrow ==
    ASSUME NEW g \in Records, NEW h \in Records, Incriminates(g, h)
    PROVE  \E f : f \in Injection(HighValue(g) \cup Standard(g), HighValue(h) \cup Standard(h))
<1> DEFINE slip(n) == [id |-> "vpn_slip", row |-> n]
           S == HighValue(g) \cup Standard(g)
           T == HighValue(h) \cup Standard(h)
           f == [s \in S |-> IF s.id = "ip_geolocation" /\ s.row \in Slips(h)
                             THEN slip(s.row) ELSE s]
<1>1. \A n : n \in Slips(g) => n \notin Ordinary(g)
  BY DEF Ordinary, Slips, SlipTimes
<1>2. \A s \in S : \/ s.id = "vpn_slip" /\ s.row \in Slips(g) /\ s = slip(s.row)
                   \/ s.id = "ip_geolocation" /\ s.row \in Ordinary(g)
                        /\ s = [id |-> "ip_geolocation", row |-> s.row]
                   \/ s.id \notin {"vpn_slip", "ip_geolocation"}
  BY DEF HighValue, Standard, Personal, Signal
<1>3. \A n \in Sightings(h) : n \in Slips(h) \/ n \in Ordinary(h)
  <2> SUFFICES ASSUME NEW n \in Sightings(h), n \notin Slips(h), h.logins[n].at \in SlipTimes(h)
               PROVE  FALSE
    BY DEF Ordinary
  <2>1. PICK m \in Slips(h) : h.logins[m].at = h.logins[n].at
    BY DEF SlipTimes
  <2> QED
    BY <2>1 DEF Slips
<1>4. HighValue(g) \subseteq HighValue(h)
  BY RowsGrow DEF HighValue, Signal, Carried
<1>5. Personal(g) \subseteq Personal(h)
  <2>1. (g.kyc => h.kyc) /\ (g.residence => h.residence)
    BY DEF Incriminates
  <2> QED
    BY <2>1, RowsGrow DEF Personal, Signal, Prefixed
<1>6. ASSUME NEW s \in Signal("ip_geolocation", Ordinary(g))
      PROVE  \/ s.row \in Slips(h)
             \/ s \in Signal("ip_geolocation", Ordinary(h))
  <2>1. s.row \in Sightings(g) /\ s = [id |-> "ip_geolocation", row |-> s.row]
    BY <1>6 DEF Signal, Ordinary
  <2>2. s.row \in Sightings(h)
    BY <2>1, RowsGrow
  <2> QED
    BY <2>1, <2>2, <1>3 DEF Signal
<1>7. \A s \in S : f[s] \in T
  <2> SUFFICES ASSUME NEW s \in S PROVE f[s] \in T
    OBVIOUS
  <2>1. CASE s.id = "ip_geolocation" /\ s.row \in Slips(h)
    BY <2>1 DEF HighValue, Signal
  <2>2. CASE ~(s.id = "ip_geolocation" /\ s.row \in Slips(h))
    <3>1. f[s] = s
      BY <2>2
    <3>2. CASE s \in HighValue(g) \cup Personal(g)
      BY <3>1, <3>2, <1>4, <1>5 DEF Standard
    <3>3. CASE s \in Signal("ip_geolocation", Ordinary(g))
      <4>1. s.id = "ip_geolocation"
        BY <3>3 DEF Signal
      <4> QED
        BY <3>1, <3>3, <4>1, <2>2, <1>6 DEF Standard
    <3> QED
      BY <3>2, <3>3 DEF Standard
  <2> QED
    BY <2>1, <2>2
<1>8. \A s, t \in S : f[s] = f[t] => s = t
  <2> SUFFICES ASSUME NEW s \in S, NEW t \in S, f[s] = f[t] PROVE s = t
    OBVIOUS
  <2>1. \A n, m : slip(n) = slip(m) => n = m
    <3> SUFFICES ASSUME NEW n, NEW m, slip(n) = slip(m) PROVE n = m
      OBVIOUS
    <3>1. slip(n).row = slip(m).row
      OBVIOUS
    <3> QED
      BY <3>1
  <2>2. \A n : slip(n).id = "vpn_slip"
    OBVIOUS
  <2> QED
    BY <1>1, <1>2, <2>1, <2>2
<1>9. f \in Injection(S, T)
  BY <1>7, <1>8 DEF Injection, IsInjective
<1> QED
  BY <1>9

\* More signals of each class score at least as much.
LEMMA ScoreGrows ==
    ASSUME NEW g \in Records, NEW h \in Records, Incriminates(g, h)
    PROVE  /\ SignalScore(Signals(g)) \in Int /\ SignalScore(Signals(h)) \in Int
           /\ SignalScore(Signals(g)) <= SignalScore(Signals(h))
<1>1. ASSUME NEW r \in Records
      PROVE  /\ IsFiniteSet(HighValue(r)) /\ IsFiniteSet(Standard(r)) /\ IsFiniteSet(Weak(r))
             /\ IsFiniteSet(HighValue(r) \cup Standard(r))
             /\ Cardinality(HighValue(r)) \in Nat /\ Cardinality(Standard(r)) \in Nat
             /\ Cardinality(Weak(r)) \in Nat
             /\ Cardinality(HighValue(r) \cup Standard(r))
                  = Cardinality(HighValue(r)) + Cardinality(Standard(r))
             /\ SignalScore(Signals(r)) = 3 * Cardinality(HighValue(r))
                  + 2 * Cardinality(Standard(r)) + Cardinality(Weak(r))
  <2>1. IsFiniteSet(Signals(r))
    BY SignalsAreFinite
  <2>2. \A c : OfClass(Signals(r), c) \subseteq Signals(r)
    BY DEF OfClass
  <2>3. IsFiniteSet(HighValue(r)) /\ IsFiniteSet(Standard(r)) /\ IsFiniteSet(Weak(r))
    BY <2>1, <2>2, SignalClasses, FS_Subset
  <2>4. HighValue(r) \cap Standard(r) = {}
    BY SignalClasses DEF OfClass
  <2>5. Cardinality({}) = 0
    BY FS_EmptySet
  <2>6. Cardinality(HighValue(r)) \in Nat /\ Cardinality(Standard(r)) \in Nat
        /\ Cardinality(Weak(r)) \in Nat
    BY <2>3, FS_CardinalityType
  <2>7. /\ IsFiniteSet(HighValue(r) \cup Standard(r))
        /\ Cardinality(HighValue(r) \cup Standard(r))
             = Cardinality(HighValue(r)) + Cardinality(Standard(r))
    <3> DEFINE S == HighValue(r)
               T == Standard(r)
    <3>1. IsFiniteSet(S) /\ IsFiniteSet(T) /\ S \cap T = {}
      BY <2>3, <2>4
    <3>2. Cardinality(S) \in Int /\ Cardinality(T) \in Int
      BY <2>6
    <3> HIDE DEF S, T
    <3>3. /\ IsFiniteSet(S \cup T)
          /\ Cardinality(S \cup T) = Cardinality(S) + Cardinality(T) - Cardinality(S \cap T)
      BY <3>1, FS_Union
    <3>4. Cardinality(S \cap T) = 0
      BY <3>1, <2>5
    <3>5. Cardinality(S \cup T) = Cardinality(S) + Cardinality(T)
      BY <3>2, <3>3, <3>4
    <3> QED
      BY <3>3, <3>5 DEF S, T
  <2> QED
    BY <2>3, <2>6, <2>7, SignalClasses DEF SignalScore
<1>2. Cardinality(HighValue(g) \cup Standard(g)) <= Cardinality(HighValue(h) \cup Standard(h))
  BY <1>1, StrongSignalsGrow, FS_Injection
<1>3. Cardinality(HighValue(g)) <= Cardinality(HighValue(h))
  <2>1. HighValue(g) \subseteq HighValue(h)
    BY RowsGrow DEF HighValue, Signal, Carried
  <2> QED
    BY <2>1, <1>1, FS_Subset
<1>4. Cardinality(Weak(g)) <= Cardinality(Weak(h))
  <2>1. Weak(g) \subseteq Weak(h)
    BY RowsGrow DEF Weak, Signal
  <2> QED
    BY <2>1, <1>1, FS_Subset
<1> DEFINE hv(r) == Cardinality(HighValue(r))
           st(r) == Cardinality(Standard(r))
           wk(r) == Cardinality(Weak(r))
<1>5. \A r \in {g, h} : /\ hv(r) \in Nat /\ st(r) \in Nat /\ wk(r) \in Nat
                        /\ SignalScore(Signals(r)) = 3 * hv(r) + 2 * st(r) + wk(r)
  BY <1>1
<1>6. hv(g) + st(g) <= hv(h) + st(h) /\ hv(g) <= hv(h) /\ wk(g) <= wk(h)
  BY <1>1, <1>2, <1>3, <1>4
<1> HIDE DEF hv, st, wk
<1> QED
  BY <1>5, <1>6

\* No document more counts for at most as much.
LEMMA CounterShrinks ==
    ASSUME NEW g \in Records, NEW h \in Records, NEW today \in Int, Incriminates(g, h)
    PROVE  LET dossier(r) == assemble_dossier(r, today)
               counter(r) == CounterSubtraction(dossier(r).valid, dossier(r).expired)
           IN  counter(g) \in Int /\ counter(h) \in Int /\ counter(h) <= counter(g)
<1> DEFINE valid(r) == Dated(r) \ Expired(r, today)
           expired(r) == Expired(r, today)
<1>1. ASSUME NEW r \in Records
      PROVE  IsFiniteSet(valid(r)) /\ IsFiniteSet(expired(r))
  <2>1. DOMAIN r.validity = 1..Len(r.validity) /\ Len(r.validity) \in Int
    BY DEF Records
  <2>2. valid(r) \subseteq DOMAIN r.validity /\ expired(r) \subseteq DOMAIN r.validity
    BY DEF Expired, Dated, Elsewhere
  <2> QED
    BY <2>1, <2>2, FS_Interval, FS_Subset
<1>2. \A n \in DOMAIN h.validity : n \in DOMAIN g.validity /\ h.validity[n] = g.validity[n]
  BY DEF Records, Incriminates, Begins
<1>3. valid(h) \subseteq valid(g) /\ expired(h) \subseteq expired(g)
  BY <1>2 DEF Expired, Dated, Elsewhere
<1>4. /\ Cardinality(valid(h)) <= Cardinality(valid(g))
      /\ Cardinality(expired(h)) <= Cardinality(expired(g))
  BY <1>1, <1>3, FS_Subset
<1>5. /\ Cardinality(valid(g)) \in Nat /\ Cardinality(expired(g)) \in Nat
      /\ Cardinality(valid(h)) \in Nat /\ Cardinality(expired(h)) \in Nat
  BY <1>1, FS_CardinalityType
<1>6. \A r : /\ assemble_dossier(r, today).valid = valid(r)
             /\ assemble_dossier(r, today).expired = expired(r)
  BY DEF assemble_dossier
<1> HIDE DEF valid, expired
<1> QED
  BY <1>4, <1>5, <1>6 DEF CounterSubtraction

\* A higher score is in no lower band.
LEMMA BandGrows ==
    ASSUME NEW a \in Int, NEW b \in Int, a <= b
    PROVE  Band(a) \in 1..5 /\ Band(b) \in 1..5 /\ Band(a) <= Band(b)
  BY DEF Band

\* The five bands propose five different actions.
LEMMA ProposalsDiffer ==
    /\ DOMAIN Proposals = 1..5
    /\ \A i, j \in 1..5 : Proposals[i] = Proposals[j] => i = j
    /\ \A i \in 1..5 : Proposals[i] = "propose_edd_rfi" <=> i = 2
  BY DEF Proposals

\* The place of a dossier's proposal, for any records.
LEMMA WeighingIsMonotone ==
    ASSUME NEW g \in Records, NEW h \in Records, NEW today \in Int, Incriminates(g, h)
    PROVE  Band(net_presence_score(assemble_dossier(g, today)))
             <= Band(net_presence_score(assemble_dossier(h, today)))
<1> DEFINE net(r) == net_presence_score(assemble_dossier(r, today))
           score(r) == SignalScore(Signals(r))
           counter(r) == CounterSubtraction(assemble_dossier(r, today).valid,
                                            assemble_dossier(r, today).expired)
<1>1. \A r : net(r) = score(r) - counter(r)
  BY Zenon DEF net_presence_score, assemble_dossier
<1>2. score(g) \in Int /\ score(h) \in Int /\ score(g) <= score(h)
  BY ScoreGrows
<1>3. counter(g) \in Int /\ counter(h) \in Int /\ counter(h) <= counter(g)
  BY CounterShrinks
<1>4. net(g) \in Int /\ net(h) \in Int /\ net(g) <= net(h)
  <2> HIDE DEF net, score, counter
  <2> QED
    BY <1>1, <1>2, <1>3
<1> QED
  BY <1>4, BandGrows
Weighed == AfterWorksheet \cup {"verify", "worksheet"}

GeoInv ==
    /\ world \in Worlds
    /\ {"dossiers", "proposals"} \subseteq DOMAIN result
    /\ stage \notin Weighed \cup {"propose", "raised"} => DOMAIN result.proposals = {}
    /\ stage = "propose" => result.dossiers = Dossiers
    /\ stage \in Weighed =>
         /\ DOMAIN result.proposals = DOMAIN Dossiers
         /\ \A u \in DOMAIN Dossiers : result.proposals[u] = Proposal(u, Dossiers[u])

\* A dossier depends on the world alone.
LEMMA DossiersOfWorld ==
    /\ DOMAIN Dossiers = {u \in Accounts :
                            world.territory = "profiled" /\ Signals(world.geo[u]) # {}}
    /\ \A u \in DOMAIN Dossiers :
          Dossiers[u] = assemble_dossier(world.geo[u], world.today)
  BY DEF Dossiers, Surfaces, assemble_dossier

\* What a proposal says of its dossier.
LEMMA ProposalFields ==
    ASSUME NEW u, NEW d
    PROVE  LET rfi == decide_geo_action(d) = "propose_edd_rfi" IN
           /\ Proposal(u, d).outcome = decide_geo_action(d)
           /\ Proposal(u, d).asked = (rfi /\ "tipping" \notin world.terms[u])
           /\ Proposal(u, d).withheld = (rfi /\ "tipping" \in world.terms[u])
  BY Zenon DEF Proposal

\* Dossiers and proposals stay what the world gives.
LEMMA GeoHolds == Spec => []GeoInv
<1>1. Init => GeoInv
  BY DEF Init, GeoInv, NothingFound, Weighed, AfterWorksheet
<1>2. ASSUME GeoInv, [Next]_vars
      PROVE  GeoInv'
  <2> USE <1>2
  <2>1. CASE GeoTriangulate
    <3>1. /\ stage = "locate" /\ stage' = (IF DOMAIN Dossiers = {} THEN "verify" ELSE "propose")
          /\ result' = [result EXCEPT !.dossiers = Dossiers] /\ UNCHANGED world
      BY <2>1 DEF GeoTriangulate, Goto
    <3>2. /\ DOMAIN result.proposals = {} /\ result'.proposals = result.proposals
          /\ result'.dossiers = Dossiers /\ Dossiers' = Dossiers /\ DOMAIN result' = DOMAIN result
      BY <3>1 DEF GeoInv, Weighed, AfterWorksheet, Dossiers
    <3> QED
      BY <3>1, <3>2 DEF GeoInv, Weighed, AfterWorksheet
  <2>2. CASE GeoPropose
    <3>1. /\ stage = "propose" /\ stage' = "verify" /\ UNCHANGED world
          /\ result.dossiers = Dossiers
      BY <2>2 DEF GeoPropose, Goto, GeoInv
    <3>2. result' = [result EXCEPT !.proposals = [u \in DOMAIN Dossiers |-> Proposal(u, Dossiers[u])]]
      BY <2>2, <3>1 DEF GeoPropose
    <3>3. Dossiers' = Dossiers /\ \A u, d : Proposal(u, d)' = Proposal(u, d)
      BY <3>1 DEF Dossiers, Proposal
    <3> QED
      BY <3>1, <3>2, <3>3 DEF GeoInv, Weighed, AfterWorksheet
  <2>3. CASE ProximityRing
    <3>1. /\ stage = "ring" /\ UNCHANGED <<world, result.proposals, DOMAIN result>>
          /\ stage' = (IF world.territory = "no" THEN "verify" ELSE "locate")
      BY <2>3 DEF ProximityRing, Goto, GeoInv
    <3>2. DOMAIN result'.proposals = {}
      BY <3>1 DEF GeoInv, Weighed, AfterWorksheet
    <3>3. stage' = "verify" => DOMAIN Dossiers' = {}
      BY <3>1 DEF Dossiers
    <3> QED
      BY <3>1, <3>2, <3>3 DEF GeoInv, Weighed, AfterWorksheet
  <2>4. CASE /\ UNCHANGED <<world, result.proposals, DOMAIN result>>
             /\ stage' = "propose" => stage = "propose" /\ UNCHANGED result.dossiers
             /\ stage' \in Weighed => stage \in Weighed
             /\ stage' \notin Weighed \cup {"propose", "raised"} =>
                  stage \notin Weighed \cup {"propose", "raised"}
    <3>1. Dossiers' = Dossiers /\ \A u, d : Proposal(u, d)' = Proposal(u, d)
      BY <2>4 DEF Dossiers, Proposal
    <3> QED
      BY <2>4, <3>1 DEF GeoInv
  <2>5. CASE Open
    BY <2>5, <2>4 DEF Open, Goto, GeoInv, Weighed, AfterWorksheet
  <2>6. CASE NameScreen
    BY <2>6, <2>4 DEF NameScreen, Goto, GeoInv, Weighed, AfterWorksheet
  <2>7. CASE Corroborate
    BY <2>7, <2>4 DEF Corroborate, Goto, GeoInv, Weighed, AfterWorksheet
  <2>8. CASE OwnershipWalk
    BY <2>8, <2>4 DEF OwnershipWalk, Goto, GeoInv, Weighed, AfterWorksheet
  <2>9. CASE Expose
    BY <2>9, <2>4 DEF Expose, Goto, GeoInv, Weighed, AfterWorksheet
  <2>10. CASE Walk
    BY <2>10, <2>4 DEF Walk, Goto, GeoInv, Weighed, AfterWorksheet
  <2>11. CASE ExposureSweep
    BY <2>11, <2>4 DEF ExposureSweep, Goto, GeoInv, Weighed, AfterWorksheet
  <2>12. CASE BlockVerify
    BY <2>12, <2>4 DEF BlockVerify, Goto, GeoInv, Weighed, AfterWorksheet
  <2>13. CASE WorksheetBuild
    BY <2>13, <2>4 DEF WorksheetBuild, Goto, GeoInv, Weighed, AfterWorksheet
  <2>14. CASE WorksheetRaises
    BY <2>14, <2>4 DEF WorksheetRaises, Goto, GeoInv, Weighed, AfterWorksheet
  <2>15. CASE EscalationsDraft
    BY <2>15, <2>4 DEF EscalationsDraft, Goto, GeoInv, Weighed, AfterWorksheet
  <2>16. CASE IdentityReviewRfi
    BY <2>16, <2>4 DEF IdentityReviewRfi, Goto, GeoInv, Weighed, AfterWorksheet
  <2>17. CASE SweepComplete \/ WriteSweepPackage \/ Packaged \/ Abort \/ UNCHANGED vars
    BY <2>17, <2>4 DEF SweepComplete, WriteSweepPackage, Packaged, Abort, vars, Goto, Weighed,
                       AfterWorksheet
  <2> QED
    BY <2>1, <2>2, <2>3, <2>5, <2>6, <2>7, <2>8, <2>9, <2>10,
       <2>11, <2>12, <2>13, <2>14, <2>15, <2>16, <2>17 DEF Next
<1> QED
  BY <1>1, <1>2, PTL DEF Spec

(***************************************************************************)
(* For any records and any date: exactly the accounts some record places   *)
(* in the territory are surfaced, none without a proposal; an account with *)
(* all the incriminating records of another, and no document more, is      *)
(* never proposed the weaker action (geo/signals.py, sweep/geo_proposal).  *)
(***************************************************************************)
THEOREM TotalityIsAlwaysWeighed == Spec => []TotalityIsWeighed
<1>1. GeoInv => TotalityIsWeighed
  <2> SUFFICES ASSUME GeoInv, stage \in Weighed PROVE TotalityIsWeighed
    BY DEF TotalityIsWeighed, Weighed
  <2> DEFINE surfaced == DOMAIN result.proposals
             d(u) == assemble_dossier(world.geo[u], world.today)
             place(u) == Band(net_presence_score(d(u)))
  <2>1. world.geo \in [Accounts -> Records] /\ world.today \in Int
    BY SweepAssumption DEF IdentityTables, GeoInv
  <2>2. \A u \in Accounts : world.geo[u] \in Records
    BY <2>1
  <2>3. surfaced = {u \in Accounts : world.territory = "profiled" /\ Located(world.geo[u])}
    BY <2>2, DossiersOfWorld, SignalsAreLocations DEF GeoInv
  <2>4. \A u \in surfaced : result.proposals[u] = Proposal(u, d(u))
    BY DossiersOfWorld DEF GeoInv
  <2>5. \A u \in surfaced : place(u) \in 1..5
    BY DEF Band
  <2>6. \A u \in surfaced : result.proposals[u].outcome = Proposals[place(u)]
    BY <2>4, ProposalFields, Zenon DEF decide_geo_action
  <2>7. \A u \in surfaced : Severity(u) = place(u)
    <3> HIDE DEF place, surfaced
    <3> QED
      BY <2>5, <2>6, ProposalsDiffer DEF Severity
  <2>8. ASSUME NEW u \in surfaced, NEW v \in surfaced, Incriminates(world.geo[u], world.geo[v])
        PROVE  Severity(u) <= Severity(v)
    <3>1. world.geo[u] \in Records /\ world.geo[v] \in Records
      BY <2>2, <2>3
    <3>2. place(u) <= place(v)
      BY <3>1, <2>1, <2>8, WeighingIsMonotone
    <3> QED
      BY <3>2, <2>7
  <2>9. ASSUME NEW u \in surfaced
        PROVE  LET p == result.proposals[u] IN
               /\ p.asked \/ p.withheld <=> Severity(u) = 2
               /\ p.asked => "tipping" \notin world.terms[u]
    <3> DEFINE p == result.proposals[u]
               rfi == p.outcome = "propose_edd_rfi"
    <3>1. p = Proposal(u, d(u))
      BY <2>4, <2>9
    <3>2. /\ p.asked <=> rfi /\ "tipping" \notin world.terms[u]
          /\ p.withheld <=> rfi /\ "tipping" \in world.terms[u]
      BY <3>1, ProposalFields, Zenon
    <3>3. rfi <=> Severity(u) = 2
      <4> HIDE DEF place
      <4> QED
        BY <2>9, <2>5, <2>6, <2>7, ProposalsDiffer
    <3> QED
      BY <3>2, <3>3
  <2> QED
    BY <2>3, <2>8, <2>9 DEF TotalityIsWeighed
<1> QED
  BY <1>1, GeoHolds, PTL
-----------------------------------------------------------------------------
(* What the sweep holds at each stage.                                     *)

AfterVerify == AfterWorksheet \cup {"worksheet"}

ExposureTaken ==
    /\ result.hops = HopsByUid
    /\ result.legs = DrivingLegs(dist, HopsByUid)
    /\ result.adjacent = Adjacent(ExposedAccounts)

Parties == {u \in ResolvedParties : u \in world.individuals}

TheRing == RingMembers(Parties, Accounts \ (Exposed \cup AdjacentUids \cup Parties))

EscalationsDrafted ==
    /\ result.drafted = {e \in Escalations : ~ Refused(e.uid)}
    /\ result.suppressed = {e \in Escalations : Refused(e.uid)}

\* What each stage found is what it would find again: nothing it read has
\* changed since.
FoundInv ==
    /\ world \in Worlds /\ stage \in Stages
    /\ DOMAIN result = DOMAIN NothingFound
    /\ stage \notin {"open", "screen", "corroborate", "ownership", "raised"} =>
         result.ownership = Ownership(ResolvedParties)
    /\ stage \in Walked => ExposureTaken
    /\ stage \in AfterRing => result.ring = TheRing
    /\ stage \in AfterVerify => result.gaps = verify_block_status
    /\ stage \in AfterWorksheet => result.rows = Rows
    /\ stage \in AfterEscalation => EscalationsDrafted
    /\ stage \in {"open", "screen", "corroborate", "ownership", "expose", "walk", "ring", "locate"} =>
         DOMAIN result.dossiers = {}
    /\ stage \in Weighed \cup {"propose"} => DOMAIN result.dossiers = DOMAIN Dossiers

\* What a stage reads off the tables, and off what the sweep holds, is the same
\* as long as they are.
LEMMA SameTables ==
    ASSUME UNCHANGED world
    PROVE  /\ verify_block_status' = verify_block_status
           /\ Dossiers' = Dossiers
           /\ \A exposed : Adjacent(exposed)' = Adjacent(exposed)
           /\ \A parties : Ownership(parties)' = Ownership(parties)
           /\ \A u : Refused(u)' = Refused(u)
<1>1. verify_block_status' = verify_block_status
  BY DEF verify_block_status
<1>2. Dossiers' = Dossiers
  BY DEF Dossiers
<1>3. \A exposed : Adjacent(exposed)' = Adjacent(exposed)
  BY DEF Adjacent, LinkTypes
<1>4. \A parties : Ownership(parties)' = Ownership(parties)
  BY DEF Ownership
<1>5. \A u : Refused(u)' = Refused(u)
  BY DEF Refused
<1> QED
  BY <1>1, <1>2, <1>3, <1>4, <1>5

\* What the later stages derive is the same where its inputs are.
LEMMA SameWalk ==
    ASSUME UNCHANGED <<world, dist>>
    PROVE  /\ HopsByUid' = HopsByUid /\ ExposedAccounts' = ExposedAccounts
           /\ DrivingLegs(dist, HopsByUid)' = DrivingLegs(dist, HopsByUid)
           /\ Adjacent(ExposedAccounts)' = Adjacent(ExposedAccounts)
<1>1. ExposedAccounts' = ExposedAccounts
  BY DEF ExposedAccounts, ClusterOf
<1>2. HopsByUid' = HopsByUid
  BY <1>1 DEF HopsByUid, Hops, ClusterOf
<1>3. DrivingLegs(dist, HopsByUid)' = DrivingLegs(dist, HopsByUid)
  BY <1>2 DEF DrivingLegs, ClusterOf
<1>4. Adjacent(ExposedAccounts)' = Adjacent(ExposedAccounts)
  BY <1>1 DEF Adjacent, LinkTypes
<1> QED
  BY <1>1, <1>2, <1>3, <1>4

\* Hits, given the screens.
LEMMA SameHits ==
    ASSUME UNCHANGED <<world, result.direct, result.variant, result.corroboration>>
    PROVE  /\ ResolvedParties' = ResolvedParties /\ Parties' = Parties
           /\ Ownership(ResolvedParties)' = Ownership(ResolvedParties)
<1>1. ResolvedParties' = ResolvedParties
  BY DEF ResolvedParties, Outcome
<1>2. Parties' = Parties
  BY <1>1 DEF Parties
<1>3. Ownership(ResolvedParties)' = Ownership(ResolvedParties)
  BY <1>1 DEF Ownership
<1> QED
  BY <1>1, <1>2, <1>3

\* The ring, given hits and distances.
LEMMA SameRing ==
    ASSUME UNCHANGED <<world, result.direct, result.variant, result.corroboration,
                       result.hops, result.adjacent>>
    PROVE  TheRing' = TheRing
<1>1. Parties' = Parties /\ Exposed' = Exposed /\ AdjacentUids' = AdjacentUids
  BY SameHits DEF Exposed, AdjacentUids
<1> QED
  BY <1>1 DEF TheRing, RingMembers, PrimarySignals, WeightingSignals, Shared

\* The worksheet, given all of these.
LEMMA SameRows ==
    ASSUME UNCHANGED <<world, result.direct, result.variant, result.corroboration,
                       result.hops, result.legs, result.adjacent, result.gaps>>
    PROVE  Rows' = Rows
<1>1. Exposed' = Exposed /\ AdjacentUids' = AdjacentUids /\ \A u : Outcome(u)' = Outcome(u)
  BY DEF Exposed, AdjacentUids, Outcome
<1>2. \A u, kind, links : Row(u, kind, links)' = Row(u, kind, links)
  BY DEF Row, ActionFor, HoldStatus, Timing
<1> QED
  BY <1>1, <1>2 DEF Rows

\* Escalations, given the worksheet.
LEMMA SameEscalations ==
    ASSUME UNCHANGED <<world, result.rows>>
    PROVE  Escalations' = Escalations
  BY DEF Escalations, GapRows, UnheldRows

\* Each stage finds what its definition says of the world, and no later stage
\* changes it.
LEMMA FoundHolds == Spec => []FoundInv
<1>1. Init => FoundInv
  BY DEF Init, FoundInv, NothingFound, Stages, Walked, AfterRing, AfterVerify, AfterWorksheet,
         AfterEscalation, Weighed
<1>2. ASSUME FoundInv, [Next]_vars
      PROVE  FoundInv'
  <2> USE <1>2
  <2>1. CASE Open
    <3>1. /\ stage = "open" /\ stage' = "screen" /\ UNCHANGED <<world, DOMAIN result>>
          /\ UNCHANGED <<result.direct, result.variant, result.corroboration, result.ownership,
                         result.hops, result.legs, result.adjacent, result.ring, result.gaps,
                         result.rows, result.drafted, result.suppressed, result.dossiers, dist>>
      BY <2>1 DEF Open, Goto, FoundInv, NothingFound
    <3> QED
      BY <3>1 DEF FoundInv, Stages, Walked, AfterRing, AfterVerify, AfterWorksheet,
                  AfterEscalation, Weighed
  <2>2. CASE NameScreen
    <3>1. /\ stage = "screen" /\ stage' = "corroborate" /\ UNCHANGED <<world, DOMAIN result>>
          /\ UNCHANGED <<result.corroboration, result.ownership, result.hops, result.legs,
                         result.adjacent, result.ring, result.gaps, result.rows, result.drafted,
                         result.suppressed, result.dossiers>>
      BY <2>2 DEF NameScreen, Goto, FoundInv, NothingFound
    <3> QED
      BY <3>1 DEF FoundInv, Stages, Walked, AfterRing, AfterVerify, AfterWorksheet,
                  AfterEscalation, Weighed
  <2>3. CASE Corroborate
    <3>1. /\ stage = "corroborate" /\ stage' = "ownership" /\ UNCHANGED <<world, DOMAIN result>>
          /\ UNCHANGED <<result.direct, result.variant, result.ownership, result.hops,
                         result.legs, result.adjacent, result.ring, result.gaps, result.rows,
                         result.drafted, result.suppressed, result.dossiers>>
      BY <2>3 DEF Corroborate, Goto, FoundInv, NothingFound
    <3> QED
      BY <3>1 DEF FoundInv, Stages, Walked, AfterRing, AfterVerify, AfterWorksheet,
                  AfterEscalation, Weighed
  <2>4. CASE OwnershipWalk
    <3>1. /\ stage = "ownership" /\ stage' = "expose" /\ UNCHANGED <<world, DOMAIN result>>
          /\ UNCHANGED <<result.direct, result.variant, result.corroboration, result.hops,
                         result.legs, result.adjacent, result.ring, result.gaps, result.rows,
                         result.drafted, result.suppressed, result.dossiers>>
      BY <2>4 DEF OwnershipWalk, Goto, FoundInv, NothingFound
    <3>2. result'.ownership = Ownership(ResolvedParties)
      BY <2>4, <3>1, <1>2 DEF OwnershipWalk, FoundInv, NothingFound
    <3> QED
      BY <3>1, <3>2, SameHits DEF FoundInv, Stages, Walked, AfterRing, AfterVerify,
                                  AfterWorksheet, AfterEscalation, Weighed
  <2>5. CASE Expose
    <3>1. /\ stage = "expose" /\ stage' = "walk" /\ UNCHANGED <<world, DOMAIN result>>
          /\ UNCHANGED <<result.direct, result.variant, result.corroboration, result.ownership,
                         result.hops, result.legs, result.adjacent, result.ring, result.gaps,
                         result.rows, result.drafted, result.suppressed, result.dossiers>>
      BY <2>5 DEF Expose, Goto, FoundInv, NothingFound
    <3> QED
      BY <3>1, SameHits DEF FoundInv, Stages, Walked, AfterRing, AfterVerify, AfterWorksheet,
                            AfterEscalation, Weighed
  <2>6. CASE Walk
    <3>1. /\ stage = "walk" /\ stage' = "walk" /\ UNCHANGED <<world, DOMAIN result>>
          /\ UNCHANGED <<result.direct, result.variant, result.corroboration, result.ownership,
                         result.hops, result.legs, result.adjacent, result.ring, result.gaps,
                         result.rows, result.drafted, result.suppressed, result.dossiers>>
      BY <2>6 DEF Walk, FoundInv, NothingFound
    <3> QED
      BY <3>1, SameHits DEF FoundInv, Stages, Walked, AfterRing, AfterVerify, AfterWorksheet,
                            AfterEscalation, Weighed
  <2>7. CASE ExposureSweep
    <3>1. /\ stage = "walk" /\ stage' = "ring" /\ UNCHANGED <<world, DOMAIN result>>
          /\ UNCHANGED <<result.direct, result.variant, result.corroboration, result.ownership,
                         result.ring, result.gaps, result.rows, result.drafted,
                         result.suppressed, result.dossiers, dist>>
      BY <2>7 DEF ExposureSweep, Goto, FoundInv, NothingFound
    <3>2. /\ result'.hops = HopsByUid /\ result'.legs = DrivingLegs(dist, HopsByUid)
          /\ result'.adjacent = Adjacent(ExposedAccounts)
      BY <2>7, <3>1, <1>2 DEF ExposureSweep, FoundInv, NothingFound
    <3> QED
      BY <3>1, <3>2, SameHits, SameWalk DEF FoundInv, ExposureTaken, Stages, Walked, AfterRing,
                                            AfterVerify, AfterWorksheet, AfterEscalation, Weighed
  <2>8. CASE ProximityRing
    <3>1. /\ stage = "ring" /\ stage' = (IF world.territory = "no" THEN "verify" ELSE "locate")
          /\ UNCHANGED <<world, DOMAIN result>>
          /\ UNCHANGED <<result.direct, result.variant, result.corroboration, result.ownership,
                         result.hops, result.legs, result.adjacent, result.gaps, result.rows,
                         result.drafted, result.suppressed, result.dossiers, dist>>
      BY <2>8 DEF ProximityRing, Goto, FoundInv, NothingFound
    <3>2. result'.ring = TheRing
      BY <2>8, <3>1, <1>2 DEF ProximityRing, TheRing, Parties, FoundInv, NothingFound
    <3> QED
      BY <3>1, <3>2, SameHits, SameWalk, SameRing, SameTables DEF FoundInv, ExposureTaken,
                                                  Dossiers, Stages, Walked, AfterRing,
         AfterVerify, AfterWorksheet, AfterEscalation, Weighed
  <2>9. CASE GeoTriangulate
    <3>1. /\ stage = "locate" /\ stage' = (IF DOMAIN Dossiers = {} THEN "verify" ELSE "propose")
          /\ UNCHANGED <<world, DOMAIN result>>
          /\ UNCHANGED <<result.direct, result.variant, result.corroboration, result.ownership,
                         result.hops, result.legs, result.adjacent, result.ring, result.gaps,
                         result.rows, result.drafted, result.suppressed, dist>>
      BY <2>9 DEF GeoTriangulate, Goto, FoundInv, NothingFound
    <3>2. result'.dossiers = Dossiers
      BY <2>9, <3>1, <1>2 DEF GeoTriangulate, FoundInv, NothingFound
    <3> QED
      BY <3>1, <3>2, SameHits, SameWalk, SameRing, SameTables DEF FoundInv, ExposureTaken,
                                                  Stages, Walked, AfterRing, AfterVerify,
         AfterWorksheet, AfterEscalation, Weighed
  <2>10. CASE GeoPropose
    <3>1. /\ stage = "propose" /\ stage' = "verify" /\ UNCHANGED <<world, DOMAIN result>>
          /\ UNCHANGED <<result.direct, result.variant, result.corroboration, result.ownership,
                         result.hops, result.legs, result.adjacent, result.ring, result.gaps,
                         result.rows, result.drafted, result.suppressed, result.dossiers, dist>>
      BY <2>10 DEF GeoPropose, Goto, FoundInv, NothingFound
    <3> QED
      BY <3>1, SameHits, SameWalk, SameRing, SameTables DEF FoundInv, ExposureTaken, Stages,
                                                  Walked, AfterRing, AfterVerify, AfterWorksheet,
         AfterEscalation, Weighed
  <2>11. CASE BlockVerify
    <3>1. /\ stage = "verify" /\ stage' = "worksheet" /\ UNCHANGED <<world, DOMAIN result>>
          /\ UNCHANGED <<result.direct, result.variant, result.corroboration, result.ownership,
                         result.hops, result.legs, result.adjacent, result.ring, result.rows,
                         result.drafted, result.suppressed, result.dossiers, dist>>
      BY <2>11 DEF BlockVerify, Goto, FoundInv, NothingFound
    <3>2. result'.gaps = verify_block_status
      BY <2>11, <3>1, <1>2 DEF BlockVerify, FoundInv, NothingFound
    <3> QED
      BY <3>1, <3>2, SameHits, SameWalk, SameRing, SameTables DEF FoundInv, ExposureTaken,
                                                  Stages, Walked, AfterRing, AfterVerify,
         AfterWorksheet, AfterEscalation, Weighed
  <2>12. CASE WorksheetBuild
    <3>1. /\ stage = "worksheet" /\ stage' = "escalate" /\ UNCHANGED <<world, DOMAIN result>>
          /\ UNCHANGED <<result.direct, result.variant, result.corroboration, result.ownership,
                         result.hops, result.legs, result.adjacent, result.ring, result.gaps,
                         result.drafted, result.suppressed, result.dossiers, dist>>
      BY <2>12 DEF WorksheetBuild, Goto, FoundInv, NothingFound
    <3>2. result'.rows = Rows
      BY <2>12, <3>1, <1>2 DEF WorksheetBuild, FoundInv, NothingFound
    <3> QED
      BY <3>1, <3>2, SameHits, SameWalk, SameRing, SameTables, SameRows
         DEF FoundInv, ExposureTaken, Stages, Walked, AfterRing, AfterVerify, AfterWorksheet,
             AfterEscalation, Weighed
  <2>13. CASE EscalationsDraft
    <3>1. /\ stage = "escalate" /\ stage' = "ask" /\ UNCHANGED <<world, DOMAIN result>>
          /\ UNCHANGED <<result.direct, result.variant, result.corroboration, result.ownership,
                         result.hops, result.legs, result.adjacent, result.ring, result.gaps,
                         result.rows, result.dossiers, dist>>
      BY <2>13 DEF EscalationsDraft, Goto, FoundInv, NothingFound
    <3>2. /\ result'.drafted = {e \in Escalations : ~Refused(e.uid)}
          /\ result'.suppressed = {e \in Escalations : Refused(e.uid)}
      BY <2>13, <3>1, <1>2 DEF EscalationsDraft, FoundInv, NothingFound
    <3> QED
      BY <3>1, <3>2, SameHits, SameWalk, SameRing, SameTables, SameRows, SameEscalations
         DEF FoundInv, ExposureTaken, EscalationsDrafted, Stages, Walked, AfterRing, AfterVerify,
             AfterWorksheet, AfterEscalation, Weighed
  <2>14. CASE IdentityReviewRfi
    <3>1. /\ stage = "ask" /\ stage' = "complete" /\ UNCHANGED <<world, DOMAIN result>>
          /\ UNCHANGED <<result.direct, result.variant, result.corroboration, result.ownership,
                         result.hops, result.legs, result.adjacent, result.ring, result.gaps,
                         result.rows, result.drafted, result.suppressed, result.dossiers, dist>>
      BY <2>14 DEF IdentityReviewRfi, Goto, FoundInv, NothingFound
    <3> QED
      BY <3>1, SameHits, SameWalk, SameRing, SameTables, SameRows, SameEscalations
         DEF FoundInv, ExposureTaken, EscalationsDrafted, Stages, Walked, AfterRing, AfterVerify,
             AfterWorksheet, AfterEscalation, Weighed
  <2>15. CASE SweepComplete
    <3>1. /\ stage = "complete" /\ stage' = "package" /\ UNCHANGED <<world, DOMAIN result>>
          /\ UNCHANGED <<result.direct, result.variant, result.corroboration, result.ownership,
                         result.hops, result.legs, result.adjacent, result.ring, result.gaps,
                         result.rows, result.drafted, result.suppressed, result.dossiers, dist>>
      BY <2>15 DEF SweepComplete, Goto, FoundInv, NothingFound
    <3> QED
      BY <3>1, SameHits, SameWalk, SameRing, SameTables, SameRows, SameEscalations
         DEF FoundInv, ExposureTaken, EscalationsDrafted, Stages, Walked, AfterRing, AfterVerify,
             AfterWorksheet, AfterEscalation, Weighed
  <2>16. CASE WriteSweepPackage
    <3>1. /\ stage = "package" /\ stage' = "stamp" /\ UNCHANGED <<world, DOMAIN result>>
          /\ UNCHANGED <<result.direct, result.variant, result.corroboration, result.ownership,
                         result.hops, result.legs, result.adjacent, result.ring, result.gaps,
                         result.rows, result.drafted, result.suppressed, result.dossiers, dist>>
      BY <2>16 DEF WriteSweepPackage, Goto, FoundInv, NothingFound
    <3> QED
      BY <3>1, SameHits, SameWalk, SameRing, SameTables, SameRows, SameEscalations
         DEF FoundInv, ExposureTaken, EscalationsDrafted, Stages, Walked, AfterRing, AfterVerify,
             AfterWorksheet, AfterEscalation, Weighed
  <2>17. CASE Packaged
    <3>1. /\ stage = "stamp" /\ stage' = "done" /\ UNCHANGED <<world, DOMAIN result>>
          /\ UNCHANGED <<result.direct, result.variant, result.corroboration, result.ownership,
                         result.hops, result.legs, result.adjacent, result.ring, result.gaps,
                         result.rows, result.drafted, result.suppressed, result.dossiers, dist>>
      BY <2>17 DEF Packaged, Goto, FoundInv, NothingFound
    <3> QED
      BY <3>1, SameHits, SameWalk, SameRing, SameTables, SameRows, SameEscalations
         DEF FoundInv, ExposureTaken, EscalationsDrafted, Stages, Walked, AfterRing, AfterVerify,
             AfterWorksheet, AfterEscalation, Weighed
  <2>18. CASE WorksheetRaises \/ Abort
    BY <2>18 DEF WorksheetRaises, Abort, Goto, FoundInv, Stages, Walked, AfterRing, AfterVerify,
                 AfterWorksheet, AfterEscalation, Weighed
  <2>19. CASE UNCHANGED vars
    <3>1. UNCHANGED <<world, dist, stage, result>>
      BY <2>19 DEF vars
    <3> QED
      BY <3>1, SameHits, SameWalk, SameRing, SameTables, SameRows, SameEscalations
         DEF FoundInv, ExposureTaken, EscalationsDrafted
  <2> QED
    BY <2>1, <2>2, <2>3, <2>4, <2>5, <2>6, <2>7, <2>8, <2>9, <2>10, <2>11, <2>12, <2>13, <2>14,
       <2>15, <2>16, <2>17, <2>18, <2>19 DEF Next
<1> QED
  BY <1>1, <1>2, PTL DEF Spec

\* The least distance over an account's own node and its wallets.
LEMMA HopsAreLeast ==
    ASSUME world \in Worlds, Exact, NEW u \in ExposedAccounts
    PROVE  /\ Hops(u) \in 0..Cardinality(Nodes)
           /\ \E n \in ClusterOf(u) \cap DOMAIN dist : dist[n] = Hops(u)
           /\ \A n \in ClusterOf(u) \cap DOMAIN dist : Hops(u) <= dist[n]
<1> DEFINE C == ClusterOf(u) \cap DOMAIN dist
           T == {dist[n] : n \in C}
<1>1. C # {} /\ \A n \in C : dist[n] \in 0..Cardinality(Nodes)
  BY LevelIsDistance DEF ExposedAccounts
<1>2. Cardinality(Nodes) \in Nat
  BY NodesAreFinite, FS_CardinalityType
<1>3. T \subseteq Nat /\ T # {}
  BY <1>1, <1>2
<1>4. PICK k \in T : \A m \in T : k <= m
  <2>1. PICK k \in T : \A m \in T : <<m, k>> \notin OpToRel(<, Nat)
    BY <1>3, NatLessThanWellFounded, WFMin
  <2>2. ASSUME NEW m \in T PROVE k <= m
    <3>1. <<m, k>> \notin OpToRel(<, Nat) /\ m \in Nat /\ k \in Nat
      BY <1>3, <2>1, <2>2
    <3> QED
      BY <3>1 DEF OpToRel
  <2> QED
    BY <2>2
<1>5. \A n \in C : k <= dist[n]
  BY <1>4
<1>6. Hops(u) \in T /\ \A n \in C : Hops(u) <= dist[n]
  <2> HIDE DEF T
  <2> DEFINE Is(h) == h \in T /\ \A n \in C : h <= dist[n]
  <2>1. Hops(u) = CHOOSE h \in T : \A n \in C : h <= dist[n]
    BY DEF Hops, T
  <2>2. Is(k)
    BY <1>4, <1>5
  <2> HIDE DEF C
  <2> QED
    BY <2>1, <2>2
<1>7. \E n \in C : dist[n] = Hops(u)
  BY <1>6
<1> QED
  BY <1>1, <1>2, <1>6, <1>7

(***************************************************************************)
(* On any ledger and in any order of its payers the walk finds each node   *)
(* at the length of the shortest chain of payments from it to a listed     *)
(* address, each account at the least over its cluster, and cites exactly  *)
(* the payments that begin such a chain (sweep/exposure.py).               *)
(***************************************************************************)
THEOREM EveryHopIsShortest == Spec => []HopsAreShortest
<1>1. ASSUME SweepInv, FoundInv, stage \in AfterRing
      PROVE  HopsAreShortest
  <2> USE <1>1
  <2> DEFINE N == Cardinality(Nodes)
             W == WithinHops
             h(u) == result.hops[u]
  <2>1. world \in Worlds /\ Exact /\ ExposureTaken
    BY DEF SweepInv, FoundInv, Walked
  <2>2. N \in Nat
    BY NodesAreFinite, FS_CardinalityType
  <2>3. /\ \A k \in 0..N : W[k] = {n \in DOMAIN dist : dist[n] <= k}
        /\ W[N] = DOMAIN dist
        /\ \A n \in DOMAIN dist : dist[n] \in 0..N
    BY <2>1, LevelIsDistance
  <2>4. ASSUME NEW n \in DOMAIN dist
        PROVE  n \in W[dist[n]] /\ (dist[n] > 0 => n \notin W[dist[n] - 1])
    <3>1. dist[n] \in 0..N /\ (dist[n] > 0 => dist[n] - 1 \in 0..N)
      BY <2>2, <2>3
    <3> HIDE DEF W, N
    <3> QED
      BY <2>2, <2>3, <3>1
  <2>5. Exposed = ExposedAccounts /\ Exposed = Reaching
    BY <2>1, <2>3 DEF Exposed, ExposureTaken, HopsByUid, ExposedAccounts, Reaching
  <2>6. ASSUME NEW u \in Exposed
        PROVE  /\ h(u) \in 0..N
               /\ \E n \in ClusterOf(u) \cap DOMAIN dist : dist[n] = h(u)
               /\ \A n \in ClusterOf(u) \cap DOMAIN dist : h(u) <= dist[n]
    <3>1. h(u) = Hops(u) /\ u \in ExposedAccounts
      BY <2>1, <2>5, <2>6 DEF ExposureTaken, HopsByUid
    <3> QED
      BY <3>1, <2>1, HopsAreLeast
  <2>7. ASSUME NEW u \in Exposed
        PROVE  /\ ClusterOf(u) \cap W[h(u)] # {}
               /\ h(u) > 0 => ClusterOf(u) \cap W[h(u) - 1] = {}
    <3>1. h(u) \in 0..N /\ (h(u) > 0 => h(u) - 1 \in 0..N)
      BY <2>2, <2>6, <2>7
    <3>2. PICK n \in ClusterOf(u) \cap DOMAIN dist : dist[n] = h(u)
      BY <2>6, <2>7
    <3>3. \A m \in ClusterOf(u) \cap DOMAIN dist : h(u) <= dist[m] /\ dist[m] \in 0..N
      BY <2>3, <2>6, <2>7
    <3> HIDE DEF W, N, h
    <3> QED
      BY <2>2, <2>3, <3>1, <3>2, <3>3
  <2>8. ASSUME NEW u \in Exposed, h(u) > 0
        PROVE  result.legs[u] = {p \in world.pays : p[1] \in ClusterOf(u) /\ p[2] \in W[h(u) - 1]}
    <3>1. result.legs[u] = {p \in world.pays :
             p[1] \in ClusterOf(u) /\ p[2] \in DOMAIN dist /\ dist[p[2]] = h(u) - 1}
      <4>1. h(u) # 0
        BY <2>6, <2>8, <2>2
      <4>2. HopsByUid = result.hops /\ u \in DOMAIN result.hops
            /\ result.legs = DrivingLegs(dist, result.hops)
        BY <2>1, <2>8 DEF ExposureTaken, Exposed
      <4> QED
        BY <4>1, <4>2 DEF DrivingLegs
    <3>2. W[h(u) - 1] = {n \in DOMAIN dist : dist[n] <= h(u) - 1} /\ h(u) \in Nat
      <4>1. h(u) \in 0..N
        BY <2>6, <2>8
      <4>2. h(u) - 1 \in 0..N /\ h(u) \in Nat
        BY <4>1, <2>8, <2>2
      <4> QED
        BY <4>2, <2>3
    <3>3. ASSUME NEW p \in world.pays, p[1] \in ClusterOf(u), p[2] \in DOMAIN dist,
                 dist[p[2]] <= h(u) - 1
          PROVE  dist[p[2]] = h(u) - 1
      <4>1. p = <<p[1], p[2]>> /\ p[1] \in Nodes
        BY <2>1, FlowAssumption DEF Nodes
      <4>2. p[1] \in Payers(p[2])
        BY <4>1 DEF Payers
      <4>3. p[1] \in DOMAIN dist /\ dist[p[1]] <= dist[p[2]] + 1
        BY <2>1, <3>3, <4>2 DEF Exact, Settled
      <4>4. h(u) <= dist[p[1]]
        BY <2>6, <2>8, <3>3, <4>3
      <4>5. dist[p[1]] \in Nat /\ dist[p[2]] \in Nat
        BY <2>1, <3>3, <4>3 DEF Exact
      <4> HIDE DEF h
      <4> QED
        BY <3>2, <3>3, <4>3, <4>4, <4>5
    <3> HIDE DEF h, W
    <3> QED
      BY <3>1, <3>2, <3>3
  <2> HIDE DEF N
  <2> QED
    BY <2>4, <2>5, <2>7, <2>8 DEF HopsAreShortest
<1>2. SweepInv /\ FoundInv => HopsAreShortest
  BY <1>1 DEF HopsAreShortest
<1> QED
  BY <1>2, SweepInvariant, FoundHolds, PTL

\* Who the walk surfaces, by flow and by linkage.
LEMMA SurfacedAreLinked ==
    ASSUME SweepInv, FoundInv, stage \in Walked
    PROVE  /\ Exposed = Reaching /\ Reaching \subseteq Accounts
           /\ AdjacentUids = {u \in Accounts \ Reaching : LinkTypes(u, Reaching) # {}}
           /\ Exposed \cup AdjacentUids = Surfaced(Reaching)
<1>1. world \in Worlds /\ Exact /\ ExposureTaken
  BY DEF SweepInv, FoundInv
<1>2. Exposed = ExposedAccounts /\ ExposedAccounts = Reaching
  BY <1>1, LevelIsDistance DEF Exposed, ExposureTaken, HopsByUid, ExposedAccounts, Reaching
<1>3. result.adjacent = Adjacent(Reaching) /\ Reaching \subseteq Accounts
  BY <1>1, <1>2 DEF ExposureTaken, Reaching
<1> DEFINE linked == {u \in Accounts \ Reaching : LinkTypes(u, Reaching) # {}}
<1>4. AdjacentUids = linked
  <2> DEFINE link(u) == [uid |-> u, links |-> LinkTypes(u, Reaching)]
  <2>1. result.adjacent = {link(u) : u \in linked}
    BY <1>3 DEF Adjacent
  <2>2. \A u : link(u).uid = u
    OBVIOUS
  <2> HIDE DEF linked, link
  <2> QED
    BY <2>1, <2>2 DEF AdjacentUids
<1> QED
  BY <1>2, <1>3, <1>4 DEF Surfaced

\* A primary signal is a surname in common, or a relationship on file.
LEMMA SignalsTie ==
    ASSUME world \in Worlds, NEW u, NEW p
    PROVE  PrimarySignals(u, p) # {}
             <=> \/ world.surname[u] = world.surname[p] /\ world.surname[u] # ""
                 \/ {u, p} \in world.declared
                 \/ \E a \in world.asserted : a.pair = {u, p} /\ a.type # "other"
<1>1. PrimarySignals(u, p) # {}
        <=> \/ Shared(world.surname, u, p)
            \/ {u, p} \in world.declared
            \/ \E id \in {"relationship_remark", "kyc_document_cross_holding"} :
                 [pair |-> {u, p}, type |-> id] \in world.asserted
  BY DEF PrimarySignals
<1>2. \A a \in world.asserted :
         /\ a = [pair |-> a.pair, type |-> a.type]
         /\ a.type \in {"relationship_remark", "kyc_document_cross_holding", "other"}
  BY SweepAssumption DEF IdentityTables
<1>3. (\E id \in {"relationship_remark", "kyc_document_cross_holding"} :
         [pair |-> {u, p}, type |-> id] \in world.asserted)
        => \E a \in world.asserted : a.pair = {u, p} /\ a.type # "other"
  <2> SUFFICES ASSUME NEW id \in {"relationship_remark", "kyc_document_cross_holding"},
                      [pair |-> {u, p}, type |-> id] \in world.asserted
               PROVE  \E a \in world.asserted : a.pair = {u, p} /\ a.type # "other"
    OBVIOUS
  <2> DEFINE a == [pair |-> {u, p}, type |-> id]
  <2>1. a \in world.asserted /\ a.pair = {u, p} /\ a.type # "other"
    OBVIOUS
  <2> QED
    BY <2>1
<1>4. (\E a \in world.asserted : a.pair = {u, p} /\ a.type # "other")
        => \E id \in {"relationship_remark", "kyc_document_cross_holding"} :
             [pair |-> {u, p}, type |-> id] \in world.asserted
  BY <1>2
<1> QED
  BY <1>1, <1>3, <1>4 DEF Shared

(***************************************************************************)
(* On any tables a hit the identifiers contradict seeds neither the        *)
(* ownership walk nor the proximity ring, and the ring has every account   *)
(* tied to another one, once, under the first party it is tied to          *)
(* (identity/ownership.py, identity/proximity.py).                         *)
(***************************************************************************)
THEOREM NamesakesSeedNothing == Spec => []NamesakeSeedsNothing
<1>1. ASSUME SweepInv, FoundInv, AskInv, stage \in AfterRing
      PROVE  NamesakeSeedsNothing
  <2> USE <1>1
  <2> DEFINE party(p) == p \in world.individuals /\ Hit(p) /\ ~Contradicted(p)
             tied(u, p) == \/ world.surname[u] = world.surname[p] /\ world.surname[u] # ""
                           \/ {u, p} \in world.declared
                           \/ \E a \in world.asserted : a.pair = {u, p} /\ a.type # "other"
             known(u) == {p \in Accounts : party(p) /\ tied(u, p)}
             first(u) == {p \in known(u) : \A o \in known(u) : p <= o}
  <2>1. /\ stage \in Walked /\ world \in Worlds /\ HitsTaken /\ HitsWeighed
        /\ result.ring = TheRing /\ result.ownership = Ownership(ResolvedParties)
    BY DEF FoundInv, AskInv, Walked, AfterRing, AfterWorksheet
  <2>2. ResolvedParties = {u \in Accounts : Hit(u) /\ ~Contradicted(u)}
    BY <2>1, PartiesAreUncontradicted
  <2>3. ASSUME NEW f \in result.ownership
        PROVE  \E s \in world.stakes :
                 s.company = f.company /\ Hit(s.owner) /\ ~Contradicted(s.owner)
    <3>1. \E s \in world.stakes : s.company = f.company /\ s.owner \in ResolvedParties
      BY <2>1 DEF Ownership
    <3> QED
      BY <3>1, <2>2
  <2>4. /\ \A p \in Accounts : p \in Parties <=> party(p)
        /\ Parties \subseteq Accounts
    BY <2>2 DEF Parties
  <2>5. \A u, p : PrimarySignals(u, p) # {} <=> tied(u, p)
    BY <2>1, SignalsTie
  <2>6. /\ Exposed \cup AdjacentUids = Surfaced(Reaching)
    BY <2>1, SurfacedAreLinked
  <2>7. ASSUME NEW u \in Accounts
        PROVE  {m.party : m \in {m \in result.ring : m.uid = u}} =
                  IF u \in Surfaced(Reaching) \/ party(u) THEN {} ELSE first(u)
    <3> DEFINE candidates == Accounts \ (Surfaced(Reaching) \cup Parties)
               Fits(c, p) == /\ c \in candidates /\ p \in Parties
                             /\ PrimarySignals(c, p) # {}
                             /\ \A q \in Parties : q < p => PrimarySignals(c, q) = {}
               Member(c, p) == [uid |-> c, party |-> p, primary |-> PrimarySignals(c, p),
                                weighting |-> WeightingSignals(c, p)]
    <3>1. result.ring = RingMembers(Parties, candidates)
      <4>1. Accounts \ (Exposed \cup AdjacentUids \cup Parties) = candidates
        BY <2>6
      <4> QED
        BY <2>1, <4>1 DEF TheRing
    <3>2. \A m : m \in result.ring <=> \E c \in candidates, p \in Parties : Fits(c, p) /\ m = Member(c, p)
      <4>1. result.ring = {Member(m[1], m[2]) : m \in {m \in candidates \X Parties : Fits(m[1], m[2])}}
        BY <3>1 DEF RingMembers
      <4> HIDE DEF candidates, Member, Fits
      <4>2. \A c \in candidates, p \in Parties : Fits(c, p) => Member(c, p) \in result.ring
        <5> SUFFICES ASSUME NEW c \in candidates, NEW p \in Parties, Fits(c, p)
                     PROVE  Member(c, p) \in result.ring
          OBVIOUS
        <5>1. <<c, p>> \in candidates \X Parties /\ <<c, p>>[1] = c /\ <<c, p>>[2] = p
          OBVIOUS
        <5> QED
          BY <4>1, <5>1
      <4>3. ASSUME NEW r \in result.ring
            PROVE  \E c \in candidates, p \in Parties : Fits(c, p) /\ r = Member(c, p)
        <5>1. PICK m \in candidates \X Parties : Fits(m[1], m[2]) /\ r = Member(m[1], m[2])
          BY <4>1, <4>3
        <5>2. m[1] \in candidates /\ m[2] \in Parties
          OBVIOUS
        <5> QED
          BY <5>1, <5>2
      <4> QED
        BY <4>2, <4>3
    <3>3. \A c, p : Member(c, p).uid = c /\ Member(c, p).party = p
      OBVIOUS
    <3>4. {m.party : m \in {m \in result.ring : m.uid = u}} = {p \in Parties : Fits(u, p)}
      <4> HIDE DEF Fits, Member, candidates
      <4>1. \A p \in Parties : Fits(u, p) => u \in candidates
        BY DEF Fits
      <4> QED
        BY <3>2, <3>3, <4>1
    <3>5. CASE u \in Surfaced(Reaching) \/ party(u)
      <4>1. u \notin candidates
        BY <2>4, <3>5
      <4> QED
        BY <3>4, <3>5, <4>1
    <3>6. CASE ~(u \in Surfaced(Reaching) \/ party(u))
      <4>1. u \in candidates
        BY <2>4, <3>6
      <4>2. known(u) = {p \in Parties : PrimarySignals(u, p) # {}}
        BY <2>4, <2>5
      <4>3. \A p, q \in Parties : p \in Nat /\ q \in Nat
        BY <2>4, FlowAssumption
      <4>4. first(u) = {p \in Parties : Fits(u, p)}
        <5> HIDE DEF known, candidates
        <5> QED
          BY <4>1, <4>2, <4>3
      <4> QED
        BY <3>4, <3>6, <4>4
    <3> QED
      BY <3>5, <3>6
  <2> QED
    BY <2>3, <2>7 DEF NamesakeSeedsNothing
<1>2. SweepInv /\ FoundInv /\ AskInv => NamesakeSeedsNothing
  BY <1>1 DEF NamesakeSeedsNothing
<1> QED
  BY <1>2, SweepInvariant, FoundHolds, AskHolds, PTL

\* The rows of the worksheet, by the loop that adds them.
LEMMA RowsByLoop ==
    \A r : r \in Rows <=>
        \/ \E u \in Exposed : r = Row(u, "exposed", {})
        \/ \E a \in result.adjacent : r = Row(a.uid, "adjacent", a.links)
        \/ \E u \in result.direct \ (Exposed \cup AdjacentUids) : r = Row(u, "name_match", {})
        \/ \E u \in result.variant \ (Exposed \cup AdjacentUids) :
              Outcome(u) # "name_only_dismissed" /\ r = Row(u, "variant_match", {})
  BY DEF Rows

\* The columns of a row.
LEMMA RowFields ==
    \A u, kind, links :
        /\ Row(u, kind, links).uid = u /\ Row(u, kind, links).kind = kind
        /\ Row(u, kind, links).gap = IF u \in DOMAIN result.gaps THEN result.gaps[u] ELSE "none"
        /\ Row(u, kind, links).warehouse = HoldStatus(world.warehouse, u)
        /\ Row(u, kind, links).admin = HoldStatus(world.admin, u)
        /\ Row(u, kind, links).timing =
              IF kind = "exposed" THEN Timing(result.hops[u], result.legs[u]) ELSE "none"
<1> SUFFICES ASSUME NEW u, NEW kind, NEW links
             PROVE  LET r == Row(u, kind, links) IN
                    /\ r.uid = u /\ r.kind = kind
                    /\ r.gap = IF u \in DOMAIN result.gaps THEN result.gaps[u] ELSE "none"
                    /\ r.warehouse = HoldStatus(world.warehouse, u)
                    /\ r.admin = HoldStatus(world.admin, u)
                    /\ r.timing = IF kind = "exposed"
                                  THEN Timing(result.hops[u], result.legs[u]) ELSE "none"
  BY Zenon
<1> QED
  BY Zenon DEF Row

\* The kinds of the rows of an account.
LEMMA KindsByLoop ==
    ASSUME NEW u
    PROVE  {r.kind : r \in {r \in Rows : r.uid = u}} =
              {k \in {"exposed"} : u \in Exposed}
              \cup {k \in {"adjacent"} : u \in AdjacentUids}
              \cup {k \in {"name_match"} : u \in result.direct \ (Exposed \cup AdjacentUids)}
              \cup {k \in {"variant_match"} :
                      /\ u \in result.variant \ (Exposed \cup AdjacentUids)
                      /\ Outcome(u) # "name_only_dismissed"}
<1> DEFINE Has(k) == \E r \in Rows : r.uid = u /\ r.kind = k
<1>1. {r.kind : r \in {r \in Rows : r.uid = u}} \subseteq {"exposed", "adjacent", "name_match", "variant_match"}
  BY RowsByLoop, RowFields
<1>2. Has("exposed") <=> u \in Exposed
  BY RowsByLoop, RowFields
<1>3. Has("adjacent") <=> u \in AdjacentUids
  <2>1. Has("adjacent") => u \in AdjacentUids
    BY RowsByLoop, RowFields DEF AdjacentUids
  <2>2. ASSUME NEW a \in result.adjacent, a.uid = u
        PROVE  Has("adjacent")
    <3>1. /\ Row(a.uid, "adjacent", a.links) \in Rows
          /\ Row(a.uid, "adjacent", a.links).uid = u
          /\ Row(a.uid, "adjacent", a.links).kind = "adjacent"
      BY <2>2, RowsByLoop, RowFields
    <3> QED
      BY <3>1
  <2> QED
    BY <2>1, <2>2 DEF AdjacentUids
<1>4. Has("name_match") <=> u \in result.direct \ (Exposed \cup AdjacentUids)
  BY RowsByLoop, RowFields
<1>5. Has("variant_match") <=> /\ u \in result.variant \ (Exposed \cup AdjacentUids)
                               /\ Outcome(u) # "name_only_dismissed"
  BY RowsByLoop, RowFields
<1>6. \A k : k \in {r.kind : r \in {r \in Rows : r.uid = u}} <=> Has(k)
  OBVIOUS
<1> HIDE DEF Has
<1> QED
  BY <1>1, <1>2, <1>3, <1>4, <1>5, <1>6

\* What the sweep holds, as the invariants state it, gives the rows.
LEMMA RowsFollow ==
    ASSUME SweepInv, FoundInv, AskInv
    PROVE  OneRowPerSurfaced
<1>1. ASSUME SweepInv, FoundInv, AskInv, stage \in AfterWorksheet
      PROVE  OneRowPerSurfaced
  <2> USE <1>1
  <2>1. /\ stage \in Walked /\ world \in Worlds /\ HitsTaken /\ HitsWeighed
        /\ result.rows = Rows
    BY DEF FoundInv, AskInv, Walked, AfterRing, AfterWorksheet
  <2>2. /\ Exposed = Reaching
        /\ AdjacentUids = {u \in Accounts \ Reaching : LinkTypes(u, Reaching) # {}}
        /\ Exposed \cup AdjacentUids = Surfaced(Reaching)
    BY <2>1, SurfacedAreLinked
  <2>3. ASSUME NEW u \in Accounts
        PROVE  {r.kind : r \in {r \in result.rows : r.uid = u}} =
                  IF u \in Reaching THEN {"exposed"}
                  ELSE IF u \in Surfaced(Reaching) THEN {"adjacent"}
                  ELSE IF "direct" \in world.name[u] THEN {"name_match"}
                  ELSE IF "variant" \in world.name[u] /\ ~Contradicted(u) THEN {"variant_match"}
                  ELSE {}
    <3>1. /\ u \in result.direct <=> "direct" \in world.name[u]
          /\ u \in result.variant <=> "variant" \in world.name[u] /\ "direct" \notin world.name[u]
      BY <2>1 DEF HitsTaken, match_designated_name, screen_name_variants
    <3>2. u \in result.variant => (Outcome(u) # "name_only_dismissed" <=> ~Contradicted(u))
      <4>1. u \in result.variant => Hit(u)
        BY <3>1 DEF Hit
      <4> QED
        BY <4>1, <2>1, PartiesAreUncontradicted
    <3>3. u \in AdjacentUids => u \notin Exposed
      BY <2>2
    <3> QED
      BY <2>1, <2>2, <3>1, <3>2, <3>3, KindsByLoop
  <2> QED
    BY <2>3 DEF OneRowPerSurfaced
<1> QED
  BY <1>1 DEF OneRowPerSurfaced

(***************************************************************************)
(* On any tables the worksheet has one row for each account the sweep      *)
(* surfaces, of the first kind that applies, and none for a variant hit    *)
(* that the identifiers contradict (sweep/worksheet.py).                   *)
(***************************************************************************)
THEOREM SurfacedHaveOneRow == Spec => []OneRowPerSurfaced
<1>1. SweepInv /\ FoundInv /\ AskInv => OneRowPerSurfaced
  BY RowsFollow
<1> QED
  BY <1>1, SweepInvariant, FoundHolds, AskHolds, PTL

\* An exposed account has one row: its gap is open iff the systems differ, and
\* the statuses it shows are theirs.
LEMMA ExposedRow ==
    ASSUME SweepInv, FoundInv, stage \in AfterWorksheet, NEW u \in Reaching
    PROVE  LET row == Row(u, "exposed", {}) IN
           /\ u \in Accounts
           /\ \A r : r \in result.rows /\ r.uid = u <=> r = row
           /\ row.gap # "none" <=> world.warehouse[u] # world.admin[u]
           /\ row.warehouse = HoldStatus(world.warehouse, u)
           /\ row.admin = HoldStatus(world.admin, u)
<1> DEFINE row == Row(u, "exposed", {})
<1>1. /\ stage \in Walked /\ result.rows = Rows /\ result.gaps = verify_block_status
  BY DEF FoundInv, Walked, AfterRing, AfterVerify, AfterWorksheet
<1>2. u \in Exposed /\ u \in Accounts /\ u \notin AdjacentUids
  BY <1>1, SurfacedAreLinked
<1>3. \A r : r \in result.rows /\ r.uid = u <=> r = row
  BY <1>1, <1>2, RowsByLoop, RowFields DEF AdjacentUids
<1>4. \A w, a : GapType(w, a) # "none"
  BY DEF GapType
<1>5. row.gap # "none" <=> world.warehouse[u] # world.admin[u]
  BY <1>1, <1>2, <1>4, RowFields DEF verify_block_status
<1> QED
  BY <1>2, <1>3, <1>5, RowFields

\* What is escalated of an account.
LEMMA EscalatedKinds ==
    ASSUME NEW u
    PROVE  {e.kind : e \in {e \in Escalations : e.uid = u}} =
              {k \in {"reconciliation_gap"} : \E r \in GapRows : r.uid = u}
              \cup {k \in {IF world.signal THEN "foreign_signal_exposure" ELSE "exposed_unblocked"} :
                      \E r \in UnheldRows : r.uid = u}
<1> DEFINE K == IF world.signal THEN "foreign_signal_exposure" ELSE "exposed_unblocked"
           Esc(v, k) == [uid |-> v, kind |-> k]
<1>1. \A e : e \in Escalations <=> \/ \E r \in GapRows : e = Esc(r.uid, "reconciliation_gap")
                                   \/ \E r \in UnheldRows : e = Esc(r.uid, K)
  BY DEF Escalations
<1>2. \A v, k : Esc(v, k).uid = v /\ Esc(v, k).kind = k
  OBVIOUS
<1> HIDE DEF K, Esc
<1>3. {e.kind : e \in {e \in Escalations : e.uid = u}} =
         {k \in {"reconciliation_gap"} : \E r \in GapRows : r.uid = u}
         \cup {k \in {K} : \E r \in UnheldRows : r.uid = u}
  <2>1. \A k : (\E e \in Escalations : e.uid = u /\ e.kind = k) <=>
                  \/ k = "reconciliation_gap" /\ \E r \in GapRows : r.uid = u
                  \/ k = K /\ \E r \in UnheldRows : r.uid = u
    BY <1>1, <1>2
  <2> QED
    BY <2>1
<1> QED
  BY <1>3 DEF K

(***************************************************************************)
(* On any tables nobody who can reach a listed address falls between the   *)
(* hold systems: one escalation, of the kind the two statuses call for,    *)
(* drafted or suppressed, unless both systems record a block (sweep/       *)
(* verify.py, sweep/escalations.py).                                       *)
(***************************************************************************)
THEOREM ExposureIsAlwaysAnswered == Spec => []ExposureIsAnswered
<1>1. ASSUME SweepInv, FoundInv, stage \in AfterEscalation
      PROVE  ExposureIsAnswered
  <2> USE <1>1
  <2>1. /\ stage \in AfterWorksheet /\ world \in Worlds /\ EscalationsDrafted
    BY DEF FoundInv, AfterEscalation
  <2>2. /\ result.drafted \cup result.suppressed = Escalations
        /\ result.drafted \cap result.suppressed = {}
        /\ \A e \in result.drafted : "sar" \notin world.terms[e.uid]
    BY <2>1 DEF EscalationsDrafted, Refused
  <2> DEFINE kinds(u) == {e.kind : e \in {e \in result.drafted \cup result.suppressed : e.uid = u}}
             K == IF world.signal THEN "foreign_signal_exposure" ELSE "exposed_unblocked"
  <2>3. \A u : kinds(u) = {k \in {"reconciliation_gap"} : \E r \in GapRows : r.uid = u}
                            \cup {k \in {K} : \E r \in UnheldRows : r.uid = u}
    BY <2>2, EscalatedKinds
  <2>4. ASSUME NEW u \in Reaching
        PROVE  kinds(u) = IF world.warehouse[u] # world.admin[u] THEN {"reconciliation_gap"}
                          ELSE IF world.warehouse[u] = "blocked" THEN {}
                          ELSE {K}
    <3> DEFINE row == Row(u, "exposed", {})
    <3>1. /\ u \in Accounts
          /\ \A r : r \in result.rows /\ r.uid = u <=> r = row
          /\ row.gap # "none" <=> world.warehouse[u] # world.admin[u]
          /\ row.warehouse = HoldStatus(world.warehouse, u)
          /\ row.admin = HoldStatus(world.admin, u)
      BY <2>1, ExposedRow
    <3>2. row.kind = "exposed"
      BY RowFields
    <3>3. {world.warehouse[u], world.admin[u]} \subseteq {"absent", "no_hold", "blocked"}
      BY <2>1, <3>1, SweepAssumption DEF HoldTables
    <3> HIDE DEF row
    <3>4. (\E r \in GapRows : r.uid = u) <=> world.warehouse[u] # world.admin[u]
      BY <3>1 DEF GapRows
    <3>5. (\E r \in UnheldRows : r.uid = u) <=>
             world.warehouse[u] = world.admin[u] /\ world.warehouse[u] # "blocked"
      <4>1. (\E r \in UnheldRows : r.uid = u) <=> row.gap = "none" /\ row.warehouse = "no_hold" /\ row.admin = "no_hold"
        BY <3>1, <3>2 DEF UnheldRows
      <4> QED
        BY <4>1, <3>1, <3>3 DEF HoldStatus
    <3> HIDE DEF kinds, K
    <3> QED
      BY <2>3, <3>4, <3>5
  <2>5. ASSUME NEW u, kinds(u) # {}
        PROVE  \E r \in result.rows : r.uid = u
    BY <2>3, <2>5 DEF GapRows, UnheldRows
  <2> QED
    BY <2>2, <2>4, <2>5 DEF ExposureIsAnswered
<1>2. SweepInv /\ FoundInv => ExposureIsAnswered
  BY <1>1 DEF ExposureIsAnswered
<1> QED
  BY <1>2, SweepInvariant, FoundHolds, PTL
-----------------------------------------------------------------------------
(* The chain. *)

\* The records of one action, and whom they are about.
AboutOf(action) == {chain[i].about : i \in Stamps(action)}

\* One record for what was found, none for nothing.
Tells(action, S) == AboutOf(action) = IF S = {} THEN {} ELSE {S}

\* The corroboration records of one candidate.
DecisionsOn(u) == {i \in Stamps("corroboration_decision") : chain[i].about = {u}}

IsList(s) == s \in Seq({s[i] : i \in DOMAIN s})

\* The package was built on every record but its own stamp.
Closed ==
    /\ Cardinality(Stamps("packaged")) = 1
    /\ chain = Append(package.records, Stamp("packaged", {}))
    /\ package = [build_sweep_package EXCEPT !.records = package.records]

\* The chain up to each stage: a conditional stage has its record iff it found
\* something, and a stage to come has none.
ChainInv ==
    /\ IsList(chain)
    /\ stage \in {"open", "screen", "corroborate"} => Stamps("corroboration_decision") = {}
    /\ stage \notin {"open", "screen", "corroborate", "raised"} =>
         \A u \in DOMAIN result.corroboration :
            Cardinality(DecisionsOn(u)) = 1
    /\ stage \in {"open", "screen", "corroborate", "ownership"} => Stamps("ownership_walk") = {}
    /\ stage \notin {"open", "screen", "corroborate", "ownership", "raised"} =>
         Tells("ownership_walk", {f.company : f \in result.ownership})
    /\ stage \notin AfterRing \cup {"raised"} => Stamps("proximity_ring") = {}
    /\ stage \in AfterRing => Tells("proximity_ring", {m.uid : m \in result.ring})
    /\ stage \notin Weighed \cup {"propose", "raised"} =>
         Stamps("geo_config") = {} /\ Stamps("geo_triangulation") = {}
    /\ stage \in Weighed \cup {"propose"} =>
         /\ Stamps("geo_config") = {} <=> world.territory = "no"
         /\ Tells("geo_triangulation", DOMAIN result.dossiers)
    /\ stage \notin Weighed \cup {"raised"} => Stamps("geo_proposal") = {}
    /\ stage \in Weighed => Tells("geo_proposal", DOMAIN result.dossiers)
    /\ stage = "locate" => world.territory # "no"
    /\ stage = "propose" => DOMAIN result.dossiers # {}
    /\ stage \notin Asked \cup {"raised"} => Stamps("identity_review_rfi") = {}
    /\ stage \in Asked => Tells("identity_review_rfi", OpenMatches)
    /\ stage \notin {"done", "raised"} => Stamps("packaged") = {}
    /\ stage = "stamp" => package = build_sweep_package
    /\ stage = "done" => Closed

Conditional == {"corroboration_decision", "ownership_walk", "proximity_ring", "geo_config",
                "geo_triangulation", "geo_proposal", "identity_review_rfi", "packaged"}

Silent(t, action) == \A i \in DOMAIN t : t[i].action # action

\* A sequence over some set is one over the set of its elements.
LEMMA SeqIsList ==
    ASSUME NEW S, NEW s \in Seq(S)
    PROVE  IsList(s)
<1> DEFINE R == {s[i] : i \in DOMAIN s}
<1>1. Len(s) \in Nat /\ DOMAIN s = 1..Len(s) /\ s = [i \in 1..Len(s) |-> s[i]]
  OBVIOUS
<1>2. \A i \in 1..Len(s) : s[i] \in R
  BY <1>1
<1> HIDE DEF R
<1>3. s \in [1..Len(s) -> R]
  BY <1>1, <1>2
<1>4. s \in Seq(R)
  BY <1>1, <1>3
<1> QED
  BY <1>4 DEF IsList, R

\* Records of other actions change nothing about one.
LEMMA Unrecorded ==
    ASSUME IsList(chain), NEW t, IsList(t), chain' = chain \o t
    PROVE  /\ IsList(chain')
           /\ \A action : Silent(t, action) =>
                /\ Stamps(action)' = Stamps(action)
                /\ AboutOf(action)' = AboutOf(action)
           /\ Silent(t, "corroboration_decision") =>
                \A u : DecisionsOn(u)' = DecisionsOn(u)
<1> DEFINE S == {chain[i] : i \in DOMAIN chain} \cup {t[i] : i \in DOMAIN t}
           m == Len(chain)
           n == Len(t)
<1>1. chain \in Seq(S) /\ t \in Seq(S)
  BY DEF IsList
<1> HIDE DEF S
<1>2. /\ chain' \in Seq(S) /\ m \in Nat /\ n \in Nat /\ Len(chain') = m + n
      /\ \A i \in 1..m : chain'[i] = chain[i]
      /\ \A i \in 1..n : chain'[m + i] = t[i]
  BY <1>1, Concatenation
<1>3. DOMAIN chain = 1..m /\ DOMAIN t = 1..n /\ DOMAIN chain' = 1..(m + n)
  BY <1>1, <1>2
<1> HIDE DEF m, n
<1>4. \A i \in 1..(m + n) : i \in 1..m \/ (i - m \in 1..n /\ chain'[i] = t[i - m])
  <2> SUFFICES ASSUME NEW i \in 1..(m + n), i \notin 1..m
               PROVE  i - m \in 1..n /\ chain'[i] = t[i - m]
    OBVIOUS
  <2>1. i - m \in 1..n /\ i = m + (i - m)
    BY <1>2
  <2> QED
    BY <1>2, <2>1
<1>5. IsList(chain')
  BY <1>2, SeqIsList
<1>6. ASSUME NEW action, Silent(t, action)
      PROVE  /\ Stamps(action)' = Stamps(action)
             /\ \A i \in Stamps(action) : chain'[i] = chain[i]
  BY <1>2, <1>3, <1>4, <1>6 DEF Stamps, Silent
<1>7. ASSUME NEW action, Silent(t, action)
      PROVE  AboutOf(action)' = AboutOf(action)
  <2>1. /\ Stamps(action)' = Stamps(action)
        /\ \A i \in Stamps(action) : chain'[i] = chain[i]
    BY <1>6, <1>7
  <2>2. {chain'[i].about : i \in Stamps(action)} = {chain[i].about : i \in Stamps(action)}
    BY <2>1
  <2> QED
    BY <2>1, <2>2 DEF AboutOf
<1>8. ASSUME Silent(t, "corroboration_decision"), NEW u
      PROVE  DecisionsOn(u)' = DecisionsOn(u)
  BY <1>6, <1>8 DEF DecisionsOn
<1> QED
  BY <1>5, <1>6, <1>7, <1>8

\* One record of an action.
LEMMA Recorded ==
    ASSUME IsList(chain), NEW action, NEW S, chain' = chain \o <<Stamp(action, S)>>
    PROVE  /\ IsList(chain')
           /\ \A other : other # action =>
                /\ Stamps(other)' = Stamps(other)
                /\ AboutOf(other)' = AboutOf(other)
           /\ action # "corroboration_decision" => \A u : DecisionsOn(u)' = DecisionsOn(u)
           /\ Stamps(action) = {} =>
                Stamps(action)' = {Len(chain) + 1} /\ AboutOf(action)' = {S}
<1> DEFINE t == <<Stamp(action, S)>>
           T == {chain[i] : i \in DOMAIN chain} \cup {Stamp(action, S)}
           m == Len(chain)
<1>1. t \in Seq(T) /\ chain \in Seq(T)
  BY DEF IsList
<1>2. DOMAIN t = {1} /\ t[1] = Stamp(action, S)
  OBVIOUS
<1>3. IsList(t)
  BY <1>1, SeqIsList
<1>4. t[1].action = action /\ t[1].about = S
  BY <1>2 DEF Stamp
<1>5. \A other : other # action => Silent(t, other)
  BY <1>2, <1>4 DEF Silent
<1> HIDE DEF T
<1>6. /\ m \in Nat /\ DOMAIN chain = 1..m /\ DOMAIN chain' = 1..(m + 1)
      /\ \A i \in 1..m : chain'[i] = chain[i]
      /\ chain'[m + 1] = Stamp(action, S)
  <2>1. chain' = Append(chain, Stamp(action, S))
    BY <1>1
  <2> QED
    BY <1>1, <2>1
<1>7. ASSUME Stamps(action) = {}
      PROVE  Stamps(action)' = {m + 1} /\ AboutOf(action)' = {S}
  <2> HIDE DEF m
  <2>1. \A i \in 1..(m + 1) : i \in 1..m \/ i = m + 1
    BY <1>6
  <2>2. \A i \in 1..m : chain[i].action # action
    BY <1>6, <1>7 DEF Stamps
  <2>3. chain'[m + 1].action = action /\ chain'[m + 1].about = S /\ m + 1 \in 1..(m + 1)
    BY <1>2, <1>4, <1>6
  <2>4. Stamps(action)' = {m + 1}
    BY <1>6, <2>1, <2>2, <2>3 DEF Stamps
  <2> QED
    BY <2>3, <2>4 DEF AboutOf
<1> HIDE DEF t
<1>8. chain' = chain \o t
  BY DEF t
<1> QED
  BY <1>3, <1>5, <1>7, <1>8, Unrecorded

\* A record of what was found, if something was.
LEMMA RecordedIfFound ==
    ASSUME IsList(chain), NEW action, NEW S,
           chain' = chain \o (IF S = {} THEN << >> ELSE <<Stamp(action, S)>>)
    PROVE  /\ IsList(chain')
           /\ \A other : other # action =>
                /\ Stamps(other)' = Stamps(other)
                /\ AboutOf(other)' = AboutOf(other)
           /\ action # "corroboration_decision" => \A u : DecisionsOn(u)' = DecisionsOn(u)
           /\ Stamps(action) = {} => AboutOf(action)' = IF S = {} THEN {} ELSE {S}
<1>1. CASE S = {}
  <2>1. chain' = chain
    <3>1. chain \in Seq({chain[i] : i \in DOMAIN chain}) /\ chain' = chain \o << >>
      BY <1>1 DEF IsList
    <3> HIDE DEF IsList
    <3> DEFINE T == {chain[i] : i \in DOMAIN chain}
    <3>2. chain \in Seq(T)
      BY <3>1
    <3> HIDE DEF T
    <3> QED
      BY <3>1, <3>2
  <2>2. \A a : Stamps(a)' = Stamps(a) /\ AboutOf(a)' = AboutOf(a)
    BY <2>1 DEF Stamps, AboutOf
  <2>3. \A u : DecisionsOn(u)' = DecisionsOn(u)
    BY <2>1 DEF DecisionsOn, Stamps
  <2>4. Stamps(action) = {} => AboutOf(action) = {}
    BY DEF AboutOf
  <2> QED
    BY <1>1, <2>1, <2>2, <2>3, <2>4
<1>2. CASE S # {}
  <2>1. chain' = chain \o <<Stamp(action, S)>>
    BY <1>2
  <2> QED
    BY <1>2, <2>1, Recorded
<1> QED
  BY <1>1, <1>2

\* A finite set of numbers has one ascending enumeration, and it meets every
\* number once.
LEMMA AscendingIsOrder ==
    ASSUME NEW A \in SUBSET Nat, IsFiniteSet(A)
    PROVE  /\ Cardinality(A) \in Nat
           /\ Ascending(A) \in Orders(A)
           /\ \A i, j \in 1..Cardinality(A) : Ascending(A)[i] = Ascending(A)[j] => i = j
<1> DEFINE Sorts(f, X) == /\ f \in Orders(X)
                          /\ \A i, j \in 1..Cardinality(X) : i < j => f[i] < f[j]
           Sortable(n) == \A X \in SUBSET Nat :
                             IsFiniteSet(X) /\ Cardinality(X) = n => \E f : Sorts(f, X)
           S == {n \in Nat : Sortable(n)}
<1>1. 0 \in S
  <2> SUFFICES ASSUME NEW X \in SUBSET Nat, IsFiniteSet(X), Cardinality(X) = 0
               PROVE  \E f : Sorts(f, X)
    OBVIOUS
  <2>1. X = {}
    BY FS_EmptySet
  <2> DEFINE f == [i \in 1..0 |-> 0]
  <2>2. f \in [1..Cardinality(X) -> X]
    OBVIOUS
  <2>3. Sorts(f, X)
    BY <2>1, <2>2 DEF Orders
  <2> QED
    BY <2>3
<1>2. ASSUME NEW n \in Nat, n \in S
      PROVE  n + 1 \in S
  <2> SUFFICES ASSUME NEW X \in SUBSET Nat, IsFiniteSet(X), Cardinality(X) = n + 1
               PROVE  \E f : Sorts(f, X)
    OBVIOUS
  <2>1. X # {}
    BY FS_EmptySet
  <2>2. PICK k \in X : \A x \in X : <<x, k>> \notin OpToRel(<, Nat)
    BY <2>1, NatLessThanWellFounded, WFMin
  <2>3. \A x \in X : k <= x
    <3> SUFFICES ASSUME NEW x \in X PROVE k <= x
      OBVIOUS
    <3>1. <<x, k>> \notin OpToRel(<, Nat) /\ x \in Nat /\ k \in Nat
      BY <2>2
    <3> QED
      BY <3>1 DEF OpToRel
  <2> DEFINE Y == X \ {k}
  <2>4. IsFiniteSet(Y) /\ Cardinality(Y) = n /\ Y \in SUBSET Nat
    BY FS_RemoveElement
  <2>5. PICK g : Sorts(g, Y)
    BY <1>2, <2>4
  <2>6. g \in [1..n -> Y] /\ \A y \in Y : \E i \in 1..n : g[i] = y
    BY <2>4, <2>5 DEF Orders
  <2>7. \A i, j \in 1..n : i < j => g[i] < g[j]
    BY <2>4, <2>5
  <2> HIDE DEF Y
  <2> DEFINE f == [i \in 1..(n + 1) |-> IF i = 1 THEN k ELSE g[i - 1]]
  <2>8. \A i \in 1..(n + 1) : i = 1 \/ i - 1 \in 1..n
    OBVIOUS
  <2>9. \A i \in 1..n : g[i] \in X /\ k < g[i]
    <3> SUFFICES ASSUME NEW i \in 1..n PROVE g[i] \in X /\ k < g[i]
      OBVIOUS
    <3>1. g[i] \in Y
      BY <2>6
    <3>2. g[i] \in X /\ g[i] # k
      BY <3>1 DEF Y
    <3>3. k <= g[i] /\ k \in Nat /\ g[i] \in Nat
      BY <2>3, <3>2
    <3> HIDE DEF S
    <3> QED
      BY <3>2, <3>3
  <2>10. f \in [1..Cardinality(X) -> X]
    BY <2>8, <2>9
  <2>11. ASSUME NEW x \in X
         PROVE  \E i \in 1..(n + 1) : f[i] = x
    <3>1. CASE x = k
      <4>1. 1 \in 1..(n + 1) /\ f[1] = k
        OBVIOUS
      <4> QED
        BY <3>1, <4>1
    <3>2. CASE x # k
      <4>1. PICK i \in 1..n : g[i] = x
        BY <2>6, <3>2 DEF Y
      <4>2. i + 1 \in 1..(n + 1) /\ f[i + 1] = g[i]
        OBVIOUS
      <4> QED
        BY <4>1, <4>2
    <3> QED
      BY <3>1, <3>2
  <2>12. \A i, j \in 1..(n + 1) : i < j => f[i] < f[j]
    <3> SUFFICES ASSUME NEW i \in 1..(n + 1), NEW j \in 1..(n + 1), i < j
                 PROVE  f[i] < f[j]
      OBVIOUS
    <3>1. j - 1 \in 1..n /\ f[j] = g[j - 1]
      OBVIOUS
    <3>2. CASE i = 1
      BY <3>1, <3>2, <2>9
    <3>3. CASE i # 1
      <4>1. i - 1 \in 1..n /\ i - 1 < j - 1 /\ f[i] = g[i - 1]
        BY <3>3
      <4> QED
        BY <3>1, <4>1, <2>7
    <3> QED
      BY <3>2, <3>3
  <2> HIDE DEF f
  <2>13. Sorts(f, X)
    BY <2>10, <2>11, <2>12 DEF Orders
  <2> QED
    BY <2>13
<1>3. Nat \subseteq S
  <2> HIDE DEF S
  <2> QED
    BY <1>1, <1>2, NatSetInduction
<1>4. Cardinality(A) \in Nat
  BY FS_CardinalityType
<1>5. PICK f : Sorts(f, A)
  BY <1>3, <1>4
<1>6. Sorts(Ascending(A), A)
  <2> DEFINE Up(h) == \A i, j \in 1..Cardinality(A) : i < j => h[i] < h[j]
  <2>1. Ascending(A) = CHOOSE h \in Orders(A) : Up(h)
    BY DEF Ascending
  <2>2. f \in Orders(A) /\ Up(f)
    BY <1>5
  <2> HIDE DEF Up
  <2>3. Ascending(A) \in Orders(A) /\ Up(Ascending(A))
    BY <2>1, <2>2
  <2> QED
    BY <2>3 DEF Up
<1>7. ASSUME NEW i \in 1..Cardinality(A), NEW j \in 1..Cardinality(A),
             Ascending(A)[i] = Ascending(A)[j]
      PROVE  i = j
  <2>1. Ascending(A)[i] \in Nat /\ Ascending(A)[j] \in Nat
    BY <1>6 DEF Orders
  <2>2. ~(i < j) /\ ~(j < i)
    BY <1>6, <1>7, <2>1
  <2> QED
    BY <1>4, <2>2
<1> QED
  BY <1>4, <1>6, <1>7

Decisions(A) ==
    [i \in 1..Cardinality(A) |-> Stamp("corroboration_decision", {Ascending(A)[i]})]

\* One decision for each candidate.
LEMMA EachDecided ==
    ASSUME IsList(chain), Stamps("corroboration_decision") = {},
           NEW A \in SUBSET Nat, IsFiniteSet(A),
           chain' = chain \o Decisions(A)
    PROVE  /\ IsList(chain')
           /\ \A other : other # "corroboration_decision" =>
                /\ Stamps(other)' = Stamps(other)
                /\ AboutOf(other)' = AboutOf(other)
           /\ \A u \in A : Cardinality(DecisionsOn(u)') = 1
<1> DEFINE n == Cardinality(A)
           f == Ascending(A)
           m == Len(chain)
           D(i) == Stamp("corroboration_decision", {f[i]})
           t == [i \in 1..n |-> D(i)]
           T == {chain[i] : i \in DOMAIN chain} \cup {D(i) : i \in 1..n}
<1>1. /\ n \in Nat /\ f \in Orders(A)
      /\ \A i, j \in 1..n : f[i] = f[j] => i = j
  BY AscendingIsOrder
<1>2. \A u \in A : \E i \in 1..n : f[i] = u
  BY <1>1 DEF Orders
<1> HIDE DEF n, f
<1>3. \A i \in 1..n : D(i).action = "corroboration_decision" /\ D(i).about = {f[i]}
  BY DEF Stamp
<1> HIDE DEF D
<1>4. chain \in Seq(T)
  BY DEF IsList
<1>5. t \in Seq(T) /\ Len(t) = n /\ DOMAIN t = 1..n /\ \A i \in 1..n : t[i] = D(i)
  <2>1. t \in [1..n -> T]
    OBVIOUS
  <2> HIDE DEF T
  <2>2. DOMAIN t = 1..n /\ \A i \in 1..n : t[i] = D(i)
    OBVIOUS
  <2> HIDE DEF t
  <2> QED
    BY <1>1, <2>1, <2>2
<1>6. chain' = chain \o t
  BY DEF Decisions, t, D, n, f
<1> HIDE DEF t, T
<1>7. IsList(t)
  BY <1>5, SeqIsList
<1>8. \A other : other # "corroboration_decision" => Silent(t, other)
  BY <1>3, <1>5 DEF Silent
<1>9. /\ m \in Nat /\ DOMAIN chain = 1..m /\ DOMAIN chain' = 1..(m + n)
      /\ \A i \in 1..m : chain'[i] = chain[i]
      /\ \A i \in 1..n : chain'[m + i] = D(i)
  <2>1. /\ chain \o t \in Seq(T) /\ Len(chain) \in Nat /\ Len(t) \in Nat
        /\ Len(chain \o t) = Len(chain) + Len(t)
        /\ \A i \in 1..Len(chain) : (chain \o t)[i] = chain[i]
        /\ \A i \in 1..Len(t) : (chain \o t)[Len(chain) + i] = t[i]
    <3>1. t \in Seq(T)
      BY <1>5
    <3> QED
      BY ONLY <1>4, <3>1, Concatenation
  <2>2. /\ chain' \in Seq(T) /\ m \in Nat /\ Len(chain') = m + n
        /\ \A i \in 1..m : chain'[i] = chain[i]
    BY <1>5, <1>6, <2>1
  <2>3. \A i \in 1..n : chain'[m + i] = D(i)
    BY <1>5, <1>6, <2>1
  <2>4. DOMAIN chain = 1..m
    BY <1>4
  <2>5. DOMAIN chain' = 1..Len(chain')
    BY <2>2
  <2> QED
    BY <2>2, <2>3, <2>4, <2>5
<1> HIDE DEF m
<1>10. ASSUME NEW u \in A
       PROVE  Cardinality(DecisionsOn(u)') = 1
  <2>1. PICK j \in 1..n : f[j] = u
    BY <1>2, <1>10
  <2>2. m + j \in 1..(m + n) /\ chain'[m + j] = D(j)
    <3>1. m + j \in 1..(m + n)
      BY <1>1, <1>9
    <3> QED
      BY <1>9, <3>1
  <2>3. ASSUME NEW i \in 1..(m + n), chain'[i].action = "corroboration_decision",
               chain'[i].about = {u}
        PROVE  i = m + j
    <3>1. i \notin 1..m
      BY <1>9, <2>3 DEF Stamps
    <3>2. i - m \in 1..n /\ i = m + (i - m)
      BY <1>1, <1>9, <3>1
    <3>3. chain'[i] = D(i - m)
      BY <1>9, <3>2
    <3>4. {f[i - m]} = {f[j]}
      BY <1>3, <2>1, <2>3, <3>2, <3>3
    <3>5. f[i - m] = f[j]
      BY <3>4
    <3>6. i - m = j
      BY <1>1, <3>2, <3>5
    <3> QED
      BY <3>2, <3>6
  <2>4. DecisionsOn(u)' = {m + j}
    BY <1>3, <1>9, <2>1, <2>2, <2>3 DEF DecisionsOn, Stamps
  <2> QED
    BY <2>4, FS_Singleton
<1> QED
  BY <1>6, <1>7, <1>8, <1>10, Unrecorded

\* The configuration of the triangulation, and what it found.
LEMMA GeoRecorded ==
    ASSUME IsList(chain), NEW S,
           Stamps("geo_config") = {}, Stamps("geo_triangulation") = {},
           chain' = chain \o (<<Stamp("geo_config", {})>>
                               \o IF S = {} THEN << >> ELSE <<Stamp("geo_triangulation", S)>>)
    PROVE  /\ IsList(chain')
           /\ \A other : other \notin {"geo_config", "geo_triangulation"} =>
                /\ Stamps(other)' = Stamps(other)
                /\ AboutOf(other)' = AboutOf(other)
           /\ \A u : DecisionsOn(u)' = DecisionsOn(u)
           /\ Stamps("geo_config")' # {}
           /\ AboutOf("geo_triangulation")' = IF S = {} THEN {} ELSE {S}
<1> DEFINE c == Stamp("geo_config", {})
           d == Stamp("geo_triangulation", S)
           t == <<c>> \o IF S = {} THEN << >> ELSE <<d>>
           m == Len(chain)
           n == IF S = {} THEN 1 ELSE 2
           T == {chain[i] : i \in DOMAIN chain} \cup {c, d}
<1>1. /\ c.action = "geo_config" /\ d.action = "geo_triangulation" /\ d.about = S
  BY DEF Stamp
<1>2. chain \in Seq(T)
  BY DEF IsList
<1> HIDE DEF c, d
<1>3. t \in Seq(T) /\ Len(t) = n /\ DOMAIN t = 1..n /\ t[1] = c /\ (S # {} => t[2] = d)
  <2>1. c \in T /\ d \in T
    OBVIOUS
  <2> HIDE DEF T
  <2>2. CASE S = {}
    <3>1. t = <<c>>
      BY <2>2
    <3> QED
      BY <2>1, <2>2, <3>1
  <2>3. CASE S # {}
    <3>1. <<c>> \in Seq(T) /\ <<d>> \in Seq(T)
      BY <2>1
    <3>2. /\ <<c>> \o <<d>> \in Seq(T) /\ Len(<<c>> \o <<d>>) = Len(<<c>>) + Len(<<d>>)
          /\ \A i \in 1..Len(<<c>>) : (<<c>> \o <<d>>)[i] = <<c>>[i]
          /\ \A i \in 1..Len(<<d>>) : (<<c>> \o <<d>>)[Len(<<c>>) + i] = <<d>>[i]
      BY ONLY <3>1, Concatenation
    <3>3. t = <<c>> \o <<d>> /\ n = 2
      BY <2>3
    <3>4. Len(<<c>>) = 1 /\ Len(<<d>>) = 1 /\ <<c>>[1] = c /\ <<d>>[1] = d
      OBVIOUS
    <3> HIDE DEF t
    <3>5. Len(t) = 2 /\ t \in Seq(T) /\ t[1] = c /\ t[2] = d
      BY <3>2, <3>3, <3>4
    <3> QED
      BY <3>3, <3>5
  <2> QED
    BY <2>2, <2>3
<1>4. chain' = chain \o t
  BY DEF t, c, d
<1> HIDE DEF t, T
<1>5. IsList(t) /\ DOMAIN t = 1..n
  BY <1>3, SeqIsList
<1>6. \A other : other \notin {"geo_config", "geo_triangulation"} => Silent(t, other)
  BY <1>1, <1>3, <1>5 DEF Silent
<1>7. /\ m \in Nat /\ DOMAIN chain = 1..m /\ DOMAIN chain' = 1..(m + n)
      /\ \A i \in 1..m : chain'[i] = chain[i]
      /\ chain'[m + 1] = c /\ (S # {} => chain'[m + 2] = d)
  <2>1. /\ chain \o t \in Seq(T) /\ Len(chain) \in Nat /\ Len(t) \in Nat
        /\ Len(chain \o t) = Len(chain) + Len(t)
        /\ \A i \in 1..Len(chain) : (chain \o t)[i] = chain[i]
        /\ \A i \in 1..Len(t) : (chain \o t)[Len(chain) + i] = t[i]
    <3>1. t \in Seq(T)
      BY <1>3
    <3> QED
      BY ONLY <1>2, <3>1, Concatenation
  <2>2. 1 \in 1..n /\ (S # {} => 2 \in 1..n)
    OBVIOUS
  <2>3. DOMAIN chain = 1..m /\ DOMAIN (chain \o t) = 1..(m + n)
    BY ONLY <1>2, <1>3, <2>1 DEF m
  <2> QED
    BY <1>3, <1>4, <2>1, <2>2, <2>3
<1> HIDE DEF m
<1>8. Stamps("geo_config")' # {}
  <2>1. m + 1 \in 1..(m + n)
    BY <1>7
  <2> QED
    BY <1>1, <1>7, <2>1 DEF Stamps
<1>9. AboutOf("geo_triangulation")' = IF S = {} THEN {} ELSE {S}
  <2>1. \A i \in 1..(m + n) : i \in 1..m \/ i = m + 1 \/ (S # {} /\ i = m + 2)
    BY <1>7
  <2>2. \A i \in 1..m : chain[i].action # "geo_triangulation"
    BY <1>7 DEF Stamps
  <2>3. S # {} => m + 2 \in 1..(m + n)
    BY <1>7
  <2>4. Stamps("geo_triangulation")' = IF S = {} THEN {} ELSE {m + 2}
    <3> HIDE DEF n
    <3> QED
      BY <1>1, <1>7, <2>1, <2>2, <2>3 DEF Stamps
  <2> QED
    BY <1>1, <1>7, <2>4 DEF AboutOf
<1>10. Silent(t, "corroboration_decision")
  BY <1>6
<1> HIDE DEF n
<1>11. /\ IsList(chain')
       /\ \A action : Silent(t, action) =>
             /\ Stamps(action)' = Stamps(action)
             /\ AboutOf(action)' = AboutOf(action)
       /\ \A u : DecisionsOn(u)' = DecisionsOn(u)
  BY <1>4, <1>5, <1>10, Unrecorded
<1> QED
  BY <1>6, <1>8, <1>9, <1>11

\* Each stage stamps what it found, if anything, and nothing else.
LEMMA ChainHolds == Spec => []ChainInv
<1>1. Init => ChainInv
  <2> SUFFICES ASSUME Init PROVE ChainInv
    OBVIOUS
  <2>1. chain = << >> /\ stage = "open"
    BY DEF Init
  <2>2. IsList(chain) /\ \A action : Stamps(action) = {}
    BY <2>1 DEF IsList, Stamps
  <2> QED
    BY <2>1, <2>2 DEF ChainInv, Tells, AfterRing, AfterWorksheet, AfterEscalation, Asked, Weighed
<1>2. ASSUME FoundInv, AskInv, ChainInv, [Next]_vars
      PROVE  ChainInv'
  <2> USE <1>2
  <2>0. IsList(chain)
    BY DEF ChainInv
  <2>1. CASE Open
    <3>1. /\ stage = "open" /\ stage' = "screen"
          /\ UNCHANGED <<world, DOMAIN result, result.corroboration, result.ownership,
                         result.ring, result.dossiers>>
      BY <2>1 DEF Open, Goto, FoundInv, NothingFound
    <3>2. LET t == <<Stamp("sweep_open", {}), Stamp("sweep_config", {}), Stamp("identity_config", {})>>
          IN  IsList(t) /\ chain' = chain \o t /\ \A action \in Conditional : Silent(t, action)
      <4> DEFINE a == Stamp("sweep_open", {})
                 b == Stamp("sweep_config", {})
                 c == Stamp("identity_config", {})
                 t == <<a, b, c>>
      <4>1. a.action = "sweep_open" /\ b.action = "sweep_config" /\ c.action = "identity_config"
        BY DEF Stamp
      <4>2. chain' = chain \o t
        BY <2>1 DEF Open, Stamped
      <4> HIDE DEF a, b, c
      <4>3. t \in Seq({a, b, c}) /\ DOMAIN t = 1..3 /\ t[1] = a /\ t[2] = b /\ t[3] = c
        OBVIOUS
      <4>4. IsList(t)
        BY <4>3, SeqIsList
      <4>5. \A action \in Conditional : Silent(t, action)
        BY <4>1, <4>3 DEF Silent, Conditional
      <4> QED
        BY <4>2, <4>4, <4>5 DEF a, b, c
    <3>3. /\ IsList(chain')
          /\ \A action \in Conditional :
            Stamps(action)' = Stamps(action) /\ AboutOf(action)' = AboutOf(action)
          /\ \A u : DecisionsOn(u)' = DecisionsOn(u)
      BY <2>0, <3>2, Unrecorded DEF Conditional
    <3>4. OpenMatches' = OpenMatches
      BY <3>1 DEF OpenMatches, Outcome
    <3> QED
      BY <3>1, <3>3, <3>4 DEF Conditional, ChainInv, Tells, AfterRing, AfterWorksheet,
                              AfterEscalation, Asked, Weighed
  <2>2. CASE NameScreen
    <3>1. /\ stage = "screen" /\ stage' = "corroborate"
          /\ UNCHANGED <<world, DOMAIN result, result.corroboration, result.ownership,
                         result.ring, result.dossiers>>
      BY <2>2 DEF NameScreen, Goto, FoundInv, NothingFound
    <3>2. \E S : chain' = chain \o <<Stamp("name_screen", S)>>
      BY <2>2, <3>1 DEF NameScreen, Stamped, FoundInv, NothingFound
    <3>3. /\ IsList(chain')
          /\ \A action \in Conditional :
            Stamps(action)' = Stamps(action) /\ AboutOf(action)' = AboutOf(action)
          /\ \A u : DecisionsOn(u)' = DecisionsOn(u)
      BY <2>0, <3>2, Recorded DEF Conditional
    <3>4. OpenMatches' = OpenMatches
      BY <3>1 DEF OpenMatches, Outcome
    <3> QED
      BY <3>1, <3>3, <3>4 DEF Conditional, ChainInv, Tells, AfterRing, AfterWorksheet,
                              AfterEscalation, Asked, Weighed
  <2>3. CASE Corroborate
    <3> DEFINE A == {u \in result.direct \cup result.variant :
                       world.published /\ u \in DOMAIN world.identity}
    <3>1. /\ stage = "corroborate" /\ stage' = "ownership"
          /\ UNCHANGED <<world, DOMAIN result, result.ownership, result.ring, result.dossiers>>
          /\ DOMAIN result'.corroboration = A
      BY <2>3 DEF Corroborate, Goto, FoundInv, NothingFound
    <3>2. chain' = chain \o Decisions(A)
      BY <2>3 DEF Corroborate, Stamped, Decisions
    <3>3. A \in SUBSET Nat /\ IsFiniteSet(A)
      <4>1. A \subseteq Accounts
        BY <3>1 DEF AskInv, HitsTaken, match_designated_name, screen_name_variants
      <4> HIDE DEF A
      <4>2. Accounts \subseteq Nat /\ IsFiniteSet(Accounts)
        BY FlowAssumption
      <4> QED
        BY <4>1, <4>2, FS_Subset
    <3> HIDE DEF A
    <3>4. Stamps("corroboration_decision") = {}
      BY <3>1 DEF ChainInv
    <3>5. /\ IsList(chain')
          /\ \A action \in Conditional \ {"corroboration_decision"} :
            Stamps(action)' = Stamps(action) /\ AboutOf(action)' = AboutOf(action)
          /\ \A u \in A : Cardinality(DecisionsOn(u)') = 1
      BY <2>0, <3>2, <3>3, <3>4, EachDecided
    <3>6. \A u \in DOMAIN result'.corroboration : Cardinality(DecisionsOn(u)') = 1
      BY <3>1, <3>5
    <3> QED
      BY <3>1, <3>5, <3>6 DEF Conditional, ChainInv, Tells, AfterRing, AfterWorksheet,
                              AfterEscalation, Asked, Weighed
  <2>4. CASE OwnershipWalk
    <3>1. /\ stage = "ownership" /\ stage' = "expose"
          /\ UNCHANGED <<world, DOMAIN result, result.corroboration, result.ring, result.dossiers>>
      BY <2>4 DEF OwnershipWalk, Goto, FoundInv, NothingFound
    <3>2. chain' = chain \o (IF {f.company : f \in result'.ownership} = {} THEN << >>
                             ELSE <<Stamp("ownership_walk", {f.company : f \in result'.ownership})>>)
      <4> DEFINE found == Ownership(ResolvedParties)
      <4>1. /\ result'.ownership = found
            /\ chain' = chain \o (IF found = {} THEN << >> ELSE <<Stamp("ownership_walk", {f.company : f \in found})>>)
        BY <2>4, <3>1 DEF OwnershipWalk, Stamped, FoundInv, NothingFound
      <4> HIDE DEF found
      <4>2. {f.company : f \in found} = {} <=> found = {}
        OBVIOUS
      <4> QED
        BY <4>1, <4>2
    <3>3. /\ IsList(chain')
          /\ \A action \in Conditional \ {"ownership_walk"} :
            Stamps(action)' = Stamps(action) /\ AboutOf(action)' = AboutOf(action)
          /\ \A u : DecisionsOn(u)' = DecisionsOn(u)
      BY <2>0, <3>2, RecordedIfFound DEF Conditional
    <3>4. OpenMatches' = OpenMatches
      BY <3>1 DEF OpenMatches, Outcome
    <3>5. AboutOf("ownership_walk")' = IF {f.company : f \in result'.ownership} = {} THEN {} ELSE {{f.company : f \in result'.ownership}}
      BY <2>0, <3>1, <3>2, RecordedIfFound DEF ChainInv, AfterRing, AfterWorksheet,
                                               AfterEscalation, Asked, Weighed
    <3> QED
      BY <3>1, <3>3, <3>4, <3>5 DEF Conditional, ChainInv, Tells, AfterRing, AfterWorksheet,
                                    AfterEscalation, Asked, Weighed
  <2>5. CASE Expose
    <3>1. /\ stage = "expose" /\ stage' = "walk"
          /\ UNCHANGED <<world, DOMAIN result, result.corroboration, result.ownership,
                         result.ring, result.dossiers>>
      BY <2>5 DEF Expose, Goto, FoundInv, NothingFound
    <3>2. chain' = chain
      BY <2>5, <3>1 DEF Expose, Stamped, FoundInv, NothingFound
    <3>3. /\ IsList(chain')
          /\ \A action \in Conditional :
            Stamps(action)' = Stamps(action) /\ AboutOf(action)' = AboutOf(action)
          /\ \A u : DecisionsOn(u)' = DecisionsOn(u)
      BY <2>0, <3>2 DEF Stamps, AboutOf, DecisionsOn
    <3>4. OpenMatches' = OpenMatches
      BY <3>1 DEF OpenMatches, Outcome
    <3> QED
      BY <3>1, <3>3, <3>4 DEF Conditional, ChainInv, Tells, AfterRing, AfterWorksheet,
                              AfterEscalation, Asked, Weighed
  <2>6. CASE Walk
    <3>1. /\ stage = "walk" /\ stage' = "walk"
          /\ UNCHANGED <<world, DOMAIN result, result.corroboration, result.ownership,
                         result.ring, result.dossiers>>
      BY <2>6 DEF Walk, FoundInv, NothingFound
    <3>2. chain' = chain
      BY <2>6, <3>1 DEF Walk, Stamped, FoundInv, NothingFound
    <3>3. /\ IsList(chain')
          /\ \A action \in Conditional :
            Stamps(action)' = Stamps(action) /\ AboutOf(action)' = AboutOf(action)
          /\ \A u : DecisionsOn(u)' = DecisionsOn(u)
      BY <2>0, <3>2 DEF Stamps, AboutOf, DecisionsOn
    <3>4. OpenMatches' = OpenMatches
      BY <3>1 DEF OpenMatches, Outcome
    <3> QED
      BY <3>1, <3>3, <3>4 DEF Conditional, ChainInv, Tells, AfterRing, AfterWorksheet,
                              AfterEscalation, Asked, Weighed
  <2>7. CASE ExposureSweep
    <3>1. /\ stage = "walk" /\ stage' = "ring"
          /\ UNCHANGED <<world, DOMAIN result, result.corroboration, result.ownership,
                         result.ring, result.dossiers>>
      BY <2>7 DEF ExposureSweep, Goto, FoundInv, NothingFound
    <3>2. \E S : chain' = chain \o <<Stamp("exposure_sweep", S)>>
      BY <2>7, <3>1 DEF ExposureSweep, Stamped, FoundInv, NothingFound
    <3>3. /\ IsList(chain')
          /\ \A action \in Conditional :
            Stamps(action)' = Stamps(action) /\ AboutOf(action)' = AboutOf(action)
          /\ \A u : DecisionsOn(u)' = DecisionsOn(u)
      BY <2>0, <3>2, Recorded DEF Conditional
    <3>4. OpenMatches' = OpenMatches
      BY <3>1 DEF OpenMatches, Outcome
    <3> QED
      BY <3>1, <3>3, <3>4 DEF Conditional, ChainInv, Tells, AfterRing, AfterWorksheet,
                              AfterEscalation, Asked, Weighed
  <2>8. CASE ProximityRing
    <3>1. /\ stage = "ring" /\ stage' = (IF world.territory = "no" THEN "verify" ELSE "locate")
          /\ UNCHANGED <<world, DOMAIN result, result.corroboration, result.ownership,
                         result.dossiers>>
      BY <2>8 DEF ProximityRing, Goto, FoundInv, NothingFound
    <3>2. chain' = chain \o (IF {m.uid : m \in result'.ring} = {} THEN << >>
                             ELSE <<Stamp("proximity_ring", {m.uid : m \in result'.ring})>>)
      <4> DEFINE found == TheRing
      <4>1. /\ result'.ring = found
            /\ chain' = chain \o (IF found = {} THEN << >> ELSE <<Stamp("proximity_ring", {m.uid : m \in found})>>)
        BY <2>8, <3>1 DEF ProximityRing, Stamped, TheRing, Parties, FoundInv, NothingFound
      <4> HIDE DEF found
      <4>2. {m.uid : m \in found} = {} <=> found = {}
        OBVIOUS
      <4> QED
        BY <4>1, <4>2
    <3>3. /\ IsList(chain')
          /\ \A action \in Conditional \ {"proximity_ring"} :
            Stamps(action)' = Stamps(action) /\ AboutOf(action)' = AboutOf(action)
          /\ \A u : DecisionsOn(u)' = DecisionsOn(u)
      BY <2>0, <3>2, RecordedIfFound DEF Conditional
    <3>4. OpenMatches' = OpenMatches
      BY <3>1 DEF OpenMatches, Outcome
    <3>5. AboutOf("proximity_ring")' = IF {m.uid : m \in result'.ring} = {} THEN {} ELSE {{m.uid : m \in result'.ring}}
      BY <2>0, <3>1, <3>2, RecordedIfFound DEF ChainInv, AfterRing, AfterWorksheet,
                                               AfterEscalation, Asked, Weighed
    <3>6. DOMAIN result.dossiers = {}
      BY <3>1 DEF FoundInv
    <3>7. \A action : Stamps(action) = {} => AboutOf(action) = {}
      BY DEF AboutOf
    <3> QED
      BY <3>1, <3>3, <3>4, <3>5, <3>6, <3>7 DEF Conditional, ChainInv, Tells, AfterRing,
                                                AfterWorksheet, AfterEscalation, Asked, Weighed
  <2>9. CASE GeoTriangulate
    <3>1. /\ stage = "locate" /\ stage' = (IF DOMAIN Dossiers = {} THEN "verify" ELSE "propose")
          /\ UNCHANGED <<world, DOMAIN result, result.corroboration, result.ownership, result.ring>>
          /\ result'.dossiers = Dossiers
      BY <2>9 DEF GeoTriangulate, Goto, FoundInv, NothingFound
    <3>2. chain' = chain \o (<<Stamp("geo_config", {})>> \o
                                IF DOMAIN Dossiers = {} THEN << >>
                                ELSE <<Stamp("geo_triangulation", DOMAIN Dossiers)>>)
      BY <2>9 DEF GeoTriangulate, Stamped
    <3>3. /\ Stamps("geo_config") = {} /\ Stamps("geo_triangulation") = {}
          /\ Stamps("geo_proposal") = {} /\ world.territory # "no"
      BY <3>1 DEF ChainInv, Weighed, AfterWorksheet
    <3>4. /\ IsList(chain')
          /\ \A action \in Conditional \ {"geo_config", "geo_triangulation"} :
            Stamps(action)' = Stamps(action) /\ AboutOf(action)' = AboutOf(action)
          /\ \A u : DecisionsOn(u)' = DecisionsOn(u)
          /\ Stamps("geo_config")' # {}
          /\ AboutOf("geo_triangulation")' =
               IF DOMAIN Dossiers = {} THEN {} ELSE {DOMAIN Dossiers}
      BY <2>0, <3>2, <3>3, GeoRecorded DEF Conditional
    <3>5. AboutOf("geo_proposal")' = {}
      BY <3>3, <3>4 DEF AboutOf, Conditional
    <3>6. OpenMatches' = OpenMatches
      BY <3>1 DEF OpenMatches, Outcome
    <3> QED
      BY <3>1, <3>3, <3>4, <3>5, <3>6 DEF Conditional, ChainInv, Tells, AfterRing,
                                          AfterWorksheet, AfterEscalation, Asked, Weighed
  <2>10. CASE GeoPropose
    <3>1. /\ stage = "propose" /\ stage' = "verify"
          /\ UNCHANGED <<world, DOMAIN result, result.corroboration, result.ownership,
                         result.ring, result.dossiers>>
      BY <2>10 DEF GeoPropose, Goto, FoundInv, NothingFound
    <3>2. chain' = chain \o <<Stamp("geo_proposal", DOMAIN result.dossiers)>>
      BY <2>10, <3>1 DEF GeoPropose, Stamped, FoundInv, NothingFound
    <3>3. /\ IsList(chain')
          /\ \A action \in Conditional \ {"geo_proposal"} :
            Stamps(action)' = Stamps(action) /\ AboutOf(action)' = AboutOf(action)
          /\ \A u : DecisionsOn(u)' = DecisionsOn(u)
      BY <2>0, <3>2, Recorded DEF Conditional
    <3>4. OpenMatches' = OpenMatches
      BY <3>1 DEF OpenMatches, Outcome
    <3>5. AboutOf("geo_proposal")' = {DOMAIN result.dossiers}
      BY <2>0, <3>1, <3>2, Recorded DEF ChainInv, Weighed, AfterWorksheet
    <3> QED
      BY <3>1, <3>3, <3>4, <3>5 DEF Conditional, ChainInv, Tells, AfterRing, AfterWorksheet,
                                    AfterEscalation, Asked, Weighed
  <2>11. CASE BlockVerify
    <3>1. /\ stage = "verify" /\ stage' = "worksheet"
          /\ UNCHANGED <<world, DOMAIN result, result.corroboration, result.ownership,
                         result.ring, result.dossiers>>
      BY <2>11 DEF BlockVerify, Goto, FoundInv, NothingFound
    <3>2. \E S : chain' = chain \o <<Stamp("block_verify", S)>>
      BY <2>11, <3>1 DEF BlockVerify, Stamped, FoundInv, NothingFound
    <3>3. /\ IsList(chain')
          /\ \A action \in Conditional :
            Stamps(action)' = Stamps(action) /\ AboutOf(action)' = AboutOf(action)
          /\ \A u : DecisionsOn(u)' = DecisionsOn(u)
      BY <2>0, <3>2, Recorded DEF Conditional
    <3>4. OpenMatches' = OpenMatches
      BY <3>1 DEF OpenMatches, Outcome
    <3> QED
      BY <3>1, <3>3, <3>4 DEF Conditional, ChainInv, Tells, AfterRing, AfterWorksheet,
                              AfterEscalation, Asked, Weighed
  <2>12. CASE WorksheetBuild
    <3>1. /\ stage = "worksheet" /\ stage' = "escalate"
          /\ UNCHANGED <<world, DOMAIN result, result.corroboration, result.ownership,
                         result.ring, result.dossiers>>
      BY <2>12 DEF WorksheetBuild, Goto, FoundInv, NothingFound
    <3>2. \E S : chain' = chain \o <<Stamp("worksheet_build", S)>>
      BY <2>12, <3>1 DEF WorksheetBuild, Stamped, FoundInv, NothingFound
    <3>3. /\ IsList(chain')
          /\ \A action \in Conditional :
            Stamps(action)' = Stamps(action) /\ AboutOf(action)' = AboutOf(action)
          /\ \A u : DecisionsOn(u)' = DecisionsOn(u)
      BY <2>0, <3>2, Recorded DEF Conditional
    <3>4. OpenMatches' = OpenMatches
      BY <3>1 DEF OpenMatches, Outcome
    <3> QED
      BY <3>1, <3>3, <3>4 DEF Conditional, ChainInv, Tells, AfterRing, AfterWorksheet,
                              AfterEscalation, Asked, Weighed
  <2>13. CASE EscalationsDraft
    <3>1. /\ stage = "escalate" /\ stage' = "ask"
          /\ UNCHANGED <<world, DOMAIN result, result.corroboration, result.ownership,
                         result.ring, result.dossiers>>
      BY <2>13 DEF EscalationsDraft, Goto, FoundInv, NothingFound
    <3>2. \E S : chain' = chain \o <<Stamp("escalations_draft", S)>>
      BY <2>13, <3>1 DEF EscalationsDraft, Stamped, FoundInv, NothingFound
    <3>3. /\ IsList(chain')
          /\ \A action \in Conditional :
            Stamps(action)' = Stamps(action) /\ AboutOf(action)' = AboutOf(action)
          /\ \A u : DecisionsOn(u)' = DecisionsOn(u)
      BY <2>0, <3>2, Recorded DEF Conditional
    <3>4. OpenMatches' = OpenMatches
      BY <3>1 DEF OpenMatches, Outcome
    <3> QED
      BY <3>1, <3>3, <3>4 DEF Conditional, ChainInv, Tells, AfterRing, AfterWorksheet,
                              AfterEscalation, Asked, Weighed
  <2>14. CASE IdentityReviewRfi
    <3>1. /\ stage = "ask" /\ stage' = "complete"
          /\ UNCHANGED <<world, DOMAIN result, result.corroboration, result.ownership,
                         result.ring, result.dossiers>>
      BY <2>14 DEF IdentityReviewRfi, Goto, FoundInv, NothingFound
    <3>2. chain' = chain \o (IF OpenMatches = {} THEN << >>
                             ELSE <<Stamp("identity_review_rfi", OpenMatches)>>)
      BY <2>14, <3>1 DEF IdentityReviewRfi, Stamped, FoundInv, NothingFound
    <3>3. /\ IsList(chain')
          /\ \A action \in Conditional \ {"identity_review_rfi"} :
            Stamps(action)' = Stamps(action) /\ AboutOf(action)' = AboutOf(action)
          /\ \A u : DecisionsOn(u)' = DecisionsOn(u)
      BY <2>0, <3>2, RecordedIfFound DEF Conditional
    <3>4. OpenMatches' = OpenMatches
      BY <3>1 DEF OpenMatches, Outcome
    <3>5. AboutOf("identity_review_rfi")' = IF OpenMatches = {} THEN {} ELSE {OpenMatches}
      BY <2>0, <3>1, <3>2, RecordedIfFound DEF ChainInv, AfterRing, AfterWorksheet,
                                               AfterEscalation, Asked, Weighed
    <3> QED
      BY <3>1, <3>3, <3>4, <3>5 DEF Conditional, ChainInv, Tells, AfterRing, AfterWorksheet,
                                    AfterEscalation, Asked, Weighed
  <2>15. CASE SweepComplete
    <3>1. /\ stage = "complete" /\ stage' = "package"
          /\ UNCHANGED <<world, DOMAIN result, result.corroboration, result.ownership,
                         result.ring, result.dossiers>>
      BY <2>15 DEF SweepComplete, Goto, FoundInv, NothingFound
    <3>2. \E S : chain' = chain \o <<Stamp("sweep_complete", S)>>
      BY <2>15, <3>1 DEF SweepComplete, Stamped, FoundInv, NothingFound
    <3>3. /\ IsList(chain')
          /\ \A action \in Conditional :
            Stamps(action)' = Stamps(action) /\ AboutOf(action)' = AboutOf(action)
          /\ \A u : DecisionsOn(u)' = DecisionsOn(u)
      BY <2>0, <3>2, Recorded DEF Conditional
    <3>4. OpenMatches' = OpenMatches
      BY <3>1 DEF OpenMatches, Outcome
    <3> QED
      BY <3>1, <3>3, <3>4 DEF Conditional, ChainInv, Tells, AfterRing, AfterWorksheet,
                              AfterEscalation, Asked, Weighed
  <2>16. CASE WriteSweepPackage
    <3>1. /\ stage = "package" /\ stage' = "stamp"
          /\ UNCHANGED <<world, DOMAIN result, result.corroboration, result.ownership,
                         result.ring, result.dossiers>>
      BY <2>16 DEF WriteSweepPackage, Goto, FoundInv, NothingFound
    <3>2. chain' = chain
      BY <2>16, <3>1 DEF WriteSweepPackage, Stamped, FoundInv, NothingFound
    <3>3. /\ IsList(chain')
          /\ \A action \in Conditional :
            Stamps(action)' = Stamps(action) /\ AboutOf(action)' = AboutOf(action)
          /\ \A u : DecisionsOn(u)' = DecisionsOn(u)
      BY <2>0, <3>2 DEF Stamps, AboutOf, DecisionsOn
    <3>4. OpenMatches' = OpenMatches
      BY <3>1 DEF OpenMatches, Outcome
    <3>5. package' = build_sweep_package /\ build_sweep_package' = build_sweep_package
      BY <2>16 DEF WriteSweepPackage, build_sweep_package
    <3> QED
      BY <3>1, <3>3, <3>4, <3>5 DEF Conditional, ChainInv, Tells, AfterRing, AfterWorksheet,
                                    AfterEscalation, Asked, Weighed
  <2>17. CASE Packaged
    <3>1. /\ stage = "stamp" /\ stage' = "done"
          /\ UNCHANGED <<world, result, package>>
      BY <2>17 DEF Packaged, Goto
    <3>2. chain' = chain \o <<Stamp("packaged", {})>> /\ package = build_sweep_package
          /\ Stamps("packaged") = {}
      BY <2>17, <3>1 DEF Packaged, Stamped, ChainInv
    <3>3. /\ IsList(chain')
          /\ \A action \in Conditional \ {"packaged"} :
            Stamps(action)' = Stamps(action) /\ AboutOf(action)' = AboutOf(action)
          /\ \A u : DecisionsOn(u)' = DecisionsOn(u)
          /\ Stamps("packaged")' = {Len(chain) + 1}
      BY <2>0, <3>2, Recorded DEF Conditional
    <3>4. OpenMatches' = OpenMatches
      BY <3>1 DEF OpenMatches, Outcome
    <3>5. Cardinality(Stamps("packaged")') = 1
      BY <3>3, FS_Singleton
    <3>6. /\ chain' = Append(package'.records, Stamp("packaged", {}))
          /\ package' = [build_sweep_package' EXCEPT !.records = package'.records]
      <4>1. package' = build_sweep_package /\ package'.records = chain
        BY <3>1, <3>2 DEF build_sweep_package
      <4>2. build_sweep_package = [build_sweep_package' EXCEPT !.records = chain]
        BY <3>1 DEF build_sweep_package
      <4>3. chain \o <<Stamp("packaged", {})>> = Append(chain, Stamp("packaged", {}))
        <5> DEFINE T == {chain[i] : i \in DOMAIN chain} \cup {Stamp("packaged", {})}
        <5>1. chain \in Seq(T) /\ Stamp("packaged", {}) \in T
          BY <2>0 DEF IsList
        <5> HIDE DEF T
        <5> QED
          BY <5>1
      <4> QED
        BY <3>2, <4>1, <4>2, <4>3
    <3>7. Closed'
      BY <3>5, <3>6 DEF Closed
    <3> QED
      BY <3>1, <3>3, <3>4, <3>7 DEF Conditional, ChainInv, Tells, AfterRing, AfterWorksheet,
                                    AfterEscalation, Asked, Weighed
  <2>18. CASE WorksheetRaises \/ Abort
    BY <2>18 DEF WorksheetRaises, Abort, Goto, ChainInv, Tells, AfterRing, AfterWorksheet,
                 AfterEscalation, Asked, Weighed
  <2>19. CASE UNCHANGED vars
    <3>1. UNCHANGED <<world, stage, result, chain, package>>
      BY <2>19 DEF vars
    <3>2. /\ \A action \in Conditional : Stamps(action)' = Stamps(action) /\ AboutOf(action)' = AboutOf(action)
          /\ \A u : DecisionsOn(u)' = DecisionsOn(u)
          /\ OpenMatches' = OpenMatches /\ build_sweep_package' = build_sweep_package
      BY <3>1 DEF Stamps, AboutOf, DecisionsOn, OpenMatches, Outcome, build_sweep_package
    <3>3. Closed' = Closed
      BY <3>1, <3>2 DEF Closed, Conditional
    <3>4. /\ Tells("ownership_walk", {f.company : f \in result.ownership})'
               <=> Tells("ownership_walk", {f.company : f \in result.ownership})
          /\ Tells("proximity_ring", {m.uid : m \in result.ring})'
               <=> Tells("proximity_ring", {m.uid : m \in result.ring})
          /\ Tells("geo_triangulation", DOMAIN result.dossiers)'
               <=> Tells("geo_triangulation", DOMAIN result.dossiers)
          /\ Tells("geo_proposal", DOMAIN result.dossiers)'
               <=> Tells("geo_proposal", DOMAIN result.dossiers)
          /\ Tells("identity_review_rfi", OpenMatches)'
               <=> Tells("identity_review_rfi", OpenMatches)
      BY <3>1, <3>2 DEF Tells, Conditional
    <3> QED
      BY <3>1, <3>2, <3>3, <3>4 DEF Conditional, ChainInv, AfterRing, AfterWorksheet,
                                    AfterEscalation, Asked, Weighed
  <2> QED
    BY <2>1, <2>2, <2>3, <2>4, <2>5, <2>6, <2>7, <2>8, <2>9, <2>10, <2>11, <2>12, <2>13, <2>14,
       <2>15, <2>16, <2>17, <2>18, <2>19 DEF Next
<1> QED
  BY <1>1, <1>2, FoundHolds, AskHolds, PTL DEF Spec

(***************************************************************************)
(* On any tables the chain of a finished sweep says what it found: each    *)
(* conditional stage is stamped iff it found something and for whom, each  *)
(* candidate once, and the package was built on every record but its own   *)
(* stamp, with an answer for everybody who can reach a listed address and  *)
(* is not held in both systems (sweep/pipeline.py, sweep/packager.py).     *)
(***************************************************************************)
THEOREM ChainAlwaysTells == Spec => []ChainTellsTheSweep
<1>1. ASSUME SweepInv, FoundInv, AskInv, GeoInv, ChainInv, stage = "done"
      PROVE  ChainTellsTheSweep
  <2> USE <1>1
  <2>1. /\ stage \in AfterWorksheet /\ stage \in AfterEscalation /\ stage \in Asked
        /\ stage \in Weighed /\ stage \in AfterRing /\ stage \in Walked /\ world \in Worlds
    BY DEF AfterRing, AfterWorksheet, AfterEscalation, Asked, Weighed, Walked, FoundInv
  <2>2. /\ Tells("ownership_walk", {f.company : f \in result.ownership})
        /\ Tells("proximity_ring", {m.uid : m \in result.ring})
        /\ Tells("geo_triangulation", DOMAIN result.dossiers)
        /\ Tells("geo_proposal", DOMAIN result.dossiers)
        /\ Tells("identity_review_rfi", OpenMatches)
        /\ Stamps("geo_config") = {} <=> world.territory = "no"
        /\ \A u \in DOMAIN result.corroboration : Cardinality(DecisionsOn(u)) = 1
        /\ Closed
    BY <2>1 DEF ChainInv
  <2>3. DOMAIN result.proposals = DOMAIN result.dossiers
    BY <2>1 DEF GeoInv, FoundInv
  <2>4. result.asked \cup result.unasked = OpenMatches
    BY <2>1 DEF AskInv, RequestsDrafted
  <2>5. ASSUME NEW s \in {<<"proximity_ring", {m.uid : m \in result.ring}>>,
                          <<"identity_review_rfi", result.asked \cup result.unasked>>,
                          <<"geo_triangulation", DOMAIN result.dossiers>>,
                          <<"geo_proposal", DOMAIN result.proposals>>,
                          <<"ownership_walk", {f.company : f \in result.ownership}>>}
        PROVE  {chain[i].about : i \in Stamps(s[1])} = IF s[2] = {} THEN {} ELSE {s[2]}
    <3>1. Tells(s[1], s[2])
      <4> DEFINE R == {m.uid : m \in result.ring}
                 O == {f.company : f \in result.ownership}
                 Q == result.asked \cup result.unasked
      <4>1. s \in {<<"proximity_ring", R>>, <<"identity_review_rfi", Q>>,
                   <<"geo_triangulation", DOMAIN result.dossiers>>,
                   <<"geo_proposal", DOMAIN result.proposals>>, <<"ownership_walk", O>>}
        BY <2>5
      <4>2. /\ Tells("proximity_ring", R) /\ Tells("identity_review_rfi", Q)
            /\ Tells("geo_triangulation", DOMAIN result.dossiers)
            /\ Tells("geo_proposal", DOMAIN result.proposals)
            /\ Tells("ownership_walk", O)
        BY <2>2, <2>3, <2>4
      <4> HIDE DEF R, O, Q
      <4> QED
        BY <4>1, <4>2
    <3> QED
      BY <3>1 DEF Tells, AboutOf
  <2>6. /\ package.exposed = result.hops /\ package.drafted = result.drafted
        /\ package.suppressed = result.suppressed /\ package.worksheet = result.rows
    BY <2>2 DEF Closed, build_sweep_package
  <2>7. ASSUME NEW u \in DOMAIN package.exposed
        PROVE  u \in {e.uid : e \in package.drafted \cup package.suppressed}
                \cup {r.uid : r \in {r \in package.worksheet : r.gap = "none" /\ r.warehouse = "blocked"}}
    <3> DEFINE row == Row(u, "exposed", {})
    <3>1. u \in Reaching
      BY <2>1, <2>6, SurfacedAreLinked DEF Exposed
    <3>2. /\ u \in Accounts
          /\ \A r : r \in result.rows /\ r.uid = u <=> r = row
          /\ row.gap # "none" <=> world.warehouse[u] # world.admin[u]
          /\ row.warehouse = HoldStatus(world.warehouse, u)
          /\ row.admin = HoldStatus(world.admin, u)
      BY <2>1, <3>1, ExposedRow
    <3>3. row.kind = "exposed" /\ row \in result.rows /\ row.uid = u
      BY <3>2, RowFields
    <3>4. {world.warehouse[u], world.admin[u]} \subseteq {"absent", "no_hold", "blocked"}
      BY <2>1, <3>2, SweepAssumption DEF HoldTables
    <3>5. result.drafted \cup result.suppressed = Escalations
      BY <2>1 DEF FoundInv, EscalationsDrafted
    <3> HIDE DEF row
    <3>6. CASE row \in GapRows \cup UnheldRows
      <4>1. \E e \in Escalations : e.uid = u
        <5>1. (\E r \in GapRows : r.uid = u) \/ (\E r \in UnheldRows : r.uid = u)
          BY <3>3, <3>6
        <5>2. {e.kind : e \in {e \in Escalations : e.uid = u}} # {}
          BY <5>1, EscalatedKinds
        <5> QED
          BY <5>2
      <4> QED
        BY <2>6, <3>5, <4>1
    <3>7. CASE row \notin GapRows \cup UnheldRows
      <4>1. row.gap = "none" /\ ~(row.warehouse = "no_hold" /\ row.admin = "no_hold")
        BY <3>3, <3>7 DEF GapRows, UnheldRows
      <4>2. row.warehouse = "blocked"
        BY <3>2, <3>4, <4>1 DEF HoldStatus
      <4> QED
        BY <2>6, <3>3, <4>1, <4>2
    <3> QED
      BY <3>6, <3>7
  <2>8. \A u \in DOMAIN result.corroboration :
          Cardinality({i \in Stamps("corroboration_decision") : chain[i].about = {u}}) = 1
    BY <2>2 DEF DecisionsOn
  <2>9. /\ Cardinality(Stamps("packaged")) = 1
        /\ chain = Append(package.records, Stamp("packaged", {}))
    BY <2>2 DEF Closed
  <2>10. DOMAIN package.exposed \subseteq {e.uid : e \in package.drafted \cup package.suppressed}
           \cup {r.uid : r \in {r \in package.worksheet : r.gap = "none" /\ r.warehouse = "blocked"}}
    BY <2>7
  <2> QED
    BY <2>2, <2>5, <2>8, <2>9, <2>10 DEF ChainTellsTheSweep
<1>2. SweepInv /\ FoundInv /\ AskInv /\ GeoInv /\ ChainInv => ChainTellsTheSweep
  BY <1>1 DEF ChainTellsTheSweep
<1> QED
  BY <1>2, SweepInvariant, FoundHolds, AskHolds, GeoHolds, ChainHolds, PTL
-----------------------------------------------------------------------------
(* The case page. *)

\* The distance at which the case page finds a set of nodes.
NearestHop(S) ==
    CHOOSE k \in 0..Cardinality(Nodes) :
        S \cap WithinHops[k] # {} /\ (k > 0 => S \cap WithinHops[k - 1] = {})

\* It is the least distance the walk found in it.
LEMMA NearestIsLeast ==
    ASSUME world \in Worlds, Exact, NEW S, NEW h,
           \E n \in S \cap DOMAIN dist : dist[n] = h,
           \A n \in S \cap DOMAIN dist : h <= dist[n]
    PROVE  NearestHop(S) = h
<1> DEFINE N == Cardinality(Nodes)
           W == WithinHops
           Is(k) == S \cap W[k] # {} /\ (k > 0 => S \cap W[k - 1] = {})
<1>1. N \in Nat
  BY NodesAreFinite, FS_CardinalityType
<1>2. /\ \A k \in 0..N : W[k] = {n \in DOMAIN dist : dist[n] <= k}
      /\ \A n \in DOMAIN dist : dist[n] \in 0..N
  BY LevelIsDistance
<1>3. h \in 0..N
  BY <1>2
<1> HIDE DEF W, N
<1>4. ASSUME NEW k \in 0..N
      PROVE  Is(k) <=> k = h
  <2>1. S \cap W[k] # {} <=> h <= k
    BY <1>1, <1>2, <1>3, <1>4
  <2>2. k > 0 => (S \cap W[k - 1] = {} <=> k - 1 < h)
    <3>1. k > 0 => k - 1 \in 0..N
      BY <1>1
    <3> QED
      BY <1>1, <1>2, <1>3, <3>1
  <2> QED
    BY <1>1, <1>3, <2>1, <2>2
<1> HIDE DEF Is
<1>5. NearestHop(S) = CHOOSE k \in 0..N : Is(k)
  BY DEF NearestHop, Is, N, W
<1> QED
  BY <1>3, <1>4, <1>5

\* Without a listed address nobody reaches one.
LEMMA NobodyReachesNothing ==
    ASSUME world \in Worlds, Exact, world.listed = {}
    PROVE  Reaching = {}
<1>1. dist \in [DOMAIN dist -> Nat] /\ WithinHops[Cardinality(Nodes)] = DOMAIN dist
  BY LevelIsDistance DEF Exact
<1>2. DOMAIN dist = {}
  <2> SUFFICES ASSUME DOMAIN dist # {}
               PROVE  FALSE
    OBVIOUS
  <2> DEFINE T == {dist[n] : n \in DOMAIN dist}
  <2>1. T \subseteq Nat /\ T # {}
    BY <1>1
  <2>2. PICK k \in T : \A m \in T : <<m, k>> \notin OpToRel(<, Nat)
    BY <2>1, NatLessThanWellFounded, WFMin
  <2>3. PICK n \in DOMAIN dist : dist[n] = k
    BY <2>2
  <2>4. n \in Nodes /\ dist[n] # 0
    BY <2>3 DEF Exact, Sources
  <2>5. PICK m \in DOMAIN dist : dist[n] = dist[m] + 1
    BY <1>1, <2>4 DEF Exact, Stepwise
  <2>6. dist[m] \in T /\ dist[m] \in Nat /\ k \in Nat /\ dist[m] < k
    BY <1>1, <2>3, <2>5
  <2> QED
    BY <2>2, <2>6 DEF OpToRel
<1> QED
  BY <1>1, <1>2 DEF Reaching

\* Who has a flow line on the page, and what it says.
LEMMA FlowIsTheSweeps ==
    ASSUME SweepInv, FoundInv, stage \in AfterRing, NEW cluster \in SUBSET Accounts
    PROVE  FlowLines(cluster) =
              {[uid |-> u, hops |-> result.hops[u],
                timing |-> Timing(result.hops[u], result.legs[u])] :
                  u \in {u \in cluster : IsParty /\ u \in Reaching}}
<1> DEFINE nodes == WithinHops[Cardinality(Nodes)]
           exposed == {u \in cluster : IsParty /\ world.listed # {} /\ ClusterOf(u) \cap nodes # {}}
           far == [n \in nodes |-> NearestHop({n})]
           hops == [u \in exposed |-> NearestHop(ClusterOf(u))]
           legs == DrivingLegs(far, hops)
<1>1. FlowLines(cluster) =
        {[uid |-> u, hops |-> hops[u], timing |-> Timing(hops[u], legs[u])] : u \in exposed}
  BY Zenon DEF FlowLines, NearestHop
<1>2. world \in Worlds /\ Exact /\ ExposureTaken
  BY DEF SweepInv, FoundInv, Walked
<1>3. nodes = DOMAIN dist /\ \A n \in DOMAIN dist : dist[n] \in Nat
  BY <1>2, LevelIsDistance DEF Exact
<1>4. world.listed = {} => Reaching = {}
  BY <1>2, NobodyReachesNothing
<1>5. exposed = {u \in cluster : IsParty /\ u \in Reaching}
  BY <1>3, <1>4 DEF Reaching
<1>6. far = dist
  <2>1. \A n \in DOMAIN dist : NearestHop({n}) = dist[n]
    BY <1>2, <1>3, NearestIsLeast
  <2>2. dist = [n \in DOMAIN dist |-> dist[n]]
    BY <1>2 DEF Exact
  <2> QED
    BY <1>3, <2>1, <2>2
<1>7. ASSUME NEW u \in exposed
      PROVE  hops[u] = result.hops[u] /\ legs[u] = result.legs[u]
  <2>1. u \in ExposedAccounts
    BY <1>3, <1>7 DEF ExposedAccounts
  <2>2. /\ \E n \in ClusterOf(u) \cap DOMAIN dist : dist[n] = Hops(u)
        /\ \A n \in ClusterOf(u) \cap DOMAIN dist : Hops(u) <= dist[n]
    BY <1>2, <2>1, HopsAreLeast
  <2>3. hops[u] = Hops(u)
    BY <1>2, <2>2, NearestIsLeast
  <2>4. result.hops[u] = Hops(u) /\ u \in DOMAIN result.hops
        /\ result.legs = DrivingLegs(dist, result.hops)
    BY <1>2, <2>1 DEF ExposureTaken, HopsByUid
  <2>5. u \in DOMAIN hops /\ legs = DrivingLegs(dist, hops)
    BY <1>6
  <2> HIDE DEF hops, legs, far
  <2>6. legs[u] = result.legs[u]
    BY <2>3, <2>4, <2>5 DEF DrivingLegs
  <2> QED
    BY <2>3, <2>4, <2>6
<1> HIDE DEF hops, legs, exposed
<1>8. FlowLines(cluster) =
        {[uid |-> u, hops |-> result.hops[u],
          timing |-> Timing(result.hops[u], result.legs[u])] : u \in exposed}
  BY <1>1, <1>7
<1> QED
  BY <1>5, <1>8

\* What the page decides of the subject's own name and wallets.
LEMMA HitsAreTheSweeps ==
    ASSUME HitsTaken, HitsWeighed, world \in Worlds, NEW u \in Accounts
    PROVE  LET wallets == \E a \in world.listed : world.controller[a] = u
               badge == compute_badge(subject_hits(u))
           IN  /\ badge # "no_match" <=> IsParty /\ ((Hit(u) /\ ~Contradicted(u)) \/ wallets)
               /\ badge = "corroborated" <=> IsParty /\ Outcome(u) = "corroborated_true_hit"
               /\ dismissals(u) # {} <=> Outcome(u) = "name_only_dismissed" /\ IsParty
<1> DEFINE wallets == \E a \in world.listed : world.controller[a] = u
           named == {k \in {"direct", "variant"} : u \in NamedAs(k, {u})}
           wallet == [kind |-> "address", outcome |-> "none"]
           hits == subject_hits(u)
<1>1. named # {} <=> IsParty /\ Hit(u)
  <2>1. world.name[u] \subseteq {"direct", "variant"}
    BY SweepAssumption DEF IdentityTables
  <2>2. "direct" \in named <=> IsParty /\ "direct" \in world.name[u]
    BY DEF NamedAs, match_designated_name
  <2>3. "variant" \in named <=> IsParty /\ "variant" \in world.name[u] /\ "direct" \notin world.name[u]
    BY DEF NamedAs, match_designated_name, screen_name_variants
  <2> HIDE DEF named
  <2>4. named \subseteq {"direct", "variant"}
    BY DEF named
  <2> QED
    BY <2>1, <2>2, <2>3, <2>4 DEF Hit
<1>2. /\ \A h \in NameHits(u) : h.outcome = Corroborated(u)
      /\ NameHits(u) # {} <=> named # {}
  <2> DEFINE hit(k) == [kind |-> k, outcome |-> Corroborated(u)]
  <2>1. NameHits(u) = {hit(k) : k \in named}
    BY DEF NameHits
  <2>2. \A k : hit(k).outcome = Corroborated(u)
    OBVIOUS
  <2> HIDE DEF hit, named
  <2> QED
    BY <2>1, <2>2
<1>3. /\ Hit(u) => Corroborated(u) = Outcome(u)
      /\ ~Hit(u) => Outcome(u) = "none"
  BY DEF Corroborated, Outcome, HitsWeighed, Candidates
<1>4. Hit(u) => (Outcome(u) = "name_only_dismissed" <=> Contradicted(u))
  BY PartiesAreUncontradicted
<1>5. {[kind |-> "address", outcome |-> "none"] : v \in ControlsListed({u})}
        = {x \in {wallet} : IsParty /\ wallets}
  BY DEF ControlsListed
<1>6. hits = {h \in NameHits(u) : h.outcome # "name_only_dismissed"}
               \cup {x \in {wallet} : IsParty /\ wallets}
  BY <1>5 DEF subject_hits
<1> HIDE DEF hits, named, wallets
<1>7. hits # {} <=> IsParty /\ ((Hit(u) /\ ~Contradicted(u)) \/ wallets)
  BY <1>1, <1>2, <1>3, <1>4, <1>6
<1>8. (\E h \in hits : h.outcome = "corroborated_true_hit")
         <=> IsParty /\ Outcome(u) = "corroborated_true_hit"
  BY <1>1, <1>2, <1>3, <1>6
<1>9. dismissals(u) # {} <=> Outcome(u) = "name_only_dismissed" /\ IsParty
  BY <1>1, <1>2, <1>3 DEF dismissals
<1>10. /\ compute_badge(hits) # "no_match" <=> hits # {}
       /\ compute_badge(hits) = "corroborated"
            <=> \E h \in hits : h.outcome = "corroborated_true_hit"
  BY DEF compute_badge
<1> QED
  BY <1>7, <1>8, <1>9, <1>10 DEF hits, wallets

\* "a geography carries no on-chain addresses" (sweep/designation.py, which lets
\* a territory's list be empty and does not require it).
PlacesHaveNoAddress == ~IsParty => world.listed = {}

(***************************************************************************)
(* On any tables, for any subject and any cluster it is looked at in, the  *)
(* page of a case tells what the sweep of the designation found: badge,    *)
(* flow line, location line, dismissals and notices.  A territory is taken *)
(* to have no address: the page walks no flow for one, the sweep would     *)
(* (designation_check/check.py).                                           *)
(***************************************************************************)
THEOREM PageAlwaysTells == Spec => [](PlacesHaveNoAddress => CheckTellsTheSweep)
<1>1. ASSUME SweepInv, FoundInv, AskInv, PlacesHaveNoAddress, stage = "escalate"
      PROVE  CheckTellsTheSweep
  <2> USE <1>1
  <2>1. /\ stage \in AfterRing /\ stage \in AfterWorksheet /\ stage \in Walked
        /\ stage \in Weighed /\ stage \notin {"open", "screen", "corroborate", "raised"}
    BY DEF AfterRing, AfterWorksheet, Walked, Weighed
  <2>2. /\ world \in Worlds /\ HitsTaken /\ HitsWeighed /\ result.rows = Rows
        /\ DOMAIN result.dossiers = DOMAIN Dossiers
    BY <2>1 DEF FoundInv, AskInv
  <2>3. Exposed = Reaching /\ Reaching \subseteq Accounts
        /\ \A u \in Reaching : u \notin AdjacentUids
    BY <2>1, SurfacedAreLinked
  <2>4. OneRowPerSurfaced
    BY RowsFollow
  <2> DEFINE Line(u) == [uid |-> u, hops |-> result.hops[u],
                         timing |-> Timing(result.hops[u], result.legs[u])]
  <2>5. \A cluster \in SUBSET Accounts :
           FlowLines(cluster) = {Line(u) : u \in {u \in cluster : IsParty /\ u \in Reaching}}
    BY <2>1, FlowIsTheSweeps
  <2>6. ~IsParty => Reaching = {}
    <3>1. Exact
      BY <2>1 DEF SweepInv
    <3> QED
      BY <2>2, <3>1, NobodyReachesNothing DEF PlacesHaveNoAddress
  <2> SUFFICES ASSUME NEW u \in Accounts, NEW others \in SUBSET Accounts
               PROVE  LET page == run_designation_check(u, others) IN
        /\ page.badge # "no_match" <=>
              IsParty /\ ((Hit(u) /\ ~Contradicted(u)) \/ \E a \in world.listed : world.controller[a] = u)
        /\ page.badge = "corroborated" <=> IsParty /\ Outcome(u) = "corroborated_true_hit"
        /\ page.flow = {[uid |-> r.uid, hops |-> result.hops[u], timing |-> r.timing] :
                          r \in {r \in result.rows : r.uid = u /\ r.kind = "exposed"}}
        /\ page.located <=> u \in DOMAIN result.dossiers
        /\ page.dismissed # {} <=> Outcome(u) = "name_only_dismissed" /\ IsParty
        /\ IsParty /\ page.badge = "no_match" /\ page.flow = {} =>
              RowKinds(u) \subseteq {"adjacent"} \cup
                 (IF page.dismissed # {} /\ "direct" \in world.name[u] THEN {"name_match"} ELSE {})
        /\ IsParty => \A v \in others \ {u} :
              RowKinds(v) \ {"adjacent"} # {} => \E n \in page.notices : n.uid = v
    BY Zenon DEF CheckTellsTheSweep
  <2> DEFINE badge == compute_badge(subject_hits(u))
             flow == FlowLines({u})
             dismissed == dismissals(u)
             wallets == \E a \in world.listed : world.controller[a] = u
  <2>7. LET page == run_designation_check(u, others) IN
        /\ page.badge = badge /\ page.flow = flow /\ page.located = TerritoryLine(u)
        /\ page.dismissed = dismissed /\ page.notices = Notices(u, others \cup {u})
    BY DEF run_designation_check
  <2>8. /\ badge # "no_match" <=> IsParty /\ ((Hit(u) /\ ~Contradicted(u)) \/ wallets)
        /\ badge = "corroborated" <=> IsParty /\ Outcome(u) = "corroborated_true_hit"
        /\ dismissed # {} <=> Outcome(u) = "name_only_dismissed" /\ IsParty
    BY <2>2, HitsAreTheSweeps
  <2>9. flow = {[uid |-> r.uid, hops |-> result.hops[u], timing |-> r.timing] :
                  r \in {r \in result.rows : r.uid = u /\ r.kind = "exposed"}}
    <3> DEFINE row == Row(u, "exposed", {})
    <3>1. flow = {Line(v) : v \in {v \in {u} : u \in Reaching}}
      BY <2>5, <2>6
    <3>2. \A r : (r \in result.rows /\ r.uid = u /\ r.kind = "exposed") <=> (u \in Reaching /\ r = row)
      BY <2>2, <2>3, RowsByLoop, RowFields
    <3>3. row.uid = u /\ row.timing = Timing(result.hops[u], result.legs[u])
      BY RowFields
    <3> HIDE DEF row, flow
    <3>4. {r \in result.rows : r.uid = u /\ r.kind = "exposed"} = {r \in {row} : u \in Reaching}
      BY <3>2
    <3> QED
      BY <3>1, <3>3, <3>4
  <2>10. TerritoryLine(u) <=> u \in DOMAIN result.dossiers
    BY <2>2 DEF Dossiers, TerritoryLine
  <2>11. ASSUME NEW v \in Accounts
         PROVE  RowKinds(v) =
                  IF v \in Reaching THEN {"exposed"}
                  ELSE IF v \in Surfaced(Reaching) THEN {"adjacent"}
                  ELSE IF "direct" \in world.name[v] THEN {"name_match"}
                  ELSE IF "variant" \in world.name[v] /\ ~Contradicted(v) THEN {"variant_match"}
                  ELSE {}
    BY <2>1, <2>4 DEF OneRowPerSurfaced, RowKinds
  <2>12. ASSUME IsParty, badge = "no_match", flow = {}
         PROVE  RowKinds(u) \subseteq {"adjacent"} \cup
                 (IF dismissed # {} /\ "direct" \in world.name[u] THEN {"name_match"} ELSE {})
    <3>1. u \notin Reaching
      <4>1. flow = {Line(v) : v \in {v \in {u} : IsParty /\ v \in Reaching}}
        BY <2>5
      <4>2. u \in Reaching => Line(u) \in flow
        BY <4>1, <2>12
      <4> QED
        BY <4>2, <2>12
    <3>2. Hit(u) => Contradicted(u)
      BY <2>8, <2>12
    <3>3. "direct" \in world.name[u] \/ "variant" \in world.name[u] => Hit(u)
      BY DEF Hit
    <3>4. Contradicted(u) => dismissed # {}
      <4>1. Contradicted(u) => Hit(u)
        BY DEF Contradicted
      <4> QED
        BY <4>1, <2>2, <2>8, <2>12, PartiesAreUncontradicted
    <3> HIDE DEF dismissed
    <3> QED
      BY <2>11, <3>1, <3>2, <3>3, <3>4
  <2>13. ASSUME IsParty, NEW v \in others \ {u}, RowKinds(v) \ {"adjacent"} # {}
         PROVE  \E n \in Notices(u, others \cup {u}) : n.uid = v
    <3> DEFINE rest == (others \cup {u}) \ {u}
               all == Notices(u, others \cup {u})
    <3>1. v \in Accounts /\ v \in rest /\ rest \subseteq Accounts
      OBVIOUS
    <3>2. v \in Reaching \/ "direct" \in world.name[v]
            \/ ("variant" \in world.name[v] /\ "direct" \notin world.name[v])
      BY <2>11, <2>13, <3>1
    <3>3. CASE v \in Reaching
      <4>1. Line(v) \in FlowLines(rest)
        BY <2>5, <2>13, <3>1, <3>3
      <4>2. [uid |-> Line(v).uid, kind |-> "flow"] \in all
        BY <4>1 DEF Notices
      <4> QED
        BY <4>2
    <3>4. CASE "direct" \in world.name[v]
      <4>1. v \in NamedAs("direct", rest)
        BY <2>13, <3>1, <3>4 DEF NamedAs, match_designated_name
      <4>2. [uid |-> v, kind |-> "name"] \in all
        BY <4>1 DEF Notices
      <4> QED
        BY <4>2
    <3>5. CASE "variant" \in world.name[v] /\ "direct" \notin world.name[v]
      <4>1. v \in NamedAs("variant", rest)
        BY <2>13, <3>1, <3>5 DEF NamedAs, match_designated_name, screen_name_variants
      <4>2. [uid |-> v, kind |-> "variant"] \in all
        BY <4>1 DEF Notices
      <4> QED
        BY <4>2
    <3> QED
      BY <3>2, <3>3, <3>4, <3>5
  <2> HIDE DEF badge, flow, dismissed, wallets
  <2> QED
    BY <2>7, <2>8, <2>9, <2>10, <2>12, <2>13 DEF wallets
<1>2. SweepInv /\ FoundInv /\ AskInv => (PlacesHaveNoAddress => CheckTellsTheSweep)
  BY <1>1 DEF CheckTellsTheSweep
<1> QED
  BY <1>2, SweepInvariant, FoundHolds, AskHolds, PTL
=============================================================================
