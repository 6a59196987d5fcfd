------------------------ MODULE NetworkExpanderProofs ------------------------
(***************************************************************************)
(* Every invariant of the walk and of the scorer holds whatever the        *)
(* evidence, however many accounts and gas rows there are and in whatever  *)
(* order the frontier and the worklist are taken.                          *)
(***************************************************************************)
EXTENDS RiskScorer, ProofLemmas

USE DEF Refs

walking == stage \in {"between", "hop"}

Shape ==
    /\ conn \in Tables /\ subject \in Accounts
    /\ stage \in {"between", "hop", "collapse", "trace", "done"}
    /\ discovered \subseteq Accounts /\ nodes \subseteq Refs
    /\ subject \in discovered
    /\ frontier \subseteq discovered /\ nextFrontier \subseteq discovered

\* Whoever the walk has found and does not still mean to visit has all its
\* neighbours found.
WalkInv ==
    walking =>
        /\ stage = "between" => nextFrontier = {}
        /\ \A u \in discovered \ (frontier \cup nextFrontier) : Neighbours(u) \subseteq discovered
        /\ \A S \in SUBSET Accounts : subject \in S /\ LinkClosed(S) => discovered \subseteq S

SupportInv ==
    \A S \in SUBSET Refs :
        subject \in S /\ ClusterClosed(S) => nodes \cup discovered \subseteq S

\* Whatever is exposed or sanctioned and not in the worklist has its
\* predecessors marked.
TraceInv ==
    /\ stage \in {"between", "hop", "collapse"} => exposed = {}
    /\ stage = "done" => dq = {}
    /\ stage \in {"trace", "done"} =>
        /\ dq \subseteq sanctionedNodes \cup exposed
        /\ \A n \in (sanctionedNodes \cup exposed) \ dq : radj(n) \subseteq exposed
        /\ \A S \in SUBSET Refs : BackwardClosed(S) => exposed \subseteq S

NetworkInv == Shape /\ WalkInv /\ SupportInv /\ TraceInv

-----------------------------------------------------------------------------
(* What the evidence says does not change during a walk.                   *)
LEMMA EvidenceKept ==
    ASSUME conn' = conn, subject' = subject
    PROVE  /\ \A u : Neighbours(u)' = Neighbours(u)
           /\ \A S : LinkClosed(S)' = LinkClosed(S)
           /\ \A S : ClusterClosed(S)' = ClusterClosed(S)
  <1>1. /\ \A u : Flows(u)' = Flows(u)
        /\ \A u : OnDevicesOf(u)' = OnDevicesOf(u)
        /\ \A u : WithKycOf(u)' = WithKycOf(u)
        /\ \A u : addresses_for(u)' = addresses_for(u)
        /\ \A r : controllerOf(r)' = controllerOf(r)
        /\ \A r : controllersOf(r)' = controllersOf(r)
    BY DEF Flows, OnDevicesOf, WithKycOf, addresses_for, controllerOf, controllersOf
  <1>2. \A u : Parties(u)' = Parties(u)
    BY <1>1 DEF Parties
  <1>3. \A u : Neighbours(u)' = Neighbours(u)
    BY <1>1, <1>2 DEF Neighbours
  <1>4. \A u : NodesOf(u)' = NodesOf(u)
    BY <1>1, <1>2 DEF NodesOf
  <1>5. \A S : LinkClosed(S)' = LinkClosed(S)
    BY <1>3 DEF LinkClosed
  <1>6. \A S : ClusterClosed(S)' = ClusterClosed(S)
    BY <1>1, <1>3, <1>4 DEF ClusterClosed
  <1> QED
    BY <1>3, <1>5, <1>6

(* Neighbours are accounts, and what a visit draws is of the evidence.     *)
LEMMA EvidenceShape ==
    ASSUME conn \in Tables
    PROVE  /\ \A u : Neighbours(u) \subseteq Accounts
           /\ \A u \in Accounts : NodesOf(u) \subseteq Refs
           /\ \A f \in Addresses : controllersOf(f) \subseteq Accounts
           /\ conn.gas \in Seq(Addresses \X Addresses)
  <1>1. /\ conn.flows \subseteq Refs \X Refs
        /\ conn.controller \in [Addresses -> Accounts \cup {NoUid}]
        /\ conn.gas \in Seq(Addresses \X Addresses)
    BY DEF Tables
  <1>2. \A u : Parties(u) \subseteq Refs
    BY <1>1 DEF Parties, Flows
  <1>3. \A u : OnDevicesOf(u) \subseteq Accounts /\ WithKycOf(u) \subseteq Accounts
               /\ addresses_for(u) \subseteq Addresses
    BY DEF OnDevicesOf, WithKycOf, addresses_for
  <1>4. \A u : Neighbours(u) \subseteq Accounts
    BY <1>3 DEF Neighbours
  <1>5. \A u \in Accounts : NodesOf(u) \subseteq Refs
    BY <1>2, <1>3 DEF NodesOf
  <1>6. \A f \in Addresses : controllersOf(f) \subseteq Accounts
    BY <1>1 DEF controllersOf
  <1> QED
    BY <1>1, <1>4, <1>5, <1>6

-----------------------------------------------------------------------------
LEMMA NetworkInit == Init => NetworkInv
  <1> SUFFICES ASSUME Init PROVE NetworkInv
    OBVIOUS
  <1>1. Shape
    BY NetworkAssumption DEF Init, Shape
  <1>2. WalkInv
    BY DEF Init, WalkInv, walking
  <1>3. SupportInv
    BY DEF Init, SupportInv
  <1>4. TraceInv
    BY DEF Init, TraceInv
  <1> QED
    BY <1>1, <1>2, <1>3, <1>4 DEF NetworkInv

\* One account of the frontier is visited.
LEMMA VisitStep ==
    ASSUME NetworkInv, NEW u \in Accounts, Visit(u)
    PROVE  NetworkInv'
  <1>1. /\ stage = "hop" /\ stage' = "hop" /\ u \in frontier
        /\ frontier' = frontier \ {u}
        /\ nextFrontier' = nextFrontier \cup Found(u)
        /\ discovered' = discovered \cup Found(u)
        /\ nodes' = nodes \cup NodesOf(u)
        /\ conn' = conn /\ subject' = subject /\ exposed' = exposed
    BY DEF Visit, given
  <1>2. Shape
    BY DEF NetworkInv
  <1>3. Found(u) \subseteq Neighbours(u) /\ Neighbours(u) \subseteq discovered'
        /\ Neighbours(u) \subseteq Accounts /\ NodesOf(u) \subseteq Refs
    BY <1>1, <1>2, EvidenceShape DEF Found, Shape
  <1>4. /\ \A v : Neighbours(v)' = Neighbours(v)
        /\ \A S : LinkClosed(S)' = LinkClosed(S)
        /\ \A S : ClusterClosed(S)' = ClusterClosed(S)
    BY <1>1, EvidenceKept
  <1>5. Shape'
    BY <1>1, <1>2, <1>3 DEF Shape
  <1>6. WalkInv'
    <2>1. /\ \A v \in discovered \ (frontier \cup nextFrontier) : Neighbours(v) \subseteq discovered
          /\ \A S \in SUBSET Accounts : subject \in S /\ LinkClosed(S) => discovered \subseteq S
      BY <1>1 DEF NetworkInv, WalkInv, walking
    <2>2. ASSUME NEW v \in discovered' \ (frontier' \cup nextFrontier')
          PROVE  Neighbours(v) \subseteq discovered'
      BY <1>1, <1>3, <2>1
    <2>3. ASSUME NEW S \in SUBSET Accounts, subject \in S, LinkClosed(S)
          PROVE  discovered' \subseteq S
      <3>1. discovered \subseteq S
        BY <2>1, <2>3
      <3>2. Neighbours(u) \subseteq S
        BY <3>1, <2>3, <1>1, <1>2 DEF Shape, LinkClosed
      <3> QED
        BY <3>1, <3>2, <1>1, <1>3
    <2>4. \A v \in discovered' \ (frontier' \cup nextFrontier') : Neighbours(v)' \subseteq discovered'
      BY <2>2, <1>4
    <2>5. \A S \in SUBSET Accounts : subject' \in S /\ LinkClosed(S)' => discovered' \subseteq S
      BY <2>3, <1>1, <1>4
    <2> QED
      BY <2>4, <2>5, <1>1 DEF WalkInv
  <1>7. SupportInv'
    <2> SUFFICES ASSUME NEW S \in SUBSET Refs, subject \in S, ClusterClosed(S)
                 PROVE  nodes' \cup discovered' \subseteq S
      BY <1>1, <1>4 DEF SupportInv
    <2>1. nodes \cup discovered \subseteq S
      BY DEF NetworkInv, SupportInv
    <2>2. u \in S \cap Accounts
      BY <2>1, <1>1, <1>2 DEF Shape
    <2>3. NodesOf(u) \cup Neighbours(u) \subseteq S
      BY <2>2 DEF ClusterClosed
    <2> QED
      BY <2>1, <2>3, <1>1, <1>3
  <1>8. TraceInv'
    BY <1>1 DEF NetworkInv, TraceInv
  <1> QED
    BY <1>5, <1>6, <1>7, <1>8 DEF NetworkInv

\* One row of gas funding is collapsed.
LEMMA CollapseRowStep ==
    ASSUME NetworkInv, CollapseRow
    PROVE  NetworkInv'
  <1>1. PICK funder \in Addresses, funded \in Addresses :
          /\ conn.gas[row] = <<funder, funded>> /\ relevant(funder, funded)
          /\ nodes' = nodes \cup {funder, funded} \cup controllersOf(funder)
          /\ discovered' = discovered \cup controllersOf(funder)
    BY DEF CollapseRow
  <1>2. /\ stage = "collapse" /\ stage' = "collapse" /\ row \in 1..Len(conn.gas)
        /\ frontier' = frontier /\ nextFrontier' = nextFrontier
        /\ conn' = conn /\ subject' = subject /\ exposed' = exposed
    BY DEF CollapseRow, given
  <1>3. Shape
    BY DEF NetworkInv
  <1>4. controllersOf(funder) \subseteq Accounts
    BY <1>3, EvidenceShape DEF Shape
  <1>5. Shape'
    BY <1>1, <1>2, <1>3, <1>4 DEF Shape
  <1>6. WalkInv'
    BY <1>2 DEF WalkInv, walking
  <1>7. SupportInv'
    <2> SUFFICES ASSUME NEW S \in SUBSET Refs, subject \in S, ClusterClosed(S)
                 PROVE  nodes' \cup discovered' \subseteq S
      BY <1>2, EvidenceKept DEF SupportInv
    <2> DEFINE touched == {funder, funded} \cup controllersOf(funder)
    <2>1. nodes \cup discovered \subseteq S
      BY DEF NetworkInv, SupportInv
    <2>2. touched \cap S # {}
      <3>1. CASE funder \in nodes \/ funded \in nodes
        BY <2>1, <3>1
      <3>2. CASE conn.controller[funder] \in discovered
        <4>1. conn.controller[funder] # NoUid
          BY <3>2, <1>3, NetworkAssumption DEF Shape
        <4> QED
          BY <4>1, <3>2, <2>1 DEF controllersOf
      <3> QED
        BY <3>1, <3>2, <1>1 DEF relevant
    <2>3. conn.gas[row][1] = funder /\ conn.gas[row][2] = funded
      BY <1>1
    <2>4. touched \subseteq S
      BY <2>2, <2>3, <1>2 DEF ClusterClosed
    <2> QED
      BY <2>1, <2>4, <1>1
  <1>8. TraceInv'
    BY <1>2 DEF NetworkInv, TraceInv
  <1> QED
    BY <1>5, <1>6, <1>7, <1>8 DEF NetworkInv

(* The cluster does not change while the graph does not.                   *)
LEMMA ClusterKept ==
    ASSUME NetworkInv, UNCHANGED <<given, discovered, nodes>>
    PROVE  SupportInv'
  <1>1. conn' = conn /\ subject' = subject
    BY DEF given
  <1>2. \A S : ClusterClosed(S)' = ClusterClosed(S)
    BY <1>1, EvidenceKept
  <1> QED
    BY <1>1, <1>2 DEF NetworkInv, SupportInv

\* What a hop has found becomes the next frontier.
LEMMA EndHopStep ==
    ASSUME NetworkInv, EndHop
    PROVE  NetworkInv'
  <1>1. /\ stage = "hop" /\ stage' = "between" /\ frontier = {}
        /\ frontier' = nextFrontier /\ nextFrontier' = {}
        /\ UNCHANGED <<given, discovered, nodes, exposed>>
    BY DEF EndHop, graph
  <1>2. conn' = conn /\ subject' = subject
    BY <1>1 DEF given
  <1>3. Shape'
    BY <1>1, <1>2 DEF NetworkInv, Shape
  <1>4. WalkInv'
    <2>1. /\ \A u : Neighbours(u)' = Neighbours(u)
          /\ \A S : LinkClosed(S)' = LinkClosed(S)
      BY <1>2, EvidenceKept
    <2> QED
      BY <1>1, <1>2, <2>1 DEF NetworkInv, WalkInv, walking
  <1>5. SupportInv'
    BY <1>1, ClusterKept
  <1>6. TraceInv'
    BY <1>1 DEF NetworkInv, TraceInv
  <1> QED
    BY <1>3, <1>4, <1>5, <1>6 DEF NetworkInv

\* A step that moves the stage on and leaves the walk alone.
LEMMA StageStep ==
    ASSUME NetworkInv, StartHop \/ FinishWalk \/ SkipRow
    PROVE  NetworkInv'
  <1>1. /\ UNCHANGED <<given, walk, nodes, exposed>>
        /\ stage \in {"between", "collapse"}
        /\ stage' \in {"hop", "collapse"}
        /\ stage' = "hop" => stage = "between"
    BY DEF StartHop, FinishWalk, SkipRow, graph, walk
  <1>2. /\ conn' = conn /\ subject' = subject
        /\ UNCHANGED <<discovered, frontier, nextFrontier>>
    BY <1>1 DEF given, walk
  <1>3. Shape'
    BY <1>1, <1>2 DEF NetworkInv, Shape
  <1>4. WalkInv'
    <2>1. /\ \A u : Neighbours(u)' = Neighbours(u)
          /\ \A S : LinkClosed(S)' = LinkClosed(S)
      BY <1>2, EvidenceKept
    <2> QED
      BY <1>1, <1>2, <2>1 DEF NetworkInv, WalkInv, walking
  <1>5. SupportInv'
    BY <1>1, <1>2, ClusterKept
  <1>6. TraceInv'
    BY <1>1 DEF NetworkInv, TraceInv
  <1> QED
    BY <1>3, <1>4, <1>5, <1>6 DEF NetworkInv

(* The predecessors do not change while the graph does not.                *)
LEMMA GraphKept ==
    ASSUME conn' = conn, UNCHANGED graph
    PROVE  /\ sanctionedNodes' = sanctionedNodes
           /\ \A n : radj(n)' = radj(n)
           /\ \A S : BackwardClosed(S)' = BackwardClosed(S)
  <1>1. sanctionedNodes' = sanctionedNodes /\ \A n : radj(n)' = radj(n)
    BY DEF graph, sanctionedNodes, radj
  <1> QED
    BY <1>1 DEF BackwardClosed

\* The sanctioned-flow worklist starts, proceeds or ends.
LEMMA TraceStep ==
    ASSUME NetworkInv, StartTrace \/ (\E n \in Refs : Trace(n)) \/ Assemble
    PROVE  NetworkInv'
  <1>1. /\ UNCHANGED <<given, walk, graph>>
        /\ stage \in {"collapse", "trace"} /\ stage' \in {"trace", "done"}
    BY DEF StartTrace, Trace, Assemble
  <1>2. /\ conn' = conn /\ subject' = subject
        /\ UNCHANGED <<discovered, frontier, nextFrontier, nodes>>
    BY <1>1 DEF given, walk, graph
  <1>3. Shape'
    BY <1>1, <1>2 DEF NetworkInv, Shape
  <1>4. WalkInv'
    BY <1>1 DEF WalkInv, walking
  <1>5. SupportInv'
    BY <1>1, <1>2, ClusterKept
  <1>6. TraceInv'
    <2>1. /\ sanctionedNodes' = sanctionedNodes
          /\ \A n : radj(n)' = radj(n)
          /\ \A S : BackwardClosed(S)' = BackwardClosed(S)
      BY <1>1, <1>2, GraphKept
    <2>2. CASE StartTrace
      BY <2>1, <2>2 DEF StartTrace, NetworkInv, TraceInv
    <2>3. ASSUME NEW n \in Refs, Trace(n)
          PROVE  TraceInv'
      <3>1. /\ stage = "trace" /\ stage' = "trace" /\ n \in dq
            /\ exposed' = exposed \cup Ancestors(n)
            /\ dq' = (dq \ {n}) \cup Ancestors(n)
        BY <2>3 DEF Trace
      <3>2. /\ dq \subseteq sanctionedNodes \cup exposed
            /\ \A k \in (sanctionedNodes \cup exposed) \ dq : radj(k) \subseteq exposed
            /\ \A S \in SUBSET Refs : BackwardClosed(S) => exposed \subseteq S
        BY <3>1 DEF NetworkInv, TraceInv
      <3>3. Ancestors(n) \subseteq radj(n) /\ radj(n) \subseteq exposed'
        BY <3>1 DEF Ancestors
      <3>4. dq' \subseteq sanctionedNodes \cup exposed'
        BY <3>1, <3>2
      <3>5. ASSUME NEW k \in (sanctionedNodes \cup exposed') \ dq'
            PROVE  radj(k) \subseteq exposed'
        BY <3>1, <3>2, <3>3
      <3>6. ASSUME NEW S \in SUBSET Refs, BackwardClosed(S)
            PROVE  exposed' \subseteq S
        <4>1. exposed \subseteq S
          BY <3>2, <3>6
        <4>2. n \in sanctionedNodes \cup S
          BY <4>1, <3>1, <3>2
        <4>3. radj(n) \subseteq S
          BY <4>2, <3>6 DEF BackwardClosed
        <4> QED
          BY <4>1, <4>3, <3>1, <3>3
      <3>7. \A k \in (sanctionedNodes' \cup exposed') \ dq' : radj(k)' \subseteq exposed'
        BY <3>5, <2>1
      <3>8. \A S \in SUBSET Refs : BackwardClosed(S)' => exposed' \subseteq S
        BY <3>6, <2>1
      <3> QED
        BY <3>1, <3>4, <3>7, <3>8, <2>1 DEF TraceInv
    <2>4. CASE Assemble
      BY <2>1, <2>4 DEF Assemble, NetworkInv, TraceInv
    <2> QED
      BY <2>2, <2>3, <2>4
  <1> QED
    BY <1>3, <1>4, <1>5, <1>6 DEF NetworkInv

LEMMA StutterStep ==
    ASSUME NetworkInv, UNCHANGED vars
    PROVE  NetworkInv'
  <1>1. /\ conn' = conn /\ subject' = subject /\ stage' = stage
        /\ UNCHANGED <<given, discovered, frontier, nextFrontier, nodes, graph, exposed, dq>>
    BY DEF vars, given, walk, graph
  <1>2. Shape'
    BY <1>1 DEF NetworkInv, Shape
  <1>3. WalkInv'
    BY <1>1, EvidenceKept DEF NetworkInv, WalkInv, walking
  <1>4. SupportInv'
    BY <1>1, ClusterKept
  <1>5. TraceInv'
    BY <1>1, GraphKept DEF NetworkInv, TraceInv
  <1> QED
    BY <1>2, <1>3, <1>4, <1>5 DEF NetworkInv

LEMMA NetworkNext == NetworkInv /\ [Next]_vars => NetworkInv'
  <1> SUFFICES ASSUME NetworkInv, [Next]_vars PROVE NetworkInv'
    OBVIOUS
  <1>1. CASE StartHop \/ FinishWalk \/ SkipRow
    BY <1>1, StageStep
  <1>2. CASE EndHop
    BY <1>2, EndHopStep
  <1>3. CASE \E u \in Accounts : Visit(u)
    BY <1>3, VisitStep
  <1>4. CASE CollapseRow
    BY <1>4, CollapseRowStep
  <1>5. CASE StartTrace \/ (\E n \in Refs : Trace(n)) \/ Assemble
    BY <1>5, TraceStep
  <1>6. CASE UNCHANGED vars
    BY <1>6, StutterStep
  <1> QED
    BY <1>1, <1>2, <1>3, <1>4, <1>5, <1>6 DEF Next, Done

-----------------------------------------------------------------------------
(* What the walk has drawn.                                                *)

NeighboursOf(B) == UNION {Neighbours(u) : u \in B}
EdgesFrom(B) == UNION {EdgesOf(u) : u \in B}
NodesFrom(B) == UNION {NodesOf(u) : u \in B}

\* what one hop makes of the accounts reached
Grown(B) == B \cup NeighboursOf(B)

\* the accounts a hop has to visit are those of the ball not in Inner
Inner == IF hop = 0 THEN {} ELSE Ball[hop - 1]

\* The accounts of the ball that are visited: those of the hops before and
\* those this hop has taken.
Visited == Ball[hop] \ frontier

\* During a hop the walk has the ball of the hops before, and has found and
\* drawn what the accounts visited so far lead to.
RingInv ==
    /\ cap \in 1..HopsLimit /\ hop \in 0..cap
    /\ stage = "hop" => hop < cap
    /\ walking =>
        /\ frontier \subseteq Ball[hop] \ Inner
        /\ stage = "between" => frontier = Ball[hop] \ Inner
        /\ discovered = Ball[hop] \cup NeighboursOf(Visited)
        /\ nextFrontier = discovered \ Ball[hop]
        /\ edges = EdgesFrom(Visited)
        /\ nodes = {subject} \cup NodesFrom(Visited)

\* An edge of money is one of the tables, and both its ends are nodes.
EdgeInv ==
    \A e \in edges :
        /\ e[3] = "transaction" => <<e[1], e[2]>> \in conn.flows
        /\ e[3] = "controls" => e[2] \in addresses_for(e[1]) /\ e[1] \in Accounts
        /\ e[3] \in MoneyFlowEtypes => e[1] \in nodes /\ e[2] \in nodes

Attributed(i) ==
    \A c \in controllersOf(conn.gas[i][1]) :
        conn.gas[i][2] \in walked.nodes =>
            /\ <<c, conn.gas[i][2], "gas_control">> \in edges
            /\ c \in discovered /\ c \in nodes

\* The evidence of an account is all in the graph.
Drawn(u) == EdgesOf(u) \subseteq edges /\ NodesOf(u) \subseteq nodes

\* After the walk the rows looked at are attributed, and what an exhausted
\* walk reached is closed under the links and drawn.
WalkedInv ==
    /\ row \in Nat
    /\ walking => row = 1
    /\ ~ walking =>
        /\ walked.nodes \subseteq nodes /\ walked.discovered \subseteq Accounts
        /\ \A i \in 1..Len(conn.gas) : i < row => Attributed(i)
        /\ frontier = {} =>
              \A u \in walked.discovered : Neighbours(u) \subseteq walked.discovered /\ Drawn(u)
    /\ stage \in {"trace", "done"} => row > Len(conn.gas)

GraphInv == RingInv /\ EdgeInv /\ WalkedInv

\* Ball is what its recursion says.
LEMMA BallUnfolds ==
    ASSUME conn \in Tables, subject \in Accounts
    PROVE  /\ Ball \in [0..HopsLimit -> SUBSET Accounts]
           /\ Ball[0] = {subject}
           /\ \A k \in 1..HopsLimit : Ball[k] = Grown(Ball[k - 1])
  <1> DEFINE V == SUBSET Accounts
             step == [k \in 1..HopsLimit |-> [X \in V |-> Grown(X)]]
  <1>1. HopsLimit \in Nat /\ {subject} \in V
    BY NetworkAssumption
  <1>2. \A u : Neighbours(u) \subseteq Accounts
    BY EvidenceShape
  <1>3. \A X \in V : Grown(X) \in V
    BY <1>2 DEF Grown, NeighboursOf
  <1>4. step \in [1..HopsLimit -> [V -> V]]
    BY <1>3
  <1>5. \A k \in 1..HopsLimit, X \in V : step[k][X] = Grown(X)
    OBVIOUS
  <1> HIDE DEF V, step
  <1>6. PICK f : Iterated(f, HopsLimit, V, {subject}, step)
    BY <1>1, <1>4, Iterates
  <1>7. /\ f \in [0..HopsLimit -> V] /\ f[0] = {subject}
        /\ \A k \in 1..HopsLimit : f[k] = step[k][f[k - 1]]
    BY <1>6 DEF Iterated
  <1>8. \A k \in 1..HopsLimit : k - 1 \in 0..HopsLimit /\ k \in 0..HopsLimit
    BY <1>1
  <1>9. \A k \in 1..HopsLimit : f[k] = Grown(f[k - 1])
    BY <1>5, <1>7, <1>8
  <1>10. \A k \in 0..HopsLimit : k # 0 => k \in 1..HopsLimit
    BY <1>1
  <1> DEFINE Is(g) == g = [k \in 0..HopsLimit |->
                             IF k = 0 THEN {subject}
                             ELSE LET nearer == g[k - 1]
                                  IN nearer \cup UNION {Neighbours(u) : u \in nearer}]
  <1>11. Is(f)
    <2>1. \A k \in 0..HopsLimit :
            f[k] = IF k = 0 THEN {subject}
                   ELSE LET nearer == f[k - 1]
                        IN nearer \cup UNION {Neighbours(u) : u \in nearer}
      BY <1>7, <1>9, <1>10 DEF Grown, NeighboursOf
    <2>2. f = [k \in 0..HopsLimit |-> f[k]]
      BY <1>7
    <2> QED
      BY <2>1, <2>2
  <1>12. Ball = CHOOSE g : Is(g)
    BY DEF Ball
  <1>13. Is(Ball)
    <2> HIDE DEF Is
    <2> QED
      BY <1>11, <1>12, Zenon
  <1>14. /\ DOMAIN Ball = 0..HopsLimit
         /\ Ball = [k \in 0..HopsLimit |-> Ball[k]]
         /\ Ball[0] = {subject}
         /\ \A k \in 1..HopsLimit : Ball[k] = Grown(Ball[k - 1])
    BY <1>1, <1>8, <1>13 DEF Grown, NeighboursOf
  <1>15. 0..HopsLimit \subseteq {k \in 0..HopsLimit : Ball[k] \in V}
    <2> DEFINE S == {k \in 0..HopsLimit : Ball[k] \in V}
    <2>1. 0 \in S
      <3>1. 0 \in 0..HopsLimit
        BY <1>1
      <3>2. Ball[0] \in V
        <4>1. Ball[0] = {subject}
          BY <1>14
        <4> QED
          BY <4>1, <1>1, Zenon
      <3> QED
        BY <3>1, <3>2
    <2>2. \A k \in 1..HopsLimit : k - 1 \in S => k \in S
      BY <1>3, <1>8, <1>14
    <2> HIDE DEF S
    <2>3. 0..HopsLimit \subseteq S
      BY <1>1, <2>1, <2>2, UpTo
    <2> QED
      BY <2>3 DEF S
  <1>16. \A k \in 0..HopsLimit : Ball[k] \in V
    BY <1>15
  <1>17. Ball \in [0..HopsLimit -> V]
    BY <1>14, <1>16
  <1> QED
    BY <1>14, <1>17 DEF V

\* The balls are the same after a step, and so are the evidence's edges.
LEMMA BallKept ==
    ASSUME conn' = conn, subject' = subject
    PROVE  /\ Ball' = Ball
           /\ \A u : EdgesOf(u)' = EdgesOf(u)
           /\ \A u : NodesOf(u)' = NodesOf(u)
           /\ \A B : NeighboursOf(B)' = NeighboursOf(B)
           /\ \A B : EdgesFrom(B)' = EdgesFrom(B)
           /\ \A B : NodesFrom(B)' = NodesFrom(B)
           /\ \A u : addresses_for(u)' = addresses_for(u)
           /\ \A r : controllersOf(r)' = controllersOf(r)
  <1>1. /\ \A u : Flows(u)' = Flows(u)
        /\ \A u : OnDevicesOf(u)' = OnDevicesOf(u)
        /\ \A u : WithKycOf(u)' = WithKycOf(u)
        /\ \A u : addresses_for(u)' = addresses_for(u)
        /\ \A r : controllerOf(r)' = controllerOf(r)
        /\ \A r : controllersOf(r)' = controllersOf(r)
    BY DEF Flows, OnDevicesOf, WithKycOf, addresses_for, controllerOf, controllersOf
  <1>2. \A u : Parties(u)' = Parties(u)
    BY <1>1 DEF Parties
  <1>3. \A u : NodesOf(u)' = NodesOf(u)
    BY <1>1, <1>2 DEF NodesOf
  <1>4. \A u : EdgesOf(u)' = EdgesOf(u)
    BY <1>1 DEF EdgesOf
  <1>5. Ball' = Ball
    BY DEF Ball, Neighbours, Parties, Flows, controllerOf, addresses_for, OnDevicesOf, WithKycOf
  <1>6. \A B : NeighboursOf(B)' = NeighboursOf(B)
    BY EvidenceKept DEF NeighboursOf
  <1>7. \A B : EdgesFrom(B)' = EdgesFrom(B)
    BY <1>4 DEF EdgesFrom
  <1>8. \A B : NodesFrom(B)' = NodesFrom(B)
    BY <1>3 DEF NodesFrom
  <1> QED
    BY <1>1, <1>3, <1>4, <1>5, <1>6, <1>7, <1>8

\* A ball holds the smaller one and its neighbours.
LEMMA BallGrows ==
    ASSUME conn \in Tables, subject \in Accounts, NEW k \in 1..HopsLimit
    PROVE  /\ Ball[k] = Ball[k - 1] \cup NeighboursOf(Ball[k - 1])
           /\ \A B \in SUBSET Ball[k - 1] : NeighboursOf(B) \subseteq Ball[k]
  BY BallUnfolds DEF Grown, NeighboursOf

\* What one more visit adds.
LEMMA OneMore ==
    ASSUME NEW B, NEW u
    PROVE  /\ NeighboursOf(B \cup {u}) = NeighboursOf(B) \cup Neighbours(u)
           /\ EdgesFrom(B \cup {u}) = EdgesFrom(B) \cup EdgesOf(u)
           /\ NodesFrom(B \cup {u}) = NodesFrom(B) \cup NodesOf(u)
  <1>1. NeighboursOf(B \cup {u}) = NeighboursOf(B) \cup Neighbours(u)
    BY DEF NeighboursOf
  <1>2. EdgesFrom(B \cup {u}) = EdgesFrom(B) \cup EdgesOf(u)
    BY DEF EdgesFrom
  <1>3. NodesFrom(B \cup {u}) = NodesFrom(B) \cup NodesOf(u)
    BY DEF NodesFrom
  <1> QED
    BY <1>1, <1>2, <1>3

LEMMA RingInit == Init => RingInv
  <1> SUFFICES ASSUME Init PROVE RingInv
    OBVIOUS
  <1>1. conn \in Tables /\ subject \in Accounts /\ HopsLimit \in Nat \ {0}
    BY NetworkAssumption DEF Init
  <1>2. Ball[0] = {subject}
    BY <1>1, BallUnfolds
  <1>3. cap \in 1..HopsLimit
    BY <1>1, NetworkAssumption DEF Init, clamp_hops
  <1>4. Inner = {} /\ Visited = {}
    BY <1>2 DEF Init, Inner, Visited
  <1>5. NeighboursOf({}) = {} /\ EdgesFrom({}) = {} /\ NodesFrom({}) = {}
    BY DEF NeighboursOf, EdgesFrom, NodesFrom
  <1> QED
    BY <1>1, <1>2, <1>3, <1>4, <1>5 DEF Init, RingInv

\* A visit finds the neighbours of one account of the frontier.
LEMMA RingVisit ==
    ASSUME NetworkInv, RingInv, NEW u \in Accounts, Visit(u)
    PROVE  RingInv'
  <1>1. /\ stage = "hop" /\ stage' = "hop" /\ u \in frontier
        /\ frontier' = frontier \ {u}
        /\ nextFrontier' = nextFrontier \cup Found(u)
        /\ discovered' = discovered \cup Found(u)
        /\ nodes' = nodes \cup NodesOf(u)
        /\ edges' = edges \cup EdgesOf(u)
        /\ conn' = conn /\ subject' = subject /\ cap' = cap /\ hop' = hop
    BY DEF Visit, given
  <1>2. /\ cap \in 1..HopsLimit /\ hop \in 0..cap /\ hop < cap
        /\ frontier \subseteq Ball[hop] \ Inner
        /\ discovered = Ball[hop] \cup NeighboursOf(Visited)
        /\ nextFrontier = discovered \ Ball[hop]
        /\ edges = EdgesFrom(Visited)
        /\ nodes = {subject} \cup NodesFrom(Visited)
    BY <1>1 DEF RingInv, walking
  <1>3. /\ Ball' = Ball
        /\ \A B : NeighboursOf(B)' = NeighboursOf(B)
        /\ \A B : EdgesFrom(B)' = EdgesFrom(B)
        /\ \A B : NodesFrom(B)' = NodesFrom(B)
    BY <1>1, BallKept
  <1>4. Inner' = Inner /\ Visited' = Visited \cup {u}
    BY <1>1, <1>2, <1>3 DEF Inner, Visited
  <1>5. /\ NeighboursOf(Visited)' = NeighboursOf(Visited) \cup Neighbours(u)
        /\ EdgesFrom(Visited)' = EdgesFrom(Visited) \cup EdgesOf(u)
        /\ NodesFrom(Visited)' = NodesFrom(Visited) \cup NodesOf(u)
    <2>1. /\ NeighboursOf(Visited)' = NeighboursOf(Visited \cup {u})
          /\ EdgesFrom(Visited)' = EdgesFrom(Visited \cup {u})
          /\ NodesFrom(Visited)' = NodesFrom(Visited \cup {u})
      BY <1>3, <1>4
    <2> QED
      BY <2>1, OneMore
  <1>6. discovered' = discovered \cup Neighbours(u)
    BY <1>1 DEF Found
  <1>7. discovered' = Ball[hop] \cup (NeighboursOf(Visited))'
    BY <1>2, <1>5, <1>6
  <1>8. nextFrontier' = discovered' \ Ball[hop]
    BY <1>1, <1>2 DEF Found
  <1> QED
    BY <1>1, <1>2, <1>3, <1>4, <1>5, <1>7, <1>8 DEF RingInv

\* After the last visit of a hop the next ball is complete.
LEMMA RingEndHop ==
    ASSUME NetworkInv, RingInv, EndHop
    PROVE  RingInv'
  <1>1. /\ stage = "hop" /\ stage' = "between" /\ frontier = {}
        /\ frontier' = nextFrontier /\ nextFrontier' = {} /\ hop' = hop + 1
        /\ discovered' = discovered /\ nodes' = nodes /\ edges' = edges
        /\ conn' = conn /\ subject' = subject /\ cap' = cap
    BY DEF EndHop, given, graph
  <1>2. /\ cap \in 1..HopsLimit /\ hop \in 0..cap /\ hop < cap
        /\ discovered = Ball[hop] \cup NeighboursOf(Visited)
        /\ nextFrontier = discovered \ Ball[hop]
        /\ edges = EdgesFrom(Visited)
        /\ nodes = {subject} \cup NodesFrom(Visited)
    BY <1>1 DEF RingInv, walking
  <1>3. /\ Ball' = Ball
        /\ \A B : NeighboursOf(B)' = NeighboursOf(B)
        /\ \A B : EdgesFrom(B)' = EdgesFrom(B)
        /\ \A B : NodesFrom(B)' = NodesFrom(B)
    BY <1>1, BallKept
  <1>4. /\ HopsLimit \in Nat /\ hop + 1 \in 1..HopsLimit /\ (hop + 1) - 1 = hop
        /\ hop + 1 # 0 /\ hop + 1 \in 0..cap
    BY <1>2, NetworkAssumption
  <1>5. /\ Ball[hop + 1] = Ball[hop] \cup NeighboursOf(Ball[hop])
        /\ NeighboursOf(Ball[hop]) \subseteq Ball[hop + 1]
    BY <1>4, BallGrows DEF NetworkInv, Shape
  <1>6. Visited = Ball[hop]
    BY <1>1 DEF Visited
  <1>7. Inner' = Ball[hop]
    BY <1>1, <1>3, <1>4 DEF Inner
  <1>8. discovered = Ball[hop + 1]
    BY <1>2, <1>5, <1>6
  <1>9. frontier' = Ball[hop + 1] \ Ball[hop]
    BY <1>1, <1>2, <1>8
  <1>10. Visited' = Ball[hop]
    BY <1>1, <1>3, <1>5, <1>9 DEF Visited
  <1>11. /\ NeighboursOf(Visited)' = NeighboursOf(Ball[hop])
         /\ EdgesFrom(Visited)' = EdgesFrom(Ball[hop])
         /\ NodesFrom(Visited)' = NodesFrom(Ball[hop])
    BY <1>3, <1>10
  <1>12. discovered' = Ball[hop + 1] \cup NeighboursOf(Visited)'
    BY <1>1, <1>5, <1>8, <1>11
  <1>13. Ball[hop]' = Ball[hop + 1]
    BY <1>1, <1>3
  <1>14. /\ edges' = EdgesFrom(Visited)'
         /\ nodes' = {subject} \cup NodesFrom(Visited)'
    BY <1>1, <1>2, <1>6, <1>11
  <1>15. nextFrontier' = discovered' \ Ball[hop]'
    BY <1>1, <1>8, <1>13
  <1> QED
    BY <1>1, <1>2, <1>4, <1>7, <1>9, <1>12, <1>13, <1>14, <1>15 DEF RingInv

\* The steps that leave the walk alone.
LEMMA RingKept ==
    ASSUME NetworkInv, RingInv, conn' = conn, subject' = subject, cap' = cap, hop' = hop,
           \/ /\ stage = "between" /\ stage' = "hop" /\ hop < cap
              /\ UNCHANGED <<walk, graph>>
           \/ stage' \in {"collapse", "trace", "done"}
           \/ stage' = stage /\ UNCHANGED <<walk, graph>>
    PROVE  RingInv'
  <1>1. CASE stage' \in {"collapse", "trace", "done"}
    BY <1>1 DEF RingInv, walking
  <1>2. CASE UNCHANGED <<walk, graph>> /\ (stage' = stage \/ (stage = "between" /\ stage' = "hop" /\ hop < cap))
    <2>1. /\ Ball' = Ball
          /\ \A B : NeighboursOf(B)' = NeighboursOf(B)
          /\ \A B : EdgesFrom(B)' = EdgesFrom(B)
          /\ \A B : NodesFrom(B)' = NodesFrom(B)
      BY BallKept
    <2>2. UNCHANGED <<discovered, frontier, nextFrontier, nodes, edges>>
      BY <1>2 DEF walk, graph
    <2>3. Inner' = Inner /\ Visited' = Visited
      BY <2>1, <2>2 DEF Inner, Visited
    <2>4. /\ NeighboursOf(Visited)' = NeighboursOf(Visited)
          /\ EdgesFrom(Visited)' = EdgesFrom(Visited)
          /\ NodesFrom(Visited)' = NodesFrom(Visited)
      BY <2>1, <2>3
    <2>5. walking' => walking
      BY <1>2 DEF walking
    <2>6. stage' = "between" => stage = "between"
      BY <1>2
    <2>7. stage' = "hop" => hop < cap
      BY <1>2 DEF RingInv
    <2> QED
      BY <2>1, <2>2, <2>3, <2>4, <2>5, <2>6, <2>7 DEF RingInv
  <1> QED
    BY <1>1, <1>2

LEMMA RingNext == NetworkInv /\ RingInv /\ [Next]_vars => RingInv'
  <1> SUFFICES ASSUME NetworkInv, RingInv, [Next]_vars PROVE RingInv'
    OBVIOUS
  <1>1. CASE \E u \in Accounts : Visit(u)
    BY <1>1, RingVisit
  <1>2. CASE EndHop
    BY <1>2, RingEndHop
  <1>3. CASE StartHop
    <2>1. /\ conn' = conn /\ subject' = subject /\ cap' = cap /\ hop' = hop
          /\ stage = "between" /\ stage' = "hop" /\ hop < cap
          /\ UNCHANGED <<walk, graph>>
      BY <1>3 DEF StartHop, given, walk
    <2> QED
      BY <2>1, RingKept
  <1>4. CASE FinishWalk \/ CollapseRow \/ SkipRow \/ StartTrace
             \/ (\E n \in Refs : Trace(n)) \/ Assemble
    <2>1. /\ conn' = conn /\ subject' = subject /\ cap' = cap /\ hop' = hop
          /\ stage' \in {"collapse", "trace", "done"}
      BY <1>4 DEF FinishWalk, CollapseRow, SkipRow, StartTrace, Trace, Assemble, given, walk
    <2> QED
      BY <2>1, RingKept
  <1>5. CASE UNCHANGED vars
    <2>1. /\ conn' = conn /\ subject' = subject /\ cap' = cap /\ hop' = hop
          /\ stage' = stage /\ UNCHANGED <<walk, graph>>
      BY <1>5 DEF vars, given, walk
    <2> QED
      BY <2>1, RingKept
  <1> QED
    BY <1>1, <1>2, <1>3, <1>4, <1>5 DEF Next, Done

-----------------------------------------------------------------------------
(* The graph: the walk's edges are the tables', and the gas pass           *)
(* attributes.                                                             *)

LEMMA EdgeInit == Init => EdgeInv /\ WalkedInv
  BY NetworkAssumption DEF Init, EdgeInv, WalkedInv, walking

\* What a visit draws is in the tables, and its ends are nodes.
LEMMA EdgesAreEvidence ==
    ASSUME conn \in Tables, NEW u \in Accounts
    PROVE  \A e \in EdgesOf(u) :
        /\ e[3] = "transaction" => <<e[1], e[2]>> \in conn.flows
        /\ e[3] = "controls" => e[2] \in addresses_for(e[1]) /\ e[1] \in Accounts
        /\ e[3] \in MoneyFlowEtypes => e[1] \in NodesOf(u) /\ e[2] \in NodesOf(u)
  <1> SUFFICES ASSUME NEW e \in EdgesOf(u)
               PROVE  /\ e[3] = "transaction" => <<e[1], e[2]>> \in conn.flows
                      /\ e[3] = "controls" => e[2] \in addresses_for(e[1]) /\ e[1] \in Accounts
                      /\ e[3] \in MoneyFlowEtypes => e[1] \in NodesOf(u) /\ e[2] \in NodesOf(u)
    OBVIOUS
  <1>1. CASE \E a \in addresses_for(u) : e = <<u, a, "controls">>
    BY <1>1 DEF NodesOf, MoneyFlowEtypes
  <1>2. CASE \E tx \in Flows(u) : e = <<tx[1], tx[2], "transaction">>
    <2>1. PICK tx \in Flows(u) : e = <<tx[1], tx[2], "transaction">>
      BY <1>2
    <2>2. tx \in conn.flows /\ conn.flows \subseteq Refs \X Refs
      BY <2>1 DEF Flows, Tables
    <2>3. tx = <<tx[1], tx[2]>>
      BY <2>2
    <2>4. tx[1] \in Parties(u) /\ tx[2] \in Parties(u)
      BY <2>1 DEF Parties
    <2>5. e[1] = tx[1] /\ e[2] = tx[2] /\ e[3] = "transaction"
      BY <2>1
    <2> QED
      BY <2>2, <2>3, <2>4, <2>5 DEF NodesOf, MoneyFlowEtypes
  <1>3. CASE \E v : e = <<u, v, "shared_device">> \/ e = <<u, v, "reused_kyc">>
    BY <1>3 DEF MoneyFlowEtypes
  <1> QED
    BY <1>1, <1>2, <1>3 DEF EdgesOf

\* Every edge drawn is in the tables, with its ends among the nodes.
LEMMA EdgeNext == NetworkInv /\ EdgeInv /\ [Next]_vars => EdgeInv'
  <1> SUFFICES ASSUME NetworkInv, EdgeInv, [Next]_vars PROVE EdgeInv'
    OBVIOUS
  <1>0. conn \in Tables
    BY DEF NetworkInv, Shape
  <1>1. conn' = conn /\ subject' = subject
    BY DEF Next, vars, given, StartHop, EndHop, FinishWalk, Visit, CollapseRow, SkipRow,
           StartTrace, Trace, Assemble, Done
  <1>2. \A p : addresses_for(p)' = addresses_for(p)
    BY <1>1, BallKept
  <1>3. ASSUME NEW e \in edges, nodes \subseteq nodes'
        PROVE  /\ e[3] = "transaction" => <<e[1], e[2]>> \in conn'.flows
               /\ e[3] = "controls" => e[2] \in addresses_for(e[1]) /\ e[1] \in Accounts
               /\ e[3] \in MoneyFlowEtypes => e[1] \in nodes' /\ e[2] \in nodes'
    BY <1>1, <1>3 DEF EdgeInv
  <1>4. ASSUME NEW u \in Accounts, Visit(u)
        PROVE  EdgeInv'
    <2>1. nodes' = nodes \cup NodesOf(u) /\ edges' = edges \cup EdgesOf(u)
      BY <1>4 DEF Visit
    <2>2. nodes \subseteq nodes' /\ NodesOf(u) \subseteq nodes'
      BY <2>1
    <2>3. ASSUME NEW e \in edges'
          PROVE  /\ e[3] = "transaction" => <<e[1], e[2]>> \in conn'.flows
                 /\ e[3] = "controls" => e[2] \in addresses_for(e[1]) /\ e[1] \in Accounts
                 /\ e[3] \in MoneyFlowEtypes => e[1] \in nodes' /\ e[2] \in nodes'
      <3>1. CASE e \in edges
        BY <3>1, <2>2, <1>3
      <3>2. CASE e \in EdgesOf(u)
        BY <3>2, <2>2, <1>0, <1>1, EdgesAreEvidence
      <3> QED
        BY <3>1, <3>2, <2>1
    <2> QED
      BY <2>3, <1>2 DEF EdgeInv
  <1>5. CASE CollapseRow
    <2>1. PICK funder \in Addresses, funded \in Addresses :
            /\ nodes \subseteq nodes'
            /\ edges' = edges \cup {<<funder, funded, "gas_funding">>}
                          \cup {<<c, funded, "gas_control">> : c \in controllersOf(funder)}
      BY <1>5 DEF CollapseRow
    <2>2. \A e \in edges' : e \in edges \/ e[3] \in {"gas_funding", "gas_control"}
      BY <2>1
    <2>3. ASSUME NEW e \in edges'
          PROVE  /\ e[3] = "transaction" => <<e[1], e[2]>> \in conn'.flows
                 /\ e[3] = "controls" => e[2] \in addresses_for(e[1]) /\ e[1] \in Accounts
                 /\ e[3] \in MoneyFlowEtypes => e[1] \in nodes' /\ e[2] \in nodes'
      <3>1. CASE e \in edges
        BY <3>1, <2>1, <1>3
      <3>2. CASE e[3] \in {"gas_funding", "gas_control"}
        BY <3>2 DEF MoneyFlowEtypes
      <3> QED
        BY <3>1, <3>2, <2>2
    <2> QED
      BY <2>3, <1>2 DEF EdgeInv
  <1>6. CASE UNCHANGED graph
    <2>1. nodes' = nodes /\ edges' = edges
      BY <1>6 DEF graph
    <2> QED
      BY <1>1, <1>2, <2>1 DEF EdgeInv
  <1> QED
    BY <1>4, <1>5, <1>6 DEF Next, vars, StartHop, EndHop, FinishWalk, SkipRow,
           StartTrace, Trace, Assemble, Done, graph

\* When the walk ends nobody found is left to visit or all of the rest is drawn.
LEMMA WalkedFinish ==
    ASSUME NetworkInv, RingInv, EdgeInv, WalkedInv, FinishWalk
    PROVE  WalkedInv'
  <1>1. /\ stage = "between" /\ stage' = "collapse" /\ row' = row
        /\ walked' = [discovered |-> discovered, nodes |-> nodes]
        /\ conn' = conn /\ subject' = subject
        /\ UNCHANGED <<discovered, frontier, nextFrontier, hop, nodes, edges>>
    BY DEF FinishWalk, given, walk, graph
  <1>2. Shape /\ WalkInv
    BY DEF NetworkInv
  <1>3. row = 1
    BY <1>1 DEF WalkedInv, walking
  <1>4. walked'.nodes = nodes /\ walked'.discovered = discovered
    BY <1>1
  <1>5. /\ \A u : Neighbours(u)' = Neighbours(u)
        /\ \A u : EdgesOf(u)' = EdgesOf(u)
        /\ \A u : NodesOf(u)' = NodesOf(u)
    BY <1>1, BallKept, EvidenceKept
  <1>6. ASSUME frontier = {}, NEW u \in discovered
        PROVE  Neighbours(u) \subseteq discovered /\ EdgesOf(u) \subseteq edges
               /\ NodesOf(u) \subseteq nodes
    <2>1. nextFrontier = {} /\ Neighbours(u) \subseteq discovered
      BY <1>1, <1>2, <1>6 DEF WalkInv, walking
    <2>2. /\ nextFrontier = discovered \ Ball[hop]
          /\ edges = EdgesFrom(Visited) /\ nodes = {subject} \cup NodesFrom(Visited)
      BY <1>1 DEF RingInv, walking
    <2>3. u \in Visited
      BY <2>1, <2>2, <1>6 DEF Visited
    <2> QED
      BY <2>1, <2>2, <2>3 DEF EdgesFrom, NodesFrom
  <1>7. frontier' = {} =>
           \A u \in walked'.discovered : /\ Neighbours(u)' \subseteq walked'.discovered
                                         /\ Drawn(u)'
    BY <1>1, <1>4, <1>5, <1>6 DEF Drawn
  <1>8. \A i \in 1..Len(conn'.gas) : ~ (i < row')
    BY <1>1, <1>3
  <1> QED
    BY <1>1, <1>2, <1>3, <1>4, <1>7, <1>8 DEF WalkedInv, walking, Shape

\* A row attributed, and evidence drawn, stay so as the graph grows.
LEMMA WalkedGrows ==
    ASSUME conn' = conn, subject' = subject, walked' = walked,
           nodes \subseteq nodes', edges \subseteq edges', discovered \subseteq discovered'
    PROVE  /\ \A i : Attributed(i) => Attributed(i)'
           /\ \A u : Drawn(u) => Drawn(u)'
           /\ \A u : Neighbours(u)' = Neighbours(u)
  <1>1. /\ \A u : Neighbours(u)' = Neighbours(u)
        /\ \A u : EdgesOf(u)' = EdgesOf(u)
        /\ \A u : NodesOf(u)' = NodesOf(u)
        /\ \A r : controllersOf(r)' = controllersOf(r)
    BY BallKept, EvidenceKept
  <1>2. ASSUME NEW i, Attributed(i)
        PROVE  Attributed(i)'
    BY <1>1, <1>2 DEF Attributed
  <1>3. \A u : Drawn(u) => Drawn(u)'
    BY <1>1 DEF Drawn
  <1> QED
    BY <1>1, <1>2, <1>3

\* One gas row more: taken for what it attributes, or passed because neither
\* of its ends is in the graph.
LEMMA WalkedRow ==
    ASSUME NetworkInv, WalkedInv, CollapseRow \/ SkipRow
    PROVE  WalkedInv'
  <1>1. /\ stage = "collapse" /\ stage' = "collapse" /\ row \in 1..Len(conn.gas)
        /\ row' = row + 1 /\ walked' = walked /\ frontier' = frontier
        /\ conn' = conn /\ subject' = subject
    BY DEF CollapseRow, SkipRow, given, walk
  <1>2. nodes \subseteq nodes' /\ edges \subseteq edges' /\ discovered \subseteq discovered'
    BY DEF CollapseRow, SkipRow, walk, graph
  <1>3. /\ row \in Nat
        /\ walked.nodes \subseteq nodes /\ walked.discovered \subseteq Accounts
        /\ \A i \in 1..Len(conn.gas) : i < row => Attributed(i)
        /\ frontier = {} =>
              \A u \in walked.discovered : Neighbours(u) \subseteq walked.discovered /\ Drawn(u)
    BY <1>1 DEF WalkedInv, walking
  <1>4. /\ \A i : Attributed(i) => Attributed(i)'
        /\ \A u : Drawn(u) => Drawn(u)'
        /\ \A u : Neighbours(u)' = Neighbours(u)
    BY <1>1, <1>2, WalkedGrows
  <1>5. \A r : controllersOf(r)' = controllersOf(r)
    BY <1>1, BallKept
  <1>r. PICK r \in 1..Len(conn.gas) : r = row
    BY <1>1
  <1>6. Attributed(r)'
    <2>1. CASE CollapseRow
      <3>1. PICK funder \in Addresses, funded \in Addresses :
              /\ conn.gas[row] = <<funder, funded>>
              /\ nodes' = nodes \cup {funder, funded} \cup controllersOf(funder)
              /\ edges' = edges \cup {<<funder, funded, "gas_funding">>}
                            \cup {<<c, funded, "gas_control">> : c \in controllersOf(funder)}
              /\ discovered' = discovered \cup controllersOf(funder)
        BY <2>1 DEF CollapseRow
      <3>2. conn.gas[row][1] = funder /\ conn.gas[row][2] = funded
        BY <3>1
      <3>3. \A c \in controllersOf(funder) :
              <<c, funded, "gas_control">> \in edges' /\ c \in discovered' /\ c \in nodes'
        BY <3>1
      <3> QED
        BY <3>2, <3>3, <1>r, <1>1, <1>5 DEF Attributed
    <2>2. CASE SkipRow
      <3>1. conn.gas[row][2] \notin walked.nodes
        BY <2>2, <1>3 DEF SkipRow, relevant
      <3> QED
        BY <3>1, <1>r, <1>1 DEF Attributed
    <2> QED
      BY <2>1, <2>2
  <1>7. \A i \in 1..Len(conn'.gas) : i < row' => Attributed(i)'
    <2> SUFFICES ASSUME NEW i \in 1..Len(conn.gas), i < row + 1 PROVE Attributed(i)'
      BY <1>1
    <2>1. i < row \/ i = row
      BY <1>3
    <2> QED
      BY <2>1, <1>r, <1>3, <1>4, <1>6
  <1>8. frontier' = {} =>
           \A u \in walked'.discovered : /\ Neighbours(u)' \subseteq walked'.discovered
                                         /\ Drawn(u)'
    BY <1>1, <1>3, <1>4
  <1> QED
    BY <1>1, <1>2, <1>3, <1>7, <1>8 DEF WalkedInv, walking

\* No gas row undoes what an earlier one attributed.
LEMMA WalkedNext == NetworkInv /\ GraphInv /\ [Next]_vars => WalkedInv'
  <1> SUFFICES ASSUME NetworkInv, GraphInv, [Next]_vars PROVE WalkedInv'
    OBVIOUS
  <1>0. RingInv /\ EdgeInv /\ WalkedInv
    BY DEF GraphInv
  <1>1. CASE StartHop \/ EndHop \/ (\E u \in Accounts : Visit(u))
    <2>1. /\ stage \in {"between", "hop"} /\ stage' \in {"between", "hop"} /\ row' = row
      BY <1>1 DEF StartHop, EndHop, Visit
    <2> QED
      BY <2>1, <1>0 DEF WalkedInv, walking
  <1>2. CASE FinishWalk
    BY <1>0, <1>2, WalkedFinish
  <1>3. CASE CollapseRow \/ SkipRow
    BY <1>0, <1>3, WalkedRow
  <1>4. CASE StartTrace \/ (\E n \in Refs : Trace(n)) \/ Assemble \/ UNCHANGED vars
    <2>1. /\ conn' = conn /\ subject' = subject /\ row' = row /\ walked' = walked
          /\ frontier' = frontier /\ nodes' = nodes /\ edges' = edges
          /\ discovered' = discovered
      BY <1>4 DEF StartTrace, Trace, Assemble, vars, given, walk, graph
    <2>2. \/ /\ stage \in {"collapse", "trace", "done"} /\ stage' \in {"trace", "done"}
             /\ stage = "collapse" => row > Len(conn.gas)
          \/ stage' = stage
      BY <1>4 DEF StartTrace, Trace, Assemble, vars
    <2>3. /\ \A i : Attributed(i) => Attributed(i)'
          /\ \A u : Drawn(u) => Drawn(u)'
          /\ \A u : Neighbours(u)' = Neighbours(u)
      BY <2>1, WalkedGrows
    <2>4. walking' => walking
      BY <2>2 DEF walking
    <2>5. ~ walking' => ~ walking
      BY <2>2 DEF walking
    <2>6. stage' \in {"trace", "done"} => row' > Len(conn'.gas)
      BY <2>1, <2>2, <1>0 DEF WalkedInv
    <2> QED
      BY <2>1, <2>3, <2>4, <2>5, <2>6, <1>0 DEF WalkedInv
  <1> QED
    BY <1>1, <1>2, <1>3, <1>4 DEF Next, Done

LEMMA GraphInit == Init => GraphInv
  BY RingInit, EdgeInit DEF GraphInv

LEMMA GraphNext == NetworkInv /\ GraphInv /\ [Next]_vars => GraphInv'
  BY RingNext, EdgeNext, WalkedNext DEF GraphInv

-----------------------------------------------------------------------------
(***************************************************************************)
(* A walk with an empty frontier has found the subject's whole component   *)
(* and nothing else, so stopping there loses nothing a larger cap would    *)
(* have found (step_walk, decide_expand).                                  *)
(***************************************************************************)
THEOREM ExhaustedWalkIsComponent == Spec => []ExhaustedIsComponent
  <1>1. NetworkInv => ExhaustedIsComponent
    BY DEF NetworkInv, Shape, WalkInv, walking, ExhaustedIsComponent, LinkClosed
  <1> QED
    BY <1>1, NetworkInit, NetworkNext, PTL DEF Spec

(***************************************************************************)
(* Nothing gets into the expansion that the links and the gas rows do not  *)
(* tie to the subject (step_walk, finish_walk).                            *)
(***************************************************************************)
THEOREM ExpansionIsSupported == Spec => []ClusterIsSupported
  <1>1. NetworkInv => ClusterIsSupported
    BY DEF NetworkInv, SupportInv, ClusterIsSupported
  <1> QED
    BY <1>1, NetworkInit, NetworkNext, PTL DEF Spec

(***************************************************************************)
(* The worklist marks exactly the nodes with a flow path to a sanctioned   *)
(* endpoint of the graph (_sanctioned_flow_ancestors).                     *)
(***************************************************************************)
THEOREM ExposureIsReachability == Spec => []ExposureIsExact
  <1>1. NetworkInv => ExposureIsExact
    BY DEF NetworkInv, TraceInv, ExposureIsExact, BackwardClosed
  <1> QED
    BY <1>1, NetworkInit, NetworkNext, PTL DEF Spec

(***************************************************************************)
(* Between hops the walk has exactly the accounts within `hop` hops of the *)
(* subject, whatever the order of the visits, and has drawn exactly the    *)
(* evidence of those one hop nearer (step_walk).                           *)
(***************************************************************************)
THEOREM WalksAreBalls == Spec => []WalkIsTheBall
  <1>1. NetworkInv /\ GraphInv => WalkIsTheBall
    <2> SUFFICES ASSUME NetworkInv, GraphInv, stage = "between"
                 PROVE  /\ discovered = Ball[hop]
                        /\ hop > 0 => /\ frontier = Ball[hop] \ Ball[hop - 1]
                                      /\ edges = EdgesFrom(Ball[hop - 1])
      BY DEF WalkIsTheBall, EdgesFrom
    <2>1. /\ cap \in 1..HopsLimit /\ hop \in 0..cap
          /\ frontier = Ball[hop] \ Inner
          /\ nextFrontier = discovered \ Ball[hop]
          /\ discovered = Ball[hop] \cup NeighboursOf(Visited)
          /\ edges = EdgesFrom(Visited)
      BY DEF GraphInv, RingInv, walking
    <2>2. nextFrontier = {}
      BY DEF NetworkInv, WalkInv, walking
    <2>3. discovered = Ball[hop]
      BY <2>1, <2>2
    <2>4. ASSUME hop > 0
          PROVE  frontier = Ball[hop] \ Ball[hop - 1] /\ edges = EdgesFrom(Ball[hop - 1])
      <3>1. hop \in 1..HopsLimit /\ hop # 0
        BY <2>1, <2>4, NetworkAssumption
      <3>2. Ball[hop - 1] \subseteq Ball[hop]
        BY <3>1, BallGrows DEF NetworkInv, Shape
      <3>3. Inner = Ball[hop - 1]
        BY <3>1 DEF Inner
      <3>4. Visited = Ball[hop - 1]
        BY <2>1, <3>2, <3>3 DEF Visited
      <3> QED
        BY <2>1, <3>3, <3>4
    <2> QED
      BY <2>3, <2>4
  <1> QED
    BY <1>1, NetworkInit, NetworkNext, GraphInit, GraphNext, PTL DEF Spec

(***************************************************************************)
(* Whatever the order of the gas rows, the controller that paid the gas of *)
(* an address the walk reached is named, drawn and in the cluster          *)
(* (finish_walk).                                                          *)
(***************************************************************************)
THEOREM GasIsAttributed == Spec => []WalkedHopsAreAttributed
  <1>1. NetworkInv /\ GraphInv => WalkedHopsAreAttributed
    <2> SUFFICES ASSUME NetworkInv, GraphInv, stage \in {"trace", "done"},
                        NEW i \in 1..Len(conn.gas)
                 PROVE  Attributed(i)
      BY DEF WalkedHopsAreAttributed, Attributed
    <2>1. /\ row \in Nat /\ row > Len(conn.gas)
          /\ \A k \in 1..Len(conn.gas) : k < row => Attributed(k)
      BY DEF GraphInv, WalkedInv, walking
    <2>2. Len(conn.gas) \in Nat
      BY EvidenceShape DEF NetworkInv, Shape
    <2> QED
      BY <2>1, <2>2
  <1> QED
    BY <1>1, NetworkInit, NetworkNext, GraphInit, GraphNext, PTL DEF Spec
-----------------------------------------------------------------------------
(* Exposure is money.                                                      *)

StepsOf(etypes) == {e \in edges : e[3] \in etypes}

\* dist says at which level of L each node enters.
Entering(dist, L, N) ==
    /\ DOMAIN dist = L[N]
    /\ \A n \in L[N] : /\ dist[n] \in 0..N /\ n \in L[dist[n]]
                       /\ \A j \in 0..N : n \in L[j] => dist[n] <= j

\* The distances are the levels the nodes enter at.
LEMMA DistancesEnter ==
    ASSUME IsFiniteSet(nodes), NEW etypes, \A e \in StepsOf(etypes) : e[1] \in nodes
    PROVE  \E L : /\ Levels(L, Cardinality(nodes), StepsOf(etypes), sanctionedNodes)
                  /\ Entering(Distances(etypes), L, Cardinality(nodes))
  <1> DEFINE N == Cardinality(nodes)
             R == StepsOf(etypes)
             base == sanctionedNodes
             L == CHOOSE g : g = [k \in 0..N |->
                 IF k = 0 THEN base
                 ELSE LET nearer == g[k - 1]
                      IN  nearer \cup {e[1] : e \in {e \in R : e[2] \in nearer}}]
             Enters(n, k) == n \in L[k] /\ (k > 0 => n \notin L[k - 1])
  <1>1. N \in Nat
    BY FS_CardinalityType
  <1>2. Distances(etypes) = [n \in L[N] |-> CHOOSE k \in 0..N : Enters(n, k)]
    BY DEF Distances, StepsOf
  <1>3. base \in SUBSET nodes
    BY DEF sanctionedNodes
  <1>4. \A e \in R : e[1] \in nodes
    OBVIOUS
  <1>5. L = CHOOSE g : g = [k \in 0..N |->
                 IF k = 0 THEN base
                 ELSE LET nearer == g[k - 1]
                      IN  nearer \cup {e[1] : e \in {e \in R : e[2] \in nearer}}]
    OBVIOUS
  <1> HIDE DEF N, R, base, L
  <1>6. Levels(L, N, R, base)
    BY <1>1, <1>3, <1>4, <1>5, LevelsUnfold
  <1>7. \A n \in L[N] : \E k \in 0..N : Enters(n, k)
    BY <1>1, <1>6, LevelsEnter
  <1>8. \A k \in 0..N : \A j \in 0..k : L[j] \subseteq L[k]
    BY <1>1, <1>6, LevelsGrow
  <1> DEFINE dist == Distances(etypes)
  <1>9. DOMAIN dist = L[N] /\ \A n \in L[N] : dist[n] = CHOOSE k \in 0..N : Enters(n, k)
    BY <1>2
  <1> HIDE DEF Enters, dist
  <1>10. \A n \in L[N] : dist[n] \in 0..N /\ Enters(n, dist[n])
    BY <1>7, <1>9
  <1>11. ASSUME NEW n \in L[N]
         PROVE  /\ dist[n] \in 0..N /\ n \in L[dist[n]]
                /\ \A j \in 0..N : n \in L[j] => dist[n] <= j
    <2> DEFINE d == dist[n]
    <2>1. d \in 0..N /\ n \in L[d] /\ (d > 0 => n \notin L[d - 1])
      BY <1>10 DEF Enters
    <2> HIDE DEF d
    <2>2. ASSUME NEW j \in 0..N, n \in L[j], ~ (d <= j)
          PROVE  FALSE
      <3>1. d > 0 /\ d - 1 \in 0..N /\ j \in 0..d - 1
        BY <1>1, <2>1, <2>2
      <3>2. L[j] \subseteq L[d - 1]
        BY <1>8, <3>1
      <3> QED
        BY <2>1, <2>2, <3>1, <3>2
    <2>3. \A j \in 0..N : n \in L[j] => d <= j
      BY <2>2
    <2> QED
      BY <2>1, <2>3 DEF d
  <1>12. Entering(dist, L, N)
    BY <1>9, <1>11 DEF Entering
  <1>13. Levels(L, N, R, base) /\ Entering(dist, L, N)
    BY <1>6, <1>12
  <1>14. \E M : Levels(M, N, R, base) /\ Entering(dist, M, N)
    BY <1>13, Zenon
  <1> QED
    BY <1>14 DEF N, R, base, dist

\* The nodes are finitely many.
LEMMA FiniteNodes ==
    ASSUME NetworkInv
    PROVE  /\ IsFiniteSet(Refs) /\ IsFiniteSet(nodes)
           /\ Cardinality(nodes) \in Nat /\ Cardinality(Refs) \in Nat
           /\ Cardinality(nodes) <= Cardinality(Refs)
  <1>1. IsFiniteSet(Refs)
    BY FiniteAssumption, FS_Union
  <1>2. nodes \subseteq Refs
    BY DEF NetworkInv, Shape
  <1> QED
    BY <1>1, <1>2, FS_Subset, FS_CardinalityType

\* Who can pay a sanctioned address, by the number of moves.
LEMMA PayersUnfold ==
    ASSUME NetworkInv
    PROVE  /\ Levels(Payers, Cardinality(Refs), Moves, conn.sanctioned)
           /\ DOMAIN Payers = 0..Cardinality(Refs)
  <1> DEFINE N == Cardinality(Refs)
             V == Refs
             R == Moves
             base == conn.sanctioned
             L == Payers
  <1>1. N \in Nat
    BY FiniteNodes
  <1>2. conn \in Tables
    BY DEF NetworkInv, Shape
  <1>3. base \in SUBSET V
    BY <1>2 DEF Tables
  <1>4. \A e \in R : e[1] \in V
    <2>1. conn.flows \subseteq Refs \X Refs /\ conn.controller \in [Addresses -> Accounts \cup {NoUid}]
      BY <1>2 DEF Tables
    <2> QED
      BY <2>1 DEF Moves
  <1>5. L = CHOOSE g : g = [k \in 0..N |->
                 IF k = 0 THEN base
                 ELSE LET nearer == g[k - 1]
                      IN  nearer \cup {e[1] : e \in {e \in R : e[2] \in nearer}}]
    BY DEF Payers
  <1> HIDE DEF N, V, R, base, L
  <1>6. Levels(L, N, R, base)
    BY <1>1, <1>3, <1>4, <1>5, LevelsUnfold
  <1>7. DOMAIN L = 0..N
    BY <1>6 DEF Levels
  <1> QED
    BY <1>6, <1>7 DEF L, N, R, base

\* A step of money in the graph is a move of the tables between nodes.
LEMMA MoneyStepsAreMoves ==
    ASSUME NetworkInv, GraphInv, NEW e \in StepsOf(MoneyFlowEtypes)
    PROVE  e[1] \in nodes /\ e[2] \in nodes /\ <<e[1], e[2]>> \in Moves
  <1>1. e \in edges /\ e[3] \in MoneyFlowEtypes
    BY DEF StepsOf
  <1>2. /\ e[3] = "transaction" => <<e[1], e[2]>> \in conn.flows
        /\ e[3] = "controls" => e[2] \in addresses_for(e[1]) /\ e[1] \in Accounts
        /\ e[1] \in nodes /\ e[2] \in nodes
    BY <1>1 DEF GraphInv, EdgeInv
  <1>3. CASE e[3] = "transaction"
    BY <1>2, <1>3 DEF Moves
  <1>4. CASE e[3] = "controls"
    <2>1. e[2] \in Addresses /\ conn.controller[e[2]] = e[1] /\ e[1] # NoUid
      BY <1>2, <1>4, NetworkAssumption DEF addresses_for
    <2> QED
      BY <1>2, <2>1 DEF Moves
  <1> QED
    BY <1>1, <1>2, <1>3, <1>4 DEF MoneyFlowEtypes

\* The levels of the saturation lemma are the sets of payers.
LEMMA LevelsArePayers ==
    ASSUME NetworkInv, GraphInv, NEW L,
           Levels(L, Cardinality(nodes), StepsOf(MoneyFlowEtypes), sanctionedNodes)
    PROVE  \A k \in 0..Cardinality(nodes) : L[k] \subseteq Payers[k]
  <1> DEFINE N == Cardinality(nodes)
             R == StepsOf(MoneyFlowEtypes)
             S == {k \in 0..N : L[k] \subseteq Payers[k]}
  <1>1. N \in Nat /\ \A k \in 1..N : k \in 1..Cardinality(Refs) /\ k - 1 \in 0..N /\ k \in 0..N
    BY FiniteNodes
  <1>2. /\ L[0] = sanctionedNodes
        /\ \A k \in 1..N : L[k] = Into(R, L[k - 1])
    BY DEF Levels
  <1>3. /\ Payers[0] = conn.sanctioned
        /\ \A k \in 1..Cardinality(Refs) : Payers[k] = Into(Moves, Payers[k - 1])
    BY PayersUnfold DEF Levels
  <1>4. \A e \in R : <<e[1], e[2]>> \in Moves
    BY MoneyStepsAreMoves
  <1> HIDE DEF N, R
  <1>5. 0 \in S
    BY <1>1, <1>2, <1>3 DEF sanctionedNodes
  <1>6. ASSUME NEW k \in 1..N, k - 1 \in S
        PROVE  k \in S
    <2>1. L[k - 1] \subseteq Payers[k - 1]
      BY <1>6
    <2>2. Into(R, L[k - 1]) \subseteq Into(Moves, Payers[k - 1])
      <3>1. ASSUME NEW e \in R, e[2] \in L[k - 1]
            PROVE  e[1] \in Into(Moves, Payers[k - 1])
        <4> DEFINE m == <<e[1], e[2]>>
        <4>1. m \in Moves /\ m[2] \in Payers[k - 1] /\ m[1] = e[1]
          BY <1>4, <2>1, <3>1
        <4> QED
          BY <4>1 DEF Into
      <3> QED
        BY <2>1, <3>1 DEF Into
    <2> QED
      BY <1>1, <1>2, <1>3, <2>2
  <1> HIDE DEF S
  <1>7. 0..N \subseteq S
    BY <1>1, <1>5, <1>6, UpTo
  <1> QED
    BY <1>7 DEF S, N

\* Whom the scorer calls exposed can pay, and in no fewer moves than it says.
LEMMA ExposedCanPay ==
    ASSUME NetworkInv, GraphInv, NEW L,
           Levels(L, Cardinality(nodes), StepsOf(MoneyFlowEtypes), sanctionedNodes),
           NEW dist, Entering(dist, L, Cardinality(nodes)),
           NEW u \in DOMAIN dist
    PROVE  /\ dist[u] \in DOMAIN Payers /\ u \in Payers[dist[u]]
           /\ Direct(u) => dist[u] <= 2
  <1> DEFINE N == Cardinality(nodes)
             d == dist[u]
  <1>1. N \in Nat /\ N <= Cardinality(Refs) /\ Cardinality(Refs) \in Nat /\ IsFiniteSet(nodes)
    BY FiniteNodes
  <1>2. d \in 0..N /\ u \in L[d] /\ \A j \in 0..N : u \in L[j] => d <= j
    BY DEF Entering
  <1> HIDE DEF d
  <1>3. d \in 0..Cardinality(Refs) /\ u \in Payers[d]
    BY <1>1, <1>2, LevelsArePayers
  <1>4. ASSUME Direct(u), d > 2
        PROVE  FALSE
    <2>1. PICK e \in Outflow(u) : e[2] \in conn.sanctioned
      BY <1>4 DEF Direct
    <2>2. e \in edges /\ e[1] \in Owned(u) /\ e[3] = "transaction"
      BY <2>1 DEF Outflow
    <2>3. e \in StepsOf(MoneyFlowEtypes)
      BY <2>2 DEF StepsOf, MoneyFlowEtypes
    <2>4. e[2] \in sanctionedNodes
      BY <2>1, <2>3, MoneyStepsAreMoves DEF sanctionedNodes
    <2>5. 0 \in 0..N /\ 1 \in 1..N /\ 2 \in 1..N /\ 1 \in 0..N /\ 2 \in 0..N /\ 1 - 1 = 0 /\ 2 - 1 = 1
      BY <1>1, <1>2, <1>4
    <2>6. /\ L[0] = sanctionedNodes
          /\ L[1] = Into(StepsOf(MoneyFlowEtypes), L[0])
          /\ L[2] = Into(StepsOf(MoneyFlowEtypes), L[1])
      BY <2>5 DEF Levels
    <2>7. e[1] \in L[1]
      BY <2>3, <2>4, <2>6 DEF Into
    <2>8. u \in L[2]
      <3>1. CASE e[1] = u
        BY <2>6, <2>7, <3>1 DEF Into
      <3>2. CASE e[1] # u
        <4> DEFINE f == <<u, e[1], "controls">>
        <4>1. f \in edges
          BY <2>2, <3>2 DEF Owned
        <4>2. f \in StepsOf(MoneyFlowEtypes) /\ f[1] = u /\ f[2] = e[1]
          BY <4>1 DEF StepsOf, MoneyFlowEtypes
        <4> HIDE DEF f
        <4> QED
          BY <2>6, <2>7, <4>2 DEF Into
      <3> QED
        BY <3>1, <3>2
    <2> QED
      BY <1>2, <1>4, <2>5, <2>8
  <1>5. Direct(u) => d <= 2
    BY <1>1, <1>2, <1>4
  <1> QED
    BY <1>3, <1>5, PayersUnfold DEF d

\* the accounts the walk reached and the addresses they control
Covered(p) ==
    \/ p \in walked.discovered
    \/ \E u \in walked.discovered : p \in addresses_for(u)

\* The graph of an exhausted walk among hosted wallets holds every move out
\* of what it covers, and what the move reaches is covered or sanctioned.
LEMMA MovesAreDrawn ==
    ASSUME NetworkInv, GraphInv, stage = "done", frontier = {}, Hosted,
           NEW m \in Moves, Covered(m[1])
    PROVE  /\ \E e \in StepsOf(MoneyFlowEtypes) : e[1] = m[1] /\ e[2] = m[2]
           /\ Covered(m[2]) \/ m[2] \in sanctionedNodes
  <1>1. conn \in Tables
    BY DEF NetworkInv, Shape
  <1>2. /\ walked.discovered \subseteq Accounts
        /\ \A u \in walked.discovered : Neighbours(u) \subseteq walked.discovered /\ Drawn(u)
    BY DEF GraphInv, WalkedInv, walking
  <1>3. CASE m \in conn.flows
    <2>1. m \in Refs \X Refs
      BY <1>1, <1>3 DEF Tables
    <2>2. PICK u \in walked.discovered : m[1] = u \/ m[1] \in addresses_for(u)
      BY DEF Covered
    <2>3. m \in Flows(u)
      BY <1>3, <2>2 DEF Flows
    <2> DEFINE e == <<m[1], m[2], "transaction">>
    <2>4. e \in EdgesOf(u) /\ e[1] = m[1] /\ e[2] = m[2] /\ e[3] = "transaction"
      BY <2>3 DEF EdgesOf
    <2> HIDE DEF e
    <2>5. e \in StepsOf(MoneyFlowEtypes)
      BY <1>2, <2>4 DEF Drawn, StepsOf, MoneyFlowEtypes
    <2>6. m[2] \in Parties(u) /\ m[2] \in nodes
      BY <1>2, <2>3 DEF Drawn, NodesOf, Parties
    <2>7. CASE controllerOf(m[2]) \in Accounts
      <3>1. controllerOf(m[2]) \in Neighbours(u)
        BY <2>6, <2>7 DEF Neighbours
      <3>2. controllerOf(m[2]) \in walked.discovered
        BY <1>2, <3>1
      <3>3. Covered(m[2])
        BY <2>1, <3>2, NetworkAssumption DEF controllerOf, Covered, addresses_for
      <3> QED
        BY <2>4, <2>5, <3>3
    <2>8. CASE controllerOf(m[2]) \notin Accounts
      <3>1. m[2] \in nodes \cap Addresses /\ controllerOf(m[2]) = conn.controller[m[2]]
        BY <2>1, <2>6, <2>8 DEF controllerOf
      <3>2. conn.controller[m[2]] = NoUid
        BY <1>1, <2>8, <3>1 DEF Tables
      <3>3. m[2] \in sanctionedNodes
        BY <3>1, <3>2 DEF Hosted, sanctionedNodes
      <3> QED
        BY <2>4, <2>5, <3>3
    <2> QED
      BY <2>7, <2>8
  <1>4. CASE \E a \in Addresses : conn.controller[a] # NoUid /\ m = <<conn.controller[a], a>>
    <2>1. PICK a \in Addresses : conn.controller[a] # NoUid /\ m = <<conn.controller[a], a>>
      BY <1>4
    <2> DEFINE u == conn.controller[a]
    <2>2. u \in Accounts /\ m[1] = u /\ m[2] = a /\ a \in addresses_for(u)
      BY <1>1, <2>1 DEF Tables, addresses_for
    <2>3. u \in walked.discovered
      BY <2>2, NetworkAssumption DEF Covered, addresses_for
    <2> DEFINE e == <<u, a, "controls">>
    <2>4. e \in EdgesOf(u) /\ e[1] = u /\ e[2] = a /\ e[3] = "controls"
      BY <2>2 DEF EdgesOf
    <2> HIDE DEF e
    <2>5. e \in StepsOf(MoneyFlowEtypes)
      BY <1>2, <2>3, <2>4 DEF Drawn, StepsOf, MoneyFlowEtypes
    <2> QED
      BY <2>2, <2>3, <2>4, <2>5 DEF Covered
  <1> QED
    BY <1>3, <1>4 DEF Moves

\* Such a walk misses nobody it reached.
LEMMA PayersAreExposed ==
    ASSUME NetworkInv, GraphInv, stage = "done", frontier = {}, Hosted,
           NEW L, Levels(L, Cardinality(nodes), StepsOf(MoneyFlowEtypes), sanctionedNodes)
    PROVE  Gold \cap walked.discovered \subseteq L[Cardinality(nodes)]
  <1> DEFINE M == Cardinality(Refs)
             R == StepsOf(MoneyFlowEtypes)
             top == L[Cardinality(nodes)]
             S == {k \in 0..M : \A p \in Payers[k] : Covered(p) => p \in top}
  <1>1. M \in Nat /\ Cardinality(nodes) \in Nat /\ IsFiniteSet(nodes)
    BY FiniteNodes
  <1>2. \A e \in R : e[1] \in nodes
    BY MoneyStepsAreMoves
  <1>3. sanctionedNodes \in SUBSET nodes
    BY DEF sanctionedNodes
  <1>4. \A e \in R : e[2] \in top => e[1] \in top
    BY <1>1, <1>2, <1>3, LevelsSaturate
  <1>5. sanctionedNodes \subseteq top
    <2>1. L[0] = sanctionedNodes
      BY DEF Levels
    <2>2. Cardinality(nodes) \in 0..Cardinality(nodes) /\ 0 \in 0..Cardinality(nodes)
      BY <1>1
    <2>3. L[0] \subseteq L[Cardinality(nodes)]
      BY <1>1, <2>2, LevelsGrow
    <2> QED
      BY <2>1, <2>3
  <1>6. /\ Payers[0] = conn.sanctioned
        /\ \A k \in 1..M : Payers[k] = Into(Moves, Payers[k - 1])
    BY PayersUnfold DEF Levels
  <1>7. \A m \in Moves : Covered(m[1]) =>
            /\ \E e \in R : e[1] = m[1] /\ e[2] = m[2]
            /\ Covered(m[2]) \/ m[2] \in sanctionedNodes
    BY MovesAreDrawn
  <1>8. ASSUME NEW p \in conn.sanctioned, Covered(p)
        PROVE  p \in sanctionedNodes
    <2>1. conn.sanctioned \subseteq Addresses
      BY DEF NetworkInv, Shape, Tables
    <2>2. walked.discovered \subseteq Accounts /\ \A u \in walked.discovered : Drawn(u)
      BY DEF GraphInv, WalkedInv, walking
    <2>3. PICK u \in walked.discovered : p \in addresses_for(u)
      BY <1>8, <2>1, <2>2, NetworkAssumption DEF Covered
    <2>4. p \in nodes
      BY <2>2, <2>3 DEF Drawn, NodesOf
    <2> QED
      BY <1>8, <2>4 DEF sanctionedNodes
  <1> HIDE DEF M, R, top
  <1>9. 0 \in S
    BY <1>1, <1>5, <1>6, <1>8
  <1>10. ASSUME NEW k \in 1..M, k - 1 \in S
         PROVE  k \in S
    <2>1. k \in 0..M
      BY <1>1
    <2>2. ASSUME NEW p \in Payers[k], Covered(p)
          PROVE  p \in top
      <3>1. CASE p \in Payers[k - 1]
        BY <1>10, <2>2, <3>1
      <3>2. CASE \E m \in Moves : m[2] \in Payers[k - 1] /\ p = m[1]
        <4>1. PICK m \in Moves : m[2] \in Payers[k - 1] /\ p = m[1]
          BY <3>2
        <4>2. PICK e \in R : e[1] = m[1] /\ e[2] = m[2]
          BY <1>7, <2>2, <4>1
        <4>3. Covered(m[2]) \/ m[2] \in sanctionedNodes
          BY <1>7, <2>2, <4>1
        <4>4. m[2] \in top
          BY <1>5, <1>10, <4>1, <4>3
        <4> QED
          BY <1>4, <4>1, <4>2, <4>4
      <3>3. p \in Into(Moves, Payers[k - 1])
        BY <1>6, <2>2
      <3> QED
        BY <3>1, <3>2, <3>3 DEF Into
    <2> QED
      BY <2>1, <2>2
  <1> HIDE DEF S
  <1>11. 0..M \subseteq S
    BY <1>1, <1>9, <1>10, UpTo
  <1>12. M \in S
    BY <1>1, <1>11
  <1>13. \A p \in Payers[M] : Covered(p) => p \in top
    BY <1>12 DEF S
  <1> QED
    BY <1>13 DEF Gold, Covered, M, top

(***************************************************************************)
(* The scorer's exposure is the money of the tables: whoever is scored     *)
(* exposed can pay a sanctioned address, in no fewer moves than the hop;   *)
(* an exhausted walk among hosted wallets misses nobody it reached; and    *)
(* every gas controller has one row (score_risk).                          *)
(***************************************************************************)
THEOREM ScoresAreMoney == Spec => []ScoresFollowTheMoney
  <1>1. NetworkInv /\ GraphInv => ScoresFollowTheMoney
    <2> SUFFICES ASSUME NetworkInv, GraphInv, stage = "done"
                 PROVE  ScoresFollowTheMoney
      BY DEF ScoresFollowTheMoney
    <2> DEFINE money == Distances(MoneyFlowEtypes)
               any == Distances(MoneyFlowEtypes \cup GasEtypes)
               exposed_uids == Accounts \cap DOMAIN money
               rows == score_risk
    <2>1. \A e \in StepsOf(MoneyFlowEtypes) : e[1] \in nodes
      BY MoneyStepsAreMoves
    <2>2. IsFiniteSet(nodes)
      BY FiniteNodes
    <2>3. PICK L : /\ Levels(L, Cardinality(nodes), StepsOf(MoneyFlowEtypes), sanctionedNodes)
                   /\ Entering(money, L, Cardinality(nodes))
      BY <2>1, <2>2, DistancesEnter
    <2>4. rows = {MoneyRow(u, money) : u \in exposed_uids}
                   \cup {GasRow(u, any) : u \in GasControllers \ exposed_uids}
      BY DEF score_risk
    <2> HIDE DEF money, any, rows
    <2>5. \A u \in exposed_uids :
            /\ money[u] \in DOMAIN Payers /\ u \in Payers[money[u]]
            /\ Direct(u) => money[u] <= 2
      BY <2>3, ExposedCanPay
    <2>6. \A u : LET r == MoneyRow(u, money) IN
            /\ r.uid = u /\ r.exposure_path /\ r.hop = money[u]
            /\ r.direct = Direct(u) /\ r.gas_funded = (u \in GasControllers)
      BY DEF MoneyRow
    <2>7. \A u : LET r == GasRow(u, any) IN r.uid = u /\ ~ r.exposure_path /\ r.gas_funded
      BY DEF GasRow
    <2>8. ASSUME NEW r \in rows, r.exposure_path
          PROVE  /\ r.hop \in DOMAIN Payers /\ r.uid \in Payers[r.hop]
                 /\ r.direct => r.hop <= 2
      <3>1. PICK u \in exposed_uids : r = MoneyRow(u, money)
        BY <2>4, <2>7, <2>8
      <3> QED
        BY <2>5, <2>6, <3>1
    <2>9. ASSUME frontier = {}, Hosted
          PROVE  Gold \cap walked.discovered \subseteq {r.uid : r \in {r \in rows : r.exposure_path}}
      <3> SUFFICES ASSUME NEW u \in Gold \cap walked.discovered
                   PROVE  \E r \in rows : r.exposure_path /\ r.uid = u
        OBVIOUS
      <3>1. u \in DOMAIN money
        BY <2>3, <2>9, PayersAreExposed DEF Entering
      <3>2. u \in exposed_uids
        BY <3>1 DEF Gold
      <3> QED
        BY <2>4, <2>6, <3>2
    <2>10. ASSUME NEW u \in GasControllers
           PROVE  \E r \in rows : r.uid = u /\ r.gas_funded /\ \A s \in rows : s.uid = u => s = r
      <3>1. CASE u \in exposed_uids
        <4> DEFINE r == MoneyRow(u, money)
        <4>1. r \in rows /\ r.uid = u /\ r.gas_funded
          BY <2>4, <2>6, <3>1
        <4>2. \A s \in rows : s.uid = u => s = r
          BY <2>4, <2>6, <2>7, <3>1
        <4> QED
          BY <4>1, <4>2
      <3>2. CASE u \notin exposed_uids
        <4> DEFINE r == GasRow(u, any)
        <4>1. r \in rows /\ r.uid = u /\ r.gas_funded
          BY <2>4, <2>7, <3>2
        <4>2. \A s \in rows : s.uid = u => s = r
          BY <2>4, <2>6, <2>7, <3>2
        <4> QED
          BY <4>1, <4>2
      <3> QED
        BY <3>1, <3>2
    <2> QED
      BY <2>8, <2>9, <2>10 DEF ScoresFollowTheMoney, rows
  <1> QED
    BY <1>1, NetworkInit, NetworkNext, GraphInit, GraphNext, PTL DEF Spec
=============================================================================
