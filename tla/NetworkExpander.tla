--------------------------- MODULE NetworkExpander ---------------------------
(***************************************************************************)
(* The cluster walk around a subject.  A breadth-first walk over the       *)
(* evidence (flows, control of addresses, shared devices, reused KYC       *)
(* documents) runs hop by hop up to a cap; then one pass over the gas      *)
(* funding rows, in table order, attributes funded addresses to the        *)
(* funder's controller; then a worklist marks what has a flow path to a    *)
(* sanctioned address.                                                     *)
(*                                                                         *)
(* The frontier and the worklist are Python sets, so the order in which    *)
(* one hop visits accounts is any order: Visit is one iteration of that    *)
(* loop.  The caller is either expand, which always runs to the cap, or    *)
(* the case graph, which may stop after a hop that found nobody.           *)
(***************************************************************************)
EXTENDS Integers, Sequences, FiniteSets

CONSTANTS
    Accounts, Addresses, Devices, Docs,
    NoUid,      \* "no controller" in the address book
    NoDoc,      \* no KYC document, or no accounts row at all
    Evidence,   \* the contents the tables may have
    Asked,      \* the max_hops callers pass
    HopsLimit   \* _MAX_HOPS_LIMIT

Refs == Accounts \cup Addresses
Etypes == {"controls", "transaction", "shared_device", "reused_kyc",
           "gas_funding", "gas_control"}
FlowEtypes == {"transaction", "controls", "gas_funding", "gas_control"}

\* What the connectors can answer: who controls an address, which addresses
\* are sanctioned, who paid whom, who used a device, whose document is whose,
\* and the gas funding rows <<funder, funded>> in table order.
Tables == [controller : [Addresses -> Accounts \cup {NoUid}],
           sanctioned : SUBSET Addresses,
           flows      : SUBSET (Refs \X Refs),
           devices    : [Devices -> SUBSET Accounts],
           kyc        : [Accounts -> Docs \cup {NoDoc}],
           gas        : Seq(Addresses \X Addresses)]

ASSUME NetworkAssumption ==
    /\ Accounts \cap Addresses = {} /\ NoUid \notin Refs /\ NoDoc \notin Docs
    /\ Evidence \subseteq Tables
    /\ Asked \subseteq Int /\ HopsLimit \in Nat \ {0}

VARIABLES
    conn,        \* the tables, fixed for a walk
    subject,     \* subject_uid
    cap,         \* the clamped hop cap
    stage,       \* "between" hops, "hop", "collapse", "trace", "done"
    discovered,  \* accounts reached
    frontier,    \* of the current hop, still to visit
    nextFrontier,
    hop,         \* Len(hop_stats)
    nodes, edges,
    row,         \* the gas row the collapse looks at
    exposed, dq, \* _sanctioned_flow_ancestors: its result and its worklist
    walked       \* history: nodes and accounts when the walk ended

walk == <<discovered, frontier, nextFrontier, hop>>
graph == <<nodes, edges>>
given == <<conn, subject, cap>>
vars == <<given, stage, walk, graph, row, exposed, dq, walked>>

-----------------------------------------------------------------------------
(* What the connectors and the hop read.                                   *)

controllerOf(ref) == IF ref \in Accounts THEN ref ELSE conn.controller[ref]
addresses_for(u) == {a \in Addresses : conn.controller[a] = u}

\* transactions touching the account or an address it controls
Flows(u) == {tx \in conn.flows : {tx[1], tx[2]} \cap ({u} \cup addresses_for(u)) # {}}

OnDevicesOf(u) == {v \in Accounts \ {u} : \E d \in Devices : {u, v} \subseteq conn.devices[d]}
WithKycOf(u) == {v \in Accounts \ {u} : conn.kyc[u] # NoDoc /\ conn.kyc[v] = conn.kyc[u]}
Parties(u) == UNION {{tx[1], tx[2]} : tx \in Flows(u)}

\* the accounts one hop away from u (itself included when it transacts)
Neighbours(u) ==
    {v \in Accounts : \E ref \in Parties(u) : controllerOf(ref) = v}
        \cup OnDevicesOf(u) \cup WithKycOf(u)

EdgesOf(u) ==
    {<<u, a, "controls">> : a \in addresses_for(u)}
        \cup {<<tx[1], tx[2], "transaction">> : tx \in Flows(u)}
        \cup {<<u, v, "shared_device">> : v \in OnDevicesOf(u)}
        \cup {<<u, v, "reused_kyc">> : v \in WithKycOf(u)}
NodesOf(u) == {u} \cup addresses_for(u) \cup Parties(u) \cup OnDevicesOf(u) \cup WithKycOf(u)

clamp_hops(asked) ==
    LET low == IF asked < HopsLimit THEN asked ELSE HopsLimit
    IN IF low > 1 THEN low ELSE 1

-----------------------------------------------------------------------------
(* start_walk, step_walk.                                                  *)

Init ==
    /\ conn \in Evidence /\ subject \in Accounts
    /\ \E asked \in Asked : cap = clamp_hops(asked)
    /\ stage = "between" /\ hop = 0
    /\ discovered = {subject} /\ frontier = {subject} /\ nextFrontier = {}
    /\ nodes = {subject} /\ edges = {}
    /\ row = 1 /\ exposed = {} /\ dq = {}
    /\ walked = [discovered |-> {}, nodes |-> {}]

StartHop ==
    /\ stage = "between" /\ hop < cap
    /\ stage' = "hop"
    /\ UNCHANGED <<given, walk, graph, row, exposed, dq, walked>>

\* Mutant: an account visited before is queued again.
MutFound(u) == Neighbours(u) \ frontier

\* Mutant: only accounts that are a party themselves, not who controls one.
MutFoundParties(u) == (Neighbours(u) \cap Parties(u)) \ discovered

\* next_frontier takes who is new; the frontier of this hop does not grow
Found(u) == Neighbours(u) \ discovered

Visit(u) ==
    /\ stage = "hop" /\ u \in frontier
    /\ frontier' = frontier \ {u}
    /\ nextFrontier' = nextFrontier \cup Found(u)
    /\ discovered' = discovered \cup Found(u)
    /\ nodes' = nodes \cup NodesOf(u)
    /\ edges' = edges \cup EdgesOf(u)
    /\ UNCHANGED <<given, stage, hop, row, exposed, dq, walked>>

EndHop ==
    /\ stage = "hop" /\ frontier = {}
    /\ stage' = "between"
    /\ frontier' = nextFrontier /\ nextFrontier' = {}
    /\ hop' = hop + 1
    /\ UNCHANGED <<given, discovered, graph, row, exposed, dq, walked>>

\* expand ends at the cap; the case graph also after a hop that found nobody
MayFinish == hop = cap \/ (hop > 0 /\ frontier = {})

-----------------------------------------------------------------------------
(* finish_walk.                                                            *)

FinishWalk ==
    /\ stage = "between" /\ MayFinish
    /\ stage' = "collapse"
    /\ walked' = [discovered |-> discovered, nodes |-> nodes]
    /\ UNCHANGED <<given, walk, graph, row, exposed, dq>>

\* Mutant: every gas row is taken.
MutRelevantAll(funder, funded) == funder \in Addresses

\* Mutant: a row is not taken for its funded address.
MutRelevant(funder, funded) ==
    funder \in nodes \/ conn.controller[funder] \in discovered

\* A row counts when it touches the graph or an account reached.
relevant(funder, funded) ==
    \/ funder \in nodes \/ funded \in nodes
    \/ conn.controller[funder] \in discovered

controllersOf(funder) == {conn.controller[funder]} \ {NoUid}

CollapseRow ==
    /\ stage = "collapse" /\ row \in 1..Len(conn.gas)
    /\ \E funder, funded \in Addresses :
        /\ conn.gas[row] = <<funder, funded>> /\ relevant(funder, funded)
        /\ nodes' = nodes \cup {funder, funded} \cup controllersOf(funder)
        /\ edges' = edges \cup {<<funder, funded, "gas_funding">>}
                          \cup {<<c, funded, "gas_control">> : c \in controllersOf(funder)}
        /\ discovered' = discovered \cup controllersOf(funder)
    /\ row' = row + 1
    /\ UNCHANGED <<given, stage, frontier, nextFrontier, hop, exposed, dq, walked>>

SkipRow ==
    /\ stage = "collapse" /\ row \in 1..Len(conn.gas)
    /\ ~relevant(conn.gas[row][1], conn.gas[row][2])
    /\ row' = row + 1
    /\ UNCHANGED <<given, stage, walk, graph, exposed, dq, walked>>

sanctionedNodes == conn.sanctioned \cap nodes

StartTrace ==
    /\ stage = "collapse" /\ row > Len(conn.gas)
    /\ stage' = "trace" /\ dq' = sanctionedNodes
    /\ UNCHANGED <<given, walk, graph, row, exposed, walked>>

radj(n) == {p \in nodes : \E e \in FlowEtypes : <<p, n, e>> \in edges}

\* Mutant: predecessors found before are queued again.
MutAncestorsAgain(n) == radj(n)

\* Mutant: a sanctioned endpoint is taken for found from the start.
MutAncestors(n) == radj(n) \ (exposed \cup sanctionedNodes)

Ancestors(n) == radj(n) \ exposed

\* the deque holds a node at most as often as it is popped to no effect, so
\* its contents are enough
Trace(n) ==
    /\ stage = "trace" /\ n \in dq
    /\ exposed' = exposed \cup Ancestors(n)
    /\ dq' = (dq \ {n}) \cup Ancestors(n)
    /\ UNCHANGED <<given, stage, walk, graph, row, walked>>

Assemble ==
    /\ stage = "trace" /\ dq = {}
    /\ stage' = "done"
    /\ UNCHANGED <<given, walk, graph, row, exposed, dq, walked>>

Done == stage = "done" /\ UNCHANGED vars

Next ==
    \/ StartHop \/ EndHop \/ FinishWalk
    \/ \E u \in Accounts : Visit(u)
    \/ CollapseRow \/ SkipRow \/ StartTrace
    \/ \E n \in Refs : Trace(n)
    \/ Assemble \/ Done

Spec == Init /\ [][Next]_vars
FairSpec == Spec /\ WF_vars(Next)

-----------------------------------------------------------------------------
(* Properties.                                                             *)

\* the accounts within k hops of the subject
Ball[k \in 0..HopsLimit] ==
    IF k = 0 THEN {subject}
    ELSE LET nearer == Ball[k - 1]
         IN nearer \cup UNION {Neighbours(u) : u \in nearer}

\* Whatever the order in which a hop visits its accounts, and although a hop
\* adds to discovered while it runs: between hops the walk has found the
\* accounts within `hop` hops, no further, and has drawn the evidence of
\* those one hop nearer (step_walk).
WalkIsTheBall ==
    stage = "between" =>
        /\ discovered = Ball[hop]
        /\ hop > 0 => /\ frontier = Ball[hop] \ Ball[hop - 1]
                      /\ edges = UNION {EdgesOf(u) : u \in Ball[hop - 1]}

\* closed under the links a hop follows
LinkClosed(S) == \A u \in S : Neighbours(u) \subseteq S

\* A walk whose frontier is empty has found the subject's component: the
\* accounts reached are closed under every link, and any closed set around
\* the subject contains them, so no number of further hops adds an account.
ExhaustedIsComponent ==
    (stage = "between" /\ frontier = {}) =>
        /\ subject \in discovered /\ LinkClosed(discovered)
        /\ \A S \in SUBSET Accounts : subject \in S /\ LinkClosed(S) => discovered \subseteq S

\* closed under the links and under the gas rows
ClusterClosed(S) ==
    /\ \A u \in S \cap Accounts : NodesOf(u) \cup Neighbours(u) \subseteq S
    /\ \A i \in 1..Len(conn.gas) :
         LET touched == {conn.gas[i][1], conn.gas[i][2]} \cup controllersOf(conn.gas[i][1])
         IN touched \cap S # {} => touched \subseteq S

\* Nothing unrelated to the subject gets into the expansion, the gas pass
\* included: every node and every account reached lies in every set around
\* the subject that is closed under the links and the gas rows.
ClusterIsSupported ==
    stage = "done" =>
        \A S \in SUBSET Refs :
            subject \in S /\ ClusterClosed(S) => nodes \cup discovered \subseteq S

\* The gas controller of every address the walk itself reached is named: the
\* control edge is drawn and the controller is in the cluster (finish_walk).
WalkedHopsAreAttributed ==
    stage \in {"trace", "done"} =>
        \A i \in 1..Len(conn.gas) : \A c \in controllersOf(conn.gas[i][1]) :
            conn.gas[i][2] \in walked.nodes =>
                /\ <<c, conn.gas[i][2], "gas_control">> \in edges
                /\ c \in discovered /\ c \in nodes

\* holds the predecessors of the sanctioned endpoints and of its members
BackwardClosed(S) == \A n \in sanctionedNodes \cup S : radj(n) \subseteq S

\* The worklist ends with exactly the nodes that have a flow path to a
\* sanctioned endpoint: the least set closed under flow predecessors
\* (_sanctioned_flow_ancestors).
ExposureIsExact ==
    stage = "done" =>
        /\ BackwardClosed(exposed)
        /\ \A S \in SUBSET Refs : BackwardClosed(S) => exposed \subseteq S

\* Every walk ends, also on evidence whose flows form cycles.
Finishes == <>(stage = "done")

=============================================================================
