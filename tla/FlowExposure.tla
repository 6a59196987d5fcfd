---------------------------- MODULE FlowExposure ----------------------------
(***************************************************************************)
(* Flow exposure: who can reach a designated address, in how many hops.    *)
(*                                                                         *)
(* The ledger's transactions are edges between nodes; a node is an account *)
(* ("uid:<n>") or an address.  sweep_exposure walks the edges backwards    *)
(* from the designated addresses, breadth first, with one queue; an        *)
(* account's distance is the least over its own node and the wallets it    *)
(* controls.  Shared devices and reused identity documents link accounts   *)
(* to exposed ones without any flow: adjacency, for review only.           *)
(***************************************************************************)
EXTENDS Integers, Sequences, FiniteSets

CONSTANTS
    Accounts,   \* uids
    Addresses,
    Nobody,     \* the controller of an address outside the institution
    Worlds      \* the tables and the designation a sweep may be run on

ASSUME FlowAssumption ==
    /\ Accounts \subseteq Nat /\ IsFiniteSet(Accounts)
    /\ IsFiniteSet(Addresses)
    /\ Accounts \cap Addresses = {}
    /\ Nobody \notin Accounts
    /\ \A w \in Worlds :
         /\ w.pays \subseteq (Accounts \cup Addresses) \X (Accounts \cup Addresses)
         /\ w.listed \subseteq Addresses
         /\ w.controller \in [Addresses -> Accounts \cup {Nobody}]

VARIABLES
    world,   \* the tables and the designation: fixed while a sweep runs
    dist,    \* the nodes found so far, with their distance
    queue    \* the nodes found whose payers have not been looked at

Nodes == Accounts \cup Addresses

\* The orders in which the ledger may list a set of payers.
Orders(S) ==
    {f \in [1..Cardinality(S) -> S] : \A x \in S : \E i \in 1..Cardinality(S) : f[i] = x}

Payers(node) == {n \in Nodes : <<n, node>> \in world.pays}

\* dist = {a: 0 for a in designated}; deque(designated)
StartWalk ==
    /\ dist' = [a \in world.listed |-> 0]
    /\ queue' \in Orders(world.listed)

\* Mutant: the newest node is taken first.
MutVisit ==
    /\ queue # << >>
    /\ LET node == Head(queue)
           fresh == Payers(node) \ DOMAIN dist
       IN  \E order \in Orders(fresh) :
             /\ dist' = [n \in DOMAIN dist \cup fresh |->
                           IF n \in fresh THEN dist[node] + 1 ELSE dist[n]]
             /\ queue' = order \o Tail(queue)

\* One turn of the loop: a node leaves the queue, its new payers join it.
Visit ==
    /\ queue # << >>
    /\ LET node == Head(queue)
           fresh == Payers(node) \ DOMAIN dist
       IN  \E order \in Orders(fresh) :
             /\ dist' = [n \in DOMAIN dist \cup fresh |->
                           IF n \in fresh THEN dist[node] + 1 ELSE dist[n]]
             /\ queue' = Tail(queue) \o order

\* The account's node and the wallets it controls.
ClusterOf(u) == {u} \cup {a \in Addresses : world.controller[a] = u}

ExposedAccounts == {u \in Accounts : ClusterOf(u) \cap DOMAIN dist # {}}

\* hops = min(dist[n] for n in cluster)
Hops(u) ==
    CHOOSE k \in {dist[n] : n \in ClusterOf(u) \cap DOMAIN dist} :
        \A n \in ClusterOf(u) \cap DOMAIN dist : k <= dist[n]

HopsByUid == [u \in ExposedAccounts |-> Hops(u)]

\* The payments an exposed account is cited for: those of its own that begin a
\* shortest way to a listed address, or all through the listed ones it controls.
DrivingLegs(distance, hops) ==
    [u \in DOMAIN hops |->
        {p \in world.pays :
            IF hops[u] = 0 THEN {p[1], p[2]} \cap world.listed \cap ClusterOf(u) # {}
            ELSE p[1] \in ClusterOf(u) /\ p[2] \in DOMAIN distance /\ distance[p[2]] = hops[u] - 1}]

\* _adjacency: the kinds of link u has to an exposed account.
LinkTypes(u, exposed) ==
    {"shared_device" : v \in {v \in exposed : world.devices[u] \cap world.devices[v] # {}}}
    \cup
    {"reused_kyc" : v \in {v \in exposed : world.document[u] = world.document[v]}}

Adjacent(exposed) ==
    {[uid |-> u, links |-> LinkTypes(u, exposed)] :
        u \in {u \in Accounts \ exposed : LinkTypes(u, exposed) # {}}}
-----------------------------------------------------------------------------
\* What the walk should find: the nodes within k payments of a listed address.
WithinHops ==
    LET within[k \in 0..Cardinality(Nodes)] ==
            IF k = 0 THEN world.listed
            ELSE LET nearer == within[k - 1] IN
                 nearer \cup {n \in Nodes : \E m \in nearer : <<n, m>> \in world.pays}
    IN  within

Reaching ==
    LET nodes == WithinHops[Cardinality(Nodes)] IN
    {u \in Accounts : ClusterOf(u) \cap nodes # {}}
=============================================================================
