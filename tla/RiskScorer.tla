----------------------------- MODULE RiskScorer -----------------------------
(***************************************************************************)
(* score_risk over the finished expansion of NetworkExpander: who is       *)
(* exposed to a sanctioned address by money, at how many hops and through  *)
(* which of their transfers, and who is only linked to the ring by gas.    *)
(* It expands nothing and writes nothing.                                  *)
(*                                                                         *)
(* The score is a decreasing function of the hop and an increasing one of  *)
(* the amount of the tainted transfers, which is kept as their set; bands, *)
(* the decomposition and the provenance are left out.                      *)
(***************************************************************************)
EXTENDS NetworkExpander

\* The tables are files.
ASSUME FiniteAssumption == IsFiniteSet(Accounts) /\ IsFiniteSet(Addresses)

\* Mutant: gas counts as money.
MutMoneyFlowEtypes == FlowEtypes

MoneyFlowEtypes == {"transaction", "controls"}
GasEtypes == {"gas_funding", "gas_control"}

\* _distances_to_sanctioned: of each node that leads to a sanctioned address
\* node of the graph along such edges, the least number of them.
Distances(etypes) ==
    LET steps == {e \in edges : e[3] \in etypes}
        level[k \in 0..Cardinality(nodes)] ==
          IF k = 0 THEN sanctionedNodes
          ELSE LET nearer == level[k - 1]
               IN  nearer \cup {e[1] : e \in {e \in steps : e[2] \in nearer}}
    IN  [n \in level[Cardinality(nodes)] |->
            CHOOSE k \in 0..Cardinality(nodes) :
                n \in level[k] /\ (k > 0 => n \notin level[k - 1])]

\* _controlled_nodes, _tainted_outflow, _has_direct_sanctioned_tx
Owned(u) == {u} \cup {v \in nodes : <<u, v, "controls">> \in edges}
Outflow(u) == {e \in edges : e[1] \in Owned(u) /\ e[3] = "transaction"}
Tainted(u, toward) == {e \in Outflow(u) : e[2] \in toward}
Direct(u) == \E e \in Outflow(u) : e[2] \in conn.sanctioned

GasControllers == {u \in Accounts : \E n \in nodes : <<u, n, "gas_control">> \in edges}

MoneyRow(u, dist) ==
    [uid |-> u, exposure_path |-> TRUE, hop |-> dist[u],
     tainted |-> Tainted(u, DOMAIN dist), direct |-> Direct(u), gas_funded |-> u \in GasControllers]

\* A gas controller nothing leads on from is placed at one hop.
GasRow(u, dist) ==
    [uid |-> u, exposure_path |-> FALSE, hop |-> IF u \in DOMAIN dist THEN dist[u] ELSE 1,
     tainted |-> {}, direct |-> FALSE, gas_funded |-> TRUE]

score_risk ==
    LET money == Distances(MoneyFlowEtypes)
        any == Distances(MoneyFlowEtypes \cup GasEtypes)
        exposed_uids == Accounts \cap DOMAIN money
    IN  {MoneyRow(u, money) : u \in exposed_uids}
          \cup {GasRow(u, any) : u \in GasControllers \ exposed_uids}
-----------------------------------------------------------------------------
\* The money of the tables: payments, and an account's hold on its wallets.
Moves == conn.flows \cup {<<conn.controller[a], a>> : a \in {a \in Addresses : conn.controller[a] # NoUid}}

\* Who can pay a sanctioned address in at most k moves.
Payers[k \in 0..Cardinality(Refs)] ==
    IF k = 0 THEN conn.sanctioned
    ELSE LET nearer == Payers[k - 1]
         IN  nearer \cup {m[1] : m \in {m \in Moves : m[2] \in nearer}}

\* The answer key: whoever can in any number of moves.
Gold == Accounts \cap Payers[Cardinality(Refs)]

Hosted == \A a \in nodes \cap Addresses : conn.controller[a] # NoUid \/ a \in conn.sanctioned

(***************************************************************************)
(* Exposure follows the money of the tables, not the shape of the graph:   *)
(* whoever is scored exposed can really pay a sanctioned address, in no    *)
(* fewer moves than the hop says, however gas ties the cluster together;   *)
(* a walk that ran dry among hosted wallets misses nobody it reached; and  *)
(* every gas controller of the graph is surfaced, once, in the metric only *)
(* with a money path (scorer/scorer.py, "a gas-only relationship can never *)
(* fabricate a money-flow exposure").                                      *)
(***************************************************************************)
ScoresFollowTheMoney ==
    stage = "done" =>
        LET rows == score_risk IN
        /\ \A r \in rows : r.exposure_path =>
              /\ r.hop \in DOMAIN Payers /\ r.uid \in Payers[r.hop]
              /\ r.direct => r.hop <= 2
        /\ (frontier = {} /\ Hosted) =>
              Gold \cap walked.discovered \subseteq {r.uid : r \in {r \in rows : r.exposure_path}}
        /\ \A u \in GasControllers :
              \E r \in rows : r.uid = u /\ r.gas_funded /\ \A s \in rows : s.uid = u => s = r
=============================================================================
