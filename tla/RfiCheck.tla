------------------------------ MODULE RfiCheck ------------------------------
(***************************************************************************)
(* The contradiction checker: each claim of the subject's RFI answer is    *)
(* put to four probes (registry, earlier answers, ledger, devices), whose  *)
(* rebuttals decide its verdict.  Everything here is a function of the     *)
(* tables; a table row is cited as <<source, row key>>.                    *)
(*                                                                         *)
(* What the lexicons find in a claim is data: whether it denies a          *)
(* relationship, states where funds come from or asserts exclusive         *)
(* control, and which accounts its words name.                             *)
(***************************************************************************)
EXTENDS Naturals, Sequences, FiniteSets, SequencesExt

CONSTANTS
    Accounts, Addresses, Fingerprints, Docs,
    Nobody,   \* the controller of an address outside the institution
    NoDoc,    \* no KYC document
    Open      \* _OPEN_ENDED, later than every date

ASSUME RfiAssumption ==
    /\ IsFiniteSet(Accounts) /\ IsFiniteSet(Addresses)
    /\ Accounts \cap Addresses = {} /\ Nobody \notin Accounts \cup Addresses

\* w: the tables, and the subject of the case.  The ledger is in tx_id order,
\* without settlement legs; a gas row is <<funder, funded>>; priors are the
\* subject's earlier answers; answered: there is one under review, and rfi are
\* the claims found in it.
RfiTables(w) ==
    /\ w.subject \in Accounts /\ w.sanctioned \subseteq Addresses
    /\ w.controller \in [Addresses -> Accounts \cup {Nobody}]
    /\ w.txs \in Seq([from : Accounts \cup Addresses, to : Accounts \cup Addresses,
                      structured : BOOLEAN])
    /\ w.gas \subseteq Addresses \X Addresses
    /\ w.devices \in [Fingerprints -> SUBSET Accounts]
    /\ w.officers \subseteq [company : Accounts, officer : Nat, from : Nat, until : Nat]
    /\ w.priors \in Seq([names : SUBSET Accounts, affirms : BOOLEAN])
    /\ w.rfi \in Seq([denies : BOOLEAN, funds : BOOLEAN, exclusive : BOOLEAN,
                      names : SUBSET Accounts, banned : BOOLEAN])
    /\ w.answered \in BOOLEAN /\ (w.rfi # << >> => w.answered)

\* the entries of s at the positions of P, in their order
Picked(s, P) ==
    [k \in 1..Cardinality(P) |-> s[CHOOSE n \in P : Cardinality({m \in P : m <= n}) = k]]

Txs(w) == DOMAIN w.txs

addresses_for(w, u) == {a \in Addresses : w.controller[a] = u}
RefsFor(w, u) == {u} \cup addresses_for(w, u)

\* tx i has one end among P and the other among Q
Between(w, i, P, Q) == \/ w.txs[i].from \in P /\ w.txs[i].to \in Q
                       \/ w.txs[i].from \in Q /\ w.txs[i].to \in P
Touches(w, i, P) == w.txs[i].from \in P \/ w.txs[i].to \in P

Cites(source, rows) == {source} \X rows
Rebuttal(source, strength, cites) == [source |-> source, strength |-> strength, cites |-> cites]

named_entities(w, claim) == claim.names \ {w.subject}

\* the later start is no later than the earlier end
Overlap(a, b) == \A p, q \in {a, b} : p.from <= q.until

check_registry(w, claim) ==
    {Rebuttal("registry", 80, Cites("registry", {p[1], p[2]})) :
        p \in {p \in w.officers \X w.officers :
            /\ claim.denies
            /\ p[1].company = w.subject /\ p[2].company \in named_entities(w, claim)
            /\ p[1].officer = p[2].officer
            /\ Overlap(p[1], p[2])}}

check_prior_rfi(w, claim) ==
    {Rebuttal("prior_rfi", 80, Cites("rfi_prior", {k})) :
        k \in {k \in DOMAIN w.priors :
            /\ claim.denies
            /\ w.priors[k].affirms
            /\ w.priors[k].names \cap named_entities(w, claim) # {}}}

(***************************************************************************)
(* _sanctioned_flow is a breadth-first search over the ledger in tx_id     *)
(* order, which stops at the first sanctioned address: it returns a        *)
(* shortest path, and of those from one start the first in tx_id order.    *)
(* Which start is tried first is left open.                                *)
(***************************************************************************)
Paths(w, start) ==
    {path \in UNION {[1..n -> Txs(w)] : n \in Txs(w)} :
        /\ w.txs[path[1]].from \in start
        /\ \A k \in 2..Len(path) : w.txs[path[k]].from = w.txs[path[k - 1]].to
        /\ w.txs[path[Len(path)]].to \in w.sanctioned}

Sooner(w, path, other) ==
    \/ Len(path) < Len(other)
    \/ /\ Len(path) = Len(other)
       /\ \/ w.txs[path[1]].from # w.txs[other[1]].from
          \/ path = other
          \/ \E k \in DOMAIN path : /\ path[k] < other[k]
                                    /\ \A j \in 1..k - 1 : path[j] = other[j]

sanctioned_flow(w, start) ==
    LET paths == Paths(w, start)
    IN  IF paths = {} THEN << >>
        ELSE CHOOSE path \in paths : \A other \in paths : Sooner(w, path, other)

Flows(w, other) ==
    {i \in Txs(w) : Between(w, i, RefsFor(w, w.subject), RefsFor(w, other))}
Structured(w) == {i \in Txs(w) : w.txs[i].structured /\ Touches(w, i, RefsFor(w, w.subject))}
\* gas rows of the wallets the subject paid
PaidHops(w) ==
    {g \in w.gas : \E i \in Txs(w) : w.txs[i].from \in RefsFor(w, w.subject) /\ w.txs[i].to = g[2]}

ExposurePath(w) == sanctioned_flow(w, RefsFor(w, w.subject))

check_onchain(w, claim) ==
    LET path  == ToSet(ExposurePath(w))
        legs  == {<<50, Cites("transactions", Flows(w, o))>> :
                     o \in IF claim.denies THEN named_entities(w, claim) ELSE {}}
        funds == IF claim.funds
                 THEN {<<90, Cites("transactions", path)>>,
                       <<50, Cites("transactions", Structured(w))>>,
                       <<60, Cites("gas_funding", PaidHops(w))>>}
                 ELSE {}
    IN  {Rebuttal("onchain", f[1], f[2]) : f \in {f \in legs \cup funds : f[2] # {}}}

CoAccounts(w, fp) == w.devices[fp] \ {w.subject}
check_device(w, claim) ==
    {Rebuttal("device", 50, Cites("devices", {fp} \X w.devices[fp])) :
        fp \in {fp \in Fingerprints : /\ claim.exclusive
                                     /\ w.subject \in w.devices[fp]
                                     /\ CoAccounts(w, fp) # {}}}

run_checkers(w, claim) ==
    check_registry(w, claim) \cup check_prior_rfi(w, claim)
        \cup check_onchain(w, claim) \cup check_device(w, claim)

-----------------------------------------------------------------------------
StrongRebuttal == 80
MinCorroboratingSources == 2

Sources(rebuttals) == {r.source : r \in rebuttals}
Testable(claim) == claim.denies \/ claim.funds \/ claim.exclusive

\* Mutant: two rebuttals of one source corroborate each other.
MutVerdict(rebuttals, claim) ==
    IF rebuttals = {} THEN IF Testable(claim) THEN "uncontested" ELSE "unverifiable"
    ELSE IF \/ \E r \in rebuttals : r.strength >= StrongRebuttal
            \/ Cardinality(rebuttals) >= MinCorroboratingSources
         THEN "contradicted" ELSE "qualified"

\* adjudicate_claim
Verdict(rebuttals, claim) ==
    IF rebuttals = {} THEN IF Testable(claim) THEN "uncontested" ELSE "unverifiable"
    ELSE IF \/ \E r \in rebuttals : r.strength >= StrongRebuttal
            \/ Cardinality(Sources(rebuttals)) >= MinCorroboratingSources
         THEN "contradicted" ELSE "qualified"

\* One row of the table check_contradictions returns.
Adjudication(w, k) ==
    LET rebuttals == run_checkers(w, w.rfi[k])
    IN  [claim |-> k, verdict |-> Verdict(rebuttals, w.rfi[k]), rebuttals |-> rebuttals]
=============================================================================
