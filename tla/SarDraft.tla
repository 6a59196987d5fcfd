------------------------------ MODULE SarDraft ------------------------------
(***************************************************************************)
(* What a SAR draft is made of: the claims build_sar and gap_fill_claims   *)
(* derive from the tables, the validation every draft passes and the       *)
(* rubric the Critic grades it by.  All of it is a function of the tables  *)
(* and of the contradiction table; CaseDrafting runs it.                   *)
(*                                                                         *)
(* A claim is its element, the rows it cites, and whether it quotes words  *)
(* of the case that over-claim ("definitely"): the templates themselves    *)
(* use none.  Claims of equal content are one claim.                       *)
(***************************************************************************)
EXTENDS AdvisoryMatch

Claim(element, cites) == [element |-> element, cites |-> cites, banned |-> FALSE]
Quote(element, cites, banned) == [element |-> element, cites |-> cites, banned |-> banned]

AccountRow(u) == <<"accounts", u>>
AddressRow(a) == <<"addresses", a>>

\* A remark on a transaction, or a label in somebody's address book; banned: it
\* over-claims.
Tells(w) == [kind : {"transaction"}, tx : Txs(w), banned : BOOLEAN]
              \cup [kind : {"address_book"}, owner : Accounts, saved : Addresses, banned : BOOLEAN]

TxsOf(w) == {i \in Txs(w) : Touches(w, i, RefsFor(w, w.subject))}

Events(w) == {AccountRow(w.subject)} \cup Cites("ip_logs", DOMAIN w.logins)
                \cup Cites("transactions", TxsOf(w))

\* "home" is the declared residence; span: the first and the last event; the
\* mined tells are in order; tag is internal_tag; hops: clamp_hops has been
\* applied.  Of gas rows there is one at most: NetworkExpander has the pass
\* over many.
DraftTables(w) ==
    /\ w.hops \in Nat \ {0}
    /\ w.span \in Events(w) \X Events(w)
    /\ w.kyc \in [Accounts -> Docs \cup {NoDoc}]
    /\ w.logins \in Seq([place : {"home", "abroad", "territory", "unknown"}, vpn : BOOLEAN])
    /\ w.tag \in {"none", "plain", "banned"}
    /\ w.tells \in Seq(Tells(w))
    /\ Cardinality(w.gas) <= 1

-----------------------------------------------------------------------------
(* The profile's anomalies.                                                *)

OnKyc(w, u) == {v \in Accounts : w.kyc[u] # NoDoc /\ w.kyc[v] = w.kyc[u]}

geo_ip_mismatch(w) ==
    LET Hits(place) == {n \in DOMAIN w.logins : ~w.logins[n].vpn /\ w.logins[n].place = place}
    IN  {Claim("what", {AccountRow(w.subject)} \cup Cites("ip_logs", Hits(p))) :
            p \in {p \in {"territory", "abroad"} : Hits(p) # {}}}

\* at 30% of the logins
vpn_elevation(w) ==
    LET vpn == {n \in DOMAIN w.logins : w.logins[n].vpn}
    IN  {Claim("what", Cites("ip_logs", vpn)) :
            x \in {y \in {vpn} : y # {} /\ 10 * Cardinality(y) >= 3 * Len(w.logins)}}

reused_kyc(w) ==
    {Claim("what", {<<"kyc_docs", w.kyc[w.subject]>>} \cup Cites("accounts", s)) :
        s \in {s \in {OnKyc(w, w.subject)} : s \ {w.subject} # {}}}

shared_device(w) ==
    {Claim("what", Cites("devices", {fp} \X w.devices[fp])) :
        fp \in {fp \in Fingerprints : w.subject \in w.devices[fp] /\ CoAccounts(w, fp) # {}}}

internal_tag(w) ==
    {Quote("what", {AccountRow(w.subject)}, t = "banned") : t \in {w.tag} \ {"none"}}

detect_all(w) == geo_ip_mismatch(w) \cup vpn_elevation(w) \cup reused_kyc(w)
                    \cup shared_device(w) \cup internal_tag(w)

-----------------------------------------------------------------------------
(* The expansion: its hops from the subject, then the gas row.             *)

Linked(w, u) ==
    {v \in Accounts \ {u} :
        \/ \E i \in Txs(w) : Touches(w, i, RefsFor(w, u)) /\ Touches(w, i, RefsFor(w, v))
        \/ \E fp \in Fingerprints : {u, v} \subseteq w.devices[fp]
        \/ v \in OnKyc(w, u)}

\* Discovered(w)[n]: the accounts n hops discover; those of all hops but the
\* last have been visited
Discovered(w) ==
    LET after[n \in 0..w.hops] ==
            IF n = 0 THEN {w.subject}
            ELSE after[n - 1] \cup UNION {Linked(w, u) : u \in after[n - 1]}
    IN  after
Visited(w) == Discovered(w)[w.hops - 1]
Walked(w) == Discovered(w)[w.hops]

\* What a visit of u draws: the parties of its transfers as they are written,
\* never the controller of a party.
NodesOf(w, u) ==
    RefsFor(w, u) \cup OnKyc(w, u)
        \cup (UNION {w.devices[fp] : fp \in {fp \in Fingerprints : u \in w.devices[fp]}})
        \cup (UNION {{w.txs[i].from, w.txs[i].to} :
                        i \in {i \in Txs(w) : Touches(w, i, RefsFor(w, u))}})

\* Mutant: every account discovered is drawn.
MutWalkNodes(w) == Walked(w) \cup UNION {NodesOf(w, u) : u \in Visited(w)}
WalkNodes(w) == UNION {NodesOf(w, u) : u \in Visited(w)}

\* the rows the gas pass draws
GasRows(w) == {g \in w.gas : \/ {g[1], g[2]} \cap WalkNodes(w) # {}
                             \/ w.controller[g[1]] \in Walked(w)}
\* Mutant: a row is a link whoever funds it.
MutGasLinks(w) == GasRows(w)
\* gas_funding_links: those whose funder has a controller
GasLinks(w) == {g \in GasRows(w) : w.controller[g[1]] # Nobody}
GasControllers(w) == {w.controller[g[1]] : g \in GasLinks(w)}
Nodes(w) == WalkNodes(w) \cup GasControllers(w) \cup UNION {{g[1], g[2]} : g \in GasRows(w)}
SanctionedReached(w) == w.sanctioned \cap Nodes(w)

\* The money of the graph, and the accounts score_risk finds exposed by it.
Drawn(w) == {i \in Txs(w) : \E u \in Visited(w) : Touches(w, i, RefsFor(w, u))}
MoneyEdges(w) == {<<w.txs[i].from, w.txs[i].to>> : i \in Drawn(w)}
                   \cup {<<w.controller[a], a>> : a \in {a \in Addresses : w.controller[a] \in Visited(w)}}
\* the references from which edges lead to S
Upstream(edges, S) ==
    LET up[T \in SUBSET (Accounts \cup Addresses)] ==
            LET more == T \cup {e[1] : e \in {e \in edges : e[2] \in T}}
            IN  IF more = T THEN T ELSE up[more]
    IN  up[S]

\* The first pointer of an exposed account: its first transfer on the way, or
\* the sanctioned address when it holds that address itself.
Owned(w, u) == IF u \in Visited(w) THEN RefsFor(w, u) ELSE {u}
Pointer(w, u, toward) ==
    LET leads == {i \in Drawn(w) : w.txs[i].from \in Owned(w, u) /\ w.txs[i].to \in toward}
    IN  IF leads # {} THEN <<"transactions", Min(leads)>>
        ELSE AddressRow(CHOOSE a \in SanctionedReached(w) : TRUE)

\* {}, or that of an exposed account (which one scores highest is left open)
ExposureRow(w) ==
    UNION {{Pointer(w, CHOOSE u \in us : TRUE, exposed) : us \in {exposed \cap Accounts} \ {{}}} :
              exposed \in {Upstream(e, SanctionedReached(w)) : e \in {MoneyEdges(w)}}}

Matches(w) == UNION {match_advisories(w, row) : row \in {ExposureRow(w)}}
Advisory(w) == AdvisoryRows(Matches(w))

-----------------------------------------------------------------------------
(* The first draft.                                                        *)

MaxTells == 4

TellRefs(w, t) == IF t.kind = "address_book"
                  THEN {t.saved} \cup addresses_for(w, t.owner)
                  ELSE {w.txs[t.tx].from, w.txs[t.tx].to}
TellRow(t) == IF t.kind = "address_book" THEN <<"address_book", <<t.owner, t.saved>>>>
              ELSE <<"transactions", t.tx>>

InClosure(w, t) == TellRefs(w, t) \cap Nodes(w) # {}

TellsInClosure(w) == {n \in DOMAIN w.tells : InClosure(w, w.tells[n])}
DraftedTells(w) ==
    UNION {LET kept == Picked(w.tells, near) IN {kept[n] : n \in DOMAIN kept \cap (1..MaxTells)} :
              near \in {TellsInClosure(w)}}

network_claim(w) ==
    {Claim("network", {AccountRow(w.subject)} \cup Cites("addresses", s)) :
        s \in {SanctionedReached(w)} \ {{}}}

contradiction_claim(w, adj) ==
    Quote("contradiction", {<<"rfi", 1>>} \cup UNION {r.cites : r \in adj.rebuttals},
          w.rfi[adj.claim].banned)

\* contradicted: the adjudications that are contradictions
build_sar(w, contradicted) ==
    {Claim("who", {AccountRow(w.subject)})}
        \cup detect_all(w)
        \cup network_claim(w)
        \cup {Quote("tell", {TellRow(t)}, t.banned) : t \in DraftedTells(w)}
        \cup {Claim("advisory", rows) : rows \in {Advisory(w)} \ {{}}}
        \cup {Claim("rfi", {<<"rfi", 1>>}) : x \in {y \in {w.answered} : y}}
        \cup {contradiction_claim(w, adj) : adj \in contradicted}

-----------------------------------------------------------------------------
(* The validation contract and the rubric.                                 *)

Rows(w) ==
    Cites("accounts", Accounts) \cup Cites("addresses", Addresses)
        \cup Cites("rfi", {n \in {1} : w.answered})
        \cup Cites("transactions", Txs(w)) \cup Cites("gas_funding", w.gas)
        \cup Cites("ip_logs", DOMAIN w.logins) \cup Cites("rfi_prior", DOMAIN w.priors)
        \cup Cites("registry", w.officers)
        \cup Cites("devices", Fingerprints \X Accounts) \cup Cites("kyc_docs", Docs)
        \cup Cites("address_book", {<<t.owner, t.saved>> :
                        t \in {t \in ToSet(w.tells) : t.kind = "address_book"}})
        \cup Cites("sdn_list", {1})

is_grounded(c) == c.cites # {}
assert_grounded(draft) == \A c \in draft : is_grounded(c)
assert_resolvable(w, draft) == \A c \in draft : c.cites \subseteq Rows(w)
assert_calibrated(draft) == \A c \in draft : ~c.banned
Valid(w, draft) == assert_grounded(draft) /\ assert_resolvable(w, draft) /\ assert_calibrated(draft)

\* FINCEN_RUBRIC: the element tags any of which satisfies a key.  Every key is
\* required and the threshold is full coverage.
Rubric == [who |-> {"who"}, what |-> {"what"}, when |-> {"when"}, where |-> {"where"},
           why |-> {"predicate", "advisory"}, how |-> {"how"},
           subject_and_network |-> {"network", "tell"},
           on_chain_evidence |-> {"network", "onchain"}]

gap_keys(draft) ==
    {key \in DOMAIN Rubric : \A c \in draft : c.element \notin Rubric[key]}
meets_bar(draft) == gap_keys(draft) = {}

-----------------------------------------------------------------------------
(* Gap filling, from evidence in hand.                                     *)

SomeClaim(element, cites) == {Claim(element, x) : x \in {cites} \ {{}}}

when_claim(w) == SomeClaim("when", {w.span[1], w.span[2]})
where_claim(w) == SomeClaim("where", {AccountRow(w.subject)} \cup Cites("ip_logs", DOMAIN w.logins))
predicate_claim(w) ==
    SomeClaim("predicate", Cites("addresses", SanctionedReached(w)) \cup Advisory(w))

\* structured transfers of the subject's own account reference, gas links of
\* the expansion, and a KYC document used twice
how_claim(w) ==
    SomeClaim("how",
        Cites("transactions", {i \in Txs(w) : w.txs[i].structured /\ Touches(w, i, {w.subject})})
            \cup Cites("gas_funding", GasLinks(w))
            \cup IF OnKyc(w, w.subject) \ {w.subject} = {} THEN {}
                 ELSE Cites("accounts", OnKyc(w, w.subject)))

gap_fill_claims(w, keys) ==
    (IF "when" \in keys THEN when_claim(w) ELSE {})
        \cup (IF "where" \in keys THEN where_claim(w) ELSE {})
        \cup (IF "why" \in keys THEN predicate_claim(w) ELSE {})
        \cup (IF "how" \in keys THEN how_claim(w) ELSE {})
=============================================================================
