------------------------------- MODULE Sweep -------------------------------
(***************************************************************************)
(* run_sweep: one designation of a party, swept over the institution's     *)
(* tables.                                                                 *)
(*                                                                         *)
(* A fixed sequence of stages, each stamped into the sweep's own audit     *)
(* chain (some only when they found something): the name screens, the      *)
(* corroboration of each hit against the published identifiers, the        *)
(* ownership walk and the proximity ring around the parties that are left, *)
(* the exposure walk (FlowExposure), the reconciliation of the two hold    *)
(* systems, the worksheet, the escalations and the identity requests, the  *)
(* package.  A check that fails raises and leaves the chain where it is.   *)
(*                                                                         *)
(* What a stage reads it reads off the world: the screens a name passes,   *)
(* identifiers at their comparison, names at the forbidden terms they      *)
(* contain, payments at whether they come after the designation (late).    *)
(* For a territory the accounts' location signals are triangulated         *)
(* (GeoTriangulation); the stages of a counterparty service are            *)
(* CounterpartyLifecycle.                                                  *)
(***************************************************************************)
EXTENDS FlowExposure, GeoTriangulation

\* _empty_addresses_only_when_national_ct_signal: a designation without an
\* address is a foreign listing of a name, or a territory.
WellFormed(w) == w.listed = {} => w.signal \/ w.territory # "no"

\* The tables about identity and place: the published identifiers as they
\* compare, stakes and appointments (late: changed after the designation),
\* declared and asserted relationships, location records.
IdentityTables(w) ==
    /\ w.name \in [Accounts -> SUBSET {"direct", "variant"}]
    /\ DOMAIN w.identity \subseteq Accounts /\ w.individuals \subseteq Accounts
    /\ w.stakes \subseteq [owner : Accounts, company : Accounts, control : BOOLEAN, late : BOOLEAN]
    /\ w.officers \subseteq [company : Accounts, identity : BOOLEAN, late : BOOLEAN]
    /\ w.declared \subseteq SUBSET Accounts
    /\ w.asserted \subseteq [pair : SUBSET Accounts,
                            type : {"relationship_remark", "kyc_document_cross_holding", "other"}]
    /\ w.geo \in [Accounts -> Records] /\ w.today \in Int

\* A hold row says blocked or no_hold; an account may have none in a system.
HoldTables(w) == {w.warehouse, w.admin} \subseteq [Accounts -> {"absent", "no_hold", "blocked"}]

ASSUME SweepAssumption == \A w \in Worlds : WellFormed(w) /\ IdentityTables(w) /\ HoldTables(w)

VARIABLES
    stage,   \* the stage run_sweep is about to run
    result,  \* its SweepResult so far
    chain,   \* the audit chain: what each record stamps, and for whom
    package  \* sweep_package.json, << >> while there is none

vars == <<world, dist, queue, stage, result, chain, package>>

Stages == {"open", "screen", "corroborate", "ownership", "expose", "walk", "ring",
           "locate", "propose", "verify", "worksheet", "escalate", "ask", "complete", "package", "stamp",
           "done", "raised"}

\* The stages at which the worksheet is built, and the escalations drafted.
AfterWorksheet == {"escalate", "ask", "complete", "package", "stamp", "done"}
AfterEscalation == AfterWorksheet \ {"escalate"}
AfterRing == AfterWorksheet \cup {"locate", "propose", "verify", "worksheet"}

Stamp(action, about) == [action |-> action, about |-> about]

Ascending(S) ==
    CHOOSE f \in Orders(S) : \A i, j \in 1..Cardinality(S) : i < j => f[i] < f[j]

NothingFound ==
    [direct |-> {}, variant |-> {}, corroboration |-> << >>, ownership |-> {},
     hops |-> << >>, legs |-> << >>, adjacent |-> {}, ring |-> {}, dossiers |-> << >>, proposals |-> << >>,
     gaps |-> << >>, rows |-> {},
     drafted |-> {}, suppressed |-> {}, asked |-> {}, unasked |-> {}]

Init ==
    /\ world \in Worlds
    /\ dist = [n \in {} |-> 0] /\ queue = << >>
    /\ stage = "open"
    /\ result = NothingFound
    /\ chain = << >> /\ package = << >>

Goto(from, to) == stage = from /\ stage' = to

Stamped(stamps) == chain' = chain \o stamps
-----------------------------------------------------------------------------
Open ==
    /\ Goto("open", "screen")
    /\ Stamped(<<Stamp("sweep_open", {}), Stamp("sweep_config", {}),
                 Stamp("identity_config", {})>>)
    /\ UNCHANGED <<world, dist, queue, result, package>>

\* The screens a name passes are data: world.name[u] holds those that match.
match_designated_name == {u \in Accounts : "direct" \in world.name[u]}
screen_name_variants(exclude) == {u \in Accounts \ exclude : "variant" \in world.name[u]}

\* A direct hit is no variant.
NameScreen ==
    LET direct == match_designated_name
        variant == screen_name_variants(direct)
    IN  /\ Goto("screen", "corroborate")
        /\ result' = [result EXCEPT !.direct = direct, !.variant = variant]
        /\ Stamped(<<Stamp("name_screen", direct \cup variant)>>)
        /\ UNCHANGED <<world, dist, queue, package>>

Fields == {"dob", "nationality", "doc_number"}

\* Mutant: an identifier nobody published counts as a mismatch.
Mut_decide_corroboration(cmp) ==
    IF cmp.doc_number = "match" \/ (cmp.dob = "match" /\ cmp.nationality = "match")
    THEN "corroborated_true_hit"
    ELSE IF Cardinality({f \in Fields : cmp[f] # "match"}) >= 2
         THEN "name_only_dismissed" ELSE "possible_match_needs_human"

decide_corroboration(cmp) ==
    IF cmp.doc_number = "match" \/ (cmp.dob = "match" /\ cmp.nationality = "match")
    THEN "corroborated_true_hit"
    ELSE IF Cardinality({f \in Fields : cmp[f] = "mismatch"}) >= 2
         THEN "name_only_dismissed" ELSE "possible_match_needs_human"

\* _corroborate_candidates: hits with attributes on file, if the list
\* published identifiers.
Corroborate ==
    LET candidates == {u \in result.direct \cup result.variant :
                         world.published /\ u \in DOMAIN world.identity}
    IN  /\ Goto("corroborate", "ownership")
        /\ result' = [result EXCEPT !.corroboration =
             [u \in candidates |-> decide_corroboration(world.identity[u])]]
        /\ Stamped([i \in 1..Cardinality(candidates) |->
             Stamp("corroboration_decision", {Ascending(candidates)[i]})])
        /\ UNCHANGED <<world, dist, queue, package>>

Outcome(u) ==
    IF u \in DOMAIN result.corroboration THEN result.corroboration[u] ELSE "none"

\* Mutant: every hit is a party.
MutResolvedParties == result.direct \cup result.variant

ResolvedParties ==
    {u \in result.direct \cup result.variant : Outcome(u) # "name_only_dismissed"}

\* walk_ownership: control by a party, officers without an identity, changes
\* after the designation, in the companies a party holds any stake in.
Ownership(parties) ==
    LET held == {s \in world.stakes : s.owner \in parties}
        officers == {o \in world.officers : \E s \in held : s.company = o.company}
    IN  {[finding |-> "propagation", company |-> s.company] :
            s \in {s \in held : s.control}}
        \cup {[finding |-> "fictitious_executive", company |-> o.company] :
            o \in {o \in officers : ~o.identity}}
        \cup {[finding |-> "control_change", company |-> x.company] :
            x \in {x \in held \cup officers : x.late}}

OwnershipWalk ==
    LET found == Ownership(ResolvedParties) IN
    /\ Goto("ownership", "expose")
    /\ result' = [result EXCEPT !.ownership = found]
    /\ Stamped(IF found = {} THEN << >>
               ELSE <<Stamp("ownership_walk", {f.company : f \in found})>>)
    /\ UNCHANGED <<world, dist, queue, package>>

Expose ==
    /\ Goto("expose", "walk")
    /\ StartWalk
    /\ UNCHANGED <<world, result, chain, package>>

Walk ==
    /\ stage = "walk"
    /\ Visit
    /\ UNCHANGED <<world, stage, result, chain, package>>

ExposureSweep ==
    /\ Goto("walk", "ring")
    /\ queue = << >>
    /\ result' = [result EXCEPT !.hops = HopsByUid, !.legs = DrivingLegs(dist, HopsByUid),
                                !.adjacent = Adjacent(ExposedAccounts)]
    /\ Stamped(<<Stamp("exposure_sweep", ExposedAccounts)>>)
    /\ UNCHANGED <<world, dist, queue, package>>

Exposed == DOMAIN result.hops
AdjacentUids == {a.uid : a \in result.adjacent}

\* A surname, an address or an e-mail handle that is empty ties nobody.
Shared(token, u, p) == token[u] = token[p] /\ token[u] # ""

\* What ties u to p: the primary signals, any of which places u in the ring.
PrimarySignals(u, p) ==
    {id \in {"shared_surname"} : Shared(world.surname, u, p)}
        \cup {id \in {"declared_relationship"} : {u, p} \in world.declared}
        \cup {id \in {"relationship_remark", "kyc_document_cross_holding"} :
                [pair |-> {u, p}, type |-> id] \in world.asserted}
\* What is only recorded of an account a primary signal ties.
WeightingSignals(u, p) ==
    {id \in {"shared_kyc_attribute"} : Shared(world.address, u, p)}
        \cup {id \in {"email_handle_pattern"} : Shared(world.handle, u, p)}

\* One record for each candidate, of the first party it is tied to.
RingMembers(parties, candidates) ==
    {[uid |-> m[1], party |-> m[2],
      primary |-> PrimarySignals(m[1], m[2]), weighting |-> WeightingSignals(m[1], m[2])] :
        m \in {m \in candidates \X parties :
                  /\ PrimarySignals(m[1], m[2]) # {}
                  /\ \A p \in parties : p < m[2] => PrimarySignals(m[1], p) = {}}}

\* build_proximity_ring: relatives and associates of the individuals among the
\* parties, accounts the sweep has surfaced left out.
ProximityRing ==
    LET parties == {u \in ResolvedParties : u \in world.individuals}
        ring == RingMembers(parties, Accounts \ (Exposed \cup AdjacentUids \cup parties))
    IN  /\ Goto("ring", IF world.territory = "no" THEN "verify" ELSE "locate")
        /\ result' = [result EXCEPT !.ring = ring]
        /\ Stamped(IF ring = {} THEN << >> ELSE <<Stamp("proximity_ring", {m.uid : m \in ring})>>)
        /\ UNCHANGED <<world, dist, queue, package>>

\* run_geo_triangulation: the dossiers the one-signal rule surfaces; without a
\* territory_profile row there are none.
Dossiers ==
    LET dossier == [u \in Accounts |-> assemble_dossier(world.geo[u], world.today)]
    IN  [u \in {u \in Accounts : world.territory = "profiled" /\ Surfaces(dossier[u])} |->
            dossier[u]]

GeoTriangulate ==
    /\ Goto("locate", IF DOMAIN Dossiers = {} THEN "verify" ELSE "propose")
    /\ result' = [result EXCEPT !.dossiers = Dossiers]
    /\ Stamped(<<Stamp("geo_config", {})>> \o
               IF DOMAIN Dossiers = {} THEN << >>
               ELSE <<Stamp("geo_triangulation", DOMAIN Dossiers)>>)
    /\ UNCHANGED <<world, dist, queue, package>>

\* build_geo_proposals: one for each dossier; the only one with a text to the
\* customer is the request, which is withheld when the name tips off.
Proposal(u, dossier) ==
    LET outcome == decide_geo_action(dossier)
        rfi == outcome = "propose_edd_rfi"
    IN  [outcome |-> outcome, asked |-> rfi /\ "tipping" \notin world.terms[u],
         withheld |-> rfi /\ "tipping" \in world.terms[u]]

GeoPropose ==
    /\ Goto("propose", "verify")
    /\ result' = [result EXCEPT !.proposals =
         [u \in DOMAIN result.dossiers |-> Proposal(u, result.dossiers[u])]]
    /\ Stamped(<<Stamp("geo_proposal", DOMAIN result.dossiers)>>)
    /\ UNCHANGED <<world, dist, queue, package>>

GapType(warehouse, admin) ==
    CASE warehouse = "absent" -> "missing_in_warehouse"
      [] warehouse # "absent" /\ admin = "absent" -> "missing_in_admin"
      [] warehouse = "no_hold" /\ admin = "blocked" -> "missed_sync_block"
      [] OTHER -> "unrecorded_unblock"

\* Mutant: only accounts with a row in both systems are compared.
Mut_verify_block_status ==
    [u \in {u \in Accounts : /\ world.warehouse[u] # world.admin[u]
                             /\ "absent" \notin {world.warehouse[u], world.admin[u]}} |->
        GapType(world.warehouse[u], world.admin[u])]

verify_block_status ==
    [u \in {u \in Accounts : world.warehouse[u] # world.admin[u]} |->
        GapType(world.warehouse[u], world.admin[u])]

BlockVerify ==
    /\ Goto("verify", "worksheet")
    /\ result' = [result EXCEPT !.gaps = verify_block_status]
    /\ Stamped(<<Stamp("block_verify", DOMAIN verify_block_status)>>)
    /\ UNCHANGED <<world, dist, queue, package>>

\* Mutant: a gap outranks the standing of the listing.
MutActionFor(kind, gap, warehouse, admin, tagged, staff, links) ==
    CASE kind = "exposed" /\ gap # "none" -> "flags_reconciliation_gap"
      [] kind = "exposed" /\ gap = "none" ->
            IF world.signal THEN "flags_foreign_signal_exposure_for_review"
            ELSE IF {warehouse, admin} = {"blocked"} THEN "proposes_confirm_existing_hold"
            ELSE "proposes_designation_hold_review"
      [] kind \in {"name_match", "variant_match"} -> "flags_name_match_for_identity_review"
      [] kind = "adjacent" -> "flags_for_review_non_flow_linkage"

\* _action_for
ActionFor(kind, gap, warehouse, admin, tagged, staff, links) ==
    CASE kind = "exposed" /\ world.signal -> "flags_foreign_signal_exposure_for_review"
      [] kind = "exposed" /\ ~world.signal /\ gap # "none" -> "flags_reconciliation_gap"
      [] kind = "exposed" /\ ~world.signal /\ gap = "none" ->
            IF {warehouse, admin} = {"blocked"} THEN "proposes_confirm_existing_hold"
            ELSE "proposes_designation_hold_review"
      [] kind \in {"name_match", "variant_match"} -> "flags_name_match_for_identity_review"
      [] kind = "adjacent" /\ staff /\ "shared_device" \in links ->
            "flags_insider_staff_device_overlap"
      [] kind = "adjacent" /\ ~(staff /\ "shared_device" \in links) ->
            IF tagged THEN "flags_internal_tag_for_review"
            ELSE "flags_for_review_non_flow_linkage"

HoldStatus(system, u) == IF system[u] = "absent" THEN "no_hold" ELSE system[u]

\* _exposure_timing: control has no date; a flow is dated by the payments cited.
Timing(hops, legs) ==
    IF hops = 0 THEN "timeless_control"
    ELSE IF legs \cap world.late # {} THEN "post_designation" ELSE "pre_designation"

\* _add: an absent hold row reads as no hold.
Row(u, kind, links) ==
    LET gap == IF u \in DOMAIN result.gaps THEN result.gaps[u] ELSE "none"
        warehouse == HoldStatus(world.warehouse, u)
        admin == HoldStatus(world.admin, u)
        timing == IF kind = "exposed" THEN Timing(result.hops[u], result.legs[u]) ELSE "none"
    IN  [uid |-> u, kind |-> kind, timing |-> timing, gap |-> gap, warehouse |-> warehouse, admin |-> admin,
         action |-> ActionFor(kind, gap, warehouse, admin, u \in world.tagged,
                              u \in world.staff, links)]

\* Mutant: a variant hit is a row whatever its corroboration.
MutRows ==
    LET flow == {Row(u, "exposed", {}) : u \in Exposed}
                  \cup {Row(a.uid, "adjacent", a.links) : a \in result.adjacent}
        surfaced == Exposed \cup AdjacentUids
    IN  flow \cup {Row(u, "name_match", {}) : u \in result.direct \ surfaced}
             \cup {Row(u, "variant_match", {}) : u \in result.variant \ surfaced}

\* build_worksheet: each loop leaves out what an earlier one surfaced.
Rows ==
    LET flow == {Row(u, "exposed", {}) : u \in Exposed}
                  \cup {Row(a.uid, "adjacent", a.links) : a \in result.adjacent}
        surfaced == Exposed \cup AdjacentUids
    IN  flow \cup {Row(u, "name_match", {}) : u \in result.direct \ surfaced}
             \cup {Row(u, "variant_match", {}) :
                     u \in {u \in result.variant \ surfaced :
                              Outcome(u) # "name_only_dismissed"}}

\* assert_calibrated_signal_language: a statement holds the account's name.
Calibrated(rows) == world.signal => \A r \in rows : "legal" \notin world.terms[r.uid]

WorksheetBuild ==
    /\ Goto("worksheet", "escalate")
    /\ Calibrated(Rows)
    /\ result' = [result EXCEPT !.rows = Rows]
    /\ Stamped(<<Stamp("worksheet_build", {r.uid : r \in Rows})>>)
    /\ UNCHANGED <<world, dist, queue, package>>

WorksheetRaises ==
    /\ Goto("worksheet", "raised")
    /\ ~Calibrated(Rows)
    /\ UNCHANGED <<world, dist, queue, result, chain, package>>

\* The accounts draft_escalations writes about, by the loop that does.
GapRows == {r \in result.rows : r.gap # "none"}

UnheldRows ==
    {r \in result.rows : /\ r.kind = "exposed" /\ r.gap = "none"
                         /\ r.warehouse = "no_hold" /\ r.admin = "no_hold"}

Escalations ==
    {[uid |-> r.uid, kind |-> "reconciliation_gap"] : r \in GapRows}
    \cup {[uid |-> r.uid, kind |-> IF world.signal THEN "foreign_signal_exposure"
                                   ELSE "exposed_unblocked"] : r \in UnheldRows}

\* _emit refuses a text with a term of the SAR ban, or of the legal-effect ban.
Refused(u) == \/ "sar" \in world.terms[u]
              \/ world.signal /\ "legal" \in world.terms[u]

EscalationsDraft ==
    LET refused == {e \in Escalations : Refused(e.uid)} IN
    /\ Goto("escalate", "ask")
    /\ result' = [result EXCEPT !.drafted = Escalations \ refused,
                                !.suppressed = refused]
    /\ Stamped(<<Stamp("escalations_draft", {e.uid : e \in Escalations})>>)
    /\ UNCHANGED <<world, dist, queue, package>>

OpenMatches ==
    {u \in DOMAIN result.corroboration : Outcome(u) = "possible_match_needs_human"}

\* Mutant: stamped when a request was drafted.
MutIdentityReviewRfi ==
    LET refused == {u \in OpenMatches : "tipping" \in world.terms[u]} IN
    /\ Goto("ask", "complete")
    /\ result' = [result EXCEPT !.asked = OpenMatches \ refused, !.unasked = refused]
    /\ Stamped(IF OpenMatches \ refused = {} THEN << >>
               ELSE <<Stamp("identity_review_rfi", OpenMatches)>>)
    /\ UNCHANGED <<world, dist, queue, package>>

\* draft_identity_review_rfis: the request holds the customer's name.
IdentityReviewRfi ==
    LET refused == {u \in OpenMatches : "tipping" \in world.terms[u]} IN
    /\ Goto("ask", "complete")
    /\ result' = [result EXCEPT !.asked = OpenMatches \ refused, !.unasked = refused]
    /\ Stamped(IF OpenMatches = {} THEN << >>
               ELSE <<Stamp("identity_review_rfi", OpenMatches)>>)
    /\ UNCHANGED <<world, dist, queue, package>>

SweepComplete ==
    /\ Goto("complete", "package")
    /\ Stamped(<<Stamp("sweep_complete", {})>>)
    /\ UNCHANGED <<world, dist, queue, result, package>>

\* What the package holds.  Variant hits, the ring, the ownership findings, the
\* proposals and the requests are in the chain alone.
build_sweep_package ==
    [name_matches |-> result.direct, exposed |-> result.hops, adjacent |-> result.adjacent,
     gaps |-> result.gaps, worksheet |-> result.rows,
     drafted |-> result.drafted, suppressed |-> result.suppressed, records |-> chain]

WriteSweepPackage ==
    /\ Goto("package", "stamp")
    /\ package' = build_sweep_package
    /\ UNCHANGED <<world, dist, queue, result, chain>>

Packaged ==
    /\ Goto("stamp", "done")
    /\ Stamped(<<Stamp("packaged", {})>>)
    /\ UNCHANGED <<world, dist, queue, result, package>>

\* A citation does not resolve, the disk is full, the process dies.
Abort ==
    /\ stage \notin {"done", "raised"}
    /\ stage' = "raised"
    /\ UNCHANGED <<world, dist, queue, result, chain, package>>

Next ==
    \/ Open \/ NameScreen \/ Corroborate \/ OwnershipWalk
    \/ Expose \/ Walk \/ ExposureSweep \/ ProximityRing
    \/ GeoTriangulate \/ GeoPropose
    \/ BlockVerify \/ WorksheetBuild \/ WorksheetRaises
    \/ EscalationsDraft \/ IdentityReviewRfi
    \/ SweepComplete \/ WriteSweepPackage \/ Packaged \/ Abort

Spec == Init /\ [][Next]_vars
-----------------------------------------------------------------------------
Kinds == {"exposed", "adjacent", "name_match", "variant_match"}

(***************************************************************************)
(* The walk finds each node at the length of its shortest chain of         *)
(* payments to a listed address (sweep/exposure.py, "minimum number of     *)
(* transactions from node to any designated address"); an account gets the *)
(* least over its own node and the wallets it controls, and none if there  *)
(* is no such chain; it is cited for its payments that begin such a chain, *)
(* by which its exposure is dated.                                         *)
(***************************************************************************)
HopsAreShortest ==
    stage \in AfterRing =>
        LET within == WithinHops IN
        /\ \A n \in DOMAIN dist :
             n \in within[dist[n]] /\ (dist[n] > 0 => n \notin within[dist[n] - 1])
        /\ Exposed = Reaching
        /\ \A u \in Exposed :
             /\ ClusterOf(u) \cap within[result.hops[u]] # {}
             /\ result.hops[u] > 0 => ClusterOf(u) \cap within[result.hops[u] - 1] = {}
             /\ result.hops[u] > 0 => result.legs[u] =
                  {p \in world.pays : p[1] \in ClusterOf(u) /\ p[2] \in within[result.hops[u] - 1]}

Hit(u) == world.name[u] # {}

\* Two published identifiers differ from those on file, and neither the
\* document nor birth date and nationality together agree.
Contradicted(u) ==
    /\ Hit(u) /\ world.published /\ u \in DOMAIN world.identity
    /\ LET cmp == world.identity[u] IN
       /\ cmp.doc_number # "match"
       /\ {cmp.dob, cmp.nationality} # {"match"}
       /\ \E f, g \in Fields : f # g /\ cmp[f] = "mismatch" /\ cmp[g] = "mismatch"

Confirmed(u) ==
    LET cmp == world.identity[u] IN
    cmp.doc_number = "match" \/ {cmp.dob, cmp.nationality} = {"match"}

\* The accounts flow or linkage surfaces.
Surfaced(reaching) ==
    reaching \cup {u \in Accounts : LinkTypes(u, reaching) # {}}

(***************************************************************************)
(* "a party dismissed as a same-name collision seeds no walk" (identity/   *)
(* ownership.py): every ownership finding lies in a company held by a hit  *)
(* the identifiers do not contradict, and the ring holds exactly the       *)
(* accounts without flow exposure or a link to it that are tied to such an *)
(* individual, once each and as an associate of the first of them; an      *)
(* address or an e-mail handle in common places nobody in it.              *)
(***************************************************************************)
NamesakeSeedsNothing ==
    stage \in AfterRing =>
        /\ \A f \in result.ownership : \E s \in world.stakes :
              s.company = f.company /\ Hit(s.owner) /\ ~Contradicted(s.owner)
        /\ LET party(p) == p \in world.individuals /\ Hit(p) /\ ~Contradicted(p)
               tied(u, p) == \/ world.surname[u] = world.surname[p] /\ world.surname[u] # ""
                             \/ {u, p} \in world.declared
                             \/ \E a \in world.asserted : a.pair = {u, p} /\ a.type # "other"
               surfaced == Surfaced(Reaching)
           IN  \A u \in Accounts :
                 LET known == {p \in Accounts : party(p) /\ tied(u, p)} IN
                 {m.party : m \in {m \in result.ring : m.uid = u}} =
                    IF u \in surfaced \/ party(u) THEN {}
                    ELSE {p \in known : \A o \in known : p <= o}

(***************************************************************************)
(* The worksheet has exactly one row for each account the sweep surfaced   *)
(* (flow first, then linkage, then a name hit), and a variant hit that     *)
(* the identifiers contradict has none of its own (sweep/worksheet.py,     *)
(* "NEVER becomes a remediation row").                                     *)
(***************************************************************************)
OneRowPerSurfaced ==
    stage \in AfterWorksheet =>
        LET reaching == Reaching IN
        \A u \in Accounts :
            {r.kind : r \in {r \in result.rows : r.uid = u}} =
               IF u \in reaching THEN {"exposed"}
               ELSE IF u \in Surfaced(reaching) THEN {"adjacent"}
               ELSE IF "direct" \in world.name[u] THEN {"name_match"}
               ELSE IF "variant" \in world.name[u] /\ ~Contradicted(u) THEN {"variant_match"}
               ELSE {}

(***************************************************************************)
(* Nobody who can reach a listed address falls between the two hold        *)
(* systems: unless both record a block, the account has exactly one        *)
(* escalation, drafted or suppressed, a gap when the systems differ        *)
(* (a missing row included) and an unheld exposure when they agree.        *)
(* Nobody outside the worksheet has one, and no draft holds a banned term. *)
(***************************************************************************)
ExposureIsAnswered ==
    stage \in AfterEscalation =>
        LET reaching == Reaching IN
        /\ \A u \in Accounts :
             LET kinds == {e.kind : e \in {e \in result.drafted \cup result.suppressed : e.uid = u}}
                 differ == world.warehouse[u] # world.admin[u]
             IN  /\ u \in reaching =>
                       kinds = IF differ THEN {"reconciliation_gap"}
                               ELSE IF world.warehouse[u] = "blocked" THEN {}
                               ELSE IF world.signal THEN {"foreign_signal_exposure"}
                               ELSE {"exposed_unblocked"}
                 /\ kinds # {} => \E r \in result.rows : r.uid = u
        /\ \A e \in result.drafted : "sar" \notin world.terms[e.uid]
        /\ result.drafted \cap result.suppressed = {}

(***************************************************************************)
(* "a foreign listing is a timestamped risk signal, never an obligation":  *)
(* under a signal no row proposes, confirms or trues up a hold and no row  *)
(* is emitted whose name asserts a legal effect; under an obligation a     *)
(* hold is confirmed only where both systems really record one.            *)
(***************************************************************************)
SignalNeverBinds ==
    stage \in AfterWorksheet =>
        \A r \in result.rows :
            /\ world.signal =>
                  /\ r.action \notin {"flags_reconciliation_gap", "proposes_confirm_existing_hold",
                                      "proposes_designation_hold_review"}
                  /\ "legal" \notin world.terms[r.uid]
            /\ r.action = "proposes_confirm_existing_hold" =>
                  world.warehouse[r.uid] = "blocked" /\ world.admin[r.uid] = "blocked"

(***************************************************************************)
(* A customer is asked about their identity only when the published        *)
(* identifiers neither confirm nor contradict the hit, in a text without   *)
(* a tipping-off term; each such customer is asked or surfaced as refused. *)
(***************************************************************************)
OpenMatchesAreAsked ==
    /\ result.asked \cap result.unasked = {}
    /\ \A u \in result.asked : "tipping" \notin world.terms[u]
    /\ stage \in AfterEscalation \ {"ask"} =>
         result.asked \cup result.unasked =
            {u \in DOMAIN world.identity :
               world.published /\ Hit(u) /\ ~Confirmed(u) /\ ~Contradicted(u)}

\* A record that on its own places the customer inside the territory.
Located(g) ==
    \/ \E n \in DOMAIN g.logins : g.logins[n].inside /\ ~g.logins[n].vpn
    \/ \E n \in DOMAIN g.phones : g.phones[n].prefix \/ g.phones[n].carrier
    \/ g.kyc \/ g.residence \/ g.zones > 0

Begins(f, g) == Len(f) <= Len(g) /\ \A n \in DOMAIN f : f[n] = g[n]

\* h has every record of g that may speak for presence, and no document
\* against it that g has not.
Incriminates(g, h) ==
    /\ Begins(g.logins, h.logins) /\ Begins(g.phones, h.phones)
    /\ g.kyc => h.kyc
    /\ g.residence => h.residence
    /\ g.zones <= h.zones
    /\ Begins(h.validity, g.validity)

Severity(u) == CHOOSE k \in DOMAIN Proposals : Proposals[k] = result.proposals[u].outcome

(***************************************************************************)
(* A territory: exactly the accounts some record places inside are         *)
(* surfaced, a VPN login or a stale document alone never; each gets one    *)
(* proposal; more records for presence, or fewer documents against it,     *)
(* never weaken it (whatever turns a login into a slip, and however stale  *)
(* the documents are); and a customer is written to only to be asked, in   *)
(* a text that does not tip off (docs/geo-methodology.md).                 *)
(***************************************************************************)
TotalityIsWeighed ==
    stage \in AfterWorksheet \cup {"verify", "worksheet"} =>
        LET surfaced == DOMAIN result.proposals IN
        /\ surfaced = {u \in Accounts : world.territory = "profiled" /\ Located(world.geo[u])}
        /\ \A u, v \in surfaced :
              Incriminates(world.geo[u], world.geo[v]) => Severity(u) <= Severity(v)
        /\ \A u \in surfaced :
              LET p == result.proposals[u] IN
              /\ p.asked \/ p.withheld <=> Severity(u) = 2
              /\ p.asked => "tipping" \notin world.terms[u]

Stamps(action) == {i \in DOMAIN chain : chain[i].action = action}

(***************************************************************************)
(* The chain of a finished sweep says what the sweep found: a conditional  *)
(* stage is stamped iff it found something and for whom, every candidate   *)
(* has one corroboration record; and the package was built on every record *)
(* but its own stamp, with an answer on file for everybody who can reach a *)
(* listed address and is not held in both systems.                         *)
(***************************************************************************)
ChainTellsTheSweep ==
    stage = "done" =>
        /\ \A s \in {<<"proximity_ring", {m.uid : m \in result.ring}>>,
                      <<"identity_review_rfi", result.asked \cup result.unasked>>,
                      <<"geo_triangulation", DOMAIN result.dossiers>>,
                      <<"geo_proposal", DOMAIN result.proposals>>,
                      <<"ownership_walk", {f.company : f \in result.ownership}>>} :
              {chain[i].about : i \in Stamps(s[1])} = IF s[2] = {} THEN {} ELSE {s[2]}
        /\ \A u \in DOMAIN result.corroboration :
              Cardinality({i \in Stamps("corroboration_decision") : chain[i].about = {u}}) = 1
        /\ Stamps("geo_config") = {} <=> world.territory = "no"
        /\ Cardinality(Stamps("packaged")) = 1
        /\ chain = Append(package.records, Stamp("packaged", {}))
        /\ DOMAIN package.exposed \subseteq {e.uid : e \in package.drafted \cup package.suppressed}
                \cup {r.uid : r \in {r \in package.worksheet : r.gap = "none" /\ r.warehouse = "blocked"}}
=============================================================================
