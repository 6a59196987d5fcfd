--------------------------- MODULE DesignationCheck ---------------------------
(***************************************************************************)
(* run_designation_check, what a case page shows of one designation: the   *)
(* subject and the accounts of its cluster are screened anew, from the     *)
(* tables the sweep reads, by code that shares the sweep's screens but     *)
(* none of its results.  It writes nothing, so it is a function of the     *)
(* tables; the lifecycle line is CounterpartyLifecycle's.                  *)
(*                                                                         *)
(* Of the accounts it looks at only the subject's own matches count for    *)
(* the badge; those of the others are notices.                             *)
(***************************************************************************)
EXTENDS Sweep

IsParty == world.territory = "no"

\* The subject is corroborated where the list published identifiers and the
\* subject has attributes on file.
Corroborated(u) ==
    IF world.published /\ u \in DOMAIN world.identity
    THEN decide_corroboration(world.identity[u]) ELSE "none"

NamedAs(kind, cluster) ==
    {u \in cluster : /\ IsParty
                     /\ u \in IF kind = "direct" THEN match_designated_name
                              ELSE screen_name_variants(match_designated_name)}
ControlsListed(cluster) ==
    {u \in cluster : IsParty /\ \E a \in world.listed : world.controller[a] = u}

NameHits(u) ==
    {[kind |-> k, outcome |-> Corroborated(u)] : k \in {k \in {"direct", "variant"} : u \in NamedAs(k, {u})}}

\* Mutant: a dismissed collision stays a hit.
Mut_subject_hits(u) ==
    NameHits(u) \cup {[kind |-> "address", outcome |-> "none"] : v \in ControlsListed({u})}

subject_hits(u) ==
    {h \in NameHits(u) : h.outcome # "name_only_dismissed"}
      \cup {[kind |-> "address", outcome |-> "none"] : v \in ControlsListed({u})}
dismissals(u) == {h \in NameHits(u) : h.outcome = "name_only_dismissed"}

compute_badge(hits) ==
    IF \E h \in hits : h.outcome = "corroborated_true_hit" THEN "corroborated"
    ELSE IF hits # {} THEN "possible" ELSE "no_match"

\* sweep_exposure, run again for the accounts of the cluster
FlowLines(cluster) ==
    LET within == WithinHops
        nodes == within[Cardinality(Nodes)]
        nearest(N) == CHOOSE k \in 0..Cardinality(Nodes) :
                        N \cap within[k] # {} /\ (k > 0 => N \cap within[k - 1] = {})
        exposed == {u \in cluster : IsParty /\ world.listed # {} /\ ClusterOf(u) \cap nodes # {}}
        hops == [u \in exposed |-> nearest(ClusterOf(u))]
        legs == DrivingLegs([n \in nodes |-> nearest({n})], hops)
    IN  {[uid |-> u, hops |-> hops[u], timing |-> Timing(hops[u], legs[u])] : u \in exposed}

Notices(u, cluster) ==
    LET others == cluster \ {u}
    IN  {[uid |-> v, kind |-> "name"] : v \in NamedAs("direct", others)}
          \cup {[uid |-> v, kind |-> "variant"] : v \in NamedAs("variant", others)}
          \cup {[uid |-> v, kind |-> "address"] : v \in ControlsListed(others)}
          \cup {[uid |-> l.uid, kind |-> "flow"] : l \in FlowLines(others)}

\* The territory line, for a designation with a territory_profile row.
TerritoryLine(u) ==
    world.territory = "profiled" /\ Surfaces(assemble_dossier(world.geo[u], world.today))

run_designation_check(subject, others) ==
    LET cluster == others \cup {subject}
        hits == subject_hits(subject)
    IN  [badge |-> compute_badge(hits), hits |-> hits, dismissed |-> dismissals(subject),
         flow |-> FlowLines({subject}), notices |-> Notices(subject, cluster),
         located |-> TerritoryLine(subject)]
-----------------------------------------------------------------------------
RowKinds(u) == {r.kind : r \in {r \in result.rows : r.uid = u}}

(***************************************************************************)
(* The case page and the sweep of one designation agree about every        *)
(* subject, in every cluster it may be looked at in: there is a badge for  *)
(* a name the identifiers do not contradict or for a listed wallet under   *)
(* the subject's control, a red one for a hit the sweep corroborated; the  *)
(* distance, whether a payment after the listing drives it and the         *)
(* location verdict are the sweep's; an account the page                   *)
(* finds nothing about has no worksheet row but for a linkage; nobody with *)
(* another row is missing from the page of a case whose cluster it is in;  *)
(* and a dismissed collision is shown as such, although a direct one keeps *)
(* its row in the worksheet (designation_check/check.py, "the two engines  *)
(* can never silently diverge").                                           *)
(***************************************************************************)
CheckTellsTheSweep ==
    stage = "escalate" => \A u \in Accounts, others \in SUBSET Accounts :
        LET page == run_designation_check(u, others) IN
        /\ page.badge # "no_match" <=>
              IsParty /\ ((Hit(u) /\ ~Contradicted(u)) \/ \E a \in world.listed : world.controller[a] = u)
        /\ page.badge = "corroborated" <=> IsParty /\ Outcome(u) = "corroborated_true_hit"
        /\ page.flow = {[uid |-> r.uid, hops |-> result.hops[u], timing |-> r.timing] :
                          r \in {r \in result.rows : r.uid = u /\ r.kind = "exposed"}}
        /\ page.located <=> u \in DOMAIN result.dossiers
        /\ page.dismissed # {} <=> Outcome(u) = "name_only_dismissed" /\ IsParty
        /\ IsParty /\ page.badge = "no_match" /\ page.flow = {} =>
              RowKinds(u) \subseteq {"adjacent"} \cup
                 (IF page.dismissed # {} /\ "direct" \in world.name[u] THEN {"name_match"} ELSE {})
        /\ IsParty => \A v \in others \ {u} :
              RowKinds(v) \ {"adjacent"} # {} => \E n \in page.notices : n.uid = v
=============================================================================
