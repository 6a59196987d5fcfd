----------------------------- MODULE CaseGraph ------------------------------
(***************************************************************************)
(* One run through the case graph: its nodes in the order the edges give,  *)
(* the records each appends to the run's audit chain, and the five bounded *)
(* decisions, whose recorded outcome is the branch taken.  What a node     *)
(* reads in the sources (accounts, RFIs, advisories, the drafted claims)   *)
(* is chosen as it reads it.  Any node may raise, after any of its         *)
(* records: the run ends there, fail-closed.                               *)
(*                                                                         *)
(* An audit record is its action, with the decision it stamps if it stamps *)
(* one; the chain's hashes are in AuditLog, the files and the other runs   *)
(* on them in CaseRuns.                                                    *)
(***************************************************************************)
EXTENDS Integers, Sequences, FiniteSets, SequencesExt

CONSTANTS
    HopRequests,    \* the max_hops a caller may ask for
    Reaches,        \* in how many hops the subject's network may be exhausted
    MaxMatches,     \* bound: advisories that match
    MaxClaims,      \* bound: claims in the RFI response
    MAX_HOPS_LIMIT,           \* hops at most (7)
    MAX_REVISION_ITERATIONS,  \* drafter-critic passes at most (3)
    RECURSION_LIMIT           \* supersteps LangGraph grants an invoke (100)

ASSUME CaseGraphAssumption ==
    /\ HopRequests \subseteq Int /\ Reaches \subseteq Nat
    /\ MaxMatches \in Nat /\ MaxClaims \in Nat
    /\ MAX_HOPS_LIMIT \in Nat \ {0}
    /\ MAX_REVISION_ITERATIONS \in Nat
    /\ RECURSION_LIMIT \in Nat

\* The longest case: 23 nodes with one hop, and two more for every other hop.
\* invoke is given enough for it (pipeline.py:121).
ASSUME LimitAssumption == 2 * MAX_HOPS_LIMIT + 21 < RECURSION_LIMIT

VARIABLES
    node,     \* the node that runs next, or "end", or "raised"
    state,    \* CaseState: what the nodes hand on
    log,      \* the run's audit records
    path,     \* history: the nodes that returned
    package,  \* case_package.json: the packages written (none or one)
    row       \* the case's row in the case graph (none or one)

vars == <<node, state, log, path, package, row>>

NoDecision == [decision_id |-> "none", outcome |-> "none"]

Record(action) == [action |-> action, decision |-> NoDecision]

Stamp(d) == [action |-> "decision", decision |-> d]

Records(actions) == [i \in DOMAIN actions |-> Record(actions[i])]

\* The decisions stamped in a chain, in its order.
StampedIn(records) ==
    LET stamped[k \in 0..Len(records)] ==
            IF k = 0 THEN << >>
            ELSE IF records[k].action = "decision"
                 THEN Append(stamped[k - 1], records[k].decision)
            ELSE stamped[k - 1]
    IN  stamped[Len(records)]
-----------------------------------------------------------------------------
\* The bounded decisions: the outcome each gives for the evidence handed to it.
Decided(id, outcome) == [decision_id |-> id, outcome |-> outcome]

\* Mutant: one hop past the cap.
Mut_decide_expand(hops_done, cap, new_accounts) ==
    Decided("expand_hop",
        CASE hops_done > cap -> "stop_cap"
          [] hops_done <= cap /\ new_accounts >= 1 -> "continue"
          [] OTHER -> "stop_frontier_exhausted")

decide_expand(hops_done, cap, new_accounts) ==
    Decided("expand_hop",
        CASE hops_done >= cap -> "stop_cap"
          [] hops_done < cap /\ new_accounts >= 1 -> "continue"
          [] OTHER -> "stop_frontier_exhausted")

decide_second_advisory(matches) ==
    Decided("second_advisory",
        CASE matches >= 2 -> "pull_second"
          [] matches = 1 -> "single_match"
          [] OTHER -> "no_match")

decide_re_rfi(table) ==
    Decided("re_rfi",
        CASE table = {} -> "not_applicable"
          [] \E t \in table : t.contradicted >= 1 -> "recommend_re_rfi"
          [] OTHER -> "no_contradictions")

decide_sufficiency(subject_resolved, event_count) ==
    Decided("sufficiency",
        IF subject_resolved /\ event_count >= 1 THEN "sufficient" ELSE "insufficient")

decide_sar_bar(converged) ==
    Decided("sar_bar", IF converged THEN "clears_bar" ELSE "human_review")

\* The conditional edges.
Route == [
    decide_expand |-> [
        continue |-> "network_hop",
        stop_cap |-> "network_finalize",
        stop_frontier_exhausted |-> "network_finalize"],
    decide_second_advisory |-> [
        pull_second |-> "attach_secondary",
        single_match |-> "rfi_reader",
        no_match |-> "rfi_reader"],
    decide_re_rfi |-> [
        recommend_re_rfi |-> "draft_rfi_followup",
        no_contradictions |-> "decide_sufficiency",
        not_applicable |-> "decide_sufficiency"],
    decide_sufficiency |-> [
        sufficient |-> "sar_drafter",
        insufficient |-> "human_referral"]]

Routers == DOMAIN Route

clamp_hops(max_hops) ==
    IF max_hops < 1 THEN 1
    ELSE IF max_hops > MAX_HOPS_LIMIT THEN MAX_HOPS_LIMIT ELSE max_hops
-----------------------------------------------------------------------------
Init ==
    /\ node = "case_open"
    /\ \E request \in HopRequests, render \in {"off", "works", "fails"} :
         state = [max_hops |-> request, render |-> render, decisions |-> << >>,
                  subject |-> FALSE, cap |-> 0, reach |-> 0, hops |-> 0, new |-> 0,
                  events |-> 0, rfi |-> FALSE, matches |-> 0, table |-> {},
                  sar |-> "unset", converged |-> FALSE]
    /\ log = << >> /\ path = << >> /\ package = {} /\ row = {}

\* Node n raises, some of its records appended; past the superstep limit
\* invoke raises in its place (GraphRecursionError).
Raises(n, stamps) ==
    /\ node = n
    /\ node' = "raised"
    /\ \E k \in 0..Len(stamps) :
         /\ Len(path) >= RECURSION_LIMIT => k = 0
         /\ log' = log \o SubSeq(stamps, 1, k)
    /\ UNCHANGED <<state, path>>

\* Node n returns: its records are in the chain, newState goes to node next.
Returns(n, stamps, newState, next) ==
    /\ node = n
    /\ Len(path) < RECURSION_LIMIT
    /\ node' = next
    /\ log' = log \o stamps
    /\ state' = newState
    /\ path' = Append(path, n)

Node(n, stamps, newState, next) ==
    /\ Returns(n, stamps, newState, next) \/ Raises(n, stamps)
    /\ UNCHANGED <<package, row>>

\* _record_decision: the trace that the next nodes see.
record_decision(d) == [state EXCEPT !.decisions = Append(state.decisions, d)]

\* Mutant: the router reads the first decision of the kind it finds.
MutLastOutcome(newState) ==
    LET d == Last(newState.decisions)
        same == {i \in DOMAIN newState.decisions :
                    newState.decisions[i].decision_id = d.decision_id}
    IN  newState.decisions[CHOOSE i \in same : \A j \in same : i <= j].outcome

\* _last_outcome, the router.
LastOutcome(newState) == Last(newState.decisions).outcome

\* A decision node whose recorded outcome picks the next node.
Decides(n, d) ==
    Node(n, <<Stamp(d)>>, record_decision(d), Route[n][LastOutcome(record_decision(d))])
-----------------------------------------------------------------------------
\* An unknown subject raises before the first record.
CaseOpen == \E history \in {"recidivism_flagged", "history_clear"} :
    Node("case_open",
         Records(<<"case_open", "agency_config", "casegraph_config", history>>),
         [state EXCEPT !.subject = TRUE], "profile_aggregator")

Profile == \E events \in 0..1 :
    Node("profile_aggregator", Records(<<"tool_call", "profile_built">>),
         [state EXCEPT !.events = events], "network_seed")

NetworkSeed == \E reach \in Reaches :
    Node("network_seed", Records(<<"tool_call">>),
         [state EXCEPT !.cap = clamp_hops(state.max_hops), !.reach = reach],
         "network_hop")

\* step_walk: accounts are found until the subject's network is exhausted.
NetworkHop ==
    Node("network_hop", << >>,
         [state EXCEPT !.hops = state.hops + 1,
                       !.new = IF state.hops + 1 <= state.reach THEN 1 ELSE 0],
         "decide_expand")

DecideExpand ==
    Decides("decide_expand", decide_expand(state.hops, state.cap, state.new))

\* The render, if asked for: its failure is recorded and the case goes on.
NetworkFinalize ==
    Node("network_finalize",
         Records(CASE state.render = "off" -> <<"expanded">>
                   [] state.render = "works" -> <<"expanded", "graph_rendered">>
                   [] OTHER -> <<"expanded", "graph_render_failed">>),
         state, "risk_scorer")

RiskScorer ==
    Node("risk_scorer", Records(<<"tool_call", "scoring_config", "scored">>),
         state, "designation_check")

DesignationCheck ==
    Node("designation_check", Records(<<"screened">>), state, "entity_backbone")

EntityBackbone == Node("entity_backbone", << >>, state, "remark_miner")

RemarkMiner ==
    Node("remark_miner", Records(<<"tool_call", "mined", "alias_screened">>),
         state, "advisory_matcher")

\* Advisories are matched against RFI text: no RFI, no match.
AdvisoryMatcher == \E rfi \in BOOLEAN :
    \E matches \in {k \in 0..MaxMatches : k > 0 => rfi} :
        Node("advisory_matcher",
             Records(<<"tool_call", "retrieval_config", "embedder_active", "matched">>),
             [state EXCEPT !.rfi = rfi, !.matches = matches],
             "decide_second_advisory")

DecideSecondAdvisory ==
    Decides("decide_second_advisory", decide_second_advisory(state.matches))

AttachSecondary ==
    Node("attach_secondary", Records(<<"secondary_surfaced">>), state, "rfi_reader")

RfiReader == Node("rfi_reader", Records(<<"rfi_surfaced">>), state, "rfi_checker")

\* No RFI: no record, no table.  An RFI: its claims, each with a verdict.
RfiChecker ==
    IF ~state.rfi THEN Node("rfi_checker", << >>, state, "decide_re_rfi")
    ELSE \E claims \in 0..MaxClaims : \E contradicted \in 0..claims :
        Node("rfi_checker",
             Records(<<"tool_call", "contradiction_config", "decomposed", "adjudicated">>
                     \o [i \in 1..claims |-> "claim_verdict"]),
             [state EXCEPT !.table = {[claims |-> claims, contradicted |-> contradicted]}],
             "decide_re_rfi")

DecideReRfi == Decides("decide_re_rfi", decide_re_rfi(state.table))

DraftRfiFollowup ==
    Node("draft_rfi_followup", Records(<<"rfi_followup_drafted">>), state,
         "decide_sufficiency")

DecideSufficiency ==
    Decides("decide_sufficiency", decide_sufficiency(state.subject, state.events))

\* Mutant: a referred case is recorded without a package.
MutHumanReferral ==
    Node("human_referral", Records(<<"human_referral">>),
         [state EXCEPT !.sar = "none"], "case_graph_record")

HumanReferral ==
    Node("human_referral", Records(<<"human_referral">>),
         [state EXCEPT !.sar = "none"], "case_packager")

\* draft_with_critic: fail-closed, at most MAX_REVISION_ITERATIONS passes.
SarDrafter == \E passes \in 0..MAX_REVISION_ITERATIONS, converged \in BOOLEAN :
    Node("sar_drafter",
         Records(<<"tool_call", "critic_config", "grounding_validated", "drafted", "graded">>
                 \o [i \in 1..passes |-> "revision"]
                 \o <<IF converged THEN "converged" ELSE "human_fallback">>),
         [state EXCEPT !.sar = "draft", !.converged = converged], "decide_sar_bar")

\* Both outcomes are packaged.
DecideSarBar ==
    LET d == decide_sar_bar(state.converged)
    IN  Node("decide_sar_bar", <<Stamp(d)>>, record_decision(d), "case_packager")
-----------------------------------------------------------------------------
SarBars == {d \in Range(state.decisions) : d.decision_id = "sar_bar"}

\* Mutant: the disposition is read off the critic's history alone.
Mut_Disposition ==
    IF state.converged THEN "clears_bar" ELSE "human_review"

\* The disposition, as build_package and _record_case derive it.
Disposition ==
    IF state.sar = "none" THEN "insufficient_evidence"
    ELSE (CHOOSE d \in SarBars : TRUE).outcome

\* The package refers to the chain as read before it is written; its stamp
\* follows.  A failure may leave the file without the stamp.
CasePackager ==
    LET stamps == Records(<<"packaged">>)
        built == {[disposition |-> Disposition, trace |-> state.decisions,
                   refs |-> Len(log)]}
    IN  /\ \/ Returns("case_packager", stamps, state, "case_graph_record") /\ package' = built
           \/ /\ Raises("case_packager", stamps)
              /\ package' = built \/ UNCHANGED <<log, package>>
        /\ UNCHANGED row

\* The row names the chain up to the packaged stamp; its own stamp follows.
CaseGraphRecord ==
    LET stamps == Records(<<"case_recorded">>)
        upserted == {[disposition |-> Disposition, trace |-> state.decisions,
                      outcome |-> {d.outcome : d \in SarBars}, count |-> Len(log)]}
    IN  /\ \/ Returns("case_graph_record", stamps, state, "audit_finalize") /\ row' = upserted
           \/ /\ Raises("case_graph_record", stamps)
              /\ row' = upserted \/ UNCHANGED <<log, row>>
        /\ UNCHANGED package

AuditFinalize == Node("audit_finalize", << >>, state, "end")

Next ==
    \/ CaseOpen \/ Profile
    \/ NetworkSeed \/ NetworkHop \/ DecideExpand \/ NetworkFinalize
    \/ RiskScorer \/ DesignationCheck \/ EntityBackbone \/ RemarkMiner
    \/ AdvisoryMatcher \/ DecideSecondAdvisory \/ AttachSecondary
    \/ RfiReader \/ RfiChecker \/ DecideReRfi \/ DraftRfiFollowup
    \/ DecideSufficiency \/ HumanReferral \/ SarDrafter \/ DecideSarBar
    \/ CasePackager \/ CaseGraphRecord \/ AuditFinalize

Spec == Init /\ [][Next]_vars
-----------------------------------------------------------------------------
Nodes == {"case_open", "profile_aggregator", "network_seed", "network_hop",
          "decide_expand", "network_finalize", "risk_scorer", "designation_check",
          "entity_backbone", "remark_miner", "advisory_matcher",
          "decide_second_advisory", "attach_secondary", "rfi_reader", "rfi_checker",
          "decide_re_rfi", "draft_rfi_followup", "decide_sufficiency", "sar_drafter",
          "human_referral", "decide_sar_bar", "case_packager", "case_graph_record",
          "audit_finalize"}

Outcomes == {"insufficient_evidence", "clears_bar", "human_review"}

\* What the chain stamps and the path the run took cannot disagree: every
\* branch taken is the route of the decision stamped at that point, and the
\* trace the run returns, packages and stores is the one its chain stamps,
\* decision for decision and in order.
PathIsReplayable ==
    LET stamps == StampedIn(log)
        deciders == Routers \cup {"decide_sar_bar"}
        decisionAt(i) == stamps[Cardinality({j \in 1..i : path[j] \in deciders})]
    IN  /\ \A i \in 1..Len(path) : path[i] \in Routers =>
               Append(path, node)[i + 1] \in {Route[path[i]][decisionAt(i).outcome], "raised"}
        /\ node # "raised" => stamps = state.decisions
        /\ \A p \in package : p.trace = StampedIn(SubSeq(log, 1, p.refs))
        /\ \A r \in row : r.trace = StampedIn(SubSeq(log, 1, r.count))

Logged(action) == {i \in 1..Len(log) : log[i].action = action}

\* A published disposition is what the chain shows happened: a referral
\* without a draft, a draft that converged, or one that fell back to a human.
DispositionIsGrounded == \A p \in package \cup row :
    /\ p.disposition = "insufficient_evidence" <=> Logged("human_referral") # {}
    /\ p.disposition = "clears_bar" <=> Logged("converged") # {}
    /\ p.disposition = "human_review" <=> Logged("human_fallback") # {}
    /\ p.disposition = "insufficient_evidence" <=> Logged("drafted") = {}

\* Stopping early finds what a walk to the cap would have found, no walk goes
\* past the cap, and no case reaches LangGraph's superstep limit, whatever
\* number of hops its caller asks for.
ExpansionIsComplete ==
    /\ "network_finalize" \in Range(path) =>
         {h \in 1..state.reach : h <= state.hops} = {h \in 1..state.reach : h <= state.cap}
    /\ Len(path) < RECURSION_LIMIT
-----------------------------------------------------------------------------
\* The run as CaseLife sees it.
Phase ==
    CASE node = "case_packager" -> "settled"
      [] node = "case_graph_record" -> "packaged"
      [] node = "audit_finalize" -> "recorded"
      [] node = "end" -> "closed"
      [] node = "raised" -> "aborted"
      [] OTHER -> "open"

Settled ==
    IF state.sar = "none" THEN "insufficient_evidence"
    ELSE IF SarBars # {} THEN (CHOOSE d \in SarBars : TRUE).outcome ELSE "undecided"

Published(artifacts) ==
    IF artifacts = {} THEN "undecided" ELSE (CHOOSE p \in artifacts : TRUE).disposition

Life == INSTANCE CaseLife WITH
    Dispositions <- Outcomes, Undecided <- "undecided", phase <- Phase,
    disposition <- Settled, package <- Published(package), row <- Published(row)

\* A run of the graph keeps CaseLife's promise: the disposition is settled
\* once, and only that one is published, the package before the row.
ImplementsCaseLife == Life!LifeSpec
=============================================================================
