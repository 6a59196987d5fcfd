-------------------------- MODULE CaseGraphProofs ---------------------------
(***************************************************************************)
(* CaseGraph implements CaseLife: every node maps to a step of the         *)
(* lifecycle or to none.  Its path is replayable from the decisions its    *)
(* chain stamps, the dispositions it publishes are grounded in the chain,  *)
(* and its network walk is complete and ends in time.                      *)
(***************************************************************************)
EXTENDS CaseGraph, ProofLemmas

OpenNodes == Nodes \ {"case_packager", "case_graph_record", "audit_finalize"}

IsTrace(t) == t \in Seq(Range(t))

StateShape ==
    /\ {"sar", "decisions"} \subseteq DOMAIN state
    /\ IsTrace(state.decisions)

\* Until the disposition is settled there is neither sar_bar decision nor
\* referral and nothing is published; from then on what build_package and
\* _record_case derive is the settled one.
GraphInv ==
    /\ node \in Nodes \cup {"end", "raised"}
    /\ StateShape
    /\ node \in OpenNodes => SarBars = {} /\ state.sar # "none" /\ package = {} /\ row = {}
    /\ node \in {"case_packager", "case_graph_record", "audit_finalize"} =>
          Settled \in Outcomes /\ Disposition = Settled
    /\ node = "case_packager" => package = {} /\ row = {}
    /\ node = "case_graph_record" => row = {}

LEMMA InitGraphInv == Init => GraphInv
  BY DEF Init, GraphInv, StateShape, IsTrace, Nodes, OpenNodes, SarBars, Range

\* A node that decides nothing about the disposition leaves it open.
LEMMA PlainNode ==
  ASSUME GraphInv, NEW n \in OpenNodes, NEW stamps, NEW newState, NEW next \in OpenNodes,
         Node(n, stamps, newState, next),
         newState.sar # "none",
         {"sar", "decisions"} \subseteq DOMAIN newState,
         IsTrace(newState.decisions),
         {d \in Range(newState.decisions) : d.decision_id = "sar_bar"} = {}
  PROVE  GraphInv' /\ [Life!LifeNext]_(Life!lifeVars)
<1>1. /\ node = n /\ package' = package /\ row' = row
      /\ SarBars = {} /\ state.sar # "none" /\ package = {} /\ row = {}
  BY DEF GraphInv, Node, Returns, Raises
<1>2. CASE node' = next /\ state' = newState
  <2>1. SarBars' = {} /\ state'.sar # "none"
    BY <1>2 DEF SarBars
  <2>2. GraphInv'
    BY <1>1, <1>2, <2>1 DEF GraphInv, StateShape, OpenNodes, Nodes
  <2>3. Phase = "open" /\ Phase' = "open"
    BY <1>1, <1>2 DEF Phase, OpenNodes, Nodes
  <2>4. Settled' = Settled
    BY <1>1, <2>1 DEF Settled
  <2> QED
    BY <1>1, <2>2, <2>3, <2>4 DEF Life!lifeVars, Published
<1>3. CASE node' = "raised" /\ state' = state
  <2>1. GraphInv'
    BY <1>1, <1>3 DEF GraphInv, StateShape, OpenNodes, Nodes
  <2>2. Phase = "open" /\ Phase' = "aborted"
    BY <1>1, <1>3 DEF Phase, OpenNodes, Nodes
  <2>3. Settled' = Settled
    BY <1>3 DEF Settled, SarBars
  <2> QED
    BY <1>1, <2>1, <2>2, <2>3 DEF Life!LifeNext, Life!Abort, Published
<1> QED
  BY <1>2, <1>3 DEF Node, Returns, Raises

\* What _record_decision hands on, and where the router sends it.
LEMMA RecordedDecision ==
  ASSUME GraphInv, NEW d
  PROVE  LET ns == record_decision(d) IN
         /\ {"sar", "decisions"} \subseteq DOMAIN ns
         /\ ns.sar = state.sar
         /\ IsTrace(ns.decisions)
         /\ LastOutcome(ns) = d.outcome
         /\ Range(ns.decisions) = Range(state.decisions) \cup {d}
<1> DEFINE ns == record_decision(d)
<1>1. /\ {"sar", "decisions"} \subseteq DOMAIN ns
      /\ ns.sar = state.sar
      /\ ns.decisions = Append(state.decisions, d)
  BY DEF GraphInv, StateShape, record_decision
<1> DEFINE s == state.decisions
           t == Append(s, d)
<1>2. s \in Seq(Range(s))
  BY DEF GraphInv, StateShape, IsTrace
<1> HIDE DEF s, ns
<1>3. t \in Seq(Range(s) \cup {d}) /\ Len(t) = Len(s) + 1 /\ t[Len(s) + 1] = d
      /\ DOMAIN t = 1..(Len(s) + 1) /\ DOMAIN s = 1..Len(s) /\ Len(s) \in Nat
      /\ \A i \in 1..Len(s) : t[i] = s[i]
  BY <1>2
<1>4. Range(t) = Range(s) \cup {d}
  BY <1>3 DEF Range
<1>5. Last(t) = d
  BY <1>3 DEF Last
<1> QED
  BY <1>1, <1>3, <1>4, <1>5 DEF LastOutcome, IsTrace, s, ns

\* The branches, router by router.
LEMMA Routes ==
  /\ Route["decide_expand"]["continue"] = "network_hop"
  /\ Route["decide_expand"]["stop_cap"] = "network_finalize"
  /\ Route["decide_expand"]["stop_frontier_exhausted"] = "network_finalize"
  /\ Route["decide_second_advisory"]["pull_second"] = "attach_secondary"
  /\ Route["decide_second_advisory"]["single_match"] = "rfi_reader"
  /\ Route["decide_second_advisory"]["no_match"] = "rfi_reader"
  /\ Route["decide_re_rfi"]["recommend_re_rfi"] = "draft_rfi_followup"
  /\ Route["decide_re_rfi"]["no_contradictions"] = "decide_sufficiency"
  /\ Route["decide_re_rfi"]["not_applicable"] = "decide_sufficiency"
  /\ Route["decide_sufficiency"]["sufficient"] = "sar_drafter"
  /\ Route["decide_sufficiency"]["insufficient"] = "human_referral"
  BY DEF Route

\* A decision other than sar_bar leaves the disposition open.
LEMMA PlainDecision ==
  ASSUME GraphInv, NEW n \in OpenNodes, NEW id, id # "sar_bar",
         NEW outcome, Route[n][outcome] \in OpenNodes,
         Decides(n, Decided(id, outcome))
  PROVE  GraphInv' /\ [Life!LifeNext]_(Life!lifeVars)
<1> DEFINE d == Decided(id, outcome)
           ns == record_decision(d)
           next == Route[n][outcome]
<1>1. n \in OpenNodes /\ next \in OpenNodes
  OBVIOUS
<1>2. d.outcome = outcome /\ d.decision_id = id
  BY DEF Decided
<1>3. /\ {"sar", "decisions"} \subseteq DOMAIN ns
      /\ ns.sar = state.sar
      /\ IsTrace(ns.decisions)
      /\ LastOutcome(ns) = outcome
      /\ Range(ns.decisions) = Range(state.decisions) \cup {d}
  BY <1>2, RecordedDecision
<1>4. node = n /\ Node(n, <<Stamp(d)>>, ns, next)
  BY <1>3 DEF Decides, Node, Returns, Raises
<1>5. ns.sar # "none" /\ {e \in Range(ns.decisions) : e.decision_id = "sar_bar"} = {}
  BY <1>1, <1>2, <1>3, <1>4 DEF GraphInv, SarBars
<1> HIDE DEF d, ns, next
<1> QED
  BY <1>1, <1>3, <1>4, <1>5, PlainNode

\* A node that hands on the CaseState with fields other than these two changed.
LEMMA QuietNode ==
  ASSUME GraphInv, NEW n \in OpenNodes, NEW stamps, NEW newState, NEW next \in OpenNodes,
         Node(n, stamps, newState, next),
         {"sar", "decisions"} \subseteq DOMAIN newState,
         newState.sar = state.sar, newState.decisions = state.decisions
  PROVE  GraphInv' /\ [Life!LifeNext]_(Life!lifeVars)
<1>1. node = n
  BY DEF Node, Returns, Raises
<1>2. /\ newState.sar # "none" /\ IsTrace(newState.decisions)
      /\ {d \in Range(newState.decisions) : d.decision_id = "sar_bar"} = {}
  BY <1>1 DEF GraphInv, StateShape, SarBars
<1> QED
  BY <1>2, PlainNode

\* The nodes before the settling ones.
LEMMA OpenStep ==
  ASSUME GraphInv,
         \/ CaseOpen \/ Profile \/ NetworkSeed \/ NetworkHop \/ DecideExpand
         \/ NetworkFinalize \/ RiskScorer \/ DesignationCheck \/ EntityBackbone
         \/ RemarkMiner \/ AdvisoryMatcher \/ DecideSecondAdvisory \/ AttachSecondary
         \/ RfiReader \/ RfiChecker \/ DecideReRfi \/ DraftRfiFollowup
         \/ DecideSufficiency \/ SarDrafter
  PROVE  GraphInv' /\ [Life!LifeNext]_(Life!lifeVars)
<1>0. /\ StateShape
      /\ node \in OpenNodes => SarBars = {} /\ state.sar # "none"
  BY DEF GraphInv
<1> USE DEF StateShape
<1>1. CASE CaseOpen
  <2>1. PICK history \in {"recidivism_flagged", "history_clear"} :
          Node("case_open",
               Records(<<"case_open", "agency_config", "casegraph_config", history>>),
               [state EXCEPT !.subject = TRUE], "profile_aggregator")
    BY <1>1 DEF CaseOpen
  <2> QED
    BY <1>0, <2>1, QuietNode DEF OpenNodes, Nodes
<1>2. CASE Profile
  <2>1. PICK events \in 0..1 :
          Node("profile_aggregator", Records(<<"tool_call", "profile_built">>),
               [state EXCEPT !.events = events], "network_seed")
    BY <1>2 DEF Profile
  <2> QED
    BY <1>0, <2>1, QuietNode DEF OpenNodes, Nodes
<1>3. CASE NetworkSeed
  <2>1. PICK reach \in Reaches :
          Node("network_seed", Records(<<"tool_call">>),
               [state EXCEPT !.cap = clamp_hops(state.max_hops), !.reach = reach],
               "network_hop")
    BY <1>3 DEF NetworkSeed
  <2> DEFINE ns == [state EXCEPT !.cap = clamp_hops(state.max_hops), !.reach = reach]
  <2>2. /\ {"sar", "decisions"} \subseteq DOMAIN ns
        /\ ns.sar = state.sar /\ ns.decisions = state.decisions
    BY <1>0
  <2>3. Node("network_seed", Records(<<"tool_call">>), ns, "network_hop")
    BY <2>1
  <2> HIDE DEF ns
  <2> QED
    BY <2>2, <2>3, QuietNode DEF OpenNodes, Nodes
<1>4. CASE NetworkHop
  BY <1>0, <1>4, QuietNode DEF NetworkHop, OpenNodes, Nodes
<1>5. CASE DecideExpand
  <2>1. PICK outcome \in {"continue", "stop_cap", "stop_frontier_exhausted"} :
          decide_expand(state.hops, state.cap, state.new) = Decided("expand_hop", outcome)
    BY DEF decide_expand
  <2>2. Decides("decide_expand", Decided("expand_hop", outcome))
    BY <1>5, <2>1 DEF DecideExpand
  <2>3. Route["decide_expand"][outcome] \in OpenNodes /\ "decide_expand" \in OpenNodes
    BY <2>1, Routes DEF OpenNodes, Nodes
  <2> QED
    BY <2>2, <2>3, PlainDecision
<1>6. CASE NetworkFinalize
  BY <1>0, <1>6, QuietNode DEF NetworkFinalize, OpenNodes, Nodes
<1>7. CASE RiskScorer
  BY <1>0, <1>7, QuietNode DEF RiskScorer, OpenNodes, Nodes
<1>8. CASE DesignationCheck
  BY <1>0, <1>8, QuietNode DEF DesignationCheck, OpenNodes, Nodes
<1>9. CASE EntityBackbone
  BY <1>0, <1>9, QuietNode DEF EntityBackbone, OpenNodes, Nodes
<1>10. CASE RemarkMiner
  BY <1>0, <1>10, QuietNode DEF RemarkMiner, OpenNodes, Nodes
<1>11. CASE AdvisoryMatcher
  <2>1. PICK rfi \in BOOLEAN, matches \in 0..MaxMatches :
          Node("advisory_matcher",
               Records(<<"tool_call", "retrieval_config", "embedder_active", "matched">>),
               [state EXCEPT !.rfi = rfi, !.matches = matches],
               "decide_second_advisory")
    BY <1>11 DEF AdvisoryMatcher
  <2> DEFINE ns == [state EXCEPT !.rfi = rfi, !.matches = matches]
             stamps == Records(<<"tool_call", "retrieval_config", "embedder_active",
                                 "matched">>)
  <2>2. /\ {"sar", "decisions"} \subseteq DOMAIN ns
        /\ ns.sar = state.sar /\ ns.decisions = state.decisions
    BY <1>0
  <2>3. Node("advisory_matcher", stamps, ns, "decide_second_advisory")
    BY <2>1
  <2> HIDE DEF ns, stamps
  <2> QED
    BY <2>2, <2>3, QuietNode DEF OpenNodes, Nodes
<1>12. CASE DecideSecondAdvisory
  <2>1. PICK outcome \in {"pull_second", "single_match", "no_match"} :
          decide_second_advisory(state.matches) = Decided("second_advisory", outcome)
    BY DEF decide_second_advisory
  <2>2. Decides("decide_second_advisory", Decided("second_advisory", outcome))
    BY <1>12, <2>1 DEF DecideSecondAdvisory
  <2>3. Route["decide_second_advisory"][outcome] \in OpenNodes /\ "decide_second_advisory" \in OpenNodes
    BY <2>1, Routes DEF OpenNodes, Nodes
  <2> QED
    BY <2>2, <2>3, PlainDecision
<1>13. CASE AttachSecondary
  BY <1>0, <1>13, QuietNode DEF AttachSecondary, OpenNodes, Nodes
<1>14. CASE RfiReader
  BY <1>0, <1>14, QuietNode DEF RfiReader, OpenNodes, Nodes
<1>15. CASE RfiChecker
  <2>1. CASE ~state.rfi
    BY <1>0, <1>15, <2>1, QuietNode DEF RfiChecker, OpenNodes, Nodes
  <2>2. CASE state.rfi
    <3>1. PICK claims \in 0..MaxClaims : \E contradicted \in 0..claims :
            Node("rfi_checker",
                 Records(<<"tool_call", "contradiction_config", "decomposed", "adjudicated">>
                         \o [i \in 1..claims |-> "claim_verdict"]),
                 [state EXCEPT !.table =
                     {[claims |-> claims, contradicted |-> contradicted]}],
                 "decide_re_rfi")
      BY <1>15, <2>2 DEF RfiChecker
    <3> DEFINE stamps ==
            Records(<<"tool_call", "contradiction_config", "decomposed", "adjudicated">>
                    \o [i \in 1..claims |-> "claim_verdict"])
    <3>2. PICK contradicted \in 0..claims :
            Node("rfi_checker", stamps,
                 [state EXCEPT !.table =
                     {[claims |-> claims, contradicted |-> contradicted]}],
                 "decide_re_rfi")
      BY <3>1
    <3> HIDE DEF stamps
    <3> QED
      BY <1>0, <3>2, QuietNode DEF OpenNodes, Nodes
  <2> QED
    BY <2>1, <2>2
<1>16. CASE DecideReRfi
  <2>1. PICK outcome \in {"recommend_re_rfi", "no_contradictions", "not_applicable"} :
          decide_re_rfi(state.table) = Decided("re_rfi", outcome)
    BY Zenon DEF decide_re_rfi
  <2>2. Decides("decide_re_rfi", Decided("re_rfi", outcome))
    BY <1>16, <2>1 DEF DecideReRfi
  <2>3. Route["decide_re_rfi"][outcome] \in OpenNodes /\ "decide_re_rfi" \in OpenNodes
    BY <2>1, Routes DEF OpenNodes, Nodes
  <2> QED
    BY <2>2, <2>3, PlainDecision
<1>17. CASE DraftRfiFollowup
  BY <1>0, <1>17, QuietNode DEF DraftRfiFollowup, OpenNodes, Nodes
<1>18. CASE DecideSufficiency
  <2>1. PICK outcome \in {"sufficient", "insufficient"} :
          decide_sufficiency(state.subject, state.events) = Decided("sufficiency", outcome)
    BY Zenon DEF decide_sufficiency
  <2>2. Decides("decide_sufficiency", Decided("sufficiency", outcome))
    BY <1>18, <2>1 DEF DecideSufficiency
  <2>3. Route["decide_sufficiency"][outcome] \in OpenNodes /\ "decide_sufficiency" \in OpenNodes
    BY <2>1, Routes DEF OpenNodes, Nodes
  <2> QED
    BY <2>2, <2>3, PlainDecision
<1>19. CASE SarDrafter
  <2>1. PICK passes \in 0..MAX_REVISION_ITERATIONS, converged \in BOOLEAN :
          Node("sar_drafter",
               Records(<<"tool_call", "critic_config", "grounding_validated", "drafted",
                         "graded">>
                       \o [i \in 1..passes |-> "revision"]
                       \o <<IF converged THEN "converged" ELSE "human_fallback">>),
               [state EXCEPT !.sar = "draft", !.converged = converged], "decide_sar_bar")
    BY <1>19 DEF SarDrafter
  <2> DEFINE stamps ==
          Records(<<"tool_call", "critic_config", "grounding_validated", "drafted", "graded">>
                  \o [i \in 1..passes |-> "revision"]
                  \o <<IF converged THEN "converged" ELSE "human_fallback">>)
             ns == [state EXCEPT !.sar = "draft", !.converged = converged]
  <2>2. Node("sar_drafter", stamps, ns, "decide_sar_bar")
    BY <2>1
  <2> HIDE DEF stamps
  <2>3. /\ {"sar", "decisions"} \subseteq DOMAIN ns
        /\ ns.sar = "draft" /\ ns.decisions = state.decisions
    BY <1>0
  <2>4. node = "sar_drafter" /\ "sar_drafter" \in OpenNodes /\ "decide_sar_bar" \in OpenNodes
    BY <2>2 DEF Node, Returns, Raises, OpenNodes, Nodes
  <2> HIDE DEF ns
  <2>5. {d \in Range(ns.decisions) : d.decision_id = "sar_bar"} = {}
        /\ IsTrace(ns.decisions)
    BY <1>0, <2>3, <2>4 DEF SarBars
  <2> QED
    BY <2>2, <2>3, <2>4, <2>5, PlainNode
<1> QED
  BY <1>1, <1>2, <1>3, <1>4, <1>5, <1>6, <1>7, <1>8, <1>9, <1>10,
     <1>11, <1>12, <1>13, <1>14, <1>15, <1>16, <1>17, <1>18, <1>19

-----------------------------------------------------------------------------
LEMMA Singleton == \A x : {x} # {} /\ (CHOOSE p \in {x} : TRUE) = x
  OBVIOUS

\* A failing node, from any phase that publishes nothing there.
LEMMA AbortStep ==
  ASSUME GraphInv, node \notin {"end", "raised"}, node' = "raised", state' = state,
         UNCHANGED <<package, row>>
  PROVE  GraphInv' /\ [Life!LifeNext]_(Life!lifeVars)
<1>1. Phase \notin {"closed", "aborted"} /\ Phase' = "aborted"
  BY DEF Phase
<1>2. /\ Settled' = Settled
      /\ Published(package)' = Published(package) /\ Published(row)' = Published(row)
  BY DEF Settled, SarBars, Published
<1>3. GraphInv'
  BY DEF GraphInv, StateShape, OpenNodes, Nodes
<1> QED
  BY <1>1, <1>2, <1>3 DEF Life!LifeNext, Life!Abort

\* The two nodes that settle the disposition.
LEMMA ReferralStep ==
  ASSUME GraphInv, HumanReferral
  PROVE  GraphInv' /\ [Life!LifeNext]_(Life!lifeVars)
<1>1. /\ node = "human_referral" /\ UNCHANGED <<package, row>>
      /\ SarBars = {} /\ state.sar # "none" /\ package = {} /\ row = {}
      /\ StateShape
  BY DEF HumanReferral, Node, Returns, Raises, GraphInv, OpenNodes, Nodes
<1>2. CASE node' = "raised" /\ state' = state
  BY <1>1, <1>2, AbortStep
<1>3. CASE node' = "case_packager" /\ state' = [state EXCEPT !.sar = "none"]
  <2>1. /\ state'.sar = "none" /\ state'.decisions = state.decisions
        /\ {"sar", "decisions"} \subseteq DOMAIN state'
    BY <1>1, <1>3 DEF StateShape
  <2>2. /\ Settled' = "insufficient_evidence" /\ Disposition' = "insufficient_evidence"
        /\ Settled = "undecided"
    BY <1>1, <2>1 DEF Settled, Disposition
  <2>3. GraphInv'
    BY <1>1, <1>3, <2>1, <2>2 DEF GraphInv, StateShape, OpenNodes, Nodes, Outcomes
  <2>4. Phase = "open" /\ Phase' = "settled"
    BY <1>1, <1>3 DEF Phase
  <2>5. Published(package)' = Published(package) /\ Published(row)' = Published(row)
    BY <1>1 DEF Published
  <2> QED
    BY <2>2, <2>3, <2>4, <2>5 DEF Life!LifeNext, Life!Settle, Outcomes
<1> QED
  BY <1>2, <1>3 DEF HumanReferral, Node, Returns, Raises

\* decide_sar_bar settles the disposition.
LEMMA SarBarStep ==
  ASSUME GraphInv, DecideSarBar
  PROVE  GraphInv' /\ [Life!LifeNext]_(Life!lifeVars)
<1> DEFINE d == decide_sar_bar(state.converged)
           ns == record_decision(d)
<1>1. /\ node = "decide_sar_bar" /\ UNCHANGED <<package, row>>
      /\ SarBars = {} /\ state.sar # "none" /\ package = {} /\ row = {}
      /\ StateShape
  BY DEF DecideSarBar, Node, Returns, Raises, GraphInv, OpenNodes, Nodes
<1>2. d.decision_id = "sar_bar" /\ d.outcome \in {"clears_bar", "human_review"}
  BY DEF decide_sar_bar, Decided
<1>3. /\ {"sar", "decisions"} \subseteq DOMAIN ns
      /\ ns.sar = state.sar /\ IsTrace(ns.decisions)
      /\ Range(ns.decisions) = Range(state.decisions) \cup {d}
  BY RecordedDecision
<1>4. CASE node' = "raised" /\ state' = state
  BY <1>1, <1>4, AbortStep
<1>5. CASE node' = "case_packager" /\ state' = ns
  <2> HIDE DEF ns, d
  <2>1. SarBars' = {d} /\ state'.sar # "none"
    BY <1>1, <1>2, <1>3, <1>5 DEF SarBars
  <2>2. /\ Settled' = d.outcome /\ Disposition' = d.outcome
        /\ Settled = "undecided"
    BY <1>1, <2>1 DEF Settled, Disposition
  <2>3. GraphInv'
    BY <1>1, <1>2, <1>3, <1>5, <2>2 DEF GraphInv, StateShape, OpenNodes, Nodes, Outcomes
  <2>4. Phase = "open" /\ Phase' = "settled"
    BY <1>1, <1>5 DEF Phase
  <2>5. Published(package)' = Published(package) /\ Published(row)' = Published(row)
    BY <1>1 DEF Published
  <2> QED
    BY <1>2, <2>2, <2>3, <2>4, <2>5 DEF Life!LifeNext, Life!Settle, Outcomes
<1> QED
  BY <1>4, <1>5 DEF DecideSarBar, Node, Returns, Raises

\* The package carries the settled disposition, also when its stamp fails.
LEMMA PackageStep ==
  ASSUME GraphInv, CasePackager
  PROVE  GraphInv' /\ [Life!LifeNext]_(Life!lifeVars)
<1> DEFINE p == [disposition |-> Disposition, trace |-> state.decisions,
                      refs |-> Len(log)]
           built == {p}
<1>1. /\ node = "case_packager" /\ state' = state /\ row' = row
      /\ \/ node' = "case_graph_record" /\ package' = built
         \/ node' = "raised" /\ package' \in {built, package}
  BY DEF CasePackager, Returns, Raises
<1>2. /\ Settled \in Outcomes /\ Disposition = Settled
      /\ package = {} /\ row = {} /\ StateShape
  BY <1>1 DEF GraphInv
<1>3. /\ Settled' = Settled /\ Disposition' = Disposition
      /\ Published(row)' = Published(row)
  BY <1>1 DEF Settled, Disposition, SarBars, Published
<1>4. Published(built) = Settled
  <2>1. built = {p} /\ p.disposition = Disposition
    OBVIOUS
  <2> HIDE DEF p, built
  <2> QED
    BY <1>2, <2>1, Singleton DEF Published
<1> HIDE DEF p, built
<1>5. Phase = "settled" /\ Phase' = IF node' = "raised" THEN "aborted" ELSE "packaged"
  BY <1>1 DEF Phase
<1>6. GraphInv'
  BY <1>1, <1>2, <1>3 DEF GraphInv, StateShape, OpenNodes, Nodes
<1>7. CASE node' = "case_graph_record"
  <2>1. Published(package)' = Settled
    BY <1>1, <1>4, <1>7 DEF Published
  <2> QED
    BY <1>3, <1>5, <1>6, <1>7, <2>1 DEF Life!LifeNext, Life!Publish
<1>8. CASE node' = "raised"
  <2>1. Published(package)' \in {Published(package), Settled}
    BY <1>1, <1>4, <1>8 DEF Published
  <2> QED
    BY <1>3, <1>5, <1>6, <1>8, <2>1 DEF Life!LifeNext, Life!Abort
<1> QED
  BY <1>1, <1>7, <1>8

\* So does the row.
LEMMA RecordStep ==
  ASSUME GraphInv, CaseGraphRecord
  PROVE  GraphInv' /\ [Life!LifeNext]_(Life!lifeVars)
<1> DEFINE r == [disposition |-> Disposition, trace |-> state.decisions,
                         outcome |-> {d.outcome : d \in SarBars}, count |-> Len(log)]
           upserted == {r}
<1>1. /\ node = "case_graph_record" /\ state' = state /\ package' = package
      /\ \/ node' = "audit_finalize" /\ row' = upserted
         \/ node' = "raised" /\ row' \in {upserted, row}
  BY DEF CaseGraphRecord, Returns, Raises
<1>2. /\ Settled \in Outcomes /\ Disposition = Settled
      /\ row = {} /\ StateShape
  BY <1>1 DEF GraphInv
<1>3. /\ Settled' = Settled /\ Disposition' = Disposition
      /\ Published(package)' = Published(package)
  BY <1>1 DEF Settled, Disposition, SarBars, Published
<1>4. Published(upserted) = Settled
  <2>1. upserted = {r} /\ r.disposition = Disposition
    OBVIOUS
  <2> HIDE DEF r, upserted
  <2> QED
    BY <1>2, <2>1, Singleton DEF Published
<1> HIDE DEF r, upserted
<1>5. Phase = "packaged" /\ Phase' = IF node' = "raised" THEN "aborted" ELSE "recorded"
  BY <1>1 DEF Phase
<1>6. GraphInv'
  BY <1>1, <1>2, <1>3 DEF GraphInv, StateShape, OpenNodes, Nodes
<1>7. CASE node' = "audit_finalize"
  <2>1. Published(row)' = Settled
    BY <1>1, <1>4, <1>7 DEF Published
  <2> QED
    BY <1>3, <1>5, <1>6, <1>7, <2>1 DEF Life!LifeNext, Life!Record
<1>8. CASE node' = "raised"
  <2>1. Published(row)' \in {Published(row), Settled}
    BY <1>1, <1>4, <1>8 DEF Published
  <2> QED
    BY <1>3, <1>5, <1>6, <1>8, <2>1 DEF Life!LifeNext, Life!Abort
<1> QED
  BY <1>1, <1>7, <1>8

\* audit_finalize closes the case.
LEMMA FinalizeStep ==
  ASSUME GraphInv, AuditFinalize
  PROVE  GraphInv' /\ [Life!LifeNext]_(Life!lifeVars)
<1>1. /\ node = "audit_finalize" /\ state' = state /\ UNCHANGED <<package, row>>
      /\ node' \in {"end", "raised"}
  BY DEF AuditFinalize, Node, Returns, Raises
<1>2. CASE node' = "raised"
  BY <1>1, <1>2, AbortStep
<1>3. CASE node' = "end"
  <2>1. Phase = "recorded" /\ Phase' = "closed"
    BY <1>1, <1>3 DEF Phase
  <2>2. /\ Settled' = Settled
        /\ Published(package)' = Published(package) /\ Published(row)' = Published(row)
    BY <1>1 DEF Settled, SarBars, Published
  <2>3. GraphInv'
    BY <1>1, <1>3 DEF GraphInv, StateShape, OpenNodes, Nodes
  <2> QED
    BY <2>1, <2>2, <2>3 DEF Life!LifeNext, Life!Close
<1> QED
  BY <1>1, <1>2, <1>3
-----------------------------------------------------------------------------
\* Every step of a run is one of the lifecycle's, or none.
LEMMA GraphInvStep ==
  ASSUME GraphInv, [Next]_vars
  PROVE  GraphInv' /\ [Life!LifeNext]_(Life!lifeVars)
<1>1. CASE UNCHANGED vars
  BY <1>1 DEF vars, GraphInv, StateShape, SarBars, Settled, Disposition,
     Phase, Published, Life!lifeVars
<1> QED
  BY <1>1, ReferralStep, SarBarStep, PackageStep, RecordStep, FinalizeStep, OpenStep DEF Next

\* Every run of the case graph keeps CaseLife's promise, for every hop
\* request, network, number of matches, claims and revision passes: the
\* disposition is settled once, by the referral or by the sar_bar decision, and
\* only that one is published, in the package and then in the row, a node that
\* raises leaving at most the artifact it was writing.
THEOREM GraphImplementsLife == Spec => ImplementsCaseLife
<1>1. Init => Life!LifeInit
  BY DEF Init, Life!LifeInit, Phase, Settled, SarBars, Published, Range
<1>2. GraphInv /\ [Next]_vars => GraphInv' /\ [Life!LifeNext]_(Life!lifeVars)
  BY GraphInvStep
<1> QED
  BY <1>1, <1>2, InitGraphInv, PTL DEF Spec, ImplementsCaseLife, Life!LifeSpec
-----------------------------------------------------------------------------
(* The decisions a chain stamps *)

Verdicts == {"continue", "stop_cap", "stop_frontier_exhausted", "pull_second",
             "single_match", "no_match", "recommend_re_rfi", "no_contradictions",
             "not_applicable", "sufficient", "insufficient", "clears_bar",
             "human_review", "none"}

Decisions == [decision_id : {"expand_hop", "second_advisory", "re_rfi", "sufficiency",
                             "sar_bar", "none"},
              outcome : Verdicts]

\* What a node may log without its meaning anything to the disposition.
QuietActions == {"case_open", "agency_config", "casegraph_config", "recidivism_flagged",
                 "history_clear", "tool_call", "profile_built", "expanded",
                 "graph_rendered", "graph_render_failed", "scoring_config", "scored",
                 "screened", "mined", "alias_screened", "retrieval_config",
                 "embedder_active", "matched", "secondary_surfaced", "rfi_surfaced",
                 "contradiction_config", "decomposed", "adjudicated", "claim_verdict",
                 "rfi_followup_drafted", "critic_config", "grounding_validated",
                 "graded", "revision", "packaged", "case_recorded"}

\* And what tells one.
TellingActions == {"human_referral", "drafted", "converged", "human_fallback"}

Actions == QuietActions \cup TellingActions \cup {"decision"}

AuditRecords == [action : Actions, decision : Decisions]

LEMMA RecordShape ==
  ASSUME NEW x \in AuditRecords
  PROVE  x.decision \in Decisions /\ x.action \in Actions
  BY DEF AuditRecords

LEMMA StampShape ==
  ASSUME NEW d \in Decisions
  PROVE  Stamp(d) \in AuditRecords /\ Stamp(d).action = "decision" /\ Stamp(d).decision = d
<1> HIDE DEF Decisions
<1>1. Stamp(d) = [action |-> "decision", decision |-> d]
  BY DEF Stamp
<1>2. [action |-> "decision", decision |-> d] \in [action : Actions, decision : Decisions]
  BY DEF Actions
<1> QED
  BY <1>1, <1>2 DEF AuditRecords

\* f counts up the decisions stamped in the first k records.
Stamping(records, f) ==
    f = [k \in 0..Len(records) |->
           IF k = 0 THEN << >>
           ELSE IF records[k].action = "decision"
                THEN Append(f[k - 1], records[k].decision)
           ELSE f[k - 1]]

\* What StampedIn reads off the records, one record at a time.
LEMMA StampingAt ==
  ASSUME NEW r, Len(r) \in Nat, NEW f, Stamping(r, f)
  PROVE  /\ f[0] = << >>
         /\ \A k \in 1..Len(r) :
              f[k] = IF r[k].action = "decision" THEN Append(f[k - 1], r[k].decision)
                     ELSE f[k - 1]
<1>1. 0 \in 0..Len(r) /\ \A k \in 1..Len(r) : k \in 0..Len(r) /\ k # 0
  OBVIOUS
<1>2. \A k \in 0..Len(r) : f[k] = IF k = 0 THEN << >>
        ELSE IF r[k].action = "decision" THEN Append(f[k - 1], r[k].decision)
        ELSE f[k - 1]
  BY Zenon DEF Stamping
<1> QED
  BY <1>1, <1>2, Zenon

\* StampedIn is what its recursion says.
LEMMA StampedUnfold ==
  ASSUME NEW r \in Seq(AuditRecords)
  PROVE  \E f \in [0..Len(r) -> Seq(Decisions)] :
            Stamping(r, f) /\ StampedIn(r) = f[Len(r)]
<1> DEFINE V == Seq(Decisions)
           step == [k \in 1..Len(r) |-> [v \in V |->
                      IF r[k].action = "decision" THEN Append(v, r[k].decision) ELSE v]]
<1>1. Len(r) \in Nat /\ << >> \in V
  OBVIOUS
<1>2. step \in [1..Len(r) -> [V -> V]]
  <2>1. \A k \in 1..Len(r) : r[k] \in AuditRecords /\ r[k].decision \in Decisions
    BY RecordShape
  <2>2. \A k \in 1..Len(r), v \in V : Append(v, r[k].decision) \in V
    BY <2>1
  <2> QED
    BY <2>2
<1>3. \A k \in 1..Len(r), v \in V :
        step[k][v] = IF r[k].action = "decision" THEN Append(v, r[k].decision) ELSE v
  OBVIOUS
<1> HIDE DEF V, step
<1>4. PICK f : Iterated(f, Len(r), V, << >>, step)
  BY <1>1, <1>2, Iterates
<1>5. /\ f \in [0..Len(r) -> V]
      /\ f[0] = << >>
      /\ \A k \in 1..Len(r) : f[k] = step[k][f[k - 1]]
  BY <1>4 DEF Iterated
<1>6. Stamping(r, f)
  <2>1. ASSUME NEW k \in 0..Len(r), k # 0
        PROVE  f[k] = IF r[k].action = "decision" THEN Append(f[k - 1], r[k].decision)
                      ELSE f[k - 1]
    <3>1. k \in 1..Len(r) /\ k - 1 \in 0..Len(r)
      BY <1>1, <2>1
    <3>2. f[k - 1] \in V /\ f[k] = step[k][f[k - 1]]
      BY <1>5, <3>1
    <3> QED
      BY <1>3, <3>1, <3>2
  <2> QED
    BY <1>5, <2>1 DEF Stamping
<1>7. ASSUME NEW g, Stamping(r, g)
      PROVE  g[Len(r)] = f[Len(r)]
  <2> DEFINE S == {k \in 0..Len(r) : g[k] = f[k]}
  <2>1. 0 \in S
    BY <1>1, <1>6, <1>7 DEF Stamping
  <2>2. ASSUME NEW k \in 1..Len(r), k - 1 \in S PROVE k \in S
    <3>1. k \in 0..Len(r) /\ k # 0 /\ g[k - 1] = f[k - 1]
      BY <1>1, <2>2
    <3>2. g[k] = f[k]
      BY <1>6, <1>7, <3>1 DEF Stamping
    <3> QED
      BY <3>1, <3>2
  <2> HIDE DEF S
  <2>3. 0..Len(r) \subseteq S
    BY <1>1, <2>1, <2>2, UpTo
  <2> QED
    BY <1>1, <2>3 DEF S
<1> DEFINE h == CHOOSE g : Stamping(r, g)
<1>8. Stamping(r, h)
  BY <1>6, Zenon
<1>9. StampedIn(r) = h[Len(r)]
  BY DEF StampedIn, Stamping
<1> HIDE DEF h
<1>10. StampedIn(r) = f[Len(r)]
  BY <1>7, <1>8, <1>9
<1>11. f \in [0..Len(r) -> Seq(Decisions)]
  BY <1>5 DEF V
<1> QED
  BY <1>6, <1>10, <1>11, Zenon

LEMMA StampedType ==
  ASSUME NEW r \in Seq(AuditRecords)
  PROVE  StampedIn(r) \in Seq(Decisions)
  BY StampedUnfold

\* Records that stamp no decision leave the decisions as they are.
LEMMA StampedQuiet ==
  ASSUME NEW r \in Seq(AuditRecords), NEW s \in Seq(AuditRecords),
         \A i \in 1..Len(s) : s[i].action # "decision"
  PROVE  StampedIn(r \o s) = StampedIn(r)
<1> DEFINE t == r \o s
<1>1. /\ t \in Seq(AuditRecords) /\ Len(t) = Len(r) + Len(s)
      /\ Len(r) \in Nat /\ Len(s) \in Nat
      /\ \A i \in 1..Len(r) : t[i] = r[i]
      /\ \A i \in 1..Len(s) : t[Len(r) + i] = s[i]
  OBVIOUS
<1> HIDE DEF t
<1>2. PICK f : Stamping(r, f) /\ StampedIn(r) = f[Len(r)]
  BY StampedUnfold
<1>3. PICK g : Stamping(t, g) /\ StampedIn(t) = g[Len(t)]
  BY <1>1, StampedUnfold
<1>4. g[Len(r)] = f[Len(r)]
  <2> DEFINE S == {k \in 0..Len(r) : g[k] = f[k]}
  <2>1. 0 \in S
    BY <1>1, <1>2, <1>3 DEF Stamping
  <2>2. ASSUME NEW k \in 1..Len(r), k - 1 \in S PROVE k \in S
    <3>1. k \in 0..Len(r) /\ k \in 0..Len(t) /\ k # 0 /\ t[k] = r[k] /\ g[k - 1] = f[k - 1]
      BY <1>1, <2>2
    <3>2. k \in 1..Len(t) /\ t \in Seq(AuditRecords)
      BY <1>1
    <3>3. /\ f[k] = IF r[k].action = "decision" THEN Append(f[k - 1], r[k].decision)
                    ELSE f[k - 1]
          /\ g[k] = IF t[k].action = "decision" THEN Append(g[k - 1], t[k].decision)
                    ELSE g[k - 1]
      BY <1>1, <1>2, <1>3, <3>2, StampingAt
    <3> QED
      BY <3>1, <3>3
  <2> HIDE DEF S
  <2>3. 0..Len(r) \subseteq S
    BY <1>1, <2>1, <2>2, UpTo
  <2> QED
    BY <1>1, <2>3 DEF S
<1>5. g[Len(t)] = g[Len(r)]
  <2> DEFINE S == {k \in 0..Len(s) : g[Len(r) + k] = g[Len(r)]}
  <2>1. 0 \in S
    BY <1>1
  <2>2. ASSUME NEW k \in 1..Len(s), k - 1 \in S PROVE k \in S
    <3>1. /\ Len(r) + k \in 0..Len(t) /\ Len(r) + k # 0
          /\ (Len(r) + k) - 1 = Len(r) + (k - 1)
          /\ t[Len(r) + k].action # "decision"
      BY <1>1
    <3>2. g[Len(r) + k] = g[Len(r) + (k - 1)]
      BY <1>3, <3>1 DEF Stamping
    <3> QED
      BY <2>2, <3>2
  <2> HIDE DEF S
  <2>3. 0..Len(s) \subseteq S
    BY <1>1, <2>1, <2>2, UpTo
  <2> QED
    BY <1>1, <2>3 DEF S
<1> QED
  BY <1>2, <1>3, <1>4, <1>5 DEF t

\* A stamp adds its decision.
LEMMA StampedDecision ==
  ASSUME NEW r \in Seq(AuditRecords), NEW d \in Decisions
  PROVE  StampedIn(r \o <<Stamp(d)>>) = Append(StampedIn(r), d)
<1> DEFINE x == Stamp(d)
           t == r \o <<x>>
<1>0. x \in AuditRecords /\ x.action = "decision" /\ x.decision = d
  BY StampShape
<1> HIDE DEF x
<1>1. /\ t \in Seq(AuditRecords) /\ Len(t) = Len(r) + 1
      /\ Len(r) \in Nat
      /\ \A i \in 1..Len(r) : t[i] = r[i]
      /\ t[Len(r) + 1] = x
  BY <1>0
<1> HIDE DEF t
<1>2. PICK f : Stamping(r, f) /\ StampedIn(r) = f[Len(r)]
  BY StampedUnfold
<1>3. PICK g : Stamping(t, g) /\ StampedIn(t) = g[Len(t)]
  BY <1>1, StampedUnfold
<1>4. g[Len(r)] = f[Len(r)]
  <2> DEFINE S == {k \in 0..Len(r) : g[k] = f[k]}
  <2>1. 0 \in S
    BY <1>1, <1>2, <1>3 DEF Stamping
  <2>2. ASSUME NEW k \in 1..Len(r), k - 1 \in S PROVE k \in S
    <3>1. k \in 0..Len(r) /\ k \in 0..Len(t) /\ k # 0 /\ t[k] = r[k] /\ g[k - 1] = f[k - 1]
      BY <1>1, <2>2
    <3>2. k \in 1..Len(t) /\ t \in Seq(AuditRecords)
      BY <1>1
    <3>3. /\ f[k] = IF r[k].action = "decision" THEN Append(f[k - 1], r[k].decision)
                    ELSE f[k - 1]
          /\ g[k] = IF t[k].action = "decision" THEN Append(g[k - 1], t[k].decision)
                    ELSE g[k - 1]
      BY <1>1, <1>2, <1>3, <3>2, StampingAt
    <3> QED
      BY <3>1, <3>3
  <2> HIDE DEF S
  <2>3. 0..Len(r) \subseteq S
    BY <1>1, <2>1, <2>2, UpTo
  <2> QED
    BY <1>1, <2>3 DEF S
<1>5. g[Len(t)] = Append(g[Len(r)], d)
  <2>1. Len(t) \in 0..Len(t) /\ Len(t) # 0 /\ Len(t) - 1 = Len(r) /\ t[Len(t)] = x
    BY <1>1
  <2> QED
    BY <1>0, <1>3, <2>1 DEF Stamping
<1> QED
  BY <1>2, <1>3, <1>4, <1>5 DEF t, x
-----------------------------------------------------------------------------
(* The steps, by what they do to a case *)

CaseStates == [
    max_hops : Int, render : {"off", "works", "fails"}, decisions : Seq(Decisions),
    subject : BOOLEAN, cap : Int, reach : Nat, hops : Nat, new : 0..1, events : 0..1,
    rfi : BOOLEAN, matches : Nat, table : SUBSET [claims : Nat, contradicted : Nat],
    sar : {"unset", "none", "draft"}, converged : BOOLEAN]

GraphTypeOK ==
    /\ node \in Nodes \cup {"end", "raised"}
    /\ state \in CaseStates
    /\ log \in Seq(AuditRecords)
    /\ path \in Seq(Nodes)

QuietRecords == {x \in AuditRecords : x.action \in QuietActions}

\* The nodes that add quiet records and change nothing the properties are
\* about, with the node each hands on to.
Onward == [
    case_open |-> "profile_aggregator", profile_aggregator |-> "network_seed",
    network_finalize |-> "risk_scorer", risk_scorer |-> "designation_check",
    designation_check |-> "entity_backbone", entity_backbone |-> "remark_miner",
    remark_miner |-> "advisory_matcher", advisory_matcher |-> "decide_second_advisory",
    attach_secondary |-> "rfi_reader", rfi_reader |-> "rfi_checker",
    rfi_checker |-> "decide_re_rfi", draft_rfi_followup |-> "decide_sufficiency",
    audit_finalize |-> "end"]

Unmoved(ns) ==
    /\ ns.decisions = state.decisions
    /\ ns.sar = state.sar /\ ns.converged = state.converged
    /\ ns.cap = state.cap /\ ns.reach = state.reach
    /\ ns.hops = state.hops /\ ns.new = state.new

PlainStep == \E n \in DOMAIN Onward, stamps \in Seq(QuietRecords), ns \in CaseStates :
    Node(n, stamps, ns, Onward[n]) /\ Unmoved(ns)

RouterStep == \E n \in Routers : \E d \in Decisions :
    Decides(n, d) /\ d.decision_id # "sar_bar" /\ d.outcome \in DOMAIN Route[n]

LEMMA RecordsShape ==
  ASSUME NEW actions \in Seq(Actions)
  PROVE  /\ Records(actions) \in Seq(AuditRecords)
         /\ Len(Records(actions)) = Len(actions)
         /\ \A i \in 1..Len(actions) : Records(actions)[i].action = actions[i]
<1> DEFINE rs == Records(actions)
<1>1. \A a \in Actions : Record(a) \in AuditRecords /\ Record(a).action = a
  BY DEF Record, NoDecision, AuditRecords, Decisions, Verdicts
<1>2. Len(actions) \in Nat /\ DOMAIN actions = 1..Len(actions)
      /\ \A i \in 1..Len(actions) : actions[i] \in Actions
  OBVIOUS
<1>3. rs = [i \in 1..Len(actions) |-> Record(actions[i])]
  BY <1>2 DEF Records
<1> HIDE DEF rs
<1>4. rs \in [1..Len(actions) -> AuditRecords]
  BY <1>1, <1>2, <1>3
<1>5. rs \in Seq(AuditRecords) /\ Len(rs) = Len(actions)
  BY <1>2, <1>4
<1>6. \A i \in 1..Len(actions) : rs[i].action = actions[i]
  BY <1>1, <1>2, <1>3
<1> QED
  BY <1>5, <1>6 DEF rs

LEMMA QuietShape ==
  ASSUME NEW actions \in Seq(QuietActions)
  PROVE  Records(actions) \in Seq(QuietRecords)
<1> DEFINE rs == Records(actions)
<1>1. actions \in Seq(Actions) /\ Len(actions) \in Nat
  BY DEF Actions
<1>2. \A i \in 1..Len(actions) : actions[i] \in QuietActions
  OBVIOUS
<1>3. /\ rs \in Seq(AuditRecords) /\ Len(rs) = Len(actions)
      /\ \A i \in 1..Len(actions) : rs[i].action = actions[i]
  BY <1>1, RecordsShape
<1> HIDE DEF rs
<1>4. \A i \in 1..Len(rs) : rs[i] \in QuietRecords
  BY <1>2, <1>3 DEF QuietRecords
<1>5. rs \in Seq(QuietRecords)
  BY <1>1, <1>3, <1>4
<1> QED
  BY <1>5 DEF rs

\* What a node leaves behind, returning or raising.
LEMMA NodeEffect ==
  ASSUME NEW S, NEW n, NEW stamps \in Seq(S), NEW newState, NEW next,
         Returns(n, stamps, newState, next) \/ Raises(n, stamps)
  PROVE  /\ node = n
         /\ \E added \in Seq(S) :
              /\ log' = log \o added
              /\ \/ /\ node' = next /\ added = stamps
                    /\ state' = newState /\ path' = Append(path, n)
                 \/ node' = "raised" /\ state' = state /\ path' = path
<1>1. CASE Returns(n, stamps, newState, next)
  BY <1>1 DEF Returns
<1>2. CASE Raises(n, stamps)
  <2>1. PICK k \in 0..Len(stamps) : log' = log \o SubSeq(stamps, 1, k)
    BY <1>2 DEF Raises
  <2>2. SubSeq(stamps, 1, k) \in Seq(S)
    BY <2>1
  <2> QED
    BY <1>2, <2>1, <2>2 DEF Raises
<1> QED
  BY <1>1, <1>2

\* One field of the CaseState changed.
LEMMA StateChanges ==
  ASSUME GraphTypeOK
  PROVE  /\ state \in CaseStates /\ Unmoved(state)
         /\ LET ns == [state EXCEPT !.subject = TRUE] IN ns \in CaseStates /\ Unmoved(ns)
         /\ \A events \in 0..1 : LET ns == [state EXCEPT !.events = events] IN
               ns \in CaseStates /\ Unmoved(ns)
         /\ \A rfi \in BOOLEAN, k \in Nat :
               LET ns == [state EXCEPT !.rfi = rfi, !.matches = k] IN
               ns \in CaseStates /\ Unmoved(ns)
         /\ \A table \in SUBSET [claims : Nat, contradicted : Nat] :
               LET ns == [state EXCEPT !.table = table] IN
               ns \in CaseStates /\ Unmoved(ns)
  BY DEF GraphTypeOK, CaseStates, Unmoved

\* A node of one exit, told as a plain step.
LEMMA PlainIntro ==
  ASSUME NEW n \in DOMAIN Onward, NEW actions \in Seq(QuietActions),
         NEW ns \in CaseStates, Unmoved(ns),
         Node(n, Records(actions), ns, Onward[n])
  PROVE  PlainStep
<1>1. Records(actions) \in Seq(QuietRecords)
  BY QuietShape
<1> QED
  BY <1>1, Zenon DEF PlainStep

LEMMA Edges ==
  /\ DOMAIN Onward = {"case_open", "profile_aggregator", "network_finalize", "risk_scorer",
        "designation_check", "entity_backbone", "remark_miner", "advisory_matcher",
        "attach_secondary", "rfi_reader", "rfi_checker", "draft_rfi_followup",
        "audit_finalize"}
  /\ Onward["case_open"] = "profile_aggregator"
  /\ Onward["profile_aggregator"] = "network_seed"
  /\ Onward["network_finalize"] = "risk_scorer"
  /\ Onward["risk_scorer"] = "designation_check"
  /\ Onward["designation_check"] = "entity_backbone"
  /\ Onward["entity_backbone"] = "remark_miner"
  /\ Onward["remark_miner"] = "advisory_matcher"
  /\ Onward["advisory_matcher"] = "decide_second_advisory"
  /\ Onward["attach_secondary"] = "rfi_reader"
  /\ Onward["rfi_reader"] = "rfi_checker"
  /\ Onward["rfi_checker"] = "decide_re_rfi"
  /\ Onward["draft_rfi_followup"] = "decide_sufficiency"
  /\ Onward["audit_finalize"] = "end"
  BY DEF Onward

\* Before the advisories are matched.
LEMMA EarlyPlainNodes ==
  ASSUME GraphTypeOK,
         \/ CaseOpen \/ Profile \/ NetworkFinalize \/ RiskScorer \/ DesignationCheck
         \/ EntityBackbone \/ RemarkMiner
  PROVE  PlainStep
<1>0. state \in CaseStates /\ Unmoved(state)
  BY StateChanges
<1>1. CASE CaseOpen
  <2>1. PICK history \in {"recidivism_flagged", "history_clear"} :
          Node("case_open",
               Records(<<"case_open", "agency_config", "casegraph_config", history>>),
               [state EXCEPT !.subject = TRUE], "profile_aggregator")
    BY <1>1 DEF CaseOpen
  <2>2. <<"case_open", "agency_config", "casegraph_config", history>> \in Seq(QuietActions)
    BY DEF QuietActions
  <2> DEFINE ns == [state EXCEPT !.subject = TRUE]
  <2>3. ns \in CaseStates /\ Unmoved(ns)
    BY StateChanges
  <2> HIDE DEF ns
  <2> QED
    BY <2>1, <2>2, <2>3, PlainIntro, Edges DEF ns
<1>2. CASE Profile
  <2>1. PICK events \in 0..1 :
          Node("profile_aggregator", Records(<<"tool_call", "profile_built">>),
               [state EXCEPT !.events = events], "network_seed")
    BY <1>2 DEF Profile
  <2>2. <<"tool_call", "profile_built">> \in Seq(QuietActions)
    BY DEF QuietActions
  <2> QED
    BY <2>1, <2>2, StateChanges, PlainIntro, Edges
<1>3. CASE NetworkFinalize
  <2> DEFINE actions == CASE state.render = "off" -> <<"expanded">>
                          [] state.render = "works" -> <<"expanded", "graph_rendered">>
                          [] OTHER -> <<"expanded", "graph_render_failed">>
  <2>1. Node("network_finalize", Records(actions), state, "risk_scorer")
    BY <1>3 DEF NetworkFinalize
  <2>2. actions \in Seq(QuietActions)
    <3>1. /\ <<"expanded">> \in Seq(QuietActions)
          /\ <<"expanded", "graph_rendered">> \in Seq(QuietActions)
          /\ <<"expanded", "graph_render_failed">> \in Seq(QuietActions)
      BY DEF QuietActions
    <3> QED
      BY <3>1
  <2> HIDE DEF actions
  <2> QED
    BY <1>0, <2>1, <2>2, PlainIntro, Edges
<1>4. CASE RiskScorer
  <2>1. <<"tool_call", "scoring_config", "scored">> \in Seq(QuietActions)
    BY DEF QuietActions
  <2> QED
    BY <1>0, <1>4, <2>1, PlainIntro, Edges DEF RiskScorer
<1>5. CASE DesignationCheck
  <2>1. <<"screened">> \in Seq(QuietActions)
    BY DEF QuietActions
  <2> QED
    BY <1>0, <1>5, <2>1, PlainIntro, Edges DEF DesignationCheck
<1>6. CASE EntityBackbone
  <2>1. << >> \in Seq(QuietActions) /\ Records(<< >>) = << >>
    BY DEF Records
  <2> QED
    BY <1>0, <1>6, <2>1, PlainIntro, Edges DEF EntityBackbone
<1>7. CASE RemarkMiner
  <2>1. <<"tool_call", "mined", "alias_screened">> \in Seq(QuietActions)
    BY DEF QuietActions
  <2> QED
    BY <1>0, <1>7, <2>1, PlainIntro, Edges DEF RemarkMiner
<1> QED
  BY <1>1, <1>2, <1>3, <1>4, <1>5, <1>6, <1>7

\* From there on.
LEMMA LatePlainNodes ==
  ASSUME GraphTypeOK,
         \/ AdvisoryMatcher \/ AttachSecondary \/ RfiReader \/ RfiChecker
         \/ DraftRfiFollowup \/ AuditFinalize
  PROVE  PlainStep
<1>0. state \in CaseStates /\ Unmoved(state)
  BY StateChanges
<1>1. CASE AdvisoryMatcher
  <2>1. PICK rfi \in BOOLEAN, matches \in 0..MaxMatches :
          Node("advisory_matcher",
               Records(<<"tool_call", "retrieval_config", "embedder_active", "matched">>),
               [state EXCEPT !.rfi = rfi, !.matches = matches],
               "decide_second_advisory")
    BY <1>1 DEF AdvisoryMatcher
  <2>2. <<"tool_call", "retrieval_config", "embedder_active", "matched">>
            \in Seq(QuietActions)
    BY DEF QuietActions
  <2>3. matches \in Nat
    OBVIOUS
  <2> QED
    BY <2>1, <2>2, <2>3, StateChanges, PlainIntro, Edges
<1>2. CASE AttachSecondary
  <2>1. <<"secondary_surfaced">> \in Seq(QuietActions)
    BY DEF QuietActions
  <2> QED
    BY <1>0, <1>2, <2>1, PlainIntro, Edges DEF AttachSecondary
<1>3. CASE RfiReader
  <2>1. <<"rfi_surfaced">> \in Seq(QuietActions)
    BY DEF QuietActions
  <2> QED
    BY <1>0, <1>3, <2>1, PlainIntro, Edges DEF RfiReader
<1>4. CASE RfiChecker /\ ~state.rfi
  <2>1. << >> \in Seq(QuietActions) /\ Records(<< >>) = << >>
    BY DEF Records
  <2> QED
    BY <1>0, <1>4, <2>1, PlainIntro, Edges DEF RfiChecker
<1>5. CASE RfiChecker /\ state.rfi
  <2> DEFINE actions(claims) ==
        <<"tool_call", "contradiction_config", "decomposed", "adjudicated">>
            \o [i \in 1..claims |-> "claim_verdict"]
      tables(claims, contradicted) ==
        {[claims |-> claims, contradicted |-> contradicted]}
  <2>0. PICK claims \in 0..MaxClaims : \E contradicted \in 0..claims :
          Node("rfi_checker", Records(actions(claims)),
               [state EXCEPT !.table = tables(claims, contradicted)], "decide_re_rfi")
    BY <1>5 DEF RfiChecker
  <2>1. PICK contradicted \in 0..claims :
          Node("rfi_checker", Records(actions(claims)),
               [state EXCEPT !.table = tables(claims, contradicted)], "decide_re_rfi")
    BY <2>0
  <2>2. claims \in Nat /\ contradicted \in Nat
    OBVIOUS
  <2>3. actions(claims) \in Seq(QuietActions)
    <3>1. [i \in 1..claims |-> "claim_verdict"] \in Seq(QuietActions)
      BY <2>2 DEF QuietActions
    <3>2. <<"tool_call", "contradiction_config", "decomposed", "adjudicated">>
              \in Seq(QuietActions)
      BY DEF QuietActions
    <3> QED
      BY <3>1, <3>2
  <2>4. tables(claims, contradicted) \in SUBSET [claims : Nat, contradicted : Nat]
    BY <2>2
  <2> HIDE DEF actions, tables
  <2> QED
    BY <2>1, <2>3, <2>4, StateChanges, PlainIntro, Edges
<1>6. CASE DraftRfiFollowup
  <2>1. <<"rfi_followup_drafted">> \in Seq(QuietActions)
    BY DEF QuietActions
  <2> QED
    BY <1>0, <1>6, <2>1, PlainIntro, Edges DEF DraftRfiFollowup
<1>7. CASE AuditFinalize
  <2>1. << >> \in Seq(QuietActions) /\ Records(<< >>) = << >>
    BY DEF Records
  <2> QED
    BY <1>0, <1>7, <2>1, PlainIntro, Edges DEF AuditFinalize
<1> QED
  BY <1>1, <1>2, <1>3, <1>4, <1>5, <1>6, <1>7

\* The routers.
LEMMA RouterNodes ==
  ASSUME DecideExpand \/ DecideSecondAdvisory \/ DecideReRfi \/ DecideSufficiency
  PROVE  RouterStep
<1> DEFINE Ids == {"expand_hop", "second_advisory", "re_rfi", "sufficiency"}
<1>0. /\ Routers = {"decide_expand", "decide_second_advisory", "decide_re_rfi",
                    "decide_sufficiency"}
      /\ DOMAIN Route["decide_expand"] = {"continue", "stop_cap", "stop_frontier_exhausted"}
      /\ DOMAIN Route["decide_second_advisory"] = {"pull_second", "single_match", "no_match"}
      /\ DOMAIN Route["decide_re_rfi"] =
            {"recommend_re_rfi", "no_contradictions", "not_applicable"}
      /\ DOMAIN Route["decide_sufficiency"] = {"sufficient", "insufficient"}
  BY DEF Routers, Route
<1>1. ASSUME NEW id \in Ids, NEW outcome \in Verdicts
      PROVE  Decided(id, outcome) \in Decisions /\ Decided(id, outcome).outcome = outcome
             /\ Decided(id, outcome).decision_id = id
  BY DEF Decided, Decisions
<1>2. ASSUME NEW id \in Ids, NEW n \in Routers, NEW outcome \in DOMAIN Route[n],
             outcome \in Verdicts, Decides(n, Decided(id, outcome))
      PROVE  RouterStep
  <2> DEFINE d == Decided(id, outcome)
  <2>1. d \in Decisions /\ d.decision_id = id /\ d.outcome = outcome /\ id # "sar_bar"
    BY <1>1, <1>2
  <2> QED
    BY <1>2, <2>1, Zenon DEF RouterStep
<1>3. CASE DecideExpand
  <2>1. PICK outcome \in {"continue", "stop_cap", "stop_frontier_exhausted"} :
          decide_expand(state.hops, state.cap, state.new) = Decided("expand_hop", outcome)
    BY DEF decide_expand
  <2> QED
    BY <1>0, <1>2, <1>3, <2>1 DEF DecideExpand, Verdicts
<1>4. CASE DecideSecondAdvisory
  <2>1. PICK outcome \in {"pull_second", "single_match", "no_match"} :
          decide_second_advisory(state.matches) = Decided("second_advisory", outcome)
    BY DEF decide_second_advisory
  <2> QED
    BY <1>0, <1>2, <1>4, <2>1 DEF DecideSecondAdvisory, Verdicts
<1>5. CASE DecideReRfi
  <2>1. PICK outcome \in {"recommend_re_rfi", "no_contradictions", "not_applicable"} :
          decide_re_rfi(state.table) = Decided("re_rfi", outcome)
    BY Zenon DEF decide_re_rfi
  <2> QED
    BY <1>0, <1>2, <1>5, <2>1 DEF DecideReRfi, Verdicts
<1>6. CASE DecideSufficiency
  <2>1. PICK outcome \in {"sufficient", "insufficient"} :
          decide_sufficiency(state.subject, state.events) = Decided("sufficiency", outcome)
    BY Zenon DEF decide_sufficiency
  <2> QED
    BY <1>0, <1>2, <1>6, <2>1 DEF DecideSufficiency, Verdicts
<1> QED
  BY <1>3, <1>4, <1>5, <1>6

\* The kinds of steps there are, for the proofs by cases below.
LEMMA StepKinds ==
  ASSUME GraphTypeOK, Next
  PROVE  \/ PlainStep \/ RouterStep \/ NetworkSeed \/ NetworkHop
         \/ HumanReferral \/ SarDrafter \/ DecideSarBar
         \/ CasePackager \/ CaseGraphRecord
  BY EarlyPlainNodes, LatePlainNodes, RouterNodes DEF Next
-----------------------------------------------------------------------------
(* The branches of a path *)

Deciders == Routers \cup {"decide_sar_bar"}

\* How many decisions the first i nodes of a path took.
Taken(p, i) == Cardinality({j \in 1..i : p[j] \in Deciders})

\* Every branch of a path that has come to node nd is the one its decision took.
Branches(p, nd, trace) ==
    \A i \in 1..Len(p) : p[i] \in Routers =>
        Append(p, nd)[i + 1] \in {Route[p[i]][trace[Taken(p, i)].outcome], "raised"}

\* The decisions a path has passed are finitely many.
LEMMA TakenFinite ==
  ASSUME NEW p, NEW i \in Nat
  PROVE  IsFiniteSet({j \in 1..i : p[j] \in Deciders}) /\ Taken(p, i) \in Nat
<1> DEFINE T == {j \in 1..i : p[j] \in Deciders}
<1>1. IsFiniteSet(1..i)
  BY FS_Interval
<1>2. T \subseteq 1..i
  OBVIOUS
<1>3. IsFiniteSet(T)
  BY <1>1, <1>2, FS_Subset
<1> QED
  BY <1>3, FS_CardinalityType DEF Taken

\* One more node is one decision more, or none.
LEMMA TakenAppend ==
  ASSUME NEW p \in Seq(Nodes), NEW n \in Nodes
  PROVE  /\ \A i \in 0..Len(p) : Taken(Append(p, n), i) = Taken(p, i)
         /\ Taken(Append(p, n), Len(p) + 1) =
               IF n \in Deciders THEN Taken(p, Len(p)) + 1 ELSE Taken(p, Len(p))
<1> DEFINE q == Append(p, n)
<1>1. /\ Len(p) \in Nat /\ \A i \in 1..Len(p) : q[i] = p[i]
      /\ q[Len(p) + 1] = n
  OBVIOUS
<1> HIDE DEF q
<1>2. ASSUME NEW i \in 0..Len(p)
      PROVE  {j \in 1..i : q[j] \in Deciders} = {j \in 1..i : p[j] \in Deciders}
  <2>1. \A j \in 1..i : q[j] = p[j]
    BY <1>1
  <2> QED
    BY <2>1
<1>3. \A i \in 0..Len(p) : Taken(q, i) = Taken(p, i)
  BY <1>2 DEF Taken
<1> DEFINE T == {j \in 1..Len(p) : p[j] \in Deciders}
           U == {j \in 1..(Len(p) + 1) : q[j] \in Deciders}
<1>4. IsFiniteSet(T)
  BY <1>1, TakenFinite
<1>5. CASE n \in Deciders
  <2>1. U = T \cup {Len(p) + 1} /\ Len(p) + 1 \notin T
    BY <1>1, <1>5
  <2> HIDE DEF T, U
  <2>2. Cardinality(U) = Cardinality(T) + 1
    BY <1>4, <2>1, FS_AddElement
  <2> QED
    BY <1>3, <1>5, <2>2 DEF Taken, T, U, q
<1>6. CASE n \notin Deciders
  <2>1. U = T
    BY <1>1, <1>6
  <2> QED
    BY <1>3, <1>6, <2>1 DEF Taken, q
<1> QED
  BY <1>3, <1>5, <1>6 DEF q

\* A decision on the path is one of those it passed.
LEMMA TakenBounds ==
  ASSUME NEW p \in Seq(Nodes), NEW i \in 1..Len(p), p[i] \in Deciders
  PROVE  Taken(p, i) \in 1..Taken(p, Len(p))
<1> DEFINE T(k) == {j \in 1..k : p[j] \in Deciders}
<1>1. Len(p) \in Nat /\ i \in Nat
  OBVIOUS
<1>2. IsFiniteSet(T(i)) /\ IsFiniteSet(T(Len(p))) /\ Taken(p, i) \in Nat
      /\ Taken(p, Len(p)) \in Nat
  BY <1>1, TakenFinite
<1>3. T(i) \subseteq T(Len(p))
  BY <1>1
<1>4. T(i) # {}
  BY <1>1
<1>5. Cardinality(T(i)) # 0
  BY <1>2, <1>4, FS_EmptySet
<1>6. Cardinality(T(i)) <= Cardinality(T(Len(p)))
  BY <1>2, <1>3, FS_Subset
<1> QED
  BY <1>2, <1>5, <1>6 DEF Taken

\* Node n returns and hands on to nd, having added at most its own decision.
LEMMA BranchesGrow ==
  ASSUME NEW p \in Seq(Nodes), NEW n \in Nodes, NEW nd,
         NEW trace, NEW longer, Len(trace) = Taken(p, Len(p)),
         \A k \in 1..Len(trace) : longer[k] = trace[k],
         Branches(p, n, trace),
         n \in Routers => nd = Route[n][longer[Len(trace) + 1].outcome]
  PROVE  Branches(Append(p, n), nd, longer)
<1> DEFINE q == Append(p, n)
           r == Append(q, nd)
<1>1. /\ Len(p) \in Nat /\ q \in Seq(Nodes) /\ Len(q) = Len(p) + 1
      /\ \A i \in 1..Len(p) : q[i] = p[i]
      /\ q[Len(p) + 1] = n
  OBVIOUS
<1>2. /\ \A i \in 1..Len(p) : Taken(q, i) = Taken(p, i)
      /\ n \in Deciders => Taken(q, Len(p) + 1) = Len(trace) + 1
  <2>1. 1..Len(p) \subseteq 0..Len(p)
    OBVIOUS
  <2> QED
    BY <2>1, TakenAppend
<1> HIDE DEF q
<1>3. \A i \in 1..(Len(p) + 1) : r[i] = q[i]
  BY <1>1
<1>4. r[Len(p) + 2] = nd
  BY <1>1
<1> HIDE DEF r
<1>5. ASSUME NEW i \in 1..Len(q), q[i] \in Routers
      PROVE  r[i + 1] \in {Route[q[i]][longer[Taken(q, i)].outcome], "raised"}
  <2>1. CASE i \in 1..Len(p)
    <3>1. /\ q[i] = p[i] /\ Taken(q, i) = Taken(p, i) /\ i + 1 \in 1..(Len(p) + 1)
          /\ r[i + 1] = q[i + 1]
      BY <1>1, <1>2, <1>3, <2>1
    <3>2. q[i + 1] \in {Route[p[i]][trace[Taken(p, i)].outcome], "raised"}
      BY <1>5, <2>1, <3>1 DEF Branches, q
    <3>3. Taken(p, i) \in 1..Len(trace)
      BY <1>5, <2>1, <3>1, TakenBounds DEF Deciders
    <3> QED
      BY <3>1, <3>2, <3>3
  <2>2. CASE i = Len(p) + 1
    <3>1. q[i] = n /\ r[i + 1] = nd /\ Taken(q, i) = Len(trace) + 1
      BY <1>1, <1>2, <1>4, <1>5, <2>2 DEF Deciders
    <3> QED
      BY <1>5, <3>1
  <2> QED
    BY <1>1, <2>1, <2>2
<1> QED
  BY <1>5 DEF Branches, q, r

\* Node n raises.
LEMMA BranchesEnd ==
  ASSUME NEW p \in Seq(Nodes), NEW n, NEW trace, Branches(p, n, trace)
  PROVE  Branches(p, "raised", trace)
<1>1. ASSUME NEW i \in 1..Len(p)
      PROVE  Append(p, "raised")[i + 1] = IF i = Len(p) THEN "raised" ELSE Append(p, n)[i + 1]
  <2>1. CASE i = Len(p)
    BY <2>1
  <2>2. CASE i # Len(p)
    <3>1. i + 1 \in 1..Len(p)
      BY <2>2
    <3> QED
      BY <2>2, <3>1
  <2> QED
    BY <2>1, <2>2
<1> QED
  BY <1>1 DEF Branches
-----------------------------------------------------------------------------
(* What each kind of step does *)

\* record_decision appends the decision and leaves the rest.
LEMMA RecordedCase ==
  ASSUME GraphTypeOK, NEW d \in Decisions
  PROVE  LET ns == record_decision(d) IN
         /\ ns \in CaseStates
         /\ ns.decisions = Append(state.decisions, d)
         /\ ns.sar = state.sar /\ ns.converged = state.converged
         /\ ns.cap = state.cap /\ ns.reach = state.reach
         /\ ns.hops = state.hops /\ ns.new = state.new
         /\ LastOutcome(ns) = d.outcome
<1> DEFINE ns == record_decision(d)
           t == Append(state.decisions, d)
<1>1. state \in CaseStates /\ state.decisions \in Seq(Decisions)
  BY DEF GraphTypeOK, CaseStates
<1>2. t \in Seq(Decisions) /\ Len(t) \in Nat /\ t[Len(t)] = d
  BY <1>1
<1>3. ns = [state EXCEPT !.decisions = t]
  BY DEF record_decision
<1> HIDE DEF t, ns
<1>4. /\ ns \in CaseStates /\ ns.decisions = t
      /\ ns.sar = state.sar /\ ns.converged = state.converged
      /\ ns.cap = state.cap /\ ns.reach = state.reach
      /\ ns.hops = state.hops /\ ns.new = state.new
  BY <1>1, <1>2, <1>3 DEF CaseStates
<1>5. LastOutcome(ns) = d.outcome
  BY <1>2, <1>4 DEF LastOutcome, Last
<1> QED
  BY <1>4, <1>5 DEF t, ns

\* A router stamps one decision and goes where its outcome leads.
LEMMA RouterEffect ==
  ASSUME GraphTypeOK, RouterStep
  PROVE  \E n \in Routers, d \in Decisions :
           /\ d.decision_id # "sar_bar" /\ d.outcome \in DOMAIN Route[n]
           /\ Node(n, <<Stamp(d)>>, record_decision(d), Route[n][d.outcome])
<1>1. PICK n \in Routers, d \in Decisions :
        Decides(n, d) /\ d.decision_id # "sar_bar" /\ d.outcome \in DOMAIN Route[n]
  BY DEF RouterStep
<1>2. LastOutcome(record_decision(d)) = d.outcome
  BY RecordedCase
<1>3. Node(n, <<Stamp(d)>>, record_decision(d), Route[n][d.outcome])
  BY <1>1, <1>2 DEF Decides
<1> QED
  BY <1>1, <1>3, Zenon

LEMMA RouteShape ==
  /\ Routers \subseteq Nodes
  /\ \A n \in Routers : \A o \in DOMAIN Route[n] : Route[n][o] \in Nodes
<1>1. Routers = {"decide_expand", "decide_second_advisory", "decide_re_rfi",
                 "decide_sufficiency"}
  BY DEF Routers, Route
<1>2. /\ DOMAIN Route["decide_expand"] = {"continue", "stop_cap", "stop_frontier_exhausted"}
      /\ DOMAIN Route["decide_second_advisory"] = {"pull_second", "single_match", "no_match"}
      /\ DOMAIN Route["decide_re_rfi"] =
            {"recommend_re_rfi", "no_contradictions", "not_applicable"}
      /\ DOMAIN Route["decide_sufficiency"] = {"sufficient", "insufficient"}
  BY DEF Route
<1> QED
  BY <1>1, <1>2, Routes DEF Nodes

\* decide_sar_bar stamps its decision and goes to the packager.
LEMMA SarBarEffect ==
  ASSUME GraphTypeOK, DecideSarBar
  PROVE  \E d \in Decisions :
           /\ d.decision_id = "sar_bar"
           /\ d = decide_sar_bar(state.converged)
           /\ Node("decide_sar_bar", <<Stamp(d)>>, record_decision(d), "case_packager")
<1> DEFINE d == decide_sar_bar(state.converged)
<1>1. d \in Decisions /\ d.decision_id = "sar_bar"
  BY DEF decide_sar_bar, Decided, Decisions, Verdicts
<1> QED
  BY <1>1 DEF DecideSarBar

\* network_seed clamps the hops asked for.
LEMMA SeedEffect ==
  ASSUME GraphTypeOK, NetworkSeed
  PROVE  \E stamps \in Seq(QuietRecords), ns \in CaseStates :
           /\ Node("network_seed", stamps, ns, "network_hop")
           /\ ns.decisions = state.decisions
           /\ ns.sar = state.sar /\ ns.converged = state.converged
           /\ ns.hops = state.hops
           /\ ns.cap = clamp_hops(state.max_hops)
<1>1. PICK reach \in Reaches :
        Node("network_seed", Records(<<"tool_call">>),
             [state EXCEPT !.cap = clamp_hops(state.max_hops), !.reach = reach],
             "network_hop")
  BY DEF NetworkSeed
<1> DEFINE ns == [state EXCEPT !.cap = clamp_hops(state.max_hops), !.reach = reach]
<1>2. state \in CaseStates /\ reach \in Nat
  BY CaseGraphAssumption DEF GraphTypeOK
<1>3. clamp_hops(state.max_hops) \in Int
  BY <1>2, CaseGraphAssumption DEF clamp_hops, CaseStates
<1>4. /\ ns \in CaseStates /\ ns.decisions = state.decisions
      /\ ns.sar = state.sar /\ ns.converged = state.converged
      /\ ns.hops = state.hops /\ ns.cap = clamp_hops(state.max_hops)
  BY <1>2, <1>3 DEF CaseStates
<1>5. Records(<<"tool_call">>) \in Seq(QuietRecords)
  <2>1. <<"tool_call">> \in Seq(QuietActions)
    BY DEF QuietActions
  <2> QED
    BY <2>1, QuietShape
<1> HIDE DEF ns
<1>6. Node("network_seed", Records(<<"tool_call">>), ns, "network_hop")
  BY <1>1 DEF ns
<1> QED
  BY <1>4, <1>5, <1>6, Zenon

\* network_hop counts one hop, productive within the reach.
LEMMA HopEffect ==
  ASSUME GraphTypeOK, NetworkHop
  PROVE  \E ns \in CaseStates :
           /\ Node("network_hop", << >>, ns, "decide_expand")
           /\ ns.decisions = state.decisions
           /\ ns.sar = state.sar /\ ns.converged = state.converged
           /\ ns.cap = state.cap /\ ns.reach = state.reach
           /\ ns.hops = state.hops + 1
           /\ ns.new = IF state.hops + 1 <= state.reach THEN 1 ELSE 0
<1> DEFINE found == IF state.hops + 1 <= state.reach THEN 1 ELSE 0
           h == state.hops + 1
           ns == [state EXCEPT !.hops = h, !.new = found]
<1>1. Node("network_hop", << >>, ns, "decide_expand")
  BY DEF NetworkHop
<1>2. found \in 0..1 /\ h \in Nat /\ state \in CaseStates
  BY DEF GraphTypeOK, CaseStates
<1> HIDE DEF found, h
<1>3. /\ ns \in CaseStates /\ ns.decisions = state.decisions
      /\ ns.sar = state.sar /\ ns.converged = state.converged
      /\ ns.cap = state.cap /\ ns.reach = state.reach
      /\ ns.hops = h /\ ns.new = found
  BY <1>2 DEF CaseStates
<1> HIDE DEF ns
<1> QED
  BY <1>1, <1>3, Zenon DEF found, h

\* human_referral leaves the case without a draft, and says so.
LEMMA ReferralEffect ==
  ASSUME GraphTypeOK, HumanReferral
  PROVE  \E ns \in CaseStates :
           /\ Node("human_referral", Records(<<"human_referral">>), ns, "case_packager")
           /\ <<"human_referral">> \in Seq(TellingActions)
           /\ ns.decisions = state.decisions /\ ns.sar = "none"
           /\ ns.cap = state.cap /\ ns.reach = state.reach /\ ns.hops = state.hops
<1> DEFINE ns == [state EXCEPT !.sar = "none"]
<1>1. /\ ns \in CaseStates /\ ns.decisions = state.decisions /\ ns.sar = "none"
      /\ ns.cap = state.cap /\ ns.reach = state.reach /\ ns.hops = state.hops
  BY DEF GraphTypeOK, CaseStates
<1>2. Node("human_referral", Records(<<"human_referral">>), ns, "case_packager")
  BY DEF HumanReferral
<1>3. <<"human_referral">> \in Seq(TellingActions)
  BY DEF TellingActions
<1> HIDE DEF ns
<1> QED
  BY <1>1, <1>2, <1>3, Zenon

\* The drafter logs a draft and what became of it, and nothing else of note.
LEMMA DrafterEffect ==
  ASSUME GraphTypeOK, SarDrafter
  PROVE  \E actions \in Seq(QuietActions \cup TellingActions), ns \in CaseStates :
           /\ Node("sar_drafter", Records(actions), ns, "decide_sar_bar")
           /\ {actions[i] : i \in 1..Len(actions)} \cap TellingActions =
                 {"drafted", IF ns.converged THEN "converged" ELSE "human_fallback"}
           /\ ns.decisions = state.decisions /\ ns.sar = "draft"
           /\ ns.cap = state.cap /\ ns.reach = state.reach /\ ns.hops = state.hops
<1>1. PICK passes \in 0..MAX_REVISION_ITERATIONS, converged \in BOOLEAN :
        Node("sar_drafter",
             Records(<<"tool_call", "critic_config", "grounding_validated", "drafted",
                       "graded">>
                     \o [i \in 1..passes |-> "revision"]
                     \o <<IF converged THEN "converged" ELSE "human_fallback">>),
             [state EXCEPT !.sar = "draft", !.converged = converged], "decide_sar_bar")
  BY DEF SarDrafter
<1> DEFINE ns == [state EXCEPT !.sar = "draft", !.converged = converged]
           A == QuietActions \cup TellingActions
           first == <<"tool_call", "critic_config", "grounding_validated", "drafted",
                      "graded">>
           revisions == [i \in 1..passes |-> "revision"]
           end == IF converged THEN "converged" ELSE "human_fallback"
           actions == first \o revisions \o <<end>>
<1>2. /\ ns \in CaseStates /\ ns.decisions = state.decisions /\ ns.sar = "draft"
      /\ ns.cap = state.cap /\ ns.reach = state.reach /\ ns.hops = state.hops
      /\ ns.converged = converged
  BY DEF GraphTypeOK, CaseStates
<1>3. Node("sar_drafter", Records(actions), ns, "decide_sar_bar")
  BY <1>1
<1>4. passes \in Nat
  BY CaseGraphAssumption
<1>5. first \in Seq(A) /\ Len(first) = 5 /\ first[4] = "drafted"
      /\ \A i \in 1..5 : first[i] \notin TellingActions \ {"drafted"}
  BY DEF QuietActions, TellingActions
<1>6. revisions \in Seq(A) /\ Len(revisions) = passes
      /\ \A i \in 1..passes : revisions[i] \notin TellingActions
  BY <1>4 DEF QuietActions, TellingActions
<1>7. end \in TellingActions /\ end \in A
  BY DEF TellingActions
<1> HIDE DEF A, first, revisions, ns
<1>8. {actions[i] : i \in 1..Len(actions)} \cap TellingActions = {"drafted", end}
      /\ actions \in Seq(A)
  <2> HIDE DEF end
  <2> DEFINE longer == first \o revisions
  <2>0. /\ longer \in Seq(A) /\ Len(longer) = 5 + passes
        /\ \A i \in 1..5 : longer[i] = first[i]
        /\ \A i \in 1..passes : longer[5 + i] = revisions[i]
    <3>1. first \in Seq(A) /\ revisions \in Seq(A)
      BY <1>5, <1>6
    <3>2. /\ longer \in Seq(A)
          /\ Len(longer) = Len(first) + Len(revisions)
          /\ \A i \in 1..Len(first) : longer[i] = first[i]
          /\ \A i \in 1..Len(revisions) : longer[Len(first) + i] = revisions[i]
      BY ONLY <3>1, Concatenation
    <3> HIDE DEF longer
    <3> QED
      BY <1>5, <1>6, <3>2
  <2>10. actions = longer \o <<end>>
    OBVIOUS
  <2> HIDE DEF longer, actions
  <2>11. /\ actions \in Seq(A) /\ Len(actions) = 5 + passes + 1
         /\ \A i \in 1..(5 + passes) : actions[i] = longer[i]
         /\ actions[5 + passes + 1] = end
    BY <1>4, <1>7, <2>0, <2>10
  <2>1. /\ actions \in Seq(A) /\ Len(actions) = 5 + passes + 1
        /\ \A i \in 1..5 : actions[i] = first[i]
        /\ \A i \in 1..passes : actions[5 + i] = revisions[i]
        /\ actions[5 + passes + 1] = end
    <3>1. 1..5 \subseteq 1..(5 + passes) /\ \A i \in 1..passes : 5 + i \in 1..(5 + passes)
      BY <1>4
    <3> QED
      BY <2>0, <2>11, <3>1
  <2>2. actions[4] = "drafted" /\ 4 \in 1..Len(actions) /\ 5 + passes + 1 \in 1..Len(actions)
    BY <1>4, <1>5, <2>1
  <2>3. ASSUME NEW i \in 1..Len(actions), actions[i] \in TellingActions
        PROVE  actions[i] \in {"drafted", end}
    <3>1. CASE i \in 1..5
      BY <1>5, <2>1, <2>3, <3>1
    <3>2. CASE i \in 6..(5 + passes)
      <4>1. i - 5 \in 1..passes /\ 5 + (i - 5) = i
        BY <1>4, <3>2
      <4> QED
        BY <1>6, <2>1, <2>3, <3>2, <4>1
    <3>3. CASE i = 5 + passes + 1
      BY <2>1, <3>3
    <3> QED
      BY <1>4, <2>1, <3>1, <3>2, <3>3
  <2>4. "drafted" \in TellingActions
    BY DEF TellingActions
  <2>5. {actions[i] : i \in 1..Len(actions)} \cap TellingActions \subseteq {"drafted", end}
    BY <2>3
  <2>6. end = actions[Len(actions)] /\ Len(actions) \in 1..Len(actions)
    BY <1>4, <2>1
  <2>7. {"drafted", end} \subseteq {actions[i] : i \in 1..Len(actions)}
    BY <2>2, <2>6
  <2> QED
    BY <1>7, <2>1, <2>4, <2>5, <2>7
<1>9. end = IF ns.converged THEN "converged" ELSE "human_fallback"
  BY <1>2
<1> HIDE DEF actions, end
<1> QED
  BY <1>2, <1>3, <1>8, <1>9, Zenon DEF A
-----------------------------------------------------------------------------
(* The invariants of a run *)

\* Up to the first raise the chain stamps the trace and nothing else; a node
\* that raises may have stamped one decision more.  Each branch is the one the
\* trace gives, and what is published names a stretch of the chain that is
\* still there.
ReplayInv ==
    LET stamps == StampedIn(log) IN
    /\ Taken(path, Len(path)) = Len(state.decisions)
    /\ \A k \in 1..Len(state.decisions) : stamps[k] = state.decisions[k]
    /\ node # "raised" => stamps = state.decisions
    /\ Branches(path, node, state.decisions)
    /\ \A p \in package : p.refs \in 0..Len(log) /\ p.trace = StampedIn(SubSeq(log, 1, p.refs))
    /\ \A r \in row : r.count \in 0..Len(log) /\ r.trace = StampedIn(SubSeq(log, 1, r.count))

\* The chain shows disposition d.
Shows(d) ==
    /\ d = "insufficient_evidence" <=> Logged("human_referral") # {}
    /\ d = "clears_bar" <=> Logged("converged") # {}
    /\ d = "human_review" <=> Logged("human_fallback") # {}
    /\ d = "insufficient_evidence" <=> Logged("drafted") = {}

\* Nothing telling is logged before the draft or the referral; from there on
\* the chain shows the disposition to be published.
GroundedInv ==
    /\ node \in OpenNodes \ {"decide_sar_bar"} =>
         \A action \in TellingActions : Logged(action) = {}
    /\ node = "decide_sar_bar" => Shows(decide_sar_bar(state.converged).outcome)
    /\ node \in {"case_packager", "case_graph_record"} => Shows(Disposition)
    /\ DispositionIsGrounded

WalkNodes == {"case_open", "profile_aggregator", "network_seed", "network_hop",
              "decide_expand"}

Exhausted ==
    /\ state.hops <= state.cap
    /\ state.hops = state.cap \/ state.hops > state.reach

\* The most nodes that can have returned, besides two for every hop, when the
\* next one runs.
Rank == [
    case_open |-> 0, profile_aggregator |-> 1, network_seed |-> 2, network_hop |-> 3,
    decide_expand |-> 2, network_finalize |-> 3, risk_scorer |-> 4,
    designation_check |-> 5, entity_backbone |-> 6, remark_miner |-> 7,
    advisory_matcher |-> 8, decide_second_advisory |-> 9, attach_secondary |-> 10,
    rfi_reader |-> 11, rfi_checker |-> 12, decide_re_rfi |-> 13,
    draft_rfi_followup |-> 14, decide_sufficiency |-> 15, sar_drafter |-> 16,
    human_referral |-> 16, decide_sar_bar |-> 17, case_packager |-> 18,
    case_graph_record |-> 19, audit_finalize |-> 20, end |-> 21, raised |-> 21]

\* The walk goes on only below the cap and while it finds accounts; no node but
\* its two runs twice.
ExpansionInv ==
    /\ node \in {"case_open", "profile_aggregator", "network_seed"} => state.hops = 0
    /\ node = "network_hop" => state.hops < state.cap
    /\ node = "decide_expand" =>
         /\ state.hops <= state.cap
         /\ state.new = IF state.hops <= state.reach THEN 1 ELSE 0
    /\ node \in {"network_hop", "decide_expand"} => state.cap <= MAX_HOPS_LIMIT
    /\ node \notin WalkNodes \cup {"raised"} => Exhausted
    /\ node \in WalkNodes => "network_finalize" \notin Range(path)
    /\ "network_finalize" \in Range(path) => Exhausted
    /\ state.hops <= MAX_HOPS_LIMIT
    /\ Len(path) <= Rank[node] + 2 * state.hops
-----------------------------------------------------------------------------
(* Types *)

LEMMA InitGraphTypeOK == Init => GraphTypeOK
<1> SUFFICES ASSUME Init PROVE GraphTypeOK
  OBVIOUS
<1>1. PICK request \in HopRequests, render \in {"off", "works", "fails"} :
        state = [max_hops |-> request, render |-> render, decisions |-> << >>,
                 subject |-> FALSE, cap |-> 0, reach |-> 0, hops |-> 0, new |-> 0,
                 events |-> 0, rfi |-> FALSE, matches |-> 0, table |-> {},
                 sar |-> "unset", converged |-> FALSE]
  BY DEF Init
<1>2. request \in Int
  BY CaseGraphAssumption
<1>3. state \in CaseStates
  BY <1>1, <1>2 DEF CaseStates
<1> QED
  BY <1>3 DEF Init, GraphTypeOK, Nodes

\* A node that returns or raises with typed records keeps the types.
LEMMA NodeTyped ==
  ASSUME GraphTypeOK, NEW n \in Nodes, NEW stamps \in Seq(AuditRecords),
         NEW ns \in CaseStates, NEW next \in Nodes \cup {"end"},
         Returns(n, stamps, ns, next) \/ Raises(n, stamps)
  PROVE  GraphTypeOK'
<1>1. PICK added \in Seq(AuditRecords) :
        /\ log' = log \o added
        /\ \/ node' = next /\ state' = ns /\ path' = Append(path, n)
           \/ node' = "raised" /\ state' = state /\ path' = path
  BY NodeEffect
<1>2. log' \in Seq(AuditRecords)
  BY <1>1 DEF GraphTypeOK
<1>3. Append(path, n) \in Seq(Nodes)
  BY DEF GraphTypeOK
<1> QED
  BY <1>1, <1>2, <1>3 DEF GraphTypeOK

LEMMA GraphTypeStep ==
  ASSUME GraphTypeOK, [Next]_vars
  PROVE  GraphTypeOK'
<1>0. /\ \A s \in Seq(QuietRecords) : s \in Seq(AuditRecords)
      /\ \A d \in Decisions : <<Stamp(d)>> \in Seq(AuditRecords)
      /\ << >> \in Seq(AuditRecords)
  BY StampShape DEF QuietRecords
<1>1. CASE UNCHANGED vars
  BY <1>1 DEF vars, GraphTypeOK
<1>2. CASE PlainStep
  <2>1. PICK n \in DOMAIN Onward, stamps \in Seq(QuietRecords), ns \in CaseStates :
          Node(n, stamps, ns, Onward[n])
    BY <1>2 DEF PlainStep
  <2>2. n \in Nodes /\ Onward[n] \in Nodes \cup {"end"}
    BY Edges DEF Nodes
  <2> QED
    BY <1>0, <2>1, <2>2, NodeTyped DEF Node
<1>3. CASE RouterStep
  <2>1. PICK n \in Routers, d \in Decisions :
          /\ d.outcome \in DOMAIN Route[n]
          /\ Node(n, <<Stamp(d)>>, record_decision(d), Route[n][d.outcome])
    BY <1>3, RouterEffect
  <2>2. n \in Nodes /\ Route[n][d.outcome] \in Nodes /\ record_decision(d) \in CaseStates
    BY <2>1, RouteShape, RecordedCase
  <2> QED
    BY <1>0, <2>1, <2>2, NodeTyped DEF Node
<1>4. CASE NetworkSeed
  <2>1. PICK stamps \in Seq(QuietRecords), ns \in CaseStates :
          Node("network_seed", stamps, ns, "network_hop")
    BY <1>4, SeedEffect
  <2> QED
    BY <1>0, <2>1, NodeTyped DEF Node, Nodes
<1>5. CASE NetworkHop
  <2>1. PICK ns \in CaseStates : Node("network_hop", << >>, ns, "decide_expand")
    BY <1>5, HopEffect
  <2> QED
    BY <1>0, <2>1, NodeTyped DEF Node, Nodes
<1>6. CASE HumanReferral
  <2>1. PICK ns \in CaseStates :
           /\ Node("human_referral", Records(<<"human_referral">>), ns, "case_packager")
           /\ <<"human_referral">> \in Seq(TellingActions)
    BY <1>6, ReferralEffect
  <2>2. Records(<<"human_referral">>) \in Seq(AuditRecords)
    <3>1. <<"human_referral">> \in Seq(Actions)
      BY DEF Actions, TellingActions
    <3> QED
      BY <3>1, RecordsShape
  <2> QED
    BY <2>1, <2>2, NodeTyped DEF Node, Nodes
<1>7. CASE SarDrafter
  <2>1. PICK actions \in Seq(QuietActions \cup TellingActions), ns \in CaseStates :
          Node("sar_drafter", Records(actions), ns, "decide_sar_bar")
    BY <1>7, DrafterEffect
  <2>2. Records(actions) \in Seq(AuditRecords)
    BY RecordsShape DEF Actions
  <2> QED
    BY <2>1, <2>2, NodeTyped DEF Node, Nodes
<1>8. CASE DecideSarBar
  <2>1. PICK d \in Decisions :
          Node("decide_sar_bar", <<Stamp(d)>>, record_decision(d), "case_packager")
    BY <1>8, SarBarEffect
  <2>2. record_decision(d) \in CaseStates
    BY RecordedCase
  <2> QED
    BY <1>0, <2>1, <2>2, NodeTyped DEF Node, Nodes
<1>9. CASE CasePackager \/ CaseGraphRecord
  <2>1. Records(<<"packaged">>) \in Seq(AuditRecords)
        /\ Records(<<"case_recorded">>) \in Seq(AuditRecords)
    <3>1. <<"packaged">> \in Seq(Actions) /\ <<"case_recorded">> \in Seq(Actions)
      BY DEF Actions, QuietActions
    <3> QED
      BY <3>1, RecordsShape
  <2>2. state \in CaseStates
    BY DEF GraphTypeOK
  <2> QED
    BY <1>9, <2>1, <2>2, NodeTyped DEF CasePackager, CaseGraphRecord, Nodes
<1> QED
  BY <1>1, <1>2, <1>3, <1>4, <1>5, <1>6, <1>7, <1>8, <1>9, StepKinds
\* The records, the path and the CaseState of every run have their shape.
THEOREM GraphTypes == Spec => []GraphTypeOK
<1>1. GraphTypeOK /\ [Next]_vars => GraphTypeOK'
  BY GraphTypeStep
<1> QED
  BY <1>1, InitGraphTypeOK, PTL DEF Spec
-----------------------------------------------------------------------------
(* The path is replayable *)

Unstamped == {x \in AuditRecords : x.action # "decision"}

\* Records that are no decision leave the stamped ones as they are.
LEMMA UnstampedKeeps ==
  ASSUME NEW r \in Seq(AuditRecords), NEW s \in Seq(Unstamped)
  PROVE  s \in Seq(AuditRecords) /\ StampedIn(r \o s) = StampedIn(r)
<1>1. s \in Seq(AuditRecords) /\ \A i \in 1..Len(s) : s[i].action # "decision"
  BY DEF Unstamped
<1> QED
  BY <1>1, StampedQuiet

\* A chain that grew still has the stretch an artifact names; a new artifact
\* names the whole chain and carries the trace.
LEMMA ArtifactsKept ==
  ASSUME GraphTypeOK, ReplayInv, node # "raised",
         NEW added \in Seq(AuditRecords), log' = log \o added,
         \A p \in package' : p \in package \/ (p.trace = state.decisions /\ p.refs = Len(log)),
         \A r \in row' : r \in row \/ (r.trace = state.decisions /\ r.count = Len(log))
  PROVE  /\ \A p \in package' : /\ p.refs \in 0..Len(log')
                                /\ p.trace = StampedIn(SubSeq(log', 1, p.refs))
         /\ \A r \in row' : /\ r.count \in 0..Len(log')
                            /\ r.trace = StampedIn(SubSeq(log', 1, r.count))
<1>1. log \in Seq(AuditRecords) /\ Len(log) \in Nat /\ Len(added) \in Nat
      /\ Len(log') = Len(log) + Len(added)
  BY DEF GraphTypeOK
<1>2. ASSUME NEW k \in 0..Len(log)
      PROVE  SubSeq(log', 1, k) = SubSeq(log, 1, k) /\ k \in 0..Len(log')
  <2>1. \A i \in 1..k : log'[i] = log[i]
    BY <1>1
  <2>2. SubSeq(log', 1, k) = [i \in 1..k |-> log'[i]]
        /\ SubSeq(log, 1, k) = [i \in 1..k |-> log[i]]
    BY <1>1
  <2> QED
    BY <1>1, <2>1, <2>2
<1>3. SubSeq(log, 1, Len(log)) = log
  BY <1>1
<1>4. StampedIn(log) = state.decisions /\ Len(log) \in 0..Len(log)
  BY <1>1 DEF ReplayInv
<1> QED
  BY <1>2, <1>3, <1>4 DEF ReplayInv

\* A node that decides nothing.
LEMMA ReplaySilent ==
  ASSUME GraphTypeOK, ReplayInv, NEW n \in Nodes \ Deciders,
         NEW stamps \in Seq(Unstamped), NEW ns, NEW next,
         ns.decisions = state.decisions,
         Returns(n, stamps, ns, next) \/ Raises(n, stamps),
         \A p \in package' : p \in package \/ (p.trace = state.decisions /\ p.refs = Len(log)),
         \A r \in row' : r \in row \/ (r.trace = state.decisions /\ r.count = Len(log))
  PROVE  ReplayInv'
<1>1. node = n
  BY NodeEffect
<1>2. PICK added \in Seq(Unstamped) :
        /\ log' = log \o added
        /\ \/ node' = next /\ state' = ns /\ path' = Append(path, n)
           \/ node' = "raised" /\ state' = state /\ path' = path
  BY NodeEffect
<1>3. log \in Seq(AuditRecords) /\ path \in Seq(Nodes) /\ Len(path) \in Nat
  BY DEF GraphTypeOK
<1>4. added \in Seq(AuditRecords) /\ StampedIn(log') = StampedIn(log)
  BY <1>2, <1>3, UnstampedKeeps
<1>5. node # "raised"
  BY <1>1 DEF Nodes
<1>6. state'.decisions = state.decisions
  BY <1>2
<1>7. /\ \A p \in package' : /\ p.refs \in 0..Len(log')
                             /\ p.trace = StampedIn(SubSeq(log', 1, p.refs))
      /\ \A r \in row' : /\ r.count \in 0..Len(log')
                         /\ r.trace = StampedIn(SubSeq(log', 1, r.count))
  BY <1>2, <1>4, <1>5, ArtifactsKept
<1>8. StampedIn(log) = state.decisions /\ Len(state.decisions) = Taken(path, Len(path))
      /\ Branches(path, n, state.decisions)
  BY <1>1, <1>5 DEF ReplayInv
<1>9. Taken(path', Len(path')) = Len(state.decisions) /\ Branches(path', node', state.decisions)
  <2>1. CASE path' = path /\ node' = "raised"
    BY <1>3, <1>8, <2>1, BranchesEnd
  <2>2. CASE path' = Append(path, n)
    <3>1. Len(path') = Len(path) + 1 /\ n \notin Routers
      BY <1>3, <2>2 DEF Deciders
    <3>2. Taken(path', Len(path')) = Len(state.decisions)
      BY <1>3, <1>8, <2>2, <3>1, TakenAppend
    <3>3. Branches(Append(path, n), node', state.decisions)
      BY <1>3, <1>8, <3>1, BranchesGrow
    <3> QED
      BY <2>2, <3>2, <3>3
  <2> QED
    BY <1>2, <2>1, <2>2
<1> QED
  BY <1>4, <1>6, <1>7, <1>8, <1>9 DEF ReplayInv

\* A node that decides.
LEMMA ReplayDecides ==
  ASSUME GraphTypeOK, ReplayInv, NEW n \in Nodes, n \in Deciders,
         NEW d \in Decisions, NEW next,
         n \in Routers => next = Route[n][d.outcome],
         Node(n, <<Stamp(d)>>, record_decision(d), next)
  PROVE  ReplayInv'
<1> DEFINE S == {Stamp(d)}
           longer == Append(state.decisions, d)
<1>1. node = n /\ UNCHANGED <<package, row>>
  BY DEF Node, Returns, Raises
<1>2. Stamp(d) \in AuditRecords /\ <<Stamp(d)>> \in Seq(S)
  BY StampShape
<1>3. /\ state.decisions \in Seq(Decisions) /\ log \in Seq(AuditRecords)
      /\ path \in Seq(Nodes) /\ Len(path) \in Nat
  BY DEF GraphTypeOK, CaseStates
<1>4. record_decision(d).decisions = longer
  BY RecordedCase
<1>5. /\ longer \in Seq(Decisions) /\ Len(longer) = Len(state.decisions) + 1
      /\ \A k \in 1..Len(state.decisions) : longer[k] = state.decisions[k]
      /\ longer[Len(state.decisions) + 1] = d
      /\ Len(state.decisions) \in Nat
  BY <1>3
<1>6. node # "raised"
  BY <1>1 DEF Nodes
<1>7. /\ StampedIn(log) = state.decisions /\ Len(state.decisions) = Taken(path, Len(path))
      /\ Branches(path, n, state.decisions)
  BY <1>1, <1>6 DEF ReplayInv
<1>8. StampedIn(log \o <<Stamp(d)>>) = longer
  BY <1>3, <1>7, StampedDecision
<1> HIDE DEF longer
<1>9. CASE Returns(n, <<Stamp(d)>>, record_decision(d), next)
  <2>1. /\ log' = log \o <<Stamp(d)>> /\ node' = next
        /\ state' = record_decision(d) /\ path' = Append(path, n)
    BY <1>9 DEF Returns
  <2>2. /\ \A p \in package' : /\ p.refs \in 0..Len(log')
                               /\ p.trace = StampedIn(SubSeq(log', 1, p.refs))
        /\ \A r \in row' : /\ r.count \in 0..Len(log')
                           /\ r.trace = StampedIn(SubSeq(log', 1, r.count))
    <3>1. <<Stamp(d)>> \in Seq(AuditRecords)
      BY <1>2
    <3> QED
      BY <1>1, <1>6, <2>1, <3>1, ArtifactsKept
  <2>3. Taken(path', Len(path')) = Len(longer)
    <3>1. Len(path') = Len(path) + 1
      BY <1>3, <2>1
    <3> QED
      BY <1>3, <1>5, <1>7, <2>1, <3>1, TakenAppend
  <2>4. Branches(Append(path, n), next, longer)
    BY <1>3, <1>5, <1>7, BranchesGrow
  <2>5. StampedIn(log') = longer /\ state'.decisions = longer
    BY <1>4, <1>8, <2>1
  <2> QED
    BY <2>1, <2>2, <2>3, <2>4, <2>5 DEF ReplayInv
<1>10. CASE Raises(n, <<Stamp(d)>>)
  <2>1. PICK k \in 0..1 : log' = log \o SubSeq(<<Stamp(d)>>, 1, k)
    BY <1>10 DEF Raises
  <2>2. node' = "raised" /\ state' = state /\ path' = path
    BY <1>10 DEF Raises
  <2>3. SubSeq(<<Stamp(d)>>, 1, k) \in Seq(AuditRecords)
    BY <1>2
  <2>4. /\ \A p \in package' : /\ p.refs \in 0..Len(log')
                               /\ p.trace = StampedIn(SubSeq(log', 1, p.refs))
        /\ \A r \in row' : /\ r.count \in 0..Len(log')
                           /\ r.trace = StampedIn(SubSeq(log', 1, r.count))
    BY <1>1, <1>6, <2>1, <2>3, ArtifactsKept
  <2>5. \/ log' = log \/ log' = log \o <<Stamp(d)>>
    <3>1. SubSeq(<<Stamp(d)>>, 1, 0) = << >> /\ SubSeq(<<Stamp(d)>>, 1, 1) = <<Stamp(d)>>
      <4> DEFINE s == <<Stamp(d)>>
      <4>1. s \in Seq(S) /\ Len(s) = 1
        BY <1>2
      <4> HIDE DEF s
      <4>2. SubSeq(s, 1, 0) = << >> /\ SubSeq(s, 1, Len(s)) = s
        BY <4>1
      <4> QED
        BY <4>1, <4>2 DEF s
    <3> QED
      BY <1>3, <2>1, <3>1
  <2>6. \A k2 \in 1..Len(state.decisions) : StampedIn(log')[k2] = state.decisions[k2]
    BY <1>5, <1>7, <1>8, <2>5
  <2>7. Branches(path, "raised", state.decisions)
    BY <1>3, <1>7, BranchesEnd
  <2> QED
    BY <1>7, <2>2, <2>4, <2>6, <2>7 DEF ReplayInv
<1> QED
  BY <1>9, <1>10 DEF Node

LEMMA InitReplayInv == Init => ReplayInv
<1> SUFFICES ASSUME Init PROVE ReplayInv
  OBVIOUS
<1>1. /\ node = "case_open" /\ state.decisions = << >>
      /\ log = << >> /\ path = << >> /\ package = {} /\ row = {}
  BY DEF Init
<1>2. << >> \in Seq(AuditRecords) /\ Len(<< >>) = 0
  OBVIOUS
<1>3. StampedIn(<< >>) = << >>
  <2>1. PICK f : Stamping(<< >>, f) /\ StampedIn(<< >>) = f[Len(<< >>)]
    BY <1>2, StampedUnfold
  <2> QED
    BY <1>2, <2>1, StampingAt
<1>4. Taken(<< >>, 0) = 0
  <2>1. {j \in 1..0 : << >>[j] \in Deciders} = {}
    OBVIOUS
  <2> QED
    BY <2>1, FS_EmptySet DEF Taken
<1> QED
  BY <1>1, <1>2, <1>3, <1>4 DEF ReplayInv, Branches

LEMMA ReplayStep ==
  ASSUME GraphTypeOK, ReplayInv, [Next]_vars
  PROVE  ReplayInv'
<1>0. /\ QuietRecords \subseteq Unstamped
      /\ \A s \in Seq(QuietRecords) : s \in Seq(Unstamped)
      /\ << >> \in Seq(Unstamped)
  BY DEF QuietRecords, Unstamped, QuietActions
<1>1. Deciders = {"decide_expand", "decide_second_advisory", "decide_re_rfi",
                  "decide_sufficiency", "decide_sar_bar"}
  BY DEF Deciders, Routers, Route
<1>2. ASSUME NEW actions \in Seq(QuietActions \cup TellingActions)
      PROVE  Records(actions) \in Seq(Unstamped)
  <2> DEFINE rs == Records(actions)
  <2>1. actions \in Seq(Actions) /\ Len(actions) \in Nat
        /\ \A i \in 1..Len(actions) : actions[i] # "decision"
    BY DEF Actions, QuietActions, TellingActions
  <2>2. /\ rs \in Seq(AuditRecords) /\ Len(rs) = Len(actions)
        /\ \A i \in 1..Len(actions) : rs[i].action = actions[i]
    BY <2>1, RecordsShape
  <2> HIDE DEF rs
  <2>3. \A i \in 1..Len(rs) : rs[i] \in Unstamped
    BY <2>1, <2>2 DEF Unstamped
  <2>4. rs \in Seq(Unstamped)
    BY <2>1, <2>2, <2>3
  <2> QED
    BY <2>4 DEF rs
<1>3. ASSUME NEW n \in Nodes \ Deciders, NEW stamps \in Seq(Unstamped), NEW ns, NEW next,
             ns.decisions = state.decisions, Node(n, stamps, ns, next)
      PROVE  ReplayInv'
  BY <1>3, ReplaySilent DEF Node
<1>4. CASE UNCHANGED vars
  BY <1>4 DEF vars, ReplayInv
<1>5. CASE PlainStep
  <2>1. PICK n \in DOMAIN Onward, stamps \in Seq(QuietRecords), ns \in CaseStates :
          Node(n, stamps, ns, Onward[n]) /\ Unmoved(ns)
    BY <1>5 DEF PlainStep
  <2>2. n \in Nodes \ Deciders
    BY <1>1, Edges DEF Nodes
  <2> QED
    BY <1>0, <1>3, <2>1, <2>2 DEF Unmoved
<1>6. CASE RouterStep
  <2>1. PICK n \in Routers, d \in Decisions :
          /\ d.outcome \in DOMAIN Route[n]
          /\ Node(n, <<Stamp(d)>>, record_decision(d), Route[n][d.outcome])
    BY <1>6, RouterEffect
  <2> QED
    BY <2>1, RouteShape, ReplayDecides DEF Deciders
<1>7. CASE NetworkSeed
  <2>1. PICK stamps \in Seq(QuietRecords), ns \in CaseStates :
          Node("network_seed", stamps, ns, "network_hop") /\ ns.decisions = state.decisions
    BY <1>7, SeedEffect
  <2>2. "network_seed" \in Nodes \ Deciders
    BY <1>1 DEF Nodes
  <2> QED
    BY <1>0, <1>3, <2>1, <2>2
<1>8. CASE NetworkHop
  <2>1. PICK ns \in CaseStates :
          Node("network_hop", << >>, ns, "decide_expand") /\ ns.decisions = state.decisions
    BY <1>8, HopEffect
  <2>2. "network_hop" \in Nodes \ Deciders
    BY <1>1 DEF Nodes
  <2> QED
    BY <1>0, <1>3, <2>1, <2>2
<1>9. CASE HumanReferral
  <2>1. PICK ns \in CaseStates :
           /\ Node("human_referral", Records(<<"human_referral">>), ns, "case_packager")
           /\ <<"human_referral">> \in Seq(TellingActions)
           /\ ns.decisions = state.decisions
    BY <1>9, ReferralEffect
  <2>2. <<"human_referral">> \in Seq(QuietActions \cup TellingActions)
    BY DEF TellingActions
  <2>3. "human_referral" \in Nodes \ Deciders
    BY <1>1 DEF Nodes
  <2>4. Records(<<"human_referral">>) \in Seq(Unstamped)
    BY <1>2, <2>2
  <2> QED
    BY <1>3, <2>1, <2>3, <2>4
<1>10. CASE SarDrafter
  <2>1. PICK actions \in Seq(QuietActions \cup TellingActions), ns \in CaseStates :
          Node("sar_drafter", Records(actions), ns, "decide_sar_bar")
          /\ ns.decisions = state.decisions
    BY <1>10, DrafterEffect
  <2>2. "sar_drafter" \in Nodes \ Deciders
    BY <1>1 DEF Nodes
  <2>3. Records(actions) \in Seq(Unstamped)
    BY <1>2
  <2> QED
    BY <1>3, <2>1, <2>2, <2>3
<1>11. CASE DecideSarBar
  <2>1. PICK d \in Decisions :
          Node("decide_sar_bar", <<Stamp(d)>>, record_decision(d), "case_packager")
    BY <1>11, SarBarEffect
  <2>2. "decide_sar_bar" \in Deciders \ Routers /\ "decide_sar_bar" \in Nodes
    BY DEF Deciders, Routers, Route, Nodes
  <2> QED
    BY <2>1, <2>2, ReplayDecides
<1>12. Records(<<"packaged">>) \in Seq(Unstamped)
       /\ Records(<<"case_recorded">>) \in Seq(Unstamped)
  <2>1. <<"packaged">> \in Seq(QuietActions \cup TellingActions)
        /\ <<"case_recorded">> \in Seq(QuietActions \cup TellingActions)
    BY DEF QuietActions
  <2> QED
    BY <1>2, <2>1
<1>13. CASE CasePackager
  <2> DEFINE p == [disposition |-> Disposition, trace |-> state.decisions,
                   refs |-> Len(log)]
  <2>1. /\ \/ Returns("case_packager", Records(<<"packaged">>), state, "case_graph_record")
           \/ Raises("case_packager", Records(<<"packaged">>))
        /\ package' = {p} \/ package' = package
        /\ row' = row
    BY <1>13 DEF CasePackager
  <2>2. p.trace = state.decisions /\ p.refs = Len(log)
    OBVIOUS
  <2>3. "case_packager" \in Nodes \ Deciders
    BY <1>1 DEF Nodes
  <2> HIDE DEF p
  <2> QED
    BY <1>12, <2>1, <2>2, <2>3, ReplaySilent
<1>14. CASE CaseGraphRecord
  <2> DEFINE r == [disposition |-> Disposition, trace |-> state.decisions,
                   outcome |-> {d.outcome : d \in SarBars}, count |-> Len(log)]
  <2>1. /\ \/ Returns("case_graph_record", Records(<<"case_recorded">>), state,
                     "audit_finalize")
           \/ Raises("case_graph_record", Records(<<"case_recorded">>))
        /\ row' = {r} \/ row' = row
        /\ package' = package
    BY <1>14 DEF CaseGraphRecord
  <2>2. r.trace = state.decisions /\ r.count = Len(log)
    OBVIOUS
  <2>3. "case_graph_record" \in Nodes \ Deciders
    BY <1>1 DEF Nodes
  <2> HIDE DEF r
  <2> QED
    BY <1>12, <2>1, <2>2, <2>3, ReplaySilent
<1> QED
  BY <1>4, <1>5, <1>6, <1>7, <1>8, <1>9, <1>10, <1>11, <1>13, <1>14, StepKinds

LEMMA ReplayImplies == GraphTypeOK /\ ReplayInv => PathIsReplayable
<1> SUFFICES ASSUME GraphTypeOK, ReplayInv PROVE PathIsReplayable
  OBVIOUS
<1> DEFINE stamps == StampedIn(log)
<1>1. path \in Seq(Nodes)
  BY DEF GraphTypeOK
<1>2. ASSUME NEW i \in 1..Len(path), path[i] \in Routers
      PROVE  Append(path, node)[i + 1] \in
               {Route[path[i]][stamps[Taken(path, i)].outcome], "raised"}
  <2>1. Taken(path, i) \in 1..Len(state.decisions)
    BY <1>1, <1>2, TakenBounds DEF ReplayInv, Deciders
  <2>2. stamps[Taken(path, i)] = state.decisions[Taken(path, i)]
    BY <2>1 DEF ReplayInv
  <2> QED
    BY <1>2, <2>2 DEF ReplayInv, Branches
<1> QED
  BY <1>2 DEF PathIsReplayable, ReplayInv, Taken, Deciders

\* For every hop request, network, number of matches, claims and passes: the
\* path the run took and the decisions its chain stamps cannot disagree, and
\* the traces packaged and stored are the chain's (_record_decision and the
\* conditional edges of graph.py).
THEOREM RunsAreReplayable == Spec => []PathIsReplayable
<1>1. Init => GraphTypeOK /\ ReplayInv
  BY InitGraphTypeOK, InitReplayInv
<1>2. GraphTypeOK /\ ReplayInv /\ [Next]_vars => (GraphTypeOK /\ ReplayInv)'
  BY GraphTypeStep, ReplayStep
<1> QED
  BY <1>1, <1>2, ReplayImplies, PTL DEF Spec
-----------------------------------------------------------------------------
(* The disposition is grounded *)

Untelling == {x \in AuditRecords : x.action \notin TellingActions}

\* What is logged after a step is what was, and what the step added.
LEMMA LoggedGrows ==
  ASSUME GraphTypeOK, NEW added \in Seq(AuditRecords), log' = log \o added
  PROVE  \A a \in TellingActions :
           Logged(a)' # {} <=> Logged(a) # {} \/ \E i \in 1..Len(added) : added[i].action = a
<1>1. /\ log \in Seq(AuditRecords) /\ Len(log) \in Nat /\ Len(added) \in Nat
      /\ Len(log') = Len(log) + Len(added)
      /\ \A i \in 1..Len(log) : log'[i] = log[i]
      /\ \A i \in 1..Len(added) : log'[Len(log) + i] = added[i]
  BY Concatenation DEF GraphTypeOK
<1> TAKE a \in TellingActions
<1>2. ASSUME NEW i \in Logged(a)' PROVE Logged(a) # {} \/ \E j \in 1..Len(added) : added[j].action = a
  <2>1. i \in 1..(Len(log) + Len(added)) /\ log'[i].action = a
    BY <1>1, <1>2 DEF Logged
  <2>2. CASE i \in 1..Len(log)
    BY <1>1, <2>1, <2>2 DEF Logged
  <2>3. CASE i \notin 1..Len(log)
    <3>1. i - Len(log) \in 1..Len(added) /\ Len(log) + (i - Len(log)) = i
      BY <1>1, <2>1, <2>3
    <3> QED
      BY <1>1, <2>1, <3>1
  <2> QED
    BY <2>2, <2>3
<1>3. ASSUME NEW i \in Logged(a) PROVE i \in Logged(a)'
  BY <1>1, <1>3 DEF Logged
<1>4. ASSUME NEW i \in 1..Len(added), added[i].action = a
      PROVE  Len(log) + i \in Logged(a)'
  <2>1. Len(log) + i \in 1..Len(log')
    BY <1>1
  <2> QED
    BY <1>1, <1>4, <2>1 DEF Logged
<1> QED
  BY <1>2, <1>3, <1>4

\* Records that tell no disposition leave what is told.
LEMMA UntellingKeeps ==
  ASSUME GraphTypeOK, NEW added \in Seq(Untelling), log' = log \o added
  PROVE  /\ \A a \in TellingActions : Logged(a)' # {} <=> Logged(a) # {}
         /\ \A d : Shows(d)' <=> Shows(d)
<1>1. added \in Seq(AuditRecords) /\ \A i \in 1..Len(added) : added[i].action \notin TellingActions
  BY DEF Untelling
<1>2. \A a \in TellingActions : Logged(a)' # {} <=> Logged(a) # {}
  BY <1>1, LoggedGrows
<1>3. {"human_referral", "drafted", "converged", "human_fallback"} = TellingActions
  BY DEF TellingActions
<1>4. \A d : Shows(d)' <=> Shows(d)
  BY <1>2, <1>3 DEF Shows
<1> QED
  BY <1>2, <1>4

\* A node that raises with nothing published grounds nothing.
LEMMA GroundedRaise ==
  ASSUME node' = "raised", package' = {}, row' = {}
  PROVE  GroundedInv'
  BY DEF GroundedInv, DispositionIsGrounded, OpenNodes, Nodes

\* Before the draft or the referral.
LEMMA GroundedOpen ==
  ASSUME GraphTypeOK, GraphInv, GroundedInv,
         NEW n \in OpenNodes \ {"decide_sar_bar"},
         NEW next \in OpenNodes \ {"decide_sar_bar"},
         NEW stamps \in Seq(Untelling), NEW ns, Node(n, stamps, ns, next)
  PROVE  GroundedInv'
<1>1. PICK added \in Seq(Untelling) :
        /\ log' = log \o added
        /\ \/ node' = next
           \/ node' = "raised"
  BY NodeEffect DEF Node
<1>2. node = n /\ package' = {} /\ row' = {}
  BY DEF Node, Returns, Raises, GraphInv
<1>3. \A a \in TellingActions : Logged(a)' = {}
  BY <1>1, <1>2, UntellingKeeps DEF GroundedInv
<1>4. CASE node' = next
  BY <1>2, <1>3, <1>4 DEF GroundedInv, DispositionIsGrounded, OpenNodes, Nodes
<1> QED
  BY <1>1, <1>2, <1>4, GroundedRaise

\* What is published stays shown.
LEMMA PublishedKept ==
  ASSUME GraphTypeOK, GroundedInv, NEW added \in Seq(Untelling), log' = log \o added,
         \A p \in package' \cup row' :
            p \in package \cup row \/ Shows(p.disposition)
  PROVE  DispositionIsGrounded'
<1>1. \A d : Shows(d)' <=> Shows(d)
  BY UntellingKeeps
<1>2. \A p \in package \cup row : Shows(p.disposition)
  BY DEF GroundedInv, DispositionIsGrounded, Shows
<1>3. ASSUME NEW p \in package' \cup row'
      PROVE  Shows(p.disposition)'
  <2>1. Shows(p.disposition)
    BY <1>2, <1>3
  <2> QED
    BY <1>1, <2>1
<1> QED
  BY <1>3 DEF DispositionIsGrounded, Shows

\* The drafter tells of a draft, converged or fallen back.
LEMMA GroundedDrafter ==
  ASSUME GraphTypeOK, GraphInv, GroundedInv, SarDrafter
  PROVE  GroundedInv'
<1>1. PICK actions \in Seq(QuietActions \cup TellingActions), ns \in CaseStates :
        /\ Node("sar_drafter", Records(actions), ns, "decide_sar_bar")
        /\ {actions[i] : i \in 1..Len(actions)} \cap TellingActions =
              {"drafted", IF ns.converged THEN "converged" ELSE "human_fallback"}
  BY DrafterEffect
<1>2. node = "sar_drafter" /\ package' = {} /\ row' = {}
  BY <1>1 DEF Node, Returns, Raises, GraphInv, OpenNodes, Nodes
<1>3. CASE node' = "raised"
  BY <1>2, <1>3, GroundedRaise
<1>4. CASE node' # "raised"
  <2> DEFINE rs == Records(actions)
  <2>1. node' = "decide_sar_bar" /\ state' = ns /\ log' = log \o rs
    BY <1>1, <1>4 DEF Node, Returns, Raises
  <2>2. /\ rs \in Seq(AuditRecords) /\ Len(rs) = Len(actions)
        /\ \A i \in 1..Len(actions) : rs[i].action = actions[i]
    <3>1. actions \in Seq(Actions)
      BY DEF Actions
    <3> QED
      BY <3>1, RecordsShape
  <2> HIDE DEF rs
  <2>3. \A a \in TellingActions : Logged(a) = {}
    BY <1>2 DEF GroundedInv, OpenNodes, Nodes
  <2>4. \A a \in TellingActions : Logged(a)' # {} <=>
          a \in {"drafted", IF ns.converged THEN "converged" ELSE "human_fallback"}
    <3> DEFINE told == {"drafted", IF ns.converged THEN "converged" ELSE "human_fallback"}
    <3>1. {actions[i] : i \in 1..Len(actions)} \cap TellingActions = told
      BY <1>1
    <3> HIDE DEF told
    <3>2. \A a \in TellingActions : (\E i \in 1..Len(rs) : rs[i].action = a) <=> a \in told
      BY <2>2, <3>1
    <3>3. \A a \in TellingActions : Logged(a)' # {} <=> a \in told
      BY <2>1, <2>2, <2>3, <3>2, LoggedGrows
    <3> QED
      BY <3>3 DEF told
  <2>5. ns.converged \in BOOLEAN
    BY DEF CaseStates
  <2>6. decide_sar_bar(state.converged).outcome' =
          IF ns.converged THEN "clears_bar" ELSE "human_review"
    BY <2>1, <2>5 DEF decide_sar_bar, Decided
  <2>7. TellingActions = {"human_referral", "drafted", "converged", "human_fallback"}
    BY DEF TellingActions
  <2>8. Shows(decide_sar_bar(state.converged).outcome)'
    BY <2>4, <2>5, <2>6, <2>7 DEF Shows
  <2> QED
    BY <1>2, <2>1, <2>8 DEF GroundedInv, DispositionIsGrounded, OpenNodes
<1> QED
  BY <1>3, <1>4

\* A referral tells that there is none.
LEMMA GroundedReferral ==
  ASSUME GraphTypeOK, GraphInv, GroundedInv, HumanReferral
  PROVE  GroundedInv'
<1>1. PICK ns \in CaseStates :
        /\ Node("human_referral", Records(<<"human_referral">>), ns, "case_packager")
        /\ ns.sar = "none"
  BY ReferralEffect
<1>2. node = "human_referral" /\ package' = {} /\ row' = {}
  BY <1>1 DEF Node, Returns, Raises, GraphInv, OpenNodes, Nodes
<1>3. CASE node' = "raised"
  BY <1>2, <1>3, GroundedRaise
<1>4. CASE node' # "raised"
  <2> DEFINE as == <<"human_referral">>
             rs == Records(as)
  <2>1. node' = "case_packager" /\ state' = ns /\ log' = log \o rs
    BY <1>1, <1>4 DEF Node, Returns, Raises
  <2>2. as \in Seq(Actions) /\ Len(as) = 1 /\ as[1] = "human_referral"
    BY DEF Actions, TellingActions
  <2> HIDE DEF as
  <2>3. rs \in Seq(AuditRecords) /\ Len(rs) = 1 /\ rs[1].action = "human_referral"
    <3>1. 1 \in 1..Len(as)
      BY <2>2
    <3> QED
      BY <2>2, <3>1, RecordsShape
  <2> HIDE DEF rs
  <2>4. \A a \in TellingActions : Logged(a) = {}
    BY <1>2 DEF GroundedInv, OpenNodes, Nodes
  <2>5. \A a \in TellingActions : Logged(a)' # {} <=> a = "human_referral"
    <3>1. \A a : (\E i \in 1..Len(rs) : rs[i].action = a) <=> a = "human_referral"
      BY <2>3
    <3> QED
      BY <2>1, <2>3, <2>4, <3>1, LoggedGrows
  <2>6. Disposition' = "insufficient_evidence"
    BY <1>1, <2>1 DEF Disposition
  <2>7. TellingActions = {"human_referral", "drafted", "converged", "human_fallback"}
    BY DEF TellingActions
  <2>8. Shows(Disposition)'
    BY <2>5, <2>6, <2>7 DEF Shows
  <2> QED
    BY <1>2, <2>1, <2>8 DEF GroundedInv, DispositionIsGrounded, OpenNodes
<1> QED
  BY <1>3, <1>4

\* The decision on the bar agrees with what the drafter told.
LEMMA GroundedSarBar ==
  ASSUME GraphTypeOK, GraphInv, GroundedInv, DecideSarBar
  PROVE  GroundedInv'
<1>1. PICK d \in Decisions :
        /\ d.decision_id = "sar_bar" /\ d = decide_sar_bar(state.converged)
        /\ Node("decide_sar_bar", <<Stamp(d)>>, record_decision(d), "case_packager")
  BY SarBarEffect
<1> DEFINE ns == record_decision(d)
<1>2. /\ node = "decide_sar_bar" /\ package' = {} /\ row' = {}
      /\ SarBars = {} /\ state.sar # "none"
  BY <1>1 DEF Node, Returns, Raises, GraphInv, OpenNodes, Nodes
<1>3. CASE node' = "raised"
  BY <1>2, <1>3, GroundedRaise
<1>4. CASE node' # "raised"
  <2>1. node' = "case_packager" /\ state' = ns /\ log' = log \o <<Stamp(d)>>
    BY <1>1, <1>4 DEF Node, Returns, Raises
  <2>2. ns.sar = state.sar /\ Range(ns.decisions) = Range(state.decisions) \cup {d}
    BY RecordedDecision
  <2> HIDE DEF ns
  <2>3. SarBars' = {d} /\ state'.sar # "none"
    BY <1>1, <1>2, <2>1, <2>2 DEF SarBars
  <2>4. Disposition' = d.outcome
    BY <2>3 DEF Disposition
  <2>5. <<Stamp(d)>> \in Seq(Untelling)
    <3>1. Stamp(d) \in Untelling
      BY StampShape DEF Untelling, TellingActions
    <3> QED
      BY <3>1
  <2>6. Shows(d.outcome)
    BY <1>1, <1>2 DEF GroundedInv
  <2>7. Shows(d.outcome)'
    BY <2>1, <2>5, <2>6, UntellingKeeps
  <2>8. Shows(Disposition)'
    BY <2>4, <2>7
  <2> QED
    BY <1>2, <2>1, <2>8 DEF GroundedInv, DispositionIsGrounded, OpenNodes
<1> QED
  BY <1>3, <1>4

\* What is published is the disposition the records tell.
LEMMA GroundedPublish ==
  ASSUME GraphTypeOK, GraphInv, GroundedInv, CasePackager \/ CaseGraphRecord
  PROVE  GroundedInv'
<1>1. /\ node \in {"case_packager", "case_graph_record"} /\ state' = state
      /\ node' \in {"case_graph_record", "audit_finalize", "raised"}
  BY DEF CasePackager, CaseGraphRecord, Returns, Raises
<1>2. Shows(Disposition) /\ Disposition' = Disposition
  BY <1>1 DEF GroundedInv, Disposition, SarBars
<1>3. PICK added \in Seq(Untelling) : log' = log \o added
  <2>1. Records(<<"packaged">>) \in Seq(Untelling)
        /\ Records(<<"case_recorded">>) \in Seq(Untelling)
    <3>1. <<"packaged">> \in Seq(QuietActions) /\ <<"case_recorded">> \in Seq(QuietActions)
      BY DEF QuietActions
    <3>2. \A s \in Seq(QuietRecords) : s \in Seq(Untelling)
      <4>1. QuietRecords \subseteq Untelling
        BY DEF QuietRecords, Untelling, QuietActions, TellingActions
      <4> QED
        BY <4>1
    <3> QED
      BY <3>1, <3>2, QuietShape
  <2>2. \/ Returns("case_packager", Records(<<"packaged">>), state, "case_graph_record")
           \/ Raises("case_packager", Records(<<"packaged">>))
        \/ Returns("case_graph_record", Records(<<"case_recorded">>), state,
                     "audit_finalize")
           \/ Raises("case_graph_record", Records(<<"case_recorded">>))
    BY DEF CasePackager, CaseGraphRecord
  <2> QED
    BY <2>1, <2>2, NodeEffect
<1>4. ASSUME NEW p \in package' \cup row', p \notin package \cup row
      PROVE  Shows(p.disposition)
  <2> DEFINE built == [disposition |-> Disposition, trace |-> state.decisions,
                       refs |-> Len(log)]
             upserted == [disposition |-> Disposition, trace |-> state.decisions,
                          outcome |-> {d.outcome : d \in SarBars}, count |-> Len(log)]
  <2>1. p \in {built, upserted}
    BY <1>4 DEF CasePackager, CaseGraphRecord
  <2>2. built.disposition = Disposition /\ upserted.disposition = Disposition
    OBVIOUS
  <2> HIDE DEF built, upserted
  <2> QED
    BY <1>2, <2>1, <2>2
<1>5. DispositionIsGrounded'
  BY <1>3, <1>4, PublishedKept
<1>6. Shows(Disposition)'
  BY <1>2, <1>3, UntellingKeeps
<1> QED
  BY <1>1, <1>5, <1>6 DEF GroundedInv, OpenNodes, Nodes

LEMMA GroundedStep ==
  ASSUME GraphTypeOK, GraphInv, GroundedInv, [Next]_vars
  PROVE  GroundedInv'
<1>0. /\ \A s \in Seq(QuietRecords) : s \in Seq(Untelling)
      /\ \A d \in Decisions : <<Stamp(d)>> \in Seq(Untelling)
      /\ << >> \in Seq(Untelling)
  <2>1. QuietRecords \subseteq Untelling
    BY DEF QuietRecords, Untelling, QuietActions, TellingActions
  <2>2. \A d \in Decisions : Stamp(d) \in Untelling
    BY StampShape DEF Untelling, TellingActions
  <2> QED
    BY <2>1, <2>2
<1>1. CASE UNCHANGED vars
  BY <1>1 DEF vars, GroundedInv, Logged, Shows, Disposition, SarBars, DispositionIsGrounded
<1>2. CASE PlainStep
  <2>1. PICK n \in DOMAIN Onward, stamps \in Seq(QuietRecords), ns \in CaseStates :
          Node(n, stamps, ns, Onward[n]) /\ Unmoved(ns)
    BY <1>2 DEF PlainStep
  <2>2. CASE n # "audit_finalize"
    <3>1. /\ n \in OpenNodes \ {"decide_sar_bar"}
          /\ Onward[n] \in OpenNodes \ {"decide_sar_bar"}
      BY <2>2, Edges DEF OpenNodes, Nodes
    <3> QED
      BY <1>0, <2>1, <3>1, GroundedOpen
  <2>3. CASE n = "audit_finalize"
    <3>1. UNCHANGED <<package, row>> /\ node' \in {"end", "raised"}
      BY <2>1, <2>3, Edges DEF Node, Returns, Raises
    <3>2. PICK added \in Seq(QuietRecords) : log' = log \o added
      BY <2>1, NodeEffect DEF Node
    <3>3. DispositionIsGrounded'
      BY <1>0, <3>1, <3>2, PublishedKept
    <3> QED
      BY <3>1, <3>3 DEF GroundedInv, OpenNodes, Nodes
  <2> QED
    BY <2>2, <2>3
<1>3. CASE RouterStep
  <2>1. PICK n \in Routers, d \in Decisions :
          /\ d.outcome \in DOMAIN Route[n]
          /\ Node(n, <<Stamp(d)>>, record_decision(d), Route[n][d.outcome])
    BY <1>3, RouterEffect
  <2>2. /\ n \in OpenNodes \ {"decide_sar_bar"}
        /\ Route[n][d.outcome] \in OpenNodes \ {"decide_sar_bar"}
    <3>1. Routers = {"decide_expand", "decide_second_advisory", "decide_re_rfi",
                     "decide_sufficiency"}
      BY DEF Routers, Route
    <3>2. /\ DOMAIN Route["decide_expand"] = {"continue", "stop_cap", "stop_frontier_exhausted"}
          /\ DOMAIN Route["decide_second_advisory"] = {"pull_second", "single_match", "no_match"}
          /\ DOMAIN Route["decide_re_rfi"] =
                {"recommend_re_rfi", "no_contradictions", "not_applicable"}
          /\ DOMAIN Route["decide_sufficiency"] = {"sufficient", "insufficient"}
      BY DEF Route
    <3> QED
      BY <2>1, <3>1, <3>2, Routes DEF OpenNodes, Nodes
  <2> QED
    BY <1>0, <2>1, <2>2, GroundedOpen
<1>4. CASE NetworkSeed
  <2>1. PICK stamps \in Seq(QuietRecords), ns \in CaseStates :
          Node("network_seed", stamps, ns, "network_hop")
    BY <1>4, SeedEffect
  <2> QED
    BY <1>0, <2>1, GroundedOpen DEF OpenNodes, Nodes
<1>5. CASE NetworkHop
  <2>1. PICK ns \in CaseStates : Node("network_hop", << >>, ns, "decide_expand")
    BY <1>5, HopEffect
  <2> QED
    BY <1>0, <2>1, GroundedOpen DEF OpenNodes, Nodes
<1> QED
  BY <1>1, <1>2, <1>3, <1>4, <1>5, StepKinds, GroundedDrafter, GroundedReferral,
     GroundedSarBar, GroundedPublish

\* For every hop request, network, number of matches, claims and passes: a
\* disposition is packaged or stored only if the chain shows the referral, the
\* convergence or the fallback it stands for, also by a node that raises
\* (build_package, _record_case).
THEOREM DispositionsAreGrounded == Spec => []DispositionIsGrounded
<1>1. Init => GraphTypeOK /\ GraphInv /\ GroundedInv
  <2>1. Init => GroundedInv
    BY DEF Init, GroundedInv, DispositionIsGrounded, Logged
  <2> QED
    BY <2>1, InitGraphTypeOK, InitGraphInv
<1>2. GraphTypeOK /\ GraphInv /\ GroundedInv /\ [Next]_vars
        => (GraphTypeOK /\ GraphInv /\ GroundedInv)'
  BY GraphTypeStep, GraphInvStep, GroundedStep
<1>3. GroundedInv => DispositionIsGrounded
  BY DEF GroundedInv
<1> QED
  BY <1>1, <1>2, <1>3, PTL DEF Spec
-----------------------------------------------------------------------------
(* The expansion is complete *)

LEMMA RankBound == \A n \in Nodes \cup {"end", "raised"} : Rank[n] \in 0..21
  BY DEF Rank, Nodes

\* How far a node is along the graph, but for the hops of the walk.
LEMMA Ranks ==
  /\ Rank["case_open"] = 0 /\ Rank["profile_aggregator"] = 1 /\ Rank["network_seed"] = 2
  /\ Rank["network_hop"] = 3 /\ Rank["decide_expand"] = 2 /\ Rank["network_finalize"] = 3
  /\ Rank["risk_scorer"] = 4 /\ Rank["designation_check"] = 5
  /\ Rank["entity_backbone"] = 6 /\ Rank["remark_miner"] = 7
  /\ Rank["advisory_matcher"] = 8 /\ Rank["decide_second_advisory"] = 9
  /\ Rank["attach_secondary"] = 10 /\ Rank["rfi_reader"] = 11 /\ Rank["rfi_checker"] = 12
  /\ Rank["decide_re_rfi"] = 13 /\ Rank["draft_rfi_followup"] = 14
  /\ Rank["decide_sufficiency"] = 15 /\ Rank["sar_drafter"] = 16
  /\ Rank["human_referral"] = 16 /\ Rank["decide_sar_bar"] = 17
  /\ Rank["case_packager"] = 18 /\ Rank["case_graph_record"] = 19
  /\ Rank["audit_finalize"] = 20 /\ Rank["end"] = 21 /\ Rank["raised"] = 21
  BY DEF Rank

\* The numbers the bound on the path is about.
LEMMA PathNumbers ==
  ASSUME GraphTypeOK, ExpansionInv
  PROVE  /\ Len(path) \in Nat /\ state.hops \in Nat /\ Rank[node] \in 0..21
         /\ Len(path) <= Rank[node] + 2 * state.hops
<1>1. Len(path) \in Nat /\ state.hops \in Nat
  BY DEF GraphTypeOK, CaseStates
<1>2. Rank[node] \in 0..21
  BY RankBound DEF GraphTypeOK
<1> QED
  BY <1>1, <1>2 DEF ExpansionInv

LEMMA RangeAppend ==
  ASSUME NEW p \in Seq(Nodes), NEW n \in Nodes
  PROVE  Range(Append(p, n)) = Range(p) \cup {n} /\ Len(Append(p, n)) = Len(p) + 1
<1> DEFINE q == Append(p, n)
<1>1. q \in Seq(Nodes) /\ Len(q) = Len(p) + 1 /\ q[Len(p) + 1] = n
      /\ DOMAIN q = 1..(Len(p) + 1) /\ DOMAIN p = 1..Len(p) /\ Len(p) \in Nat
      /\ \A i \in 1..Len(p) : q[i] = p[i]
  OBVIOUS
<1> HIDE DEF q
<1>2. Range(q) = Range(p) \cup {n}
  BY <1>1 DEF Range
<1> QED
  BY <1>1, <1>2 DEF q

\* A raise leaves the walk where it was.
LEMMA ExpansionRaise ==
  ASSUME GraphTypeOK, ExpansionInv, node \in Nodes,
         node' = "raised", state' = state, path' = path
  PROVE  ExpansionInv'
<1>1. Rank["raised"] = 21
  BY Ranks
<1>2. Len(path) <= 21 + 2 * state.hops
  <2>1. /\ Len(path) \in Nat /\ state.hops \in Nat /\ Rank[node] \in 0..21
        /\ Len(path) <= Rank[node] + 2 * state.hops
    BY PathNumbers
  <2> DEFINE k == Rank[node]
  <2>2. k \in 0..21 /\ Len(path) <= k + 2 * state.hops
    BY <2>1
  <2> HIDE DEF k
  <2> QED
    BY <2>1, <2>2
<1> QED
  BY <1>1, <1>2 DEF ExpansionInv, Exhausted, WalkNodes

\* Once the walk is over.
LEMMA ExpansionOver ==
  ASSUME GraphTypeOK, ExpansionInv, NEW n \in Nodes \ WalkNodes,
         NEW next \in (Nodes \cup {"end"}) \ WalkNodes,
         Rank[n] < Rank[next],
         NEW S, NEW stamps \in Seq(S), NEW ns,
         ns.cap = state.cap, ns.reach = state.reach, ns.hops = state.hops,
         Returns(n, stamps, ns, next) \/ Raises(n, stamps)
  PROVE  ExpansionInv'
<1>1. /\ node = n
      /\ \/ node' = next /\ state' = ns /\ path' = Append(path, n)
         \/ node' = "raised" /\ state' = state /\ path' = path
  BY DEF Returns, Raises
<1>2. CASE node' = "raised" /\ state' = state /\ path' = path
  BY <1>1, <1>2, ExpansionRaise
<1>3. CASE node' = next /\ state' = ns /\ path' = Append(path, n)
  <2>1. Range(path') = Range(path) \cup {n} /\ Len(path') = Len(path) + 1
    BY <1>3, RangeAppend DEF GraphTypeOK
  <2>2. Exhausted /\ Exhausted'
    BY <1>1, <1>3 DEF ExpansionInv, Exhausted, Nodes
  <2>3. Len(path') <= Rank[node'] + 2 * state'.hops
    <3>1. /\ Rank[n] \in Nat /\ Rank[next] \in Nat /\ Rank[n] < Rank[next]
          /\ Len(path) \in Nat /\ state.hops \in Nat
          /\ Len(path) <= Rank[n] + 2 * state.hops
      <4>1. Rank[n] \in Nat /\ Rank[next] \in Nat
        <5> DEFINE k == Rank[n]
                   m == Rank[next]
        <5>1. k \in 0..21 /\ m \in 0..21
          BY RankBound
        <5> HIDE DEF k, m
        <5>2. k \in Nat /\ m \in Nat
          BY <5>1
        <5> QED
          BY <5>2 DEF k, m
      <4>2. /\ Len(path) \in Nat /\ state.hops \in Nat
            /\ Len(path) <= Rank[n] + 2 * state.hops
        BY <1>1, PathNumbers
      <4> QED
        BY <4>1, <4>2
    <3> QED
      BY <1>3, <2>1, <3>1
  <2>4. state'.hops <= MAX_HOPS_LIMIT
    BY <1>3 DEF ExpansionInv
  <2>5. node' \notin WalkNodes /\ node' # "raised"
    BY <1>3 DEF Nodes
  <2> QED
    BY <2>2, <2>3, <2>4, <2>5 DEF ExpansionInv, WalkNodes
<1> QED
  BY <1>1, <1>2, <1>3

\* The walk: opening, seeding, a hop, and what decide_expand makes of it.
LEMMA ExpansionOpens ==
  ASSUME GraphTypeOK, ExpansionInv, NEW n \in {"case_open", "profile_aggregator"},
         NEW S, NEW stamps \in Seq(S), NEW ns, ns.hops = state.hops,
         Node(n, stamps, ns, Onward[n])
  PROVE  ExpansionInv'
<1>1. /\ node = n
      /\ \/ node' = Onward[n] /\ state' = ns /\ path' = Append(path, n)
         \/ node' = "raised" /\ state' = state /\ path' = path
  BY DEF Node, Returns, Raises
<1>2. CASE node' = "raised" /\ state' = state /\ path' = path
  BY <1>1, <1>2, ExpansionRaise DEF Nodes
<1>3. CASE node' = Onward[n] /\ state' = ns /\ path' = Append(path, n)
  <2>1. Range(path') = Range(path) \cup {n} /\ Len(path') = Len(path) + 1
    BY <1>3, RangeAppend DEF GraphTypeOK, Nodes
  <2>2. /\ node' \in {"profile_aggregator", "network_seed"}
        /\ Rank[node'] = Rank[n] + 1 /\ Rank[n] \in Nat
    <3>1. /\ Rank["case_open"] = 0 /\ Rank["profile_aggregator"] = 1
          /\ Rank["network_seed"] = 2
      BY Ranks
    <3>2. Onward["case_open"] = "profile_aggregator"
          /\ Onward["profile_aggregator"] = "network_seed"
      BY Edges
    <3> QED
      BY <1>3, <3>1, <3>2
  <2>3. /\ state'.hops = 0 /\ "network_finalize" \notin Range(path')
        /\ Len(path) \in Nat /\ Len(path) <= Rank[n]
    <3>1. state.hops = 0 /\ "network_finalize" \notin Range(path)
      BY <1>1 DEF ExpansionInv, WalkNodes
    <3>2. Len(path) \in Nat /\ Len(path) <= Rank[n] /\ Rank[n] \in 0..21
      BY <1>1, <3>1, PathNumbers, SMTT(20)
    <3> QED
      BY <1>3, <2>1, <3>1, <3>2
  <2>4. Len(path') <= Rank[node'] + 2 * state'.hops
    BY <2>1, <2>2, <2>3
  <2>5. 0 <= MAX_HOPS_LIMIT
    BY CaseGraphAssumption
  <2> QED
    BY <2>2, <2>3, <2>4, <2>5 DEF ExpansionInv, WalkNodes
<1> QED
  BY <1>1, <1>2, <1>3

\* The walk starts, below its cap.
LEMMA ExpansionSeed ==
  ASSUME GraphTypeOK, ExpansionInv, NetworkSeed
  PROVE  ExpansionInv'
<1>1. PICK stamps \in Seq(QuietRecords), ns \in CaseStates :
        /\ Node("network_seed", stamps, ns, "network_hop")
        /\ ns.hops = state.hops /\ ns.cap = clamp_hops(state.max_hops)
  BY SeedEffect
<1>2. /\ node = "network_seed"
      /\ \/ node' = "network_hop" /\ state' = ns /\ path' = Append(path, "network_seed")
         \/ node' = "raised" /\ state' = state /\ path' = path
  BY <1>1 DEF Node, Returns, Raises
<1>3. CASE node' = "raised" /\ state' = state /\ path' = path
  BY <1>2, <1>3, ExpansionRaise DEF Nodes
<1>4. CASE node' = "network_hop" /\ state' = ns /\ path' = Append(path, "network_seed")
  <2>1. Range(path') = Range(path) \cup {"network_seed"} /\ Len(path') = Len(path) + 1
    BY <1>4, RangeAppend DEF GraphTypeOK, Nodes
  <2>2. ns.cap \in 1..MAX_HOPS_LIMIT
    <3>1. state.max_hops \in Int /\ MAX_HOPS_LIMIT \in Nat \ {0}
      BY CaseGraphAssumption DEF GraphTypeOK, CaseStates
    <3> QED
      BY <1>1, <3>1 DEF clamp_hops
  <2>3. /\ state'.hops = 0 /\ "network_finalize" \notin Range(path')
        /\ Len(path) \in Nat /\ Len(path) <= 2
    <3>1. state.hops = 0 /\ "network_finalize" \notin Range(path)
      BY <1>2 DEF ExpansionInv, WalkNodes
    <3>2. Len(path) \in Nat /\ Len(path) <= Rank["network_seed"]
      <4>1. Len(path) \in Nat /\ Len(path) <= Rank[node] + 2 * state.hops
        BY PathNumbers
      <4>2. Rank[node] = 2 /\ Rank["network_seed"] = 2
        BY <1>2, Ranks
      <4> QED
        BY <3>1, <4>1, <4>2
    <3> QED
      BY <1>1, <1>4, <2>1, <3>1, <3>2, Ranks
  <2>4. Len(path') <= Rank[node'] + 2 * state'.hops
    <3>1. Rank["network_hop"] = 3
      BY Ranks
    <3> QED
      BY <1>4, <2>1, <2>3, <3>1
  <2>5. state'.hops < state'.cap /\ state'.cap <= MAX_HOPS_LIMIT /\ 0 <= MAX_HOPS_LIMIT
    BY <1>4, <2>2, <2>3, CaseGraphAssumption
  <2> QED
    BY <1>4, <2>3, <2>4, <2>5 DEF ExpansionInv, WalkNodes
<1> QED
  BY <1>2, <1>3, <1>4

\* One hop more: two supersteps, and one hop nearer to the cap.
LEMMA ExpansionHop ==
  ASSUME GraphTypeOK, ExpansionInv, NetworkHop
  PROVE  ExpansionInv'
<1>1. PICK ns \in CaseStates :
        /\ Node("network_hop", << >>, ns, "decide_expand")
        /\ ns.cap = state.cap /\ ns.reach = state.reach
        /\ ns.hops = state.hops + 1
        /\ ns.new = IF state.hops + 1 <= state.reach THEN 1 ELSE 0
  BY HopEffect
<1>2. /\ node = "network_hop"
      /\ \/ node' = "decide_expand" /\ state' = ns /\ path' = Append(path, "network_hop")
         \/ node' = "raised" /\ state' = state /\ path' = path
  BY <1>1 DEF Node, Returns, Raises
<1>3. CASE node' = "raised" /\ state' = state /\ path' = path
  BY <1>2, <1>3, ExpansionRaise DEF Nodes
<1>4. CASE node' = "decide_expand" /\ state' = ns /\ path' = Append(path, "network_hop")
  <2>1. Range(path') = Range(path) \cup {"network_hop"} /\ Len(path') = Len(path) + 1
    BY <1>4, RangeAppend DEF GraphTypeOK, Nodes
  <2>2. /\ state.hops < state.cap /\ state.cap <= MAX_HOPS_LIMIT
        /\ state.hops \in Nat /\ state.cap \in Int /\ MAX_HOPS_LIMIT \in Nat
        /\ "network_finalize" \notin Range(path')
        /\ Len(path) \in Nat /\ Len(path) <= 3 + 2 * state.hops
    <3>1. Rank["network_hop"] = 3
      BY Ranks
    <3>2. state.cap \in Int
      BY DEF GraphTypeOK, CaseStates
    <3>3. "network_finalize" \notin Range(path) /\ state.hops < state.cap
          /\ state.cap <= MAX_HOPS_LIMIT
      BY <1>2 DEF ExpansionInv, WalkNodes
    <3> QED
      BY <1>2, <2>1, <3>1, <3>2, <3>3, CaseGraphAssumption, PathNumbers
  <2>3. Len(path') <= Rank[node'] + 2 * state'.hops
    <3>1. Rank["decide_expand"] = 2
      BY Ranks
    <3> QED
      BY <1>1, <1>4, <2>1, <2>2, <3>1
  <2>4. /\ state'.hops <= state'.cap /\ state'.cap <= MAX_HOPS_LIMIT
        /\ state'.hops <= MAX_HOPS_LIMIT
        /\ state'.new = IF state'.hops <= state'.reach THEN 1 ELSE 0
    BY <1>1, <1>4, <2>2
  <2> QED
    BY <1>4, <2>2, <2>3, <2>4 DEF ExpansionInv, WalkNodes
<1> QED
  BY <1>2, <1>3, <1>4

\* The walk stops at the cap or when the last hop found no account.
LEMMA ExpansionDecides ==
  ASSUME GraphTypeOK, ExpansionInv, DecideExpand
  PROVE  ExpansionInv'
<1> DEFINE d == decide_expand(state.hops, state.cap, state.new)
<1>1. /\ state.hops <= state.cap /\ state.cap <= MAX_HOPS_LIMIT
      /\ state.new = IF state.hops <= state.reach THEN 1 ELSE 0
      /\ state.hops \in Nat /\ state.cap \in Int /\ state.reach \in Nat
      /\ node = "decide_expand"
      /\ "network_finalize" \notin Range(path)
      /\ Len(path) \in Nat /\ Len(path) <= 2 + 2 * state.hops
  <2>1. node = "decide_expand"
    BY DEF DecideExpand, Decides, Node, Returns, Raises
  <2>2. Rank["decide_expand"] = 2
    BY Ranks
  <2>3. state.cap \in Int /\ state.reach \in Nat
    BY DEF GraphTypeOK, CaseStates
  <2>4. /\ state.hops <= state.cap /\ state.cap <= MAX_HOPS_LIMIT
        /\ state.new = IF state.hops <= state.reach THEN 1 ELSE 0
        /\ "network_finalize" \notin Range(path)
    BY <2>1 DEF ExpansionInv, WalkNodes
  <2> QED
    BY <2>1, <2>2, <2>3, <2>4, PathNumbers
<1>2. /\ d \in Decisions
      /\ d.outcome \in {"continue", "stop_cap", "stop_frontier_exhausted"}
      /\ d.outcome = "continue" => state.hops < state.cap
      /\ d.outcome # "continue" => Exhausted
  <2>1. PICK outcome \in {"continue", "stop_cap", "stop_frontier_exhausted"} :
          /\ d = Decided("expand_hop", outcome)
          /\ outcome = "continue" => state.hops < state.cap
          /\ outcome # "continue" => Exhausted
    <3>1. CASE state.hops >= state.cap
      BY <1>1, <3>1 DEF decide_expand, Exhausted
    <3>2. CASE state.hops < state.cap /\ state.new >= 1
      BY <1>1, <3>2 DEF decide_expand
    <3>3. CASE state.hops < state.cap /\ ~(state.new >= 1)
      BY <1>1, <3>3 DEF decide_expand, Exhausted
    <3> QED
      BY <1>1, <3>1, <3>2, <3>3
  <2> QED
    BY <2>1 DEF Decided, Decisions, Verdicts
<1>3. /\ LastOutcome(record_decision(d)) = d.outcome
      /\ record_decision(d).hops = state.hops /\ record_decision(d).cap = state.cap
      /\ record_decision(d).reach = state.reach
  BY <1>2, RecordedCase
<1>4. DecideExpand <=> Decides("decide_expand", d)
  BY DEF DecideExpand
<1> HIDE DEF d
<1>5. \/ /\ node' = Route["decide_expand"][d.outcome] /\ state' = record_decision(d)
         /\ path' = Append(path, "decide_expand")
      \/ node' = "raised" /\ state' = state /\ path' = path
  BY <1>3, <1>4 DEF Decides, Node, Returns, Raises
<1>6. CASE node' = "raised" /\ state' = state /\ path' = path
  BY <1>1, <1>6, ExpansionRaise DEF Nodes
<1>7. CASE /\ node' = Route["decide_expand"][d.outcome] /\ state' = record_decision(d)
           /\ path' = Append(path, "decide_expand")
  <2>1. Range(path') = Range(path) \cup {"decide_expand"} /\ Len(path') = Len(path) + 1
    BY <1>7, RangeAppend DEF GraphTypeOK, Nodes
  <2>2. /\ state'.hops = state.hops /\ state'.cap = state.cap /\ state'.reach = state.reach
        /\ state'.hops <= MAX_HOPS_LIMIT
        /\ "network_finalize" \notin Range(path')
    BY <1>1, <1>3, <1>7, <2>1, CaseGraphAssumption
  <2>3. CASE d.outcome = "continue"
    <3>1. node' = "network_hop"
      BY <1>7, <2>3, Routes
    <3>2. Len(path') <= Rank[node'] + 2 * state'.hops
      <4>1. Rank["network_hop"] = 3 /\ Rank["network_finalize"] = 3
        BY Ranks
      <4> QED
        BY <1>1, <2>1, <2>2, <3>1, <4>1
    <3> QED
      BY <1>1, <1>2, <2>2, <2>3, <3>1, <3>2 DEF ExpansionInv, WalkNodes
  <2>4. CASE d.outcome # "continue"
    <3>1. node' = "network_finalize"
      BY <1>2, <1>7, <2>4, Routes
    <3>2. Len(path') <= Rank[node'] + 2 * state'.hops
      <4>1. Rank["network_hop"] = 3 /\ Rank["network_finalize"] = 3
        BY Ranks
      <4> QED
        BY <1>1, <2>1, <2>2, <3>1, <4>1
    <3>3. Exhausted'
      BY <1>2, <2>2, <2>4 DEF Exhausted
    <3> QED
      BY <2>2, <3>1, <3>2, <3>3 DEF ExpansionInv, WalkNodes
  <2> QED
    BY <2>3, <2>4
<1> QED
  BY <1>5, <1>6, <1>7

LEMMA ExpansionStep ==
  ASSUME GraphTypeOK, ExpansionInv, [Next]_vars
  PROVE  ExpansionInv'
<1>1. CASE UNCHANGED vars
  BY <1>1 DEF vars, ExpansionInv, Exhausted
<1>2. CASE PlainStep
  <2>1. PICK n \in DOMAIN Onward, stamps \in Seq(QuietRecords), ns \in CaseStates :
          Node(n, stamps, ns, Onward[n]) /\ Unmoved(ns)
    BY <1>2 DEF PlainStep
  <2>2. CASE n \in {"case_open", "profile_aggregator"}
    BY <2>1, <2>2, ExpansionOpens DEF Unmoved
  <2>3. CASE n \notin {"case_open", "profile_aggregator"}
    <3>1. n \in Nodes \ WalkNodes /\ Onward[n] \in (Nodes \cup {"end"}) \ WalkNodes
      BY <2>3, Edges DEF Nodes, WalkNodes
    <3>2. Rank[n] < Rank[Onward[n]]
      <4>1. CASE n \in {"network_finalize", "risk_scorer", "designation_check",
                        "entity_backbone"}
        BY <4>1, Edges, Ranks, SMTT(20)
      <4>2. CASE n \in {"remark_miner", "advisory_matcher", "attach_secondary", "rfi_reader"}
        BY <4>2, Edges, Ranks, SMTT(20)
      <4>3. CASE n \in {"rfi_checker", "draft_rfi_followup", "audit_finalize"}
        BY <4>3, Edges, Ranks, SMTT(20)
      <4>4. n \in {"network_finalize", "risk_scorer", "designation_check",
                  "entity_backbone", "remark_miner", "advisory_matcher", "attach_secondary",
                  "rfi_reader", "rfi_checker", "draft_rfi_followup", "audit_finalize"}
        BY <2>3, Edges
      <4> QED
        BY <4>1, <4>2, <4>3, <4>4
    <3> QED
      BY <2>1, <3>1, <3>2, ExpansionOver DEF Unmoved, Node
  <2> QED
    BY <2>2, <2>3
<1>3. CASE DecideSecondAdvisory \/ DecideReRfi \/ DecideSufficiency
  <2>1. PICK n \in {"decide_second_advisory", "decide_re_rfi", "decide_sufficiency"},
             d \in Decisions :
          /\ d.outcome \in DOMAIN Route[n]
          /\ Node(n, <<Stamp(d)>>, record_decision(d), Route[n][d.outcome])
    <3>1. RouterStep
      BY <1>3, RouterNodes
    <3>2. PICK n \in Routers, d \in Decisions :
          /\ d.outcome \in DOMAIN Route[n]
          /\ Node(n, <<Stamp(d)>>, record_decision(d), Route[n][d.outcome])
      BY <3>1, RouterEffect
    <3>3. node = n /\ node \in {"decide_second_advisory", "decide_re_rfi", "decide_sufficiency"}
      BY <1>3, <3>2 DEF Node, Returns, Raises, Decides, DecideSecondAdvisory, DecideReRfi,
                        DecideSufficiency
    <3> QED
      BY <3>2, <3>3
  <2>2. /\ DOMAIN Route["decide_second_advisory"] = {"pull_second", "single_match", "no_match"}
        /\ DOMAIN Route["decide_re_rfi"] =
              {"recommend_re_rfi", "no_contradictions", "not_applicable"}
        /\ DOMAIN Route["decide_sufficiency"] = {"sufficient", "insufficient"}
    BY DEF Route
  <2>3. /\ n \in Nodes \ WalkNodes
        /\ Route[n][d.outcome] \in (Nodes \cup {"end"}) \ WalkNodes
        /\ Rank[n] < Rank[Route[n][d.outcome]]
    <3>1. CASE n = "decide_second_advisory"
      BY <2>1, <2>2, <3>1, Routes, Ranks DEF Nodes, WalkNodes
    <3>2. CASE n = "decide_re_rfi"
      BY <2>1, <2>2, <3>2, Routes, Ranks DEF Nodes, WalkNodes
    <3>3. CASE n = "decide_sufficiency"
      BY <2>1, <2>2, <3>3, Routes, Ranks DEF Nodes, WalkNodes
    <3> QED
      BY <3>1, <3>2, <3>3
  <2>4. /\ record_decision(d).hops = state.hops /\ record_decision(d).cap = state.cap
        /\ record_decision(d).reach = state.reach
    BY RecordedCase
  <2>5. <<Stamp(d)>> \in Seq({Stamp(d)})
    OBVIOUS
  <2> QED
    BY <2>1, <2>3, <2>4, <2>5, ExpansionOver DEF Node
<1>4. CASE HumanReferral
  <2>1. PICK ns \in CaseStates :
           /\ Node("human_referral", Records(<<"human_referral">>), ns, "case_packager")
           /\ <<"human_referral">> \in Seq(TellingActions)
           /\ ns.cap = state.cap /\ ns.reach = state.reach /\ ns.hops = state.hops
    BY <1>4, ReferralEffect
  <2>2. Records(<<"human_referral">>) \in Seq(AuditRecords)
    <3>1. <<"human_referral">> \in Seq(Actions)
      BY DEF Actions, TellingActions
    <3> QED
      BY <3>1, RecordsShape
  <2>3. Rank["human_referral"] < Rank["case_packager"]
    BY Ranks
  <2> QED
    BY <2>1, <2>2, <2>3, ExpansionOver DEF Node, Nodes, WalkNodes
<1>5. CASE SarDrafter
  <2>1. PICK actions \in Seq(QuietActions \cup TellingActions), ns \in CaseStates :
           /\ Node("sar_drafter", Records(actions), ns, "decide_sar_bar")
           /\ ns.cap = state.cap /\ ns.reach = state.reach /\ ns.hops = state.hops
    BY <1>5, DrafterEffect
  <2>2. Records(actions) \in Seq(AuditRecords)
    <3>1. actions \in Seq(Actions)
      BY DEF Actions
    <3> QED
      BY <3>1, RecordsShape
  <2>3. Rank["sar_drafter"] < Rank["decide_sar_bar"]
    BY Ranks
  <2> QED
    BY <2>1, <2>2, <2>3, ExpansionOver DEF Node, Nodes, WalkNodes
<1>6. CASE DecideSarBar
  <2>1. PICK d \in Decisions :
          Node("decide_sar_bar", <<Stamp(d)>>, record_decision(d), "case_packager")
    BY <1>6, SarBarEffect
  <2>2. /\ record_decision(d).hops = state.hops /\ record_decision(d).cap = state.cap
        /\ record_decision(d).reach = state.reach
    BY RecordedCase
  <2>3. Rank["decide_sar_bar"] < Rank["case_packager"]
    BY Ranks
  <2>4. <<Stamp(d)>> \in Seq({Stamp(d)})
    OBVIOUS
  <2> QED
    BY <2>1, <2>2, <2>3, <2>4, ExpansionOver DEF Node, Nodes, WalkNodes
<1>7. CASE CasePackager \/ CaseGraphRecord
  <2>1. Records(<<"packaged">>) \in Seq(AuditRecords)
        /\ Records(<<"case_recorded">>) \in Seq(AuditRecords)
    <3>1. <<"packaged">> \in Seq(Actions) /\ <<"case_recorded">> \in Seq(Actions)
      BY DEF Actions, QuietActions
    <3> QED
      BY <3>1, RecordsShape
  <2>2. Rank["case_packager"] < Rank["case_graph_record"]
        /\ Rank["case_graph_record"] < Rank["audit_finalize"]
    BY Ranks
  <2>3. CASE CasePackager
    BY <2>1, <2>2, <2>3, ExpansionOver DEF CasePackager, Nodes, WalkNodes
  <2>4. CASE CaseGraphRecord
    BY <2>1, <2>2, <2>4, ExpansionOver DEF CaseGraphRecord, Nodes, WalkNodes
  <2> QED
    BY <1>7, <2>3, <2>4
<1>8. Next => \/ PlainStep \/ DecideExpand \/ DecideSecondAdvisory \/ DecideReRfi
              \/ DecideSufficiency \/ NetworkSeed \/ NetworkHop
              \/ HumanReferral \/ SarDrafter \/ DecideSarBar
              \/ CasePackager \/ CaseGraphRecord
  BY EarlyPlainNodes, LatePlainNodes DEF Next
<1> QED
  BY <1>1, <1>2, <1>3, <1>4, <1>5, <1>6, <1>7, <1>8,
     ExpansionSeed, ExpansionHop, ExpansionDecides

LEMMA InitExpansionInv == Init => ExpansionInv
<1> SUFFICES ASSUME Init PROVE ExpansionInv
  OBVIOUS
<1>1. node = "case_open" /\ state.hops = 0 /\ path = << >> /\ Rank["case_open"] = 0
  BY Ranks DEF Init
<1>2. Len(<< >>) = 0 /\ Range(<< >>) = {}
  BY DEF Range
<1> QED
  BY <1>1, <1>2, CaseGraphAssumption DEF ExpansionInv, WalkNodes

\* A walk that stopped below the cap had come to the end of the network.
LEMMA ExpansionImplies == GraphTypeOK /\ ExpansionInv => ExpansionIsComplete
<1> SUFFICES ASSUME GraphTypeOK, ExpansionInv PROVE ExpansionIsComplete
  OBVIOUS
<1>1. /\ Len(path) \in Nat /\ state.hops \in Nat /\ Rank[node] \in 0..21
      /\ Len(path) <= Rank[node] + 2 * state.hops
  BY PathNumbers
<1>2. state.reach \in Nat /\ state.cap \in Int
  BY DEF GraphTypeOK, CaseStates
<1>3. Len(path) < RECURSION_LIMIT
  <2> DEFINE k == Rank[node]
  <2>1. k \in 0..21 /\ Len(path) <= k + 2 * state.hops /\ state.hops <= MAX_HOPS_LIMIT
    BY <1>1 DEF ExpansionInv
  <2> HIDE DEF k
  <2> QED
    BY <1>1, <2>1, LimitAssumption, CaseGraphAssumption
<1>4. ASSUME "network_finalize" \in Range(path)
      PROVE  {h \in 1..state.reach : h <= state.hops} = {h \in 1..state.reach : h <= state.cap}
  <2>1. state.hops <= state.cap /\ (state.hops = state.cap \/ state.hops > state.reach)
    BY <1>4 DEF ExpansionInv, Exhausted
  <2> QED
    BY <1>1, <1>2, <2>1
<1> QED
  BY <1>3, <1>4 DEF ExpansionIsComplete

\* For every hop request and every network: a walk stopped early has found what
\* a walk to the cap would have, no walk passes the clamped cap, and no case
\* comes to the superstep limit invoke is given (decide_expand, clamp_hops and
\* recursion_limit=100 in pipeline.py), the limit allowing for the longest
\* case (LimitAssumption).
THEOREM ExpansionsAreComplete == Spec => []ExpansionIsComplete
<1>1. Init => GraphTypeOK /\ ExpansionInv
  BY InitGraphTypeOK, InitExpansionInv
<1>2. GraphTypeOK /\ ExpansionInv /\ [Next]_vars => (GraphTypeOK /\ ExpansionInv)'
  BY GraphTypeStep, ExpansionStep
<1> QED
  BY <1>1, <1>2, ExpansionImplies, PTL DEF Spec
=============================================================================
