---------------------------- MODULE CaseDrafting ----------------------------
(***************************************************************************)
(* The last stretch of a case, from the answered RFI to the SAR draft: the *)
(* claims of the answer are adjudicated one by one; follow-up requests are *)
(* prepared for each contradicted one; then the first draft is built,      *)
(* graded and revised until it meets the bar, no gap can be filled or the  *)
(* passes are used up, and what is left is flagged for a human.  A draft   *)
(* that fails validation is refused: the run raises.                       *)
(***************************************************************************)
EXTENDS SarDraft

CONSTANTS
    Worlds,  \* the tables a case may be run on
    Passes   \* the max_iterations callers pass (3 unless they say otherwise)

ASSUME DraftingAssumption ==
    /\ Passes \subseteq Nat
    /\ \A t \in Worlds : RfiTables(t) /\ AdvisoryTables(t) /\ DraftTables(t)

VARIABLES
    w,          \* the tables, and tipping: the rows whose ids carry a tipping-off term
    cap,        \* max_iterations
    stage,
    table,      \* adjudications so far
    questions,  \* of the follow-up
    draft,      \* the claims of the draft
    critiques,  \* the gaps each grading found
    revisions,  \* the elements each pass added
    flagged     \* for human review

check == <<table, questions>>
sar == <<draft, critiques, revisions, flagged>>
draftVars == <<w, cap, stage, check, sar>>

DraftInit ==
    /\ w \in Worlds /\ cap \in Passes
    /\ stage = "check"
    /\ table = << >> /\ questions = << >>
    /\ draft = {} /\ critiques = << >> /\ revisions = << >> /\ flagged = {}
-----------------------------------------------------------------------------
Contradictions ==
    Picked(table, {n \in DOMAIN table : table[n].verdict = "contradicted"})

Adjudicate ==
    /\ stage = "check" /\ Len(table) < Len(w.rfi)
    /\ table' = Append(table, Adjudication(w, Len(table) + 1))
    /\ UNCHANGED <<w, cap, stage, questions, sar>>

\* decide_re_rfi: a follow-up is drafted when something is contradicted.
DecideReRfi ==
    /\ stage = "check" /\ Len(table) = Len(w.rfi)
    /\ stage' = IF Contradictions = << >> THEN "draft" ELSE "followup"
    /\ UNCHANGED <<w, cap, check, sar>>

\* A request is what it asks for and the rows its text names.
Ask(kind, names) == [kind |-> kind, names |-> names]

\* Mutant: on-chain rows of every kind are named in the transactions request.
MutRequests(adj) ==
    LET From(source) == UNION {r.cites : r \in {r \in adj.rebuttals : r.source = source}}
    IN  {Ask("transactions", s) : s \in {From("onchain")} \ {{}}}
          \cup {Ask("corporate_records", {}) : x \in Sources(adj.rebuttals) \cap {"registry"}}
          \cup {Ask("prior_response", {p}) : p \in From("prior_rfi")}

\* The transaction rows of the on-chain rebuttals in one request, one request
\* for corporate records, one per earlier answer; devices are never asked
\* about.
Requests(adj) ==
    LET From(source) == UNION {r.cites : r \in {r \in adj.rebuttals : r.source = source}}
    IN  {Ask("transactions", s) :
            s \in {{row \in From("onchain") : row[1] = "transactions"}} \ {{}}}
          \cup {Ask("corporate_records", {}) : x \in Sources(adj.rebuttals) \cap {"registry"}}
          \cup {Ask("prior_response", {p}) : p \in From("prior_rfi")}

\* assert_no_tipping_off: the templates are clean, an interpolated id may not be
tips_off(request) == request.names \cap w.tipping # {}

\* What draft_followup makes of one contradicted claim.
Question(adj) ==
    [claim      |-> adj.claim,
     requests   |-> {r \in Requests(adj) : ~tips_off(r)},
     suppressed |-> {r.kind : r \in {r \in Requests(adj) : tips_off(r)}}]

DraftQuestion ==
    /\ stage = "followup" /\ Len(questions) < Len(Contradictions)
    /\ questions' = Append(questions, Question(Contradictions[Len(questions) + 1]))
    /\ UNCHANGED <<w, cap, stage, table, sar>>

FollowUpDrafted ==
    /\ stage = "followup" /\ Len(questions) = Len(Contradictions)
    /\ stage' = "draft"
    /\ UNCHANGED <<w, cap, check, sar>>

\* A draft is graded once it has passed validation; otherwise the run raises.
Grade(claims) ==
    /\ draft' = claims
    /\ IF Valid(w, claims)
       THEN stage' = "loop" /\ critiques' = Append(critiques, gap_keys(claims))
       ELSE stage' = "refused" /\ UNCHANGED critiques

BuildSar ==
    /\ stage = "draft"
    /\ Grade(build_sar(w, ToSet(Contradictions)))
    /\ UNCHANGED <<w, cap, check, revisions, flagged>>

Gaps == critiques[Len(critiques)]
NewClaims == gap_fill_claims(w, Gaps)
MayRevise == Len(revisions) < cap /\ Gaps # {}

Revise ==
    /\ stage = "loop" /\ MayRevise /\ NewClaims # {}
    /\ Grade(draft \cup NewClaims)
    /\ revisions' = IF stage' = "loop"
                    THEN Append(revisions, {c.element : c \in NewClaims}) ELSE revisions
    /\ UNCHANGED <<w, cap, check, flagged>>

\* Mutant: a pass that fills nothing goes round again.
MutFixpoint == "loop"
Fixpoint == "flag"

\* new_claims is empty: break.
NothingToFill ==
    /\ stage = "loop" /\ MayRevise /\ NewClaims = {}
    /\ stage' = Fixpoint
    /\ UNCHANGED <<w, cap, check, sar>>

LoopEnds ==
    /\ stage = "loop" /\ ~MayRevise
    /\ stage' = "flag"
    /\ UNCHANGED <<w, cap, check, sar>>

Flag ==
    /\ stage = "flag"
    /\ flagged' = Gaps
    /\ stage' = "done"
    /\ UNCHANGED <<w, cap, check, draft, critiques, revisions>>

Ended == stage \in {"done", "refused"} /\ UNCHANGED draftVars

DraftNext == \/ Adjudicate \/ DecideReRfi \/ DraftQuestion \/ FollowUpDrafted
             \/ BuildSar \/ Revise \/ NothingToFill \/ LoopEnds \/ Flag \/ Ended

\* One thread runs the case to its end.
DraftSpec == DraftInit /\ [][DraftNext]_draftVars /\ WF_draftVars(DraftNext)
-----------------------------------------------------------------------------
Own == RefsFor(w, w.subject)
Named(k) == w.rfi[k].names \ {w.subject}

\* Every set of references that holds S and what edges lead to from it meets T.
Reaches(edges, S, T) ==
    \A C \in SUBSET (Accounts \cup Addresses) :
        S \subseteq C /\ (\A e \in edges : e[1] \in C => e[2] \in C) => C \cap T # {}

\* value the subject sends gets to a sanctioned address, in one transfer or more
Paid == {<<w.txs[i].from, w.txs[i].to>> : i \in Txs(w)}
FundsReachSanctioned ==
    \E e \in Paid : e[2] \in w.sanctioned /\ Reaches(Paid, Own, {e[1]})

SharedOfficer(u) == \E a, b \in w.officers :
    /\ a.company = w.subject /\ b.company = u /\ a.officer = b.officer
    /\ \E day \in a.from..a.until : day \in b.from..b.until
AdmittedEarlier(u) == \E k \in DOMAIN w.priors : u \in w.priors[k].names /\ w.priors[k].affirms
Dealt(u) == \E i \in Txs(w) : Between(w, i, Own, RefsFor(w, u))
OddTransfers == Structured(w) # {} \/ PaidHops(w) # {}
SharesDevice == \E fp \in Fingerprints : w.subject \in w.devices[fp] /\ w.devices[fp] # {w.subject}

\* A claim is called contradicted only on what can carry it alone (an officer
\* who served both at once, an earlier answer that affirms what is denied now,
\* stated funds that reach a sanctioned address) or on the ledger and a shared
\* device together; one weak source, however many rebuttals it gives, never.
ContradictionIsEarned == \A n \in DOMAIN table :
    LET c == w.rfi[n]
        alone  == \/ c.denies /\ \E u \in Named(n) : SharedOfficer(u) \/ AdmittedEarlier(u)
                  \/ c.funds /\ FundsReachSanctioned
        ledger == \/ c.denies /\ \E u \in Named(n) : Dealt(u)
                  \/ c.funds /\ OddTransfers
    IN  table[n].verdict = "contradicted" <=> alone \/ (ledger /\ c.exclusive /\ SharesDevice)

\* Once the draft is begun every contradicted claim has its question.  Each leg
\* the subject may hear of is asked about or surfaced as suppressed; nothing
\* names a device or a gas row, and no request tips the subject off.
ContradictionsAreAsked == stage \notin {"check", "followup"} =>
    /\ Len(questions) = Len(Contradictions)
    /\ \A n \in DOMAIN questions :
        LET asked == questions[n]
            legs == {r \in Contradictions[n].rebuttals :
                        /\ r.source # "device"
                        /\ \A row \in r.cites : row[1] # "gas_funding"}
            kinds == {r.kind : r \in asked.requests} \cup asked.suppressed
        IN  /\ asked.claim = Contradictions[n].claim
            /\ legs = {} <=> kinds = {}
            /\ \A r \in asked.requests : /\ r.names \cap w.tipping = {}
                                     /\ \A row \in r.names : row[1] \in {"transactions", "rfi_prior"}
            /\ \A r \in legs : r.source = "prior_rfi" =>
                   r.cites \subseteq w.tipping \cup UNION {x.names : x \in asked.requests}

(***************************************************************************)
(* The evidence of the case, row by row.  Accounts are tied by a transfer  *)
(* that both are party to, a device or a KYC document.  An account within  *)
(* fewer ties of the subject than the walk has hops is looked at: what its *)
(* rows name is evidence, and so is what a gas row names that touches it   *)
(* or was funded by an account within reach.                               *)
(***************************************************************************)
Holder(r) == IF r \in Accounts THEN r ELSE w.controller[r]
Party(u, i) == u \in {Holder(w.txs[i].from), Holder(w.txs[i].to)}
SameDoc(u, v) == w.kyc[u] # NoDoc /\ w.kyc[u] = w.kyc[v]
Together(u, v) == SameDoc(u, v) \/ \E f \in Fingerprints : {u, v} \subseteq w.devices[f]
Tied(u, v) == Together(u, v) \/ \E i \in Txs(w) : Party(u, i) /\ Party(v, i)

\* a chain of at most n ties leads from the subject to u
Within(n, u) == \E c \in [0..n -> Accounts] :
    /\ c[0] = w.subject /\ c[n] = u
    /\ \A k \in 1..n : c[k] = c[k - 1] \/ Tied(c[k - 1], c[k])
Looked == {u \in Accounts : Within(w.hops - 1, u)}
Shown(u) == {r \in Accounts \cup Addresses :
    \/ Holder(r) = u
    \/ r \in Accounts /\ Together(u, r)
    \/ \E i \in Txs(w) : Party(u, i) /\ r \in {w.txs[i].from, w.txs[i].to}}
InHand == UNION {Shown(u) : u \in Looked}
Gas == {g \in w.gas : {g[1], g[2]} \cap InHand # {} \/ Within(w.hops, Holder(g[1]))}
Evidence == InHand \cup ((Accounts \cup Addresses) \cap UNION {{g[1], g[2], Holder(g[1])} : g \in Gas})

\* An advisory the answer touches on, borne out by a row: a jurisdiction it
\* names is some customer's, a name is on the watchlist or the money of the case
\* leads from an account to a sanctioned address.
Money == {<<w.txs[i].from, w.txs[i].to>> : i \in {i \in Txs(w) : \E u \in Looked : Party(u, i)}}
           \cup {<<Holder(a), a>> : a \in {a \in Addresses : Holder(a) \in Looked}}
MoneyReached == \E u \in Accounts : Reaches(Money, {u}, w.sanctioned \cap Evidence)
AdvisoryHolds == w.answered /\ \E n \in DOMAIN w.corpus :
    /\ w.corpus[n].terms > 0 \/ w.corpus[n].scores # << >>
    /\ w.aliased \/ MoneyReached \/ \E u \in Accounts : w.seats[u] \cap w.corpus[n].names # {}

Anomalous ==
    LET vpn == {n \in DOMAIN w.logins : w.logins[n].vpn}
    IN  \/ \E n \in DOMAIN w.logins \ vpn : w.logins[n].place \in {"territory", "abroad"}
        \/ vpn # {} /\ 10 * Cardinality(vpn) >= 3 * Len(w.logins)
        \/ \E u \in Accounts \ {w.subject} : Together(w.subject, u)
        \/ w.tag # "none"
Mechanism ==
    \/ \E i \in Txs(w) : w.txs[i].structured /\ w.subject \in {w.txs[i].from, w.txs[i].to}
    \/ \E u \in Accounts \ {w.subject} : SameDoc(w.subject, u)
    \/ \E g \in Gas : Holder(g[1]) \in Accounts
\* the tells about something the case has a row of
Quotable == LET known == Evidence
            IN  {n \in DOMAIN w.tells : TellRefs(w, w.tells[n]) \cap known # {}}

\* Elements no row of the case supports.  A gas row shows how money moved only
\* when somebody's wallet paid.
Unsupported ==
    LET tainted == w.sanctioned \cap Evidence # {}
    IN  (IF Anomalous THEN {} ELSE {"what"})
          \cup (IF tainted THEN {} ELSE {"on_chain_evidence"})
          \cup (IF tainted \/ AdvisoryHolds THEN {} ELSE {"why"})
          \cup (IF tainted \/ Quotable # {} THEN {} ELSE {"subject_and_network"})
          \cup (IF Mechanism THEN {} ELSE {"how"})

\* However the loop ends, one pass has filled all the evidence can fill, and
\* what is flagged for a human is exactly what nothing supports; the bound on
\* the passes is the reason only when it allows none.
FlaggedIsUnsupported == stage = "done" =>
    IF cap = 0
    THEN /\ revisions = << >>
         /\ flagged = Unsupported \cup {"when", "where", "how"}
                        \cup (IF AdvisoryHolds THEN {} ELSE {"why"})
    ELSE Len(revisions) = 1 /\ flagged = Unsupported

\* words that over-claim, among those the draft quotes
QuotesOverclaim ==
    \/ w.tag = "banned"
    \/ \E n \in Quotable :
         /\ w.tells[n].banned
         /\ Cardinality({m \in Quotable : m <= n}) <= MaxTells
    \/ \E n \in DOMAIN table : table[n].verdict = "contradicted" /\ w.rfi[n].banned

\* A case is refused when, and only when, a customer's or an analyst's own
\* over-claiming words are quoted; never for words about somebody else.
RefusedForQuotedWords ==
    /\ stage = "refused" => QuotesOverclaim
    /\ stage = "done" => ~QuotesOverclaim

\* The loop ends, whatever the gaps and the bound.
Finishes == <>(stage \in {"done", "refused"})

\* The transactions the subject is asked about are its own.
OwnRowsOnly == \A n \in DOMAIN questions : \A r \in questions[n].requests :
    \A row \in r.names : row[1] = "transactions" => Touches(w, row[2], Own)

=============================================================================
