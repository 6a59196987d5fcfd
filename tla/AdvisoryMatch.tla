---------------------------- MODULE AdvisoryMatch ----------------------------
(***************************************************************************)
(* The advisory matcher: every advisory of the corpus is put to the words  *)
(* of the subject's RFI answer, and one whose topic they hit survives only *)
(* with a corroborator, a row of the tables that bears the advisory out.   *)
(* The survivors are ranked, and the first one anchors the draft.          *)
(*                                                                         *)
(* What the words hit is data, an advisory at a time.  Further tables of w *)
(*   corpus   the advisories in the order of their ids:                    *)
(*            [terms (trigger terms in the answer), scores (of the         *)
(*            indicators it comes near enough to), names (the codes of     *)
(*            the jurisdictions the advisory implicates)]                  *)
(*   seats    [Accounts -> the codes of residence, nationality and KYC]    *)
(*   aliased  some account's name resembles a watchlist alias              *)
(***************************************************************************)
EXTENDS RfiCheck

CONSTANT Codes  \* of jurisdictions

ASSUME CodesAssumption == IsFiniteSet(Codes)

AdvisoryTables(w) ==
    /\ w.corpus \in Seq([terms : Nat, scores : Seq(Nat), names : SUBSET Codes])
    /\ w.seats \in [Accounts -> SUBSET Codes]
    /\ w.aliased \in BOOLEAN

\* build_structured_context: the jurisdictions of every account there is
Jurisdictions(w) == UNION {w.seats[u] : u \in Accounts}
SeatRow(w, code) == <<"accounts", CHOOSE u \in Accounts : code \in w.seats[u]>>
AliasRow == <<"sdn_list", 1>>

\* exposure: the row that shows money exposure in the case, {} or a singleton
Corroborators(w, adv, exposure) ==
    {[kind |-> "jurisdiction", row |-> SeatRow(w, code)] : code \in adv.names \cap Jurisdictions(w)}
      \cup {[kind |-> "watchlist", row |-> AliasRow] : x \in {y \in {w.aliased} : y}}
      \cup {[kind |-> "sanctioned_exposure", row |-> row] : row \in exposure}

Topical(adv) == adv.terms > 0 \/ adv.scores # << >>

Match(w, id, exposure) ==
    LET adv == w.corpus[id]
        found == Corroborators(w, adv, exposure)
        codes == adv.names \cap Jurisdictions(w)
    IN  [id |-> id, topical |-> Topical(adv), corroborated |-> found # {},
         rows |-> {<<"rfi", 1>>} \cup {c.row : c \in found},
         rank |-> <<(IF adv.terms > 0 THEN 1 ELSE 0) + (IF adv.scores # << >> THEN 1 ELSE 0),
                    adv.terms,
                    Cardinality(codes) + Cardinality({c \in found : c.kind # "jurisdiction"}),
                    Len(adv.scores),
                    IF adv.scores = << >> THEN 0 ELSE Max(ToSet(adv.scores)),
                    0 - id>>]

\* match_advisory: the corroboration gate
Survives(match) == match.topical /\ match.corroborated

\* Without an answer there is no text to match.
match_advisories(w, exposure) ==
    {m \in {Match(w, id, exposure) : id \in {id \in DOMAIN w.corpus : w.answered}} : Survives(m)}

\* _match_rank_key, best first
Before(m, n) ==
    \E k \in DOMAIN m.rank : /\ m.rank[k] > n.rank[k]
                             /\ \A j \in 1..k - 1 : m.rank[j] = n.rank[j]

\* {} or the first of the matches
Primary(matches) == {m \in matches : \A n \in matches \ {m} : Before(m, n)}
AdvisoryRows(matches) == UNION {m.rows : m \in Primary(matches)}
=============================================================================
