--------------------------- MODULE GeoTriangulation ---------------------------
(***************************************************************************)
(* The location signals of one account towards a designated territory, the *)
(* documents that argue against presence there, and the action the         *)
(* totality of both proposes.                                              *)
(*                                                                         *)
(* What a cell says about the territory (an address inside it, one of its  *)
(* prefixes, a carrier that works nowhere else) is data.  g: the records   *)
(* of the account                                                          *)
(*   logins     << [at, vpn, inside] >>                                    *)
(*   phones     << [prefix, carrier] >>, BOOLEAN each                      *)
(*   kyc        its document was issued inside                             *)
(*   residence  its declared residence is inside                           *)
(*   zones      how many device clocks are set to a zone of the territory  *)
(*   validity   << [residency, outside, expiry] >>: a residency document   *)
(*              or another one, and where it was issued                    *)
(***************************************************************************)
EXTENDS Integers, Sequences, FiniteSets

NoExpiry == 0   \* no expiry date on file; dates are positive

Records ==
    [logins : Seq([at : Int, vpn : BOOLEAN, inside : BOOLEAN]),
     phones : Seq([prefix : BOOLEAN, carrier : BOOLEAN]),
     kyc : BOOLEAN, residence : BOOLEAN, zones : Nat,
     validity : Seq([residency : BOOLEAN, outside : BOOLEAN, expiry : Int])]

\* A non-VPN login from inside is location evidence, a VPN login never.
Sightings(g) == {n \in DOMAIN g.logins : ~g.logins[n].vpn /\ g.logins[n].inside}
vpn_markers(g) == {n \in DOMAIN g.logins : g.logins[n].vpn}

\* _vpn_slip_records: strictly between the first and the last VPN login
Slips(g) ==
    {n \in Sightings(g) : \E first, last \in vpn_markers(g) :
        g.logins[first].at < g.logins[n].at /\ g.logins[n].at < g.logins[last].at}
SlipTimes(g) == {g.logins[n].at : n \in Slips(g)}

Signal(id, rows) == {[id |-> id, row |-> n] : n \in rows}

\* The signals of assemble_dossier; a slip is not an ordinary sighting too.
Signals(g) ==
    Signal("vpn_slip", Slips(g))
      \cup Signal("ip_geolocation", {n \in Sightings(g) : g.logins[n].at \notin SlipTimes(g)})
      \cup Signal("phone_prefix", {n \in DOMAIN g.phones : g.phones[n].prefix})
      \cup Signal("exclusive_carrier", {n \in DOMAIN g.phones : g.phones[n].carrier})
      \cup Signal("kyc_geography", {n \in {1} : g.kyc})
      \cup Signal("declared_residence", {n \in {1} : g.residence})
      \cup Signal("device_timezone", 1..g.zones)

\* Residency documents issued elsewhere; one without an expiry date argues
\* nothing and is a gap, an expired one argues less and is a gap too.
Elsewhere(g) == {n \in DOMAIN g.validity : g.validity[n].residency /\ g.validity[n].outside}
Dated(g) == {n \in Elsewhere(g) : g.validity[n].expiry # NoExpiry}
Expired(g, today) == {n \in Dated(g) : g.validity[n].expiry < today}
ControlGaps(g, today) == (Elsewhere(g) \ Dated(g)) \cup Expired(g, today)

assemble_dossier(g, today) ==
    [signals |-> Signals(g), markers |-> vpn_markers(g), gaps |-> ControlGaps(g, today),
     expired |-> Expired(g, today), valid |-> Dated(g) \ Expired(g, today)]

\* the one-signal rule
Surfaces(dossier) == dossier.signals # {}
-----------------------------------------------------------------------------
(* decide_geo_action.                                                      *)

WeightClass(id) ==
    CASE id \in {"vpn_slip", "exclusive_carrier"} -> "high_value"
      [] id = "device_timezone" -> "weak"
      [] OTHER -> "standard"

OfClass(signals, class) == {s \in signals : WeightClass(s.id) = class}

\* Mutant: an expired document counts as presence.
MutCounterSubtraction(valid, expired) == 3 * Cardinality(valid) - Cardinality(expired)
CounterSubtraction(valid, expired) == 3 * Cardinality(valid) + Cardinality(expired)

SignalScore(signals) ==
    3 * Cardinality(OfClass(signals, "high_value"))
      + 2 * Cardinality(OfClass(signals, "standard")) + Cardinality(OfClass(signals, "weak"))

net_presence_score(d) == SignalScore(d.signals) - CounterSubtraction(d.valid, d.expired)

\* weakest proposal first
Proposals == <<"no_action_totality_resolves", "propose_edd_rfi",
               "propose_withdrawal_only_restriction", "propose_trade_and_withdrawal_block",
               "propose_full_block_and_escalate">>

\* _geo_band, as a place in Proposals: the upper bounds are inclusive.
Band(net) == IF net <= 0 THEN 1 ELSE IF net <= 2 THEN 2 ELSE IF net <= 4 THEN 3
             ELSE IF net <= 7 THEN 4 ELSE 5

decide_geo_action(d) == Proposals[Band(net_presence_score(d))]
=============================================================================
