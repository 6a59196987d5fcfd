------------------------------ MODULE MCSweep ------------------------------
(* Three accounts and two addresses.  Ledger worlds: every ledger over seven *)
(* payments, with every hold status of two accounts.  Identity worlds: every *)
(* name verdict and comparison, with the links around them.                  *)
EXTENDS DesignationCheck

CONSTANTS w1, w2, nobody

Match == [dob |-> "unknown", nationality |-> "mismatch", doc_number |-> "match"]
Both == [dob |-> "match", nationality |-> "match", doc_number |-> "unknown"]
Namesake == [dob |-> "mismatch", nationality |-> "mismatch", doc_number |-> "unknown"]
Silent == [dob |-> "mismatch", nationality |-> "unknown", doc_number |-> "unknown"]

Nowhere == [logins |-> << >>, phones |-> << >>, kyc |-> FALSE, residence |-> FALSE, zones |-> 0,
            validity |-> << >>]

Blank == [u \in 1..3 |-> ""]
Plain ==
    [pays |-> {}, late |-> {}, listed |-> {w1}, controller |-> [a \in {w1, w2} |-> nobody],
     devices |-> [u \in 1..3 |-> {}], document |-> [u \in 1..3 |-> u],
     signal |-> FALSE, published |-> FALSE, name |-> [u \in 1..3 |-> {}],
     identity |-> << >>, individuals |-> {1, 2}, declared |-> {}, asserted |-> {},
     surname |-> Blank, address |-> Blank, handle |-> Blank, stakes |-> {}, officers |-> {},
     warehouse |-> [u \in 1..3 |-> "no_hold"], admin |-> [u \in 1..3 |-> "no_hold"],
     tagged |-> {}, staff |-> {}, terms |-> [u \in 1..3 |-> {}],
     territory |-> "no", geo |-> [u \in 1..3 |-> Nowhere], today |-> 5]

Holds == {"absent", "no_hold", "blocked"}

\* Cycles, two lengths of one path, a wallet on the way.
Ledgers == SUBSET {<<1, w1>>, <<2, w1>>, <<3, 2>>, <<w2, 3>>, <<w2, 1>>, <<2, 3>>, <<1, w2>>}

LedgerWorlds ==
    {[Plain EXCEPT !.pays = pays, !.controller[w2] = c, !.listed = listed,
                   !.late = pays \cap IF w1 \in listed THEN {<<2, w1>>, <<w2, 3>>, <<2, 3>>}
                                      ELSE {<<w2, 1>>, <<3, 2>>, <<1, w2>>}] :
        pays \in Ledgers, c \in {nobody, 3}, listed \in {{w1}, {w2}, {w1, w2}}}

HoldWorlds ==
    {[Plain EXCEPT !.pays = pays, !.warehouse[1] = w, !.admin[1] = a, !.warehouse[2] = v,
                   !.admin[2] = b, !.signal = signal, !.terms[1] = t, !.devices[2] = d,
                   !.devices[1] = {"phone"}, !.staff = {2} \cap e, !.tagged = e] :
        pays \in {{<<1, w1>>}, {<<1, w1>>, <<2, 1>>}}, w \in Holds, a \in Holds,
        v \in {"no_hold", "blocked"}, b \in {"no_hold", "blocked"}, signal \in BOOLEAN,
        t \in {{}, {"sar"}, {"legal"}}, d \in {{}, {"phone"}}, e \in {{}, {2}}}

IdentityWorlds ==
    {[Plain EXCEPT !.listed = IF pays = {} /\ t # {} THEN {} ELSE @, !.signal = pays = {} /\ t # {},
                   !.name = [u \in 1..3 |-> IF u = 3 THEN {} ELSE names[u]],
                   !.identity = on[1], !.published = on[2], !.surname = [u \in 1..3 |-> IF doc = 3 \/ u = 2 THEN "n" ELSE ""],
                   !.handle = [u \in 1..3 |-> IF u = 2 THEN "" ELSE "h"], !.declared = {{3, (doc + 1) \div 2}},
                   !.asserted = {[pair |-> {1, 2}, type |-> IF t = {} THEN "other" ELSE "relationship_remark"]},
                   !.stakes = stakes, !.terms[2] = t, !.pays = pays,
                   !.officers = {[company |-> 3, identity |-> FALSE, late |-> TRUE]},
                   !.document[3] = doc] :
        names \in {f \in [1..2 -> SUBSET {"direct", "variant"}] : f[2] # {"direct", "variant"}},
        on \in ({<< >>} \cup [{1} -> {Match, Namesake}] \cup [1..2 -> {Both, Namesake, Silent}])
                 \X {TRUE} \cup {<<[u \in 1..2 |-> Namesake], FALSE>>},
        stakes \in {{}, {[owner |-> 1, company |-> 3, control |-> TRUE, late |-> FALSE]},
                   {[owner |-> 2, company |-> 3, control |-> FALSE, late |-> FALSE]}},
        t \in {{}, {"tipping"}}, pays \in {{}, {<<1, w1>>}}, doc \in {1, 3}}

\* Territory worlds: what places account 1 inside and what argues against it,
\* account 2 with a part of those records, account 3 with the name.
Seen(at) == [at |-> at, vpn |-> FALSE, inside |-> TRUE]
Hidden(at) == [at |-> at, vpn |-> TRUE, inside |-> TRUE]
Phone(prefix, carrier) == [prefix |-> prefix, carrier |-> carrier]
Doc(residency, outside, expiry) == [residency |-> residency, outside |-> outside, expiry |-> expiry]
Seqs == [logins : {<<Hidden(1), Hidden(3)>>, <<Seen(2), Seen(2)>>, <<Seen(2), Hidden(2), Hidden(3)>>,
                   <<Seen(2), Hidden(1), Hidden(3)>>},
         phones : {<< >>, <<Phone(TRUE, FALSE)>>, <<Phone(FALSE, TRUE), Phone(TRUE, TRUE)>>},
         kyc : BOOLEAN, residence : BOOLEAN, zones : {0, 2},
         validity : {<< >>, <<Doc(TRUE, TRUE, 4)>>, <<Doc(TRUE, TRUE, 5), Doc(TRUE, TRUE, 4)>>,
                     <<Doc(TRUE, TRUE, NoExpiry)>>, <<Doc(FALSE, TRUE, 9), Doc(TRUE, FALSE, 9)>>}]
First(f) == IF f = << >> THEN f ELSE <<f[1]>>
Parts(g) == <<g, [g EXCEPT !.logins = << >>], [g EXCEPT !.logins = First(g.logins), !.kyc = FALSE],
              [g EXCEPT !.validity = << >>], [g EXCEPT !.validity = First(@), !.zones = 0]>>
TerritoryWorlds ==
    {[Plain EXCEPT !.territory = t, !.listed = {}, !.geo[1] = g,
                   !.geo[2] = Parts(g)[IF g.zones = 0 THEN part ELSE 1],
                   !.name[3] = IF t = "unprofiled" THEN {"direct"} ELSE {},
                   !.terms[2] = IF g.residence THEN {"tipping"} ELSE {}] :
        t \in {"profiled", "unprofiled"}, part \in 1..5,
        g \in {g \in Seqs : g.zones = 0 \/ Len(g.phones) < 2}}

MCWorlds == TerritoryWorlds \cup (LedgerWorlds \cup (HoldWorlds \cup IdentityWorlds))
=============================================================================
