-------------------------- MODULE MCNetworkExpander --------------------------
(***************************************************************************)
(* Small evidence: four accounts, one device, two documents, three         *)
(* addresses.                                                              *)
(***************************************************************************)
EXTENDS RiskScorer

CONSTANTS a, b, c, d, x, y, z, phone, passport, visa

\* Walks: any control of two of the addresses, flows that chain accounts
\* and addresses, reach a sanctioned address or form a cycle before it, the
\* device and the document shared or not.
FlowSets == {{}, {<<a, b>>}, {<<a, x>>, <<y, x>>}, {<<a, x>>, <<x, y>>, <<y, z>>},
             {<<x, y>>, <<y, x>>, <<y, z>>, <<b, x>>}, {<<a, b>>, <<b, y>>, <<z, a>>}}
WalkEvidence ==
    {[controller |-> [w \in Addresses |-> CASE w = x -> cx [] w = y -> cy [] OTHER -> NoUid],
      sanctioned |-> {y, z}, flows |-> fs,
      devices |-> [m \in Devices |-> ds],
      kyc |-> [u \in Accounts |-> IF u \in ks THEN passport ELSE IF u = b THEN visa ELSE NoDoc],
      gas |-> <<>>]
     : cx \in {a, b, NoUid}, cy \in {c, d, NoUid},
       fs \in FlowSets,
       ds \in {{}, {a, c}, {c, d}}, ks \in {{}, {b, d}, {a, d}}}

\* Gas passes: two rows over the three addresses in either order, a subject
\* that touched one of them.
GasEvidence ==
    {[controller |-> [w \in Addresses |-> CASE w = x -> cx [] w = y -> cy [] OTHER -> NoUid],
      sanctioned |-> sn, flows |-> {<<a, r>>},
      devices |-> [m \in Devices |-> {}], kyc |-> [u \in Accounts |-> NoDoc],
      gas |-> <<g, h>>]
     : cx \in {a, b, NoUid}, cy \in {b, c, NoUid}, sn \in {{z}}, r \in {x, z, b},
       g \in {<<x, y>>, <<y, z>>, <<z, x>>}, h \in {<<x, z>>, <<y, z>>, <<z, y>>}}

MCEvidence == WalkEvidence \cup GasEvidence

MCAsked == {0, 2, 9}
=============================================================================
