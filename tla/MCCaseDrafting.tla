--------------------------- MODULE MCCaseDrafting ---------------------------
(***************************************************************************)
(* The subject s, an account o it may be tied to and an account p beyond;  *)
(* wallets x and y, a sanctioned address z.  One family of worlds varies   *)
(* what the probes read, the other what the draft is made of.              *)
(***************************************************************************)
EXTENDS CaseDrafting

CONSTANTS s, o, p, q, x, y, z, fp, doc

Tx(from, to) == [from |-> from, to |-> to, structured |-> FALSE]
Odd(from, to) == [from |-> from, to |-> to, structured |-> TRUE]
Ledgers == {<< >>, <<Tx(s, z)>>, <<Tx(o, z), Tx(s, o)>>, <<Odd(s, o)>>, <<Odd(p, x), Tx(x, y)>>,
            <<Tx(s, o), Tx(o, p), Tx(q, p)>>, <<Tx(s, x), Tx(s, o), Tx(x, p), Tx(p, z)>>,
            <<Tx(s, o), Tx(o, y), Tx(q, p)>>}

\* the hosted wallets; the last of them is sanctioned, and may be the subject's
Controllers == {[a \in Addresses |-> IF a = x THEN c[1] ELSE IF a = y THEN p ELSE c[2]] :
                    c \in {<<s, Nobody>>, <<o, Nobody>>, <<o, s>>}}
Sharing == {[f \in Fingerprints |-> users] : users \in {{}, {s, o}, {o, p}}}
Post(company, from, until) == [company |-> company, officer |-> 1, from |-> from, until |-> until]
Registries == {{}, {Post(s, 1, 4), Post(o, 4, Open)}, {Post(s, 1, 2), Post(o, 3, Open)}}
Answer(names, affirms) == [names |-> names, affirms |-> affirms]
Answers == {<< >>, <<Answer({o}, TRUE)>>, <<Answer({o}, FALSE), Answer({p}, TRUE)>>}
C(denies, funds, exclusive, names, banned) ==
    [denies |-> denies, funds |-> funds, exclusive |-> exclusive, names |-> names, banned |-> banned]
Denial == C(TRUE, FALSE, FALSE, {o, s}, FALSE)
Funds == C(FALSE, TRUE, FALSE, {}, TRUE)
Custody == C(FALSE, TRUE, TRUE, {}, FALSE)
Rfis == {<<Denial, Funds>>, <<Custody, C(TRUE, FALSE, TRUE, {o, p}, FALSE)>>,
         <<C(FALSE, FALSE, TRUE, {o}, FALSE), C(FALSE, FALSE, FALSE, {o}, TRUE)>>}

Base == [subject |-> s, sanctioned |-> {z}, answered |-> TRUE, rfi |-> << >>, officers |-> {},
         priors |-> << >>, hops |-> 2, span |-> <<AccountRow(s), AccountRow(s)>>,
         kyc |-> [u \in Accounts |-> NoDoc], logins |-> << >>, tag |-> "none",
         corpus |-> << >>, aliased |-> FALSE, seats |-> [u \in Accounts |-> {}], tells |-> << >>, tipping |-> {},
         controller |-> [a \in Addresses |-> IF a = x THEN s ELSE IF a = y THEN p ELSE Nobody],
         txs |-> << >>, gas |-> {}, devices |-> [f \in Fingerprints |-> {}]]

\* the table that varies: appointments and earlier answers, or the ledger
Tipping == {{}, {<<"transactions", 1>>, <<"rfi_prior", 1>>}}
Told == {[Base EXCEPT !.txs = l, !.devices = d, !.officers = r, !.priors = a, !.rfi = f, !.tipping = t] :
            l \in {<< >>, <<Tx(s, o), Tx(o, p), Tx(q, p)>>}, d \in Sharing, r \in Registries,
            a \in Answers, f \in Rfis, t \in Tipping}
Moved == {[Base EXCEPT !.controller = c, !.txs = l, !.gas = g, !.devices = d, !.rfi = f, !.tipping = t] :
            c \in Controllers, l \in Ledgers, g \in {{}, {<<y, x>>}}, d \in Sharing, f \in Rfis,
            t \in Tipping}

Login(place, vpn) == [place |-> place, vpn |-> vpn]
Remark(i, banned) == [kind |-> "transaction", tx |-> i, banned |-> banned]
Label(owner, saved, banned) ==
    [kind |-> "address_book", owner |-> owner, saved |-> saved, banned |-> banned]
Mined == {<< >>, <<Label(q, z, TRUE)>>, <<Label(q, x, FALSE), Label(s, z, FALSE)>>,
          <<Label(s, z, FALSE), Label(o, x, FALSE), Label(s, y, FALSE), Label(p, x, FALSE),
            Label(q, x, TRUE)>>}
Remarks(l) == IF Len(l) < 3 THEN {} ELSE {<<Remark(3, TRUE), Remark(1, FALSE)>>, <<Remark(3, FALSE)>>}

Holders == {[u \in Accounts |-> IF u \in ks THEN doc ELSE NoDoc] : ks \in {{p}, {s, p}}}
Logins == {<< >>, <<Login("territory", FALSE), Login("home", TRUE)>>,
           <<Login("home", FALSE), Login("unknown", TRUE), Login("home", FALSE), Login("home", FALSE)>>}
Adv(terms, scores, names) == [terms |-> terms, scores |-> scores, names |-> names]
Corpora == {<< >>, <<Adv(2, <<30>>, {"F"})>>,
            <<Adv(0, << >>, {"G"}), Adv(0, <<25, 40>>, {"F", "G"}), Adv(0, <<30, 40>>, {"G"})>>}
Seats == {[u \in Accounts |-> {}], [u \in Accounts |-> IF u = q THEN {"F", "G"} ELSE {}]}

\* what the profile holds, then what the expansion reaches
Profiled == {[Base EXCEPT !.txs = l, !.kyc = k, !.logins = i, !.tag = t, !.corpus = a, !.seats = e, !.aliased = h,
                          !.answered = f[1], !.rfi = f[2]] :
                l \in {<< >>, <<Tx(s, z)>>}, k \in Holders, i \in Logins, t \in {"none", "plain", "banned"},
                a \in Corpora, e \in Seats, h \in BOOLEAN,
                f \in {<<FALSE, << >>>>, <<TRUE, << >>>>, <<TRUE, <<Funds>>>>}}
Alone == [n \in Fingerprints |-> {}]
Reaching == UNION {
    {[Base EXCEPT !.txs = l, !.gas = g, !.kyc = k, !.tells = m, !.answered = FALSE,
                  !.devices = d, !.hops = h] :
        g \in {{}, {<<y, x>>}, {<<z, x>>}}, k \in Holders, m \in Mined \cup Remarks(l),
        d \in {[n \in Fingerprints |-> {s, p}], Alone}, h \in 1..3}
    : l \in Ledgers}

\* the timeline ends with the last of the subject's transfers
MCWorlds == {[t EXCEPT !.span[2] = IF TxsOf(t) = {} THEN @ ELSE <<"transactions", Max(TxsOf(t))>>] :
                t \in Told \cup Moved \cup Profiled \cup Reaching}
MCPasses == {0, 3}
=============================================================================
