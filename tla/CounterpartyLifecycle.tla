----------------------- MODULE CounterpartyLifecycle -----------------------
(***************************************************************************)
(* What follows the designation of a counterparty service (a VASP or an    *)
(* exchange).                                                              *)
(*                                                                         *)
(* Payments and acknowledgments keep arriving in the institution's tables. *)
(* The app loads the tables once per process (Store, behind a cached       *)
(* Connectors) and sweeps a designation over what it loaded, as often as   *)
(* an analyst asks: the sweep finds the exposed customers, keeps those     *)
(* with a dealing dated after the designation, drafts each a notification  *)
(* and disposes of the relationship by the eighth agency decision.  The    *)
(* designation check reads the same tables from the customer's side.       *)
(*                                                                         *)
(* A payment is one row: out (customer to a hosted wallet of the service), *)
(* in (the reverse) or via (out through a wallet nobody here controls, two *)
(* rows of the ledger, neither of which is a dealing).  Rows may be dated  *)
(* in any order.  A customer controls no wallet of a service.              *)
(***************************************************************************)
EXTENDS Integers, FiniteSets

CONSTANTS
    Customers,
    Services,   \* the designations of kind counterparty_service
    Listed,     \* Listed[d]: the designation date of d
    Unsayable,  \* <<u, d>>: the notification the validators refuse to emit
    Days,       \* dates
    MaxRows,    \* bound: payments and acknowledgments
    MaxSweeps   \* bound: sweeps that finish

ASSUME LifecycleAssumption ==
    /\ Days \subseteq Int
    /\ Listed \in [Services -> Int]
    /\ Unsayable \subseteq Customers \X Services

VARIABLES
    ledger,     \* transactions.csv: the payments
    acks,       \* acknowledgments.csv, entered by people
    store,      \* the tables the running app loaded: [ledger, acks]
    stage,      \* where the sweep under way is, or "idle"
    of,         \* the designations it sweeps: one, or none when idle
    todo,       \* the customers its current loop has not reached
    drafted, suppressed,   \* its notifications, by customer
    dispositions,          \* its LifecycleDisposition records
    results     \* history: the sweeps that finished, with the tables they read

tables == <<ledger, acks>>
sweep == <<stage, of, todo, drafted, suppressed, dispositions>>
vars == <<tables, store, sweep, results>>

Ways == {"out", "in", "via"}
Payments == [who : Customers, with : Services, way : Ways, day : Days]
Acks == [who : Customers, of : Services, day : Days]
Tables == [ledger : SUBSET Payments, acks : SUBSET Acks]
-----------------------------------------------------------------------------
\* sweep_exposure: a path of payments leads from the customer to the service.
Exposed(tbl, d) ==
    {u \in Customers : \E t \in tbl.ledger :
                           t.who = u /\ t.with = d /\ t.way \in {"out", "via"}}

\* Mutant: only what the customer sends counts.
MutDealings(tbl, d, u) ==
    {t \in tbl.ledger : t.who = u /\ t.with = d /\ t.way = "out"}

\* counterparty_dealings: payments between the two, in either direction.
Dealings(tbl, d, u) ==
    {t \in tbl.ledger : t.who = u /\ t.with = d /\ t.way \in {"out", "in"}}

HasPostDesignationDealing(tbl, d, u) ==
    \E t \in Dealings(tbl, d, u) : t.day > Listed[d]

PostDealers(tbl, d) ==
    {u \in Exposed(tbl, d) : HasPostDesignationDealing(tbl, d, u)}

Current(tbl, d, u) == {a \in tbl.acks : a.who = u /\ a.of = d}
Prior(tbl, d, u) == {a \in tbl.acks : a.who = u /\ a.of # d}

Acknowledged(tbl, d, u) == Current(tbl, d, u) # {}

\* is_stop_verified: the cut is the acknowledgment's date, not the designation's.
StopVerified(tbl, d, u) ==
    /\ Acknowledged(tbl, d, u)
    /\ \A a \in Current(tbl, d, u), t \in Dealings(tbl, d, u) : t.day <= a.day

\* Mutant: an acknowledged stop outranks a repeat.
MutDecide(acknowledged, stopVerified, repeatOffender) ==
    IF acknowledged /\ stopVerified THEN "propose_unblock"
    ELSE IF repeatOffender THEN "propose_offboard" ELSE "hold_pending"

\* decide_counterparty_lifecycle
Decide(acknowledged, stopVerified, repeatOffender) ==
    IF repeatOffender THEN "propose_offboard"
    ELSE IF acknowledged /\ stopVerified THEN "propose_unblock" ELSE "hold_pending"

\* Mutant: the evidence is looked at before the stop.
MutDeriveState(notified, acknowledged, stopVerified, outcome) ==
    CASE outcome = "propose_offboard" -> "offboard_proposed"
      [] outcome = "propose_unblock" -> "unblock_proposed"
      [] outcome = "hold_pending" /\ notified -> "notification_drafted"
      [] OTHER -> "exposure_detected"

\* derive_counterparty_lifecycle_state
DeriveState(notified, acknowledged, stopVerified, outcome) ==
    CASE outcome = "propose_offboard" -> "offboard_proposed"
      [] outcome = "propose_unblock" -> "unblock_proposed"
      [] outcome = "hold_pending" /\ acknowledged /\ stopVerified -> "stop_dealing_verified"
      [] outcome = "hold_pending" /\ acknowledged /\ ~stopVerified -> "acknowledgment_recorded"
      [] outcome = "hold_pending" /\ ~acknowledged /\ notified -> "notification_drafted"
      [] OTHER -> "exposure_detected"

\* The sweep's record of one post-designation dealer.
Disposition(tbl, d, u, notified) ==
    LET ack == Acknowledged(tbl, d, u)
        stop == StopVerified(tbl, d, u)
        outcome == Decide(ack, stop, Prior(tbl, d, u) # {})
    IN  [uid |-> u, outcome |-> outcome,
         state |-> DeriveState(notified, ack, stop, outcome)]

\* The designation check's line for a customer exposed to d: no disposition.
CheckState(tbl, d, u) ==
    DeriveState(HasPostDesignationDealing(tbl, d, u), Acknowledged(tbl, d, u),
                StopVerified(tbl, d, u), "hold_pending")
-----------------------------------------------------------------------------
Init ==
    /\ ledger = {} /\ acks = {}
    /\ store = [ledger |-> {}, acks |-> {}]
    /\ stage = "idle" /\ of = {} /\ todo = {}
    /\ drafted = {} /\ suppressed = {} /\ dispositions = {}
    /\ results = {}

Room == Cardinality(ledger) + Cardinality(acks) < MaxRows

\* The world: a payment is booked ...
Pay(t) ==
    /\ Room
    /\ ledger' = ledger \cup {t}
    /\ UNCHANGED <<acks, store, sweep, results>>

\* ... a person enters an acknowledgment, one per customer and designation.
Acknowledge(a) ==
    /\ Room
    /\ \A b \in acks : ~(b.who = a.who /\ b.of = a.of)
    /\ acks' = acks \cup {a}
    /\ UNCHANGED <<ledger, store, sweep, results>>

\* A sweep that ends takes its locals with it.
Forget ==
    /\ stage' = "idle" /\ of' = {} /\ todo' = {}
    /\ drafted' = {} /\ suppressed' = {} /\ dispositions' = {}

\* The app starts: Connectors() reads the files.  A sweep under way is lost.
Load ==
    /\ store' = [ledger |-> ledger, acks |-> acks]
    /\ Forget
    /\ UNCHANGED <<tables, results>>

\* A check of the sweep raises: no package is written.
Abort ==
    /\ stage # "idle"
    /\ Forget
    /\ UNCHANGED <<tables, store, results>>

\* run_sweep reaches stage 2e: the exposure of d, and who dealt after it.
Open(d) ==
    /\ stage = "idle"
    /\ Cardinality(results) < MaxSweeps
    /\ stage' = "draft" /\ of' = {d}
    /\ todo' = PostDealers(store, d)
    /\ UNCHANGED <<tables, store, drafted, suppressed, dispositions, results>>

\* Mutant: a refused draft is dropped.
MutDraft(d, u) ==
    /\ stage = "draft" /\ d \in of /\ u \in todo
    /\ todo' = todo \ {u}
    /\ drafted' = IF <<u, d>> \in Unsayable THEN drafted ELSE drafted \cup {u}
    /\ UNCHANGED <<tables, store, stage, of, suppressed, dispositions, results>>

\* draft_counterparty_notifications, one customer: a draft the validators
\* refuse is suppressed, and surfaced.
Draft(d, u) ==
    /\ stage = "draft" /\ d \in of /\ u \in todo
    /\ todo' = todo \ {u}
    /\ \/ /\ <<u, d>> \notin Unsayable
          /\ drafted' = drafted \cup {u}
          /\ UNCHANGED suppressed
       \/ /\ <<u, d>> \in Unsayable
          /\ suppressed' = suppressed \cup {u}
          /\ UNCHANGED drafted
    /\ UNCHANGED <<tables, store, stage, of, dispositions, results>>

Drafted(d) ==
    /\ stage = "draft" /\ d \in of /\ todo = {}
    /\ stage' = "dispose"
    /\ todo' = PostDealers(store, d)
    /\ UNCHANGED <<tables, store, of, drafted, suppressed, dispositions, results>>

Dispose(d, u) ==
    /\ stage = "dispose" /\ d \in of /\ u \in todo
    /\ todo' = todo \ {u}
    /\ dispositions' = dispositions \cup {Disposition(store, d, u, u \in drafted)}
    /\ UNCHANGED <<tables, store, stage, of, drafted, suppressed, results>>

\* The sweep goes on to its end and writes its package.
Finish(d) ==
    /\ stage = "dispose" /\ d \in of /\ todo = {}
    /\ results' = results \cup {[of |-> d, seen |-> store, drafted |-> drafted,
                                 suppressed |-> suppressed,
                                 dispositions |-> dispositions]}
    /\ Forget
    /\ UNCHANGED <<tables, store>>

Next ==
    \/ \E t \in Payments : Pay(t)
    \/ \E a \in Acks : Acknowledge(a)
    \/ Load \/ Abort
    \/ \E d \in Services :
         \/ Open(d) \/ Drafted(d) \/ Finish(d)
         \/ \E u \in Customers : Draft(d, u) \/ Dispose(d, u)

Spec == Init /\ [][Next]_vars
-----------------------------------------------------------------------------
TypeOK ==
    /\ ledger \subseteq Payments /\ acks \subseteq Acks
    /\ store \in Tables
    /\ stage \in {"idle", "draft", "dispose"}
    /\ of \subseteq Services
    /\ todo \subseteq Customers
    /\ drafted \subseteq Customers /\ suppressed \subseteq Customers
    /\ \A x \in dispositions : x.uid \in Customers
    /\ \A r \in results : r.of \in Services /\ r.seen \in Tables

(***************************************************************************)
(* A finished sweep of a service proposes lifting a customer's restriction *)
(* only if the tables it read show an acknowledgment of that service, no   *)
(* payment either way between the two dated after it, and no               *)
(* acknowledgment of another designated service (docs/lifecycle-           *)
(* methodology.md, "no auto-unblock").                                     *)
(***************************************************************************)
UnblockIsEarned ==
    \A r \in results : \A x \in r.dispositions :
        x.outcome = "propose_unblock" =>
            /\ \E a \in r.seen.acks :
                 /\ a.who = x.uid /\ a.of = r.of
                 /\ ~\E t \in r.seen.ledger :
                        t.who = x.uid /\ t.with = r.of /\ t.way # "via" /\ t.day > a.day
            /\ \A a \in r.seen.acks : a.who = x.uid => a.of = r.of

Earlier(tbl, later) == tbl.ledger \subseteq later.ledger /\ tbl.acks \subseteq later.acks

(***************************************************************************)
(* "Recidivism dominates": once a sweep proposed to offboard a customer,   *)
(* every sweep of that service over later tables does, whatever was paid   *)
(* or acknowledged in between and however often the app restarted.         *)
(***************************************************************************)
OffboardIsSticky ==
    \A r, q \in results :
        r.of = q.of /\ Earlier(r.seen, q.seen) =>
            \A x \in r.dispositions :
                x.outcome = "propose_offboard" =>
                    \E y \in q.dispositions :
                        y.uid = x.uid /\ y.outcome = "propose_offboard"

(***************************************************************************)
(* A finished sweep holds, for each customer who has sent to the service   *)
(* and dealt with it after its designation, exactly one notification or    *)
(* one refusal to draft it, and exactly one disposition; nobody else has   *)
(* any.                                                                    *)
(***************************************************************************)
DealersAreAnsweredOnce ==
    \A r \in results :
        LET dealers ==
              {u \in Customers :
                 /\ \E t \in r.seen.ledger :
                      t.who = u /\ t.with = r.of /\ t.way # "in"
                 /\ \E t \in r.seen.ledger :
                      /\ t.who = u /\ t.with = r.of /\ t.way # "via"
                      /\ t.day > Listed[r.of]}
        IN  /\ r.drafted \cup r.suppressed = dealers
            /\ r.drafted \cap r.suppressed = {}
            /\ {x.uid : x \in r.dispositions} = dealers
            /\ \A x, y \in r.dispositions : x.uid = y.uid => x = y

(***************************************************************************)
(* The sweep and the designation check read one state off the same tables: *)
(* for a customer who was drafted a notification and whose hold is         *)
(* retained, the check shows the state the sweep recorded; for one the     *)
(* sweep proposes to unblock it shows a verified stop.                     *)
(***************************************************************************)
CheckAgreesWithSweep ==
    \A r \in results : \A x \in r.dispositions :
        LET shown == CheckState(r.seen, r.of, x.uid) IN
        /\ x.outcome = "hold_pending" /\ x.uid \in r.drafted => shown = x.state
        /\ x.outcome = "propose_unblock" => shown = "stop_dealing_verified"

(***************************************************************************)
(* "each customer with POST-designation dealing is (a) drafted a subject-  *)
(* facing T&C notification and (b) given a relationship disposition"       *)
(* (sweep/pipeline.py), a dealing being a payment in either direction.     *)
(***************************************************************************)
EveryDealerIsDispositioned ==
    \A r \in results : \A t \in r.seen.ledger :
        t.with = r.of /\ t.way \in {"in", "out"} /\ t.day > Listed[r.of] =>
            \E x \in r.dispositions : x.uid = t.who
=============================================================================
