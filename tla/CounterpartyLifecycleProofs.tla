-------------------- MODULE CounterpartyLifecycleProofs --------------------
(***************************************************************************)
(* Proofs about CounterpartyLifecycle for every set of customers, services *)
(* and dates and any number of rows, restarts and sweeps.                  *)
(*                                                                         *)
(* The inductive invariant says that what a sweep holds is, at each of its *)
(* stages, a function of the tables the app loaded; a finished result is   *)
(* then that function of the tables it saw, and the properties follow from *)
(* the decision alone.                                                     *)
(***************************************************************************)
EXTENDS CounterpartyLifecycle, TLAPS

Sayable(d, U) == {u \in U : <<u, d>> \notin Unsayable}
Refused(d, U) == {u \in U : <<u, d>> \in Unsayable}

\* The disposition of u, whose notification was drafted iff it is sayable.
Answer(tbl, d, u) == Disposition(tbl, d, u, u \in Sayable(d, PostDealers(tbl, d)))

ResultOK(r) ==
    /\ r.of \in Services
    /\ r.drafted = Sayable(r.of, PostDealers(r.seen, r.of))
    /\ r.suppressed = Refused(r.of, PostDealers(r.seen, r.of))
    /\ r.dispositions = {Answer(r.seen, r.of, u) : u \in PostDealers(r.seen, r.of)}

DraftOK(d) ==
    LET post == PostDealers(store, d) IN
    /\ todo \subseteq post
    /\ drafted = Sayable(d, post \ todo)
    /\ suppressed = Refused(d, post \ todo)
    /\ dispositions = {}

DisposeOK(d) ==
    LET post == PostDealers(store, d) IN
    /\ todo \subseteq post
    /\ drafted = Sayable(d, post)
    /\ suppressed = Refused(d, post)
    /\ dispositions = {Answer(store, d, u) : u \in post \ todo}

SweepInv ==
    /\ of \subseteq Services
    /\ \A d, e \in of : d = e
    /\ stage = "idle" => drafted = {} /\ suppressed = {} /\ dispositions = {}
    /\ \A d \in of : stage = "draft" => DraftOK(d)
    /\ \A d \in of : stage = "dispose" => DisposeOK(d)
    /\ \A r \in results : ResultOK(r)
-----------------------------------------------------------------------------
(* What a sweep holds is always a function of the tables the app loaded    *)
(* (sweep/pipeline.py stage 2e).                                           *)
THEOREM SweepInvariant == Spec => []SweepInv
<1>1. Init => SweepInv
  BY DEF Init, SweepInv
<1>2. SweepInv /\ [Next]_vars => SweepInv'
  <2> SUFFICES ASSUME SweepInv, [Next]_vars
               PROVE  SweepInv'
    OBVIOUS
  <2>1. ASSUME NEW t \in Payments, Pay(t)
        PROVE  SweepInv'
    BY <2>1 DEF SweepInv, Pay, sweep, DraftOK, DisposeOK
  <2>2. ASSUME NEW a \in Acks, Acknowledge(a)
        PROVE  SweepInv'
    BY <2>2 DEF SweepInv, Acknowledge, sweep, DraftOK, DisposeOK
  <2>3. ASSUME Load
        PROVE  SweepInv'
    BY <2>3 DEF SweepInv, Load, Forget
  <2>4. ASSUME NEW d \in Services, Open(d)
        PROVE  SweepInv'
    <3>1. DraftOK(d)'
      <4>1. /\ drafted' = {} /\ suppressed' = {} /\ dispositions' = {}
            /\ todo' = PostDealers(store, d) /\ store' = store
        BY <2>4 DEF SweepInv, Open
      <4> QED
        BY <4>1 DEF DraftOK, Sayable, Refused
    <3> QED
      BY <2>4, <3>1 DEF SweepInv, Open
  <2>5. ASSUME NEW d \in Services, NEW u \in Customers, Draft(d, u)
        PROVE  SweepInv'
    <3>1. DraftOK(d)
      BY <2>5 DEF SweepInv, Draft
    <3>2. DraftOK(d)'
      BY <2>5, <3>1 DEF Draft, DraftOK, Sayable, Refused
    <3> QED
      BY <2>5, <3>2 DEF SweepInv, Draft
  <2>6. ASSUME NEW d \in Services, Drafted(d)
        PROVE  SweepInv'
    <3>1. DraftOK(d)
      BY <2>6 DEF SweepInv, Drafted
    <3>2. DisposeOK(d)'
      BY <2>6, <3>1 DEF Drafted, DraftOK, DisposeOK, Sayable, Refused
    <3> QED
      BY <2>6, <3>2 DEF SweepInv, Drafted
  <2>7. ASSUME NEW d \in Services, NEW u \in Customers, Dispose(d, u)
        PROVE  SweepInv'
    <3>1. DisposeOK(d)
      BY <2>7 DEF SweepInv, Dispose
    <3>2. Disposition(store, d, u, u \in drafted) = Answer(store, d, u)
      BY <3>1 DEF DisposeOK, Answer
    <3>3. DisposeOK(d)'
      <4> DEFINE post == PostDealers(store, d)
      <4>1. u \in post /\ post \ todo' = (post \ todo) \cup {u}
        BY <2>7, <3>1 DEF Dispose, DisposeOK
      <4>2. dispositions' = {Answer(store, d, w) : w \in post \ todo'}
        <5>1. dispositions' = {Answer(store, d, w) : w \in post \ todo}
                                \cup {Answer(store, d, u)}
          BY <2>7, <3>1, <3>2 DEF Dispose, DisposeOK
        <5> HIDE DEF post
        <5> QED
          BY <5>1, <4>1
      <4>3. store' = store /\ drafted' = drafted /\ suppressed' = suppressed
            /\ todo' \subseteq post
        BY <2>7, <3>1 DEF Dispose, DisposeOK
      <4> QED
        BY <4>2, <4>3, <3>1 DEF DisposeOK
    <3> QED
      BY <2>7, <3>3 DEF SweepInv, Dispose
  <2>8. ASSUME NEW d \in Services, Finish(d)
        PROVE  SweepInv'
    <3> DEFINE new == [of |-> d, seen |-> store, drafted |-> drafted,
                       suppressed |-> suppressed, dispositions |-> dispositions]
    <3>1. DisposeOK(d) /\ todo = {}
      BY <2>8 DEF SweepInv, Finish
    <3>2. ResultOK(new)
      <4>1. PostDealers(store, d) \ todo = PostDealers(store, d)
        BY <3>1
      <4> QED
        BY <3>1, <4>1 DEF ResultOK, DisposeOK
    <3>3. results' = results \cup {new}
      BY <2>8 DEF Finish
    <3> HIDE DEF new
    <3> QED
      BY <2>8, <3>2, <3>3 DEF SweepInv, Finish, Forget
  <2>9. ASSUME Abort
        PROVE  SweepInv'
    BY <2>9 DEF SweepInv, Abort, Forget
  <2>10. CASE UNCHANGED vars
    BY <2>10 DEF SweepInv, vars, sweep, DraftOK, DisposeOK
  <2> QED
    BY <2>1, <2>2, <2>3, <2>4, <2>5, <2>6, <2>7, <2>8, <2>9, <2>10 DEF Next
<1> QED
  BY <1>1, <1>2, PTL DEF Spec
-----------------------------------------------------------------------------
LEMMA Answered ==
    ASSUME NEW r, ResultOK(r), NEW x \in r.dispositions
    PROVE  x.uid \in PostDealers(r.seen, r.of) /\ x = Answer(r.seen, r.of, x.uid)
<1>1. PICK u \in PostDealers(r.seen, r.of) : x = Answer(r.seen, r.of, u)
  BY DEF ResultOK
<1>2. x.uid = u
  BY <1>1 DEF Answer, Disposition
<1> QED
  BY <1>1, <1>2

LEMMA Outcomes ==
    ASSUME NEW tbl, NEW d, NEW u
    PROVE  /\ Answer(tbl, d, u).uid = u
           /\ Answer(tbl, d, u).outcome =
                Decide(Acknowledged(tbl, d, u), StopVerified(tbl, d, u),
                       Prior(tbl, d, u) # {})
  BY DEF Answer, Disposition

(* Every variable keeps the shape the code gives it. *)
THEOREM LifecycleTypeOK == Spec => []TypeOK
<1> USE LifecycleAssumption
<1>1. Init => TypeOK
  BY DEF Init, TypeOK, Tables
<1>2. TypeOK /\ [Next]_vars => TypeOK'
  <2> SUFFICES ASSUME TypeOK, [Next]_vars
               PROVE  TypeOK'
    OBVIOUS
  <2>1. ASSUME NEW t \in Payments, Pay(t)
        PROVE  TypeOK'
    BY <2>1 DEF TypeOK, Pay, sweep
  <2>2. ASSUME NEW a \in Acks, Acknowledge(a)
        PROVE  TypeOK'
    BY <2>2 DEF TypeOK, Acknowledge, sweep
  <2>3. ASSUME Load
        PROVE  TypeOK'
    BY <2>3 DEF TypeOK, tables, Load, Forget, Tables
  <2>4. ASSUME NEW d \in Services, Open(d)
        PROVE  TypeOK'
    BY <2>4 DEF TypeOK, tables, Open, PostDealers, Exposed
  <2>5. ASSUME NEW d \in Services, NEW u \in Customers, Draft(d, u)
        PROVE  TypeOK'
    BY <2>5 DEF TypeOK, tables, Draft
  <2>6. ASSUME NEW d \in Services, Drafted(d)
        PROVE  TypeOK'
    BY <2>6 DEF TypeOK, tables, Drafted, PostDealers, Exposed
  <2>7. ASSUME NEW d \in Services, NEW u \in Customers, Dispose(d, u)
        PROVE  TypeOK'
    BY <2>7 DEF TypeOK, tables, Dispose, Disposition
  <2>8. ASSUME NEW d \in Services, Finish(d)
        PROVE  TypeOK'
    BY <2>8 DEF TypeOK, tables, Finish, Forget
  <2>9. ASSUME Abort
        PROVE  TypeOK'
    BY <2>9 DEF TypeOK, tables, Abort, Forget
  <2>10. CASE UNCHANGED vars
    BY <2>10 DEF TypeOK, vars, tables, sweep
  <2> QED
    BY <2>1, <2>2, <2>3, <2>4, <2>5, <2>6, <2>7, <2>8, <2>9, <2>10 DEF Next
<1> QED
  BY <1>1, <1>2, PTL DEF Spec

(* A proposal to unblock rests on an acknowledgment with no later payment  *)
(* between the two and on no other acknowledged service                    *)
(* (agency/decisions.py decide_counterparty_lifecycle).                    *)
THEOREM UnblockEarned == Spec => []UnblockIsEarned
<1>1. ASSUME TypeOK, SweepInv
      PROVE  UnblockIsEarned
  <2> SUFFICES ASSUME NEW r \in results, NEW x \in r.dispositions,
                      x.outcome = "propose_unblock"
               PROVE  /\ \E a \in r.seen.acks :
                           /\ a.who = x.uid /\ a.of = r.of
                           /\ ~\E t \in r.seen.ledger :
                                /\ t.who = x.uid /\ t.with = r.of
                                /\ t.way # "via" /\ t.day > a.day
                      /\ \A a \in r.seen.acks : a.who = x.uid => a.of = r.of
    BY DEF UnblockIsEarned
  <2>1. ResultOK(r) /\ r.seen \in Tables
    BY <1>1 DEF SweepInv, TypeOK
  <2>2. x = Answer(r.seen, r.of, x.uid)
    BY <2>1, Answered
  <2>3. "propose_unblock" = Decide(Acknowledged(r.seen, r.of, x.uid),
                                   StopVerified(r.seen, r.of, x.uid),
                                   Prior(r.seen, r.of, x.uid) # {})
    BY <2>2, Outcomes
  <2>4. /\ Acknowledged(r.seen, r.of, x.uid)
        /\ StopVerified(r.seen, r.of, x.uid)
        /\ Prior(r.seen, r.of, x.uid) = {}
    BY <2>3 DEF Decide
  <2>5. PICK a \in r.seen.acks : a.who = x.uid /\ a.of = r.of
    BY <2>4 DEF Acknowledged, Current
  <2>6. ASSUME NEW t \in r.seen.ledger, t.who = x.uid, t.with = r.of, t.way # "via"
        PROVE  t.day <= a.day
    <3>1. t \in Dealings(r.seen, r.of, x.uid)
      BY <2>1, <2>6 DEF Dealings, Tables, Payments, Ways
    <3> QED
      BY <3>1, <2>4, <2>5 DEF StopVerified, Current
  <2>7. \A t \in r.seen.ledger : t.day \in Int
    BY <2>1, LifecycleAssumption DEF Tables, Payments
  <2>8. a.day \in Int
    BY <2>1, LifecycleAssumption DEF Tables, Acks
  <2>9. \A b \in r.seen.acks : b.who = x.uid => b.of = r.of
    BY <2>4 DEF Prior
  <2> QED
    BY <2>5, <2>6, <2>7, <2>8, <2>9
<1> QED
  BY <1>1, LifecycleTypeOK, SweepInvariant, PTL

(* Later tables never withdraw a proposal to offboard: what exposed the    *)
(* customer, dated the dealing and recorded the other acknowledgment is    *)
(* still there (agency/decisions.py decide_counterparty_lifecycle).        *)
THEOREM OffboardSticks == Spec => []OffboardIsSticky
<1>1. ASSUME SweepInv
      PROVE  OffboardIsSticky
  <2> SUFFICES ASSUME NEW r \in results, NEW q \in results,
                      r.of = q.of, Earlier(r.seen, q.seen),
                      NEW x \in r.dispositions, x.outcome = "propose_offboard"
               PROVE  \E y \in q.dispositions :
                        y.uid = x.uid /\ y.outcome = "propose_offboard"
    BY DEF OffboardIsSticky
  <2>1. ResultOK(r) /\ ResultOK(q)
    BY <1>1 DEF SweepInv
  <2> DEFINE u == x.uid
             d == q.of
  <2>2. u \in PostDealers(r.seen, d) /\ x = Answer(r.seen, d, u)
    BY <2>1, Answered
  <2>3. "propose_offboard" = Decide(Acknowledged(r.seen, d, u),
                                    StopVerified(r.seen, d, u), Prior(r.seen, d, u) # {})
    BY <2>2, Outcomes
  <2>4. Prior(r.seen, d, u) # {}
    BY <2>3 DEF Decide
  <2>5. Prior(q.seen, d, u) # {}
    BY <2>4 DEF Prior, Earlier
  <2>6. Decide(Acknowledged(q.seen, d, u), StopVerified(q.seen, d, u),
               Prior(q.seen, d, u) # {}) = "propose_offboard"
    BY <2>5 DEF Decide
  <2>7. u \in PostDealers(q.seen, d)
    BY <2>2 DEF PostDealers, Exposed, HasPostDesignationDealing, Dealings, Earlier
  <2>8. Answer(q.seen, d, u) \in q.dispositions
    BY <2>1, <2>7 DEF ResultOK
  <2>9. Answer(q.seen, d, u).uid = u
        /\ Answer(q.seen, d, u).outcome = "propose_offboard"
    BY <2>6, Outcomes
  <2> QED
    BY <2>8, <2>9
<1> QED
  BY <1>1, SweepInvariant, PTL

(* Each exposed post-designation dealer has one draft or one refusal, and  *)
(* one disposition; nobody else has any (sweep/lifecycle.py                *)
(* draft_counterparty_notifications, sweep/pipeline.py stage 2e).          *)
THEOREM DealersAnswered == Spec => []DealersAreAnsweredOnce
<1>1. ASSUME TypeOK, SweepInv
      PROVE  DealersAreAnsweredOnce
  <2> SUFFICES ASSUME NEW r \in results
               PROVE  LET dealers ==
                            {u \in Customers :
                               /\ \E t \in r.seen.ledger :
                                    t.who = u /\ t.with = r.of /\ t.way # "in"
                               /\ \E t \in r.seen.ledger :
                                    /\ t.who = u /\ t.with = r.of /\ t.way # "via"
                                    /\ t.day > Listed[r.of]}
                      IN  /\ r.drafted \cup r.suppressed = dealers
                          /\ r.drafted \cap r.suppressed = {}
                          /\ {x.uid : x \in r.dispositions} = dealers
                          /\ \A x, y \in r.dispositions : x.uid = y.uid => x = y
    BY DEF DealersAreAnsweredOnce
  <2> DEFINE post == PostDealers(r.seen, r.of)
  <2>1. ResultOK(r) /\ r.seen \in Tables
    BY <1>1 DEF SweepInv, TypeOK
  <2>2. post = {u \in Customers :
                  /\ \E t \in r.seen.ledger :
                       t.who = u /\ t.with = r.of /\ t.way # "in"
                  /\ \E t \in r.seen.ledger :
                       /\ t.who = u /\ t.with = r.of /\ t.way # "via"
                       /\ t.day > Listed[r.of]}
    <3>1. \A t \in r.seen.ledger :
            /\ t.way # "in" <=> t.way \in {"out", "via"}
            /\ t.way # "via" <=> t.way \in {"out", "in"}
      BY <2>1 DEF Tables, Payments, Ways
    <3> QED
      BY <3>1 DEF PostDealers, Exposed, HasPostDesignationDealing, Dealings
  <2>3. r.drafted \cup r.suppressed = post /\ r.drafted \cap r.suppressed = {}
    BY <2>1 DEF ResultOK, Sayable, Refused
  <2>4. \A x \in r.dispositions : x.uid \in post /\ x = Answer(r.seen, r.of, x.uid)
    BY <2>1, Answered
  <2>5. \A u \in post : Answer(r.seen, r.of, u) \in r.dispositions
                        /\ Answer(r.seen, r.of, u).uid = u
    BY <2>1, Outcomes DEF ResultOK
  <2> HIDE DEF post
  <2>6. {x.uid : x \in r.dispositions} = post
    BY <2>4, <2>5
  <2> QED
    BY <2>2, <2>3, <2>4, <2>6
<1> QED
  BY <1>1, LifecycleTypeOK, SweepInvariant, PTL

(* The sweep and the designation check show one state for one customer     *)
(* (designation_check/check.py, the counterparty state line).              *)
THEOREM CheckAgrees == Spec => []CheckAgreesWithSweep
<1>1. ASSUME SweepInv
      PROVE  CheckAgreesWithSweep
  <2> SUFFICES ASSUME NEW r \in results, NEW x \in r.dispositions
               PROVE  LET shown == CheckState(r.seen, r.of, x.uid) IN
                      /\ x.outcome = "hold_pending" /\ x.uid \in r.drafted
                           => shown = x.state
                      /\ x.outcome = "propose_unblock" => shown = "stop_dealing_verified"
    BY DEF CheckAgreesWithSweep
  <2> DEFINE u == x.uid
             ack == Acknowledged(r.seen, r.of, u)
             stop == StopVerified(r.seen, r.of, u)
             told == u \in Sayable(r.of, PostDealers(r.seen, r.of))
  <2>1. ResultOK(r)
    BY <1>1 DEF SweepInv
  <2>2. u \in PostDealers(r.seen, r.of) /\ x = Answer(r.seen, r.of, u)
    BY <2>1, Answered
  <2>3. x.outcome = Decide(ack, stop, Prior(r.seen, r.of, u) # {})
    BY <2>2, Outcomes
  <2>4. x.state = DeriveState(told, ack, stop, x.outcome)
    BY <2>2 DEF Answer, Disposition
  <2>5. CheckState(r.seen, r.of, u) = DeriveState(TRUE, ack, stop, "hold_pending")
    BY <2>2 DEF CheckState, PostDealers
  <2>6. u \in r.drafted <=> told
    BY <2>1 DEF ResultOK
  <2>7. x.outcome = "propose_unblock" => ack /\ stop
    BY <2>3 DEF Decide
  <2> HIDE DEF u, ack, stop, told
  <2>8. x.outcome = "propose_unblock" =>
          DeriveState(TRUE, ack, stop, "hold_pending") = "stop_dealing_verified"
    BY <2>7 DEF DeriveState
  <2> QED
    BY <2>4, <2>5, <2>6, <2>8 DEF u
<1> QED
  BY <1>1, SweepInvariant, PTL
=============================================================================
