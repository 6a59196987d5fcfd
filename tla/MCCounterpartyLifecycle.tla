---------------------- MODULE MCCounterpartyLifecycle ----------------------
(* Two services listed on different days; one customer the guard trips on. *)
EXTENDS CounterpartyLifecycle, TLC

CONSTANTS c1, c2, d1, d2

MCUnsayable == {<<c2, d1>>}

MCListed == d1 :> 0 @@ d2 :> 1
=============================================================================
