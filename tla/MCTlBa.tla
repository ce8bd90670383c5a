-------------------------------- MODULE MCTlBa --------------------------------
(***************************************************************************)
(* TlBa for TLC: two sessions that share the pool, with frames of two of   *)
(* the three slots; and one session whose frames have all three, with one  *)
(* frame more, so that the window goes around.                             *)
(***************************************************************************)
EXTENDS TlBa

CONSTANTS t1, t2

SmallSetups ==
  {[tids |-> {t1, t2}, frames |-> 3, slots |-> {0, 2}],
   [tids |-> {t1},     frames |-> 4, slots |-> {0, 1, 2}]}

=============================================================================
