----------------------------- MODULE MCTxPath -----------------------------
(***************************************************************************)
(* Instances of TxPath for TLC.                                            *)
(***************************************************************************)
EXTENDS TxPath

\* The frames come in one category, or in every one.
Alone(n) == [a \in AC |-> IF a = 0 THEN n ELSE 0]
Each(n)  == [a \in AC |-> n]

(***************************************************************************)
(* One packet and a ring that never gets low on descriptors, so that only  *)
(* the callback of the pool brings the data path back; a ring in low       *)
(* resource after a frame, that the second one fills until a third does    *)
(* not fit; and categories that share the one packet and ucPktPending.     *)
(***************************************************************************)
Rivals == {[lo |-> 8, pool |-> 1, frames |-> Each(1), mgmt |-> 0]}

TightSetups ==
  Rivals \cup {[lo |-> 8, pool |-> 1, frames |-> Alone(3), mgmt |-> 0],
              [lo |-> 6, pool |-> 2, frames |-> Alone(2), mgmt |-> 1]}

=============================================================================
