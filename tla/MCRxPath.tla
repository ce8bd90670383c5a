----------------------------- MODULE MCRxPath -----------------------------
(***************************************************************************)
(* Instances of RxPath for TLC.                                            *)
(***************************************************************************)
EXTENDS RxPath

(***************************************************************************)
(* Data alone while the kernel runs out of buffers; management frames with *)
(* a pool that has a packet for each, and with one that has not; IMPS.     *)
(***************************************************************************)
Various ==
  {[spare |-> 0, data |-> 5, mgmt |-> 0, imps |-> 0, noMem |-> 4],
   [spare |-> 2, data |-> 2, mgmt |-> 2, imps |-> 0, noMem |-> 0],
   [spare |-> 1, data |-> 2, mgmt |-> 1, imps |-> 1, noMem |-> 0],
   [spare |-> 0, data |-> 2, mgmt |-> 0, imps |-> 2, noMem |-> 1],
   [spare |-> 0, data |-> 2, mgmt |-> 1, imps |-> 0, noMem |-> 0],
   [spare |-> 0, data |-> 3, mgmt |-> 0, imps |-> 1, noMem |-> 2]}

=============================================================================
