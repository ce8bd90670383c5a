------------------------------- MODULE MCPmc -------------------------------
(* The situations in which Pmc is checked.  A command may be waiting, another
   one active and two more made meanwhile.                                    *)
EXTENDS Pmc

Ops(few) == [op \in Op |-> IF op \in DOMAIN few THEN few[op] ELSE 0]

Connected == [pool |-> 4, connected |-> TRUE, auto |-> TRUE, secure |-> FALSE,
              late |-> FALSE, ops |-> Ops(<<>>)]
With(few) == [Connected EXCEPT !.ops = Ops(few)]

Various ==
  { \* BMPS, whose entry fails, or which PE leaves
    With([scan |-> 1, disconnect |-> 1, connect |-> 1, roc |-> 1, full |-> 1,
          bmps |-> 1, refusal |-> 1, leaves |-> 1]),
    \* IMPS
    [With([imps |-> 2, scan |-> 2, connect |-> 1, roc |-> 1, refusal |-> 1,
           full |-> 1]) EXCEPT !.connected = FALSE],
    \* UAPSD, WOWL, and messages that cannot be allocated
    With([uapsd |-> 1, stopUapsd |-> 1, roc |-> 1, disconnect |-> 1,
          refusal |-> 1, leaves |-> 1, noMem |-> 1]),
    With([wowl |-> 1, exitWowl |-> 1, roc |-> 1, disconnect |-> 1,
          refusal |-> 1, leaves |-> 1, noMem |-> 1]),
    \* standby, in time and too late
    With([suspend |-> 1, resume |-> 1, scan |-> 1, roc |-> 1, connect |-> 1,
          bmps |-> 1, refusal |-> 1]),
    [With([suspend |-> 1, resume |-> 1, bmps |-> 1, roc |-> 1, refusal |-> 1])
      EXCEPT !.late = TRUE],
    \* the buffers run out
    [With([scan |-> 2, roc |-> 2, disconnect |-> 1, full |-> 1])
      EXCEPT !.pool = 2],
    \* a connection that waits for a key, in vain or not
    [With([connect |-> 1, setKey |-> 1, scan |-> 1, disconnect |-> 1,
           addTs |-> 1]) EXCEPT !.secure = TRUE, !.connected = FALSE],
    [With([connect |-> 1, setKey |-> 1, scan |-> 1])
      EXCEPT !.secure = TRUE, !.late = TRUE, !.connected = FALSE] }

\* An active command, a UAPSD wanted and somebody who needs full power
Sleepy == { With([uapsd |-> 1, roc |-> 1, full |-> 1]) }
=============================================================================
