------------------------------ MODULE MCWdaTx ------------------------------
(* The situations in which WdaTx is checked: of three frames one may be given
   up, the next refused and the third sent while the first completes; of four
   scans the second finds the answer to the first one's suspension missing.  *)
EXTENDS WdaTx

Calm == [plain |-> 1, requests |-> 1, scans |-> 0, racing |-> FALSE,
         lost |-> FALSE, peers |-> FALSE, scarce |-> FALSE]

Various == { [Calm EXCEPT !.plain = 0, !.requests = 2],
             [Calm EXCEPT !.plain = 0, !.requests = 2, !.peers = TRUE,
                          !.scarce = TRUE],
             [Calm EXCEPT !.plain = 2],
             [Calm EXCEPT !.plain = 3, !.requests = 0],
             [Calm EXCEPT !.plain = 0, !.scans = 1],
             [Calm EXCEPT !.plain = 0, !.requests = 0, !.scans = 4],
             [Calm EXCEPT !.scans = 1, !.lost = TRUE],
             [Calm EXCEPT !.racing = TRUE] }
=============================================================================
