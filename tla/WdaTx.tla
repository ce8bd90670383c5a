------------------------------- MODULE WdaTx -------------------------------
(***************************************************************************)
(* How WDA sends the management frames of LIM and stops the data during a  *)
(* scan.  Both make the MC thread wait for a callback of the TX thread and *)
(* give up after a while, so that the callback may come too late.  With it *)
(* the disassociation of LIM, which waits for the peer's acknowledgement.  *)
(*                                                                         *)
(* Sources: CORE/WDA/src/wlan_qct_wda.c, CORE/TL/src/wlan_qct_tl.c (the    *)
(* one pending management frame, suspending and resuming data) and         *)
(* CORE/MAC/src/pe/lim/limSendManagementFrames.c and                       *)
(* limProcessMlmReqMessages.c (the disassociation).                        *)
(*                                                                         *)
(* The two threads interleave at every access to what they share.  The     *)
(* rings, the hardware and the firmware are external: a frame in the ring  *)
(* is completed at any time, and acknowledged or not.                      *)
(***************************************************************************)
EXTENDS Naturals, Sequences, FiniteSets, SequencesExt

CONSTANTS
  Setups  \* the situations considered, records of
          \*   plain, requests, scans: bounds, the frames that need no
          \*   acknowledgement, the disassociations and the scans;
          \*   racing: whether a wait may end by timeout while its callback
          \*   is running, and the message that announces a frame be refused
          \*   after the frame has been fetched;
          \*   lost: whether a message to the TX thread, or the request to
          \*   finish a scan, may be refused;
          \*   peers: whether the disassociations are for several peers;
          \*   scarce: whether LIM may get no packet for its frame, and the
          \*   clean-up before a confirmation may fail

ASSUME SetupsAssumption ==
  Setups \subseteq [plain: Nat, requests: Nat, scans: Nat,
                    racing: BOOLEAN, lost: BOOLEAN,
                    peers: BOOLEAN, scarce: BOOLEAN]

None  == 0   \* no frame, a NULL pointer, WDA_TX_PACKET_FREED
Frame == UNION { 1 .. s.plain + s.requests : s \in Setups }
Request == UNION { 1 .. s.requests : s \in Setups }

VARIABLES
  mc,      \* the MC thread: [pc, frame: what it sends, ack: with pAckTxComp]
  wda,     \* [txCb: pTxCbFunc # NULL, ackCb: pAckTxCbFunc # NULL,
           \*  toFree: VosPacketToFree, event: txFrameEvent is signalled,
           \*  timer: expiries of TxCompleteTimer to come,
           \*  txStatus: txStatus is SUCCESS, suspEvent: suspendDataTxEvent,
           \*  timedOut: txSuspendTimedOut]
  lim,     \* [req: the request in pMlmDisassocReq, unsent: no frame was made
           \*  for it, freed: its memory has been freed,
           \*  timer: gLimDisassocAckTimer runs, scan: the state of the scan]
  tl,      \* [slot: vosPendingDataBuff, suspended: ucTxSuspended,
           \*  asked: suspend messages to the TX thread]
  tx,      \* the TX thread: [pc, frame: what it completes]
  ring,    \* frames in the DXE ring
  frames,  \* [tag: those tagged as timed out, freed: how often each was freed,
           \*  ack: those that want an acknowledgement, air: those of them that
           \*  are with the firmware, next: the next frame]
  msgs,    \* messages to the MC thread: [ind, wdaTimeout, limTimeout]
  setup,   \* the situation
  left     \* how many of each kind may still be sent

vars == <<mc, wda, lim, tl, tx, ring, frames, msgs, setup, left>>

Init ==
  /\ setup \in Setups
  /\ left = [plain |-> setup.plain, requests |-> setup.requests,
             scans |-> setup.scans]
  /\ mc = [pc |-> "idle", frame |-> None, ack |-> FALSE]
  /\ wda = [txCb |-> FALSE, ackCb |-> FALSE, toFree |-> None, event |-> FALSE,
            timer |-> 0, txStatus |-> FALSE, suspEvent |-> FALSE,
            timedOut |-> FALSE]
  /\ lim = [req |-> None, unsent |-> FALSE, freed |-> FALSE, timer |-> FALSE,
            scan |-> "none"]
  /\ tl = [slot |-> None, suspended |-> FALSE, asked |-> 0]
  /\ tx = [pc |-> "idle", frame |-> None]
  /\ ring = <<>>
  /\ frames = [tag |-> {}, freed |-> [f \in Frame |-> 0],
               ack |-> {}, air |-> {}, next |-> 1]
  /\ msgs = [ind |-> 0, wdaTimeout |-> 0, limTimeout |-> 0]

Spend(what) == /\ left[what] > 0
               /\ left' = [left EXCEPT ![what] = @ - 1]
               /\ UNCHANGED setup

\* Whether the TX thread is inside a callback of WDA, and whether the MC thread
\* has given up waiting but not yet drawn its conclusions.
InTxComplete   == tx.pc \in {"tagged", "called", "swapped", "freed"}
InSuspendCb    == tx.pc \in {"answered", "woken", "late"}
GivingUpFrame  == mc.pc \in {"noCallback", "tagging"}
GivingUpTl     == mc.pc \in {"scanTimeout", "scanSuspended"}

-----------------------------------------------------------------------------
(* LIM.                                                                    *)

\* limSendDisassocCnf: the request is confirmed, if there is one, and freed.  When
\* the session or the peer is gone, or the clean-up fails, the pointer to it stays.
SendDisassocCnf(l) ==
  IF l.req = None THEN {l}
  ELSE {[l EXCEPT !.req = None, !.timer = FALSE, !.freed = FALSE]}
         \cup (IF setup.scarce THEN {[l EXCEPT !.timer = FALSE, !.freed = TRUE]}
               ELSE {})

StopWdaTimer(w) == [w EXCEPT !.timer = 0]

\* tx_timer_activate: the first expiry starts the timer once more.
StartWdaTimer(w) == [w EXCEPT !.timer = IF @ = 0 THEN 2 ELSE @]

-----------------------------------------------------------------------------
(* WDA_TxPacket, in the MC thread.                                         *)

\* The completion callback is stored; whoever still waits for an
\* acknowledgement is called.
StoreCallbacks(w, ack) ==
  LET w1 == [w EXCEPT !.txCb = TRUE]
  IN  IF ~ack THEN w1
      ELSE StartWdaTimer([(IF w.ackCb THEN StopWdaTimer(w1) ELSE w1)
                            EXCEPT !.ackCb = TRUE])

BeginFrame(ack) ==
  /\ mc.pc = "idle"
  /\ mc' = [pc |-> "reset", frame |-> frames.next, ack |-> ack]
  /\ frames' = [frames EXCEPT !.next = @ + 1,
                             !.ack = IF ack THEN @ \cup {frames.next} ELSE @]
  /\ wda' = StoreCallbacks(wda, ack)
  /\ UNCHANGED <<tl, tx, ring, msgs>>

\* A frame that needs no acknowledgement
SendPlain ==
  /\ Spend("plain")
  /\ BeginFrame(FALSE)
  /\ UNCHANGED lim

\* limProcessMlmDisassocReq: another request for the same peer is refused until
\* the one before is confirmed; one for another peer takes its place.  If LIM gets
\* no packet, limSendDisassocMgmtFrame returns and starts no timer.
Disassociate ==
  /\ Spend("requests")
  /\ mc.pc = "idle"
  /\ setup.peers \/ lim.req = None \/ lim.freed
  /\ LET r == setup.requests - left.requests + 1
         l == [lim EXCEPT !.req = r, !.freed = FALSE, !.unsent = FALSE]
     IN  \/ /\ BeginFrame(TRUE)
            /\ lim' \in IF wda.ackCb THEN SendDisassocCnf(l) ELSE {l}
         \/ /\ setup.scarce
            /\ lim' = [l EXCEPT !.unsent = TRUE]
            /\ UNCHANGED <<mc, wda, tl, tx, ring, frames, msgs>>

ResetEvent ==
  /\ mc.pc = "reset"
  /\ wda' = [wda EXCEPT !.event = FALSE]
  /\ mc' = [mc EXCEPT !.pc = "store"]
  /\ UNCHANGED <<lim, tl, tx, ring, frames, msgs, setup, left>>

StorePacket ==
  /\ mc.pc = "store"
  /\ wda' = [wda EXCEPT !.toFree = mc.frame]
  /\ frames' = [frames EXCEPT !.tag = @ \ {mc.frame}]
  /\ mc' = [mc EXCEPT !.pc = "hand"]
  /\ UNCHANGED <<lim, tl, tx, ring, msgs, setup, left>>

\* A failure: nobody waits for an acknowledgement any more.
ForgetAck(w) == IF mc.ack THEN StopWdaTimer([w EXCEPT !.ackCb = FALSE]) ELSE w

\* Fault: the timer that confirms the request is started for a sent frame only.
SentIfTaken ==
  /\ mc' = [pc |-> "idle", frame |-> None, ack |-> FALSE]
  /\ lim' = [lim EXCEPT !.timer = @ \/ (mc.ack /\ mc.pc = "wait")]

\* Back in limSendDisassocMgmtFrame, which starts its timer whatever the result
Sent ==
  /\ mc' = [pc |-> "idle", frame |-> None, ack |-> FALSE]
  /\ lim' = [lim EXCEPT !.timer = @ \/ mc.ack]

Free(f) == frames' = [frames EXCEPT !.freed[f] = @ + 1]

\* WLANTL_TxMgmtFrm did not take the frame.
Refused ==
  /\ Free(mc.frame)
  /\ wda' = ForgetAck([wda EXCEPT !.toFree = None])
  /\ Sent

\* WLANTL_TxMgmtFrm: one frame can be pending.
HandToTl ==
  /\ mc.pc = "hand"
  /\ IF tl.slot # None
     THEN Refused /\ UNCHANGED tl
     ELSE /\ tl' = [tl EXCEPT !.slot = mc.frame]
          /\ mc' = [mc EXCEPT !.pc = "kick"]
          /\ UNCHANGED <<wda, lim, frames>>
  /\ UNCHANGED <<tx, ring, msgs, setup, left>>

\* WDA_DS_StartXmit posts a message to the TX thread, which may fetch the frame
\* before.  If it cannot be posted, the frame is taken back.
Kick ==
  /\ mc.pc = "kick"
  /\ \/ /\ mc' = [mc EXCEPT !.pc = "wait"]
        /\ UNCHANGED <<wda, lim, tl, frames>>
     \/ /\ setup.lost
        /\ setup.racing \/ tl.slot = mc.frame
        /\ tl' = [tl EXCEPT !.slot = None]
        /\ Refused
  /\ UNCHANGED <<tx, ring, msgs, setup, left>>

FrameEvent ==
  /\ mc.pc = "wait" /\ wda.event
  /\ wda' = [wda EXCEPT !.event = FALSE]
  /\ Sent
  /\ UNCHANGED <<tl, tx, ring, frames, msgs, setup, left>>

\* WDA_TL_TX_FRAME_TIMEOUT: first the callback is taken away,
FrameTimeout ==
  /\ mc.pc = "wait" /\ ~wda.event
  /\ setup.racing \/ ~InTxComplete
  /\ wda' = [wda EXCEPT !.txCb = FALSE]
  /\ mc' = [mc EXCEPT !.pc = "noCallback"]
  /\ UNCHANGED <<lim, tl, tx, ring, frames, msgs, setup, left>>

\* then the frame is tagged,
TagFrame ==
  /\ mc.pc = "noCallback"
  /\ frames' = [frames EXCEPT !.tag = @ \cup {mc.frame}]
  /\ mc' = [mc EXCEPT !.pc = "tagging"]
  /\ UNCHANGED <<wda, lim, tl, tx, ring, msgs, setup, left>>

\* Fault: the frame is freed as well.
GiveUpAndFree ==
  /\ mc.pc = "tagging"
  /\ IF wda.toFree = mc.frame THEN Free(mc.frame) ELSE UNCHANGED frames
  /\ wda' = ForgetAck([wda EXCEPT !.toFree = None])
  /\ Sent
  /\ UNCHANGED <<tl, tx, ring, msgs, setup, left>>

\* then it is forgotten.
GiveUpFrame ==
  /\ mc.pc = "tagging"
  /\ wda' = ForgetAck([wda EXCEPT !.toFree = None])
  /\ Sent
  /\ UNCHANGED <<tl, tx, ring, frames, msgs, setup, left>>

-----------------------------------------------------------------------------
(* The TX thread sends and completes the frames.                           *)

Fetch ==
  /\ tx.pc = "idle" /\ tl.slot # None
  /\ ring' = Append(ring, tl.slot)
  /\ tl' = [tl EXCEPT !.slot = None]
  /\ frames' = [frames EXCEPT !.air = @ \cup ({tl.slot} \cap frames.ack)]
  /\ UNCHANGED <<mc, wda, lim, tx, msgs, setup, left>>

\* Fault: the tag is not looked at.
TxCompleteIgnoresTag ==
  /\ tx.pc = "idle" /\ ring # <<>>
  /\ setup.racing \/ ~GivingUpFrame
  /\ ring' = Tail(ring)
  /\ tx' = [pc |-> "tagged", frame |-> Head(ring)]
  /\ UNCHANGED <<mc, wda, lim, tl, frames, msgs, setup, left>>

\* WDA_TxComplete: a frame that has been given up is freed.
TxComplete ==
  /\ tx.pc = "idle" /\ ring # <<>>
  /\ setup.racing \/ ~GivingUpFrame
  /\ ring' = Tail(ring)
  /\ IF Head(ring) \in frames.tag
     THEN Free(Head(ring)) /\ UNCHANGED tx
     ELSE /\ tx' = [pc |-> "tagged", frame |-> Head(ring)]
          /\ UNCHANGED frames
  /\ UNCHANGED <<mc, wda, lim, tl, msgs, setup, left>>

LookForCallback ==
  /\ tx.pc = "tagged"
  /\ tx' = [tx EXCEPT !.pc = IF wda.txCb THEN "called" ELSE "freed"]
  /\ UNCHANGED <<mc, wda, lim, tl, ring, frames, msgs, setup, left>>

\* The exchange of VosPacketToFree decides who frees the frame.
ClaimPacket ==
  /\ tx.pc = "called"
  /\ wda' = [wda EXCEPT !.toFree = None]
  /\ tx' = IF wda.toFree = tx.frame THEN [tx EXCEPT !.pc = "swapped"]
                                    ELSE [pc |-> "idle", frame |-> None]
  /\ UNCHANGED <<mc, lim, tl, ring, frames, msgs, setup, left>>

\* The callback is read again; NULL is not called with impunity.
CallTxComplete ==
  /\ tx.pc = "swapped"
  /\ IF wda.txCb THEN Free(tx.frame) /\ tx' = [tx EXCEPT !.pc = "freed"]
                 ELSE UNCHANGED frames /\ tx' = [tx EXCEPT !.pc = "crashed"]
  /\ UNCHANGED <<mc, wda, lim, tl, ring, msgs, setup, left>>

SetFrameEvent ==
  /\ tx.pc = "freed"
  /\ wda' = [wda EXCEPT !.event = TRUE]
  /\ tx' = [pc |-> "idle", frame |-> None]
  /\ UNCHANGED <<mc, lim, tl, ring, frames, msgs, setup, left>>

-----------------------------------------------------------------------------
(* Acknowledgements and the two timers of a disassociation.                *)

\* The firmware reports what became of a frame that wants to be acknowledged.
Acknowledged ==
  /\ \E f \in frames.air : frames' = [frames EXCEPT !.air = @ \ {f}]
  /\ msgs' = [msgs EXCEPT !.ind = @ + 1]
  /\ UNCHANGED <<mc, wda, lim, tl, tx, ring, setup, left>>

WdaTimerExpires ==
  /\ wda.timer > 0
  /\ wda' = [wda EXCEPT !.timer = @ - 1]
  /\ msgs' = [msgs EXCEPT !.wdaTimeout = @ + 1]
  /\ UNCHANGED <<mc, lim, tl, tx, ring, frames, setup, left>>

LimTimerExpires ==
  /\ lim.timer
  /\ lim' = [lim EXCEPT !.timer = FALSE]
  /\ msgs' = [msgs EXCEPT !.limTimeout = @ + 1]
  /\ UNCHANGED <<mc, wda, tl, tx, ring, frames, setup, left>>

Take(kind) == /\ mc.pc = "idle" /\ msgs[kind] > 0
              /\ msgs' = [msgs EXCEPT ![kind] = @ - 1]
              /\ UNCHANGED <<mc, tl, tx, ring, frames, setup, left>>

CallAck == lim' \in IF wda.ackCb THEN SendDisassocCnf(lim) ELSE {lim}

\* WDI_TX_COMPLETE_IND
TxCompleteInd ==
  /\ Take("ind")
  /\ CallAck
  /\ wda' = IF wda.ackCb THEN StopWdaTimer([wda EXCEPT !.ackCb = FALSE]) ELSE wda

TxCompleteTimeoutInd ==
  /\ Take("wdaTimeout")
  /\ CallAck
  /\ wda' = [wda EXCEPT !.ackCb = FALSE]

DisassocAckTimeout ==
  /\ Take("limTimeout")
  /\ lim' \in SendDisassocCnf(lim)
  /\ UNCHANGED wda

\* limCleanUpDisassocDeauthReq: the peer has left by itself.
PeerLeaves ==
  /\ mc.pc = "idle" /\ lim.req # None
  /\ lim' \in SendDisassocCnf(lim)
  /\ UNCHANGED <<mc, wda, tl, tx, ring, frames, msgs, setup, left>>

-----------------------------------------------------------------------------
(* A scan: WDA_SuspendDataTx, in the MC thread.                            *)

ResumeDataTx == tl' = [tl EXCEPT !.suspended = FALSE]

\* A suspension that timed out must have been answered before the next.  TL
\* does not tell whether its message could be sent.
InitScan ==
  /\ mc.pc = "idle" /\ lim.scan = "none"
  /\ Spend("scans")
  /\ IF wda.timedOut
     THEN /\ wda' = [wda EXCEPT !.txStatus = FALSE]
          /\ UNCHANGED <<mc, tl>>
     ELSE /\ wda' = [wda EXCEPT !.txStatus = FALSE, !.suspEvent = FALSE]
          /\ IF tl.suspended THEN UNCHANGED <<mc, tl>>
             ELSE /\ mc' = [mc EXCEPT !.pc = "scanWait"]
                  /\ tl' \in { [tl EXCEPT !.suspended = TRUE, !.asked = @ + n] :
                               n \in IF setup.lost THEN {0, 1} ELSE {1} }
  /\ UNCHANGED <<lim, tx, ring, frames, msgs>>

SuspendEvent ==
  /\ mc.pc = "scanWait" /\ wda.suspEvent
  /\ wda' = [wda EXCEPT !.suspEvent = FALSE, !.timedOut = FALSE]
  /\ mc' = [mc EXCEPT !.pc = "scanSuspended"]
  /\ UNCHANGED <<lim, tl, tx, ring, frames, msgs, setup, left>>

\* WDA_TL_SUSPEND_TIMEOUT
SuspendTimeout ==
  /\ mc.pc = "scanWait" /\ ~wda.suspEvent
  /\ setup.racing \/ ~InSuspendCb
  /\ mc' = [mc EXCEPT !.pc = "scanTimeout"]
  /\ UNCHANGED <<wda, lim, tl, tx, ring, frames, msgs, setup, left>>

SetTimedOut ==
  /\ mc.pc = "scanTimeout"
  /\ wda' = [wda EXCEPT !.timedOut = TRUE]
  /\ mc' = [mc EXCEPT !.pc = "scanSuspended"]
  /\ UNCHANGED <<lim, tl, tx, ring, frames, msgs, setup, left>>

\* Fault: the scan is started whether or not TL has answered.
StartScanUnanswered ==
  /\ mc.pc = "scanSuspended"
  /\ mc' = [mc EXCEPT !.pc = "idle"]
  /\ lim' = [lim EXCEPT !.scan = "init"]
  /\ UNCHANGED <<wda, tl, tx, ring, frames, msgs, setup, left>>

\* If the data is suspended, WDI_InitScanReq, which may refuse
StartScan ==
  /\ mc.pc = "scanSuspended"
  /\ mc' = [mc EXCEPT !.pc = "idle"]
  /\ \/ /\ ~wda.txStatus
        /\ UNCHANGED <<lim, tl>>
     \/ /\ wda.txStatus
        /\ lim' = [lim EXCEPT !.scan = "init"]
        /\ UNCHANGED tl
     \/ /\ wda.txStatus
        /\ ResumeDataTx
        /\ UNCHANGED lim
  /\ UNCHANGED <<wda, tx, ring, frames, msgs, setup, left>>

\* WDA_InitScanReqCallback
InitScanRsp(ok) ==
  /\ mc.pc = "idle" /\ lim.scan = "init"
  /\ lim' = [lim EXCEPT !.scan = IF ok THEN "on" ELSE "none"]
  /\ IF ok THEN UNCHANGED tl ELSE ResumeDataTx
  /\ UNCHANGED <<mc, wda, tx, ring, frames, msgs, setup, left>>

\* WDA_ProcessFinishScanReq.  When WDI refuses, LIM is told so and no more.
FinishScan ==
  /\ mc.pc = "idle" /\ lim.scan = "on"
  /\ lim' \in { [lim EXCEPT !.scan = s] :
                s \in IF setup.lost THEN {"finish", "none"} ELSE {"finish"} }
  /\ UNCHANGED <<mc, wda, tl, tx, ring, frames, msgs, setup, left>>

\* WDA_FinishScanReqCallback
FinishScanRsp ==
  /\ mc.pc = "idle" /\ lim.scan = "finish"
  /\ lim' = [lim EXCEPT !.scan = "none"]
  /\ ResumeDataTx
  /\ UNCHANGED <<mc, wda, tx, ring, frames, msgs, setup, left>>

-----------------------------------------------------------------------------
(* WDA_SuspendDataTxCallback, in the TX thread.                            *)

SuspendCb ==
  /\ tx.pc = "idle" /\ tl.asked > 0
  /\ setup.racing \/ ~GivingUpTl
  /\ tl' = [tl EXCEPT !.asked = @ - 1]
  /\ wda' = [wda EXCEPT !.txStatus = TRUE]
  /\ tx' = [tx EXCEPT !.pc = "answered"]
  /\ UNCHANGED <<mc, lim, ring, frames, msgs, setup, left>>

SetSuspendEvent ==
  /\ tx.pc = "answered"
  /\ wda' = [wda EXCEPT !.suspEvent = TRUE]
  /\ tx' = [tx EXCEPT !.pc = "woken"]
  /\ UNCHANGED <<mc, lim, tl, ring, frames, msgs, setup, left>>

\* Fault: a late answer does not resume.
ResumeIfLateForgotten ==
  /\ tx.pc = "woken"
  /\ tx' = [tx EXCEPT !.pc = IF wda.timedOut THEN "late" ELSE "idle"]
  /\ UNCHANGED <<mc, wda, lim, tl, ring, frames, msgs, setup, left>>

ResumeIfLate ==
  /\ tx.pc = "woken"
  /\ IF wda.timedOut THEN ResumeDataTx /\ tx' = [tx EXCEPT !.pc = "late"]
                     ELSE UNCHANGED tl /\ tx' = [tx EXCEPT !.pc = "idle"]
  /\ UNCHANGED <<mc, wda, lim, ring, frames, msgs, setup, left>>

ClearTimedOut ==
  /\ tx.pc = "late"
  /\ wda' = [wda EXCEPT !.timedOut = FALSE]
  /\ tx' = [tx EXCEPT !.pc = "idle"]
  /\ UNCHANGED <<mc, lim, tl, ring, frames, msgs, setup, left>>

-----------------------------------------------------------------------------
\* What the MC thread does without waiting for anybody
McRuns == \/ ResetEvent \/ StorePacket \/ HandToTl \/ Kick \/ TagFrame
          \/ GiveUpFrame \/ SetTimedOut \/ StartScan
\* It wakes up; the timeouts and its timers expire.
McWakes == FrameEvent \/ FrameTimeout \/ SuspendEvent \/ SuspendTimeout
McTakes == TxCompleteInd \/ TxCompleteTimeoutInd \/ DisassocAckTimeout
\* Answers of WDI and the end of a scan
ScanGoesOn == \/ FinishScan \/ FinishScanRsp
              \/ \E ok \in BOOLEAN : InitScanRsp(ok)

TxRuns == \/ LookForCallback \/ ClaimPacket \/ CallTxComplete \/ SetFrameEvent
          \/ SetSuspendEvent \/ ResumeIfLate \/ ClearTimedOut

Next ==
  \/ SendPlain \/ Disassociate \/ InitScan
  \/ McRuns \/ McWakes \/ McTakes \/ ScanGoesOn
  \/ Fetch \/ TxComplete \/ SuspendCb \/ TxRuns
  \/ Acknowledged \/ PeerLeaves \/ WdaTimerExpires \/ LimTimerExpires

Spec == Init /\ [][Next]_vars

\* Both threads run on, timers expire, WDI answers, and the hardware completes
\* the frames it is given.  Nothing is said of acknowledgements.
FairSpec ==
  /\ Spec
  /\ WF_vars(McRuns) /\ WF_vars(McWakes)
  /\ WF_vars(DisassocAckTimeout) /\ WF_vars(ScanGoesOn)
  /\ WF_vars(TxRuns) /\ WF_vars(LimTimerExpires)
  /\ WF_vars(Fetch) /\ WF_vars(TxComplete) /\ WF_vars(SuspendCb)

-----------------------------------------------------------------------------
(* Properties.                                                             *)

TypeOK ==
  /\ mc.pc \in {"idle", "reset", "store", "hand", "kick", "wait", "noCallback",
                "tagging", "scanWait", "scanTimeout", "scanSuspended"}
  /\ wda.timer \in 0 .. 2
  /\ lim.scan \in {"none", "init", "on", "finish"}
  /\ tx.pc \in {"idle", "tagged", "called", "swapped", "freed", "crashed",
                "answered", "woken", "late"}
  /\ lim.req \in {None} \cup Request
  /\ {mc.frame, wda.toFree, tl.slot, tx.frame} \cup ToSet(ring)
       \subseteq {None} \cup Frame
  /\ frames.tag \cup frames.ack \subseteq Frame
  /\ frames.freed \in [Frame -> Nat]

\* Where a frame that has been handed over may be
Below(f) == f = tl.slot \/ f \in ToSet(ring) \/ (f = tx.frame /\ tx.pc # "freed")

\* A frame is freed once, and not while TL, the ring or the TX thread still has
\* it, although either thread may free it.
FreedOnce ==
  /\ tx.pc # "crashed"
  /\ \A f \in Frame :
       frames.freed[f] <= 1 /\ (frames.freed[f] = 1 => ~Below(f))

\* The MC thread does not wait ten seconds for a frame that is done.
NoIdleWait ==
  mc.pc = "wait" /\ ~wda.event => Below(mc.frame) \/ tx.pc = "freed"

\* "TL suspend timedout previously, CB not called yet": it will be called.
SuspendAnswered == wda.timedOut => tl.asked > 0 \/ InSuspendCb

WdaInv ==
  /\ TypeOK
  /\ ~setup.racing => FreedOnce /\ NoIdleWait
  /\ ~setup.racing /\ ~setup.lost => SuspendAnswered

\* During a scan, when the device is on a foreign channel, TL is told to send
\* no data; an answer to an earlier suspension that comes late does not end it.
ScanWhileSuspended ==
  lim.scan # "none" /\ ~setup.racing => tl.suspended

\* Every frame that LIM hands over is freed in the end.
FramesFreed ==
  \A f \in Frame : f < frames.next /\ ~setup.racing ~> frames.freed[f] = 1

\* Every disassociation that LIM made a frame for is confirmed and freed, whatever
\* became of its frame and of its acknowledgement, unless the request for another
\* peer takes its place.
RequestsConfirmed ==
  \A r \in Request : lim.req = r /\ ~lim.unsent ~> lim.req # r \/ lim.freed

\* Data does not stay suspended.
DataResumes ==
  tl.suspended /\ ~setup.racing /\ ~setup.lost ~> ~tl.suspended

=============================================================================
