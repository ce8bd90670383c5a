------------------------------- MODULE TxPath -------------------------------
(***************************************************************************)
(* The transmit path of a station, from the network stack's queues to the  *)
(* DXE rings and back.                                                     *)
(*                                                                         *)
(* Sources: CORE/HDD/src/wlan_hdd_tx_rx.c (queues, flow control towards    *)
(* the stack), CORE/TL/src/wlan_qct_tl.c (scheduling of the frames),       *)
(* CORE/WDA/src/wlan_qct_wda_ds.c and CORE/WDI/TRP/DTS/src/                *)
(* wlan_qct_wdi_dts.c (the loop and the flow mask), CORE/DXE/src/          *)
(* wlan_qct_dxe.c (rings and interrupt) and CORE/VOSS/src/vos_packet.c     *)
(* (the pool of transmit packets).                                         *)
(*                                                                         *)
(* Four kinds of context run concurrently: the stack's transmit function,  *)
(* one per access category; the MC thread, that sends management frames    *)
(* and suspends and resumes data; the TX thread; the interrupt.  The       *)
(* receive thread and the power states are in module RxPath: here the host *)
(* is in full power.                                                       *)
(***************************************************************************)
EXTENDS Integers, FiniteSets

CONSTANTS
  NumAC,          \* access categories are 0 .. NumAC-1, the last one is VO
  MaxQ,           \* HDD_TX_QUEUE_MAX_LEN
  LowWater,       \* HDD_TX_QUEUE_LOW_WATER_MARK
  AnnounceEvery,  \* a queue is announced again when it has grown by so many
  Weight,         \* ucAcWeights, the same for every category
  HiRes,          \* descriptors of the high priority ring
  Threshold,      \* WLANDXE_TX_LOW_RES_THRESHOLD
  Setups,         \* the combinations considered of [lo: descriptors of the
                  \* low priority ring, pool: packets of the transmit data
                  \* pool, frames, mgmt: bounds, frames the stack sends in
                  \* each category and management frames PE sends]
  MaxMsg          \* bound: StartXmit messages waiting when a sender starts

AC == 0 .. NumAC - 1

ASSUME SizeAssumption ==
  /\ {NumAC, MaxQ, LowWater, AnnounceEvery, Weight} \subseteq Nat \ {0}
  /\ Setups \subseteq [lo: Nat, pool: Nat \ {0}, frames: [AC -> Nat], mgmt: Nat]
  /\ {HiRes, Threshold, MaxMsg} \subseteq Nat
  /\ LowWater < MaxQ
  \* A frame takes two descriptors, so that the free ones stay even.
  /\ \A n \in {HiRes} \cup {s.lo : s \in Setups} : n % 2 = 0 /\ Threshold < n
  /\ 4 <= Threshold

VO      == NumAC - 1
Channel == {"lo", "hi"}

\* Resources of the TL: a frame, and the least of them for data.
ResLen     == 2
MinResMF   == 1
MinResBAP  == 2
MinResData == 3

VARIABLES
  \* HDD
  q,              \* per category: frames in wmm_tx_queue
  osStopped,      \* per category: whether the stack's queue is stopped
  isTxSuspended,  \* per category: what HDD remembers of it
  xm,             \* per category: where hdd_hard_start_xmit is
  sent,           \* per category: frames the stack has handed over
  lowResCb,       \* whether a low resource callback is registered
  setup,          \* the one of Setups this driver has
  freePkts,       \* packets in the pool
  \* TL
  aucACMask,      \* per category
  ucPktPending,
  ucCurrentAC, ucCurrentWeight,
  uResCount,
  ucTxSuspended,
  mgmtPending,    \* tlMgmtFrmClient.vosPendingDataBuff
  mgmtSent,       \* management frames PE has handed over
  mc,             \* where the MC thread is
  \* The TX thread; a local variable has its initial value when it is dead
  startXmit,      \* WDA_DS_TX_START_XMIT messages queued
  isrMsg,         \* ucTxMsgCnt: whether the interrupt's message is queued
  tx,             \* where the TX thread is
  flowArg,        \* uFlowMask as GetFrames was given it
  scanned,        \* ucACMask of STATxAuth: the other categories it saw
  fetchSize,      \* size of hdd_tx_fetch_packet_cbk
  chain,          \* frames on the chain GetFrames builds
  txResReq,       \* ucTxResReq
  intSrc,         \* the channels TXEventHandler has still to look at
  \* DXE
  posted,         \* per channel: frames the device has still to take
  done,           \* per channel: frames it has taken, not yet reclaimed
  flow,           \* uTxFlowMask, and ac_mask: the channels that are on
  hitLowResource, \* per channel
  rawInt,         \* channels with their interrupt status set
  intOn,          \* whether the interrupt is enabled
  txIntEnable,    \* what the driver remembers of it
  isr             \* where dxeTXISR is

hddVars  == <<q, osStopped, isTxSuspended>>
xmVars   == <<xm, sent>>
poolVars == <<setup, lowResCb, freePkts>>
acVars   == <<aucACMask, ucPktPending>>
curVars  == <<ucCurrentAC, ucCurrentWeight>>
mcVars   == <<ucTxSuspended, mgmtSent, mc>>
passVars == <<flowArg, scanned, fetchSize, chain, txResReq, intSrc>>
ringVars == <<posted, done, rawInt>>
lowVars  == <<flow, hitLowResource>>
intVars  == <<intOn, txIntEnable, isr>>
vars == <<hddVars, xmVars, poolVars, acVars, curVars, uResCount, mcVars,
          mgmtPending, startXmit, isrMsg, tx, passVars, ringVars, lowVars,
          intVars>>

Init ==
  /\ q = [a \in AC |-> 0]
  /\ osStopped = [a \in AC |-> FALSE]
  /\ isTxSuspended = [a \in AC |-> FALSE]
  /\ xm = [a \in AC |-> "idle"]
  /\ sent = [a \in AC |-> 0]
  /\ lowResCb = FALSE
  /\ setup \in Setups
  /\ freePkts = setup.pool
  /\ aucACMask = [a \in AC |-> FALSE]
  /\ ucPktPending = FALSE
  /\ ucCurrentAC = VO
  /\ ucCurrentWeight = 0
  /\ uResCount = MinResData + 20   \* WDA_DS_DXE_RES_COUNT
  /\ ucTxSuspended = FALSE
  /\ mgmtPending = FALSE
  /\ mgmtSent = 0
  /\ mc = "idle"
  /\ startXmit = 0
  /\ isrMsg = FALSE
  /\ tx = "idle"
  /\ flowArg = FALSE
  /\ scanned = FALSE
  /\ fetchSize = 0
  /\ chain = 0
  /\ txResReq = 0
  /\ intSrc = {}
  /\ posted = [c \in Channel |-> 0]
  /\ done = [c \in Channel |-> 0]
  /\ flow = Channel
  /\ hitLowResource = [c \in Channel |-> FALSE]
  /\ rawInt = {}
  /\ intOn = FALSE
  /\ txIntEnable = FALSE
  /\ isr = "idle"

Res(c)      == IF c = "lo" THEN setup.lo ELSE HiRes
InRing(c)   == posted[c] + done[c]
FreeDesc(c) == Res(c) - ResLen * InRing(c)

(***************************************************************************)
(* WLANTL_STAPktPending: set the category's bit, then ucPktPending, then   *)
(* ask for a transmission if resources and suspension allow it; otherwise  *)
(* "TL will resume tx autonomously".  The stack's contexts take the three  *)
(* steps one by one.                                                       *)
(***************************************************************************)
MayStart == uResCount >= MinResData /\ ~ucTxSuspended

(***************************************************************************)
(* hdd_hard_start_xmit.  In its first locked section it announces the      *)
(* queue again when it has grown by another AnnounceEvery frames, and      *)
(* stops the stack's queue when it is full (the stack keeps the frame); in *)
(* the second it queues the frame, which is announced if it is the first.  *)
(***************************************************************************)
HoldsLock(a) == xm[a] \in {"lockMask", "lockPend", "lockPost", "full?"}

XmitStart(a) ==
  /\ xm[a] = "idle" /\ ~osStopped[a] /\ sent[a] < setup.frames[a]
  /\ startXmit < MaxMsg
  /\ xm' = [xm EXCEPT ![a] = IF (q[a] + 1) % AnnounceEvery = 0
                             THEN "lockMask" ELSE "full?"]
  /\ UNCHANGED <<hddVars, sent, poolVars, acVars, curVars, uResCount, mcVars,
                 mgmtPending, startXmit, isrMsg, tx, passVars, ringVars,
                 lowVars, intVars>>

XmitFull(a) ==
  /\ xm[a] = "full?"
  /\ IF q[a] = MaxQ
     THEN /\ osStopped' = [osStopped EXCEPT ![a] = TRUE]
          /\ isTxSuspended' = [isTxSuspended EXCEPT ![a] = TRUE]
          /\ xm' = [xm EXCEPT ![a] = "idle"]
     ELSE /\ xm' = [xm EXCEPT ![a] = "insert"]
          /\ UNCHANGED <<osStopped, isTxSuspended>>
  /\ UNCHANGED <<q, sent, poolVars, acVars, curVars, uResCount, mcVars,
                 mgmtPending, startXmit, isrMsg, tx, passVars, ringVars,
                 lowVars, intVars>>

XmitInsert(a) ==
  /\ xm[a] = "insert"
  /\ q' = [q EXCEPT ![a] = @ + 1]
  /\ sent' = [sent EXCEPT ![a] = @ + 1]
  /\ xm' = [xm EXCEPT ![a] = IF q[a] = 0 THEN "mask" ELSE "idle"]
  /\ UNCHANGED <<osStopped, isTxSuspended, poolVars, acVars, curVars, uResCount,
                 mcVars, mgmtPending, startXmit, isrMsg, tx, passVars, ringVars,
                 lowVars, intVars>>

XmitMask(a) ==
  /\ xm[a] \in {"lockMask", "mask"}
  /\ aucACMask' = [aucACMask EXCEPT ![a] = TRUE]
  /\ xm' = [xm EXCEPT ![a] = IF @ = "mask" THEN "pend" ELSE "lockPend"]
  /\ UNCHANGED <<hddVars, sent, poolVars, ucPktPending, curVars, uResCount,
                 mcVars, mgmtPending, startXmit, isrMsg, tx, passVars, ringVars,
                 lowVars, intVars>>

XmitPend(a) ==
  /\ xm[a] \in {"lockPend", "pend"}
  /\ ucPktPending' = TRUE
  /\ xm' = [xm EXCEPT ![a] = IF @ = "pend" THEN "post" ELSE "lockPost"]
  /\ UNCHANGED <<hddVars, sent, poolVars, aucACMask, curVars, uResCount,
                 mcVars, mgmtPending, startXmit, isrMsg, tx, passVars, ringVars,
                 lowVars, intVars>>

XmitPost(a) ==
  /\ xm[a] \in {"lockPost", "post"}
  /\ startXmit' = startXmit + (IF MayStart THEN 1 ELSE 0)
  /\ xm' = [xm EXCEPT ![a] = IF @ = "post" THEN "idle" ELSE "full?"]
  /\ UNCHANGED <<hddVars, sent, poolVars, acVars, curVars, uResCount, mcVars,
                 mgmtPending, isrMsg, tx, passVars, ringVars, lowVars, intVars>>

Xmit(a) == \/ XmitFull(a) \/ XmitInsert(a) \/ XmitMask(a)
           \/ XmitPend(a) \/ XmitPost(a)

(***************************************************************************)
(* The MC thread.  WLANTL_TxMgmtFrm has room for one frame, and refuses a  *)
(* second one; WLANTL_SuspendDataTx and WLANTL_ResumeDataTx, for all       *)
(* stations.                                                               *)
(***************************************************************************)
TxMgmtFrm ==
  /\ mc = "idle" /\ ~mgmtPending /\ mgmtSent < setup.mgmt /\ startXmit < MaxMsg
  /\ mgmtPending' = TRUE
  /\ mgmtSent' = mgmtSent + 1
  /\ mc' = "mgmt"
  /\ UNCHANGED <<hddVars, xmVars, poolVars, acVars, curVars, uResCount,
                 ucTxSuspended, startXmit, isrMsg, tx, passVars, ringVars,
                 lowVars, intVars>>

SuspendDataTx ==
  /\ mc = "idle" /\ ~ucTxSuspended
  /\ ucTxSuspended' = TRUE
  /\ UNCHANGED <<hddVars, xmVars, poolVars, acVars, curVars, uResCount,
                 mgmtSent, mc, mgmtPending, startXmit, isrMsg, tx, passVars,
                 ringVars, lowVars, intVars>>

ResumeDataTx ==
  /\ mc = "idle" /\ ucTxSuspended /\ startXmit < MaxMsg
  /\ ucTxSuspended' = FALSE
  /\ mc' = "resume"
  /\ UNCHANGED <<hddVars, xmVars, poolVars, acVars, curVars, uResCount,
                 mgmtSent, mgmtPending, startXmit, isrMsg, tx, passVars,
                 ringVars, lowVars, intVars>>

\* Both end alike: if there are resources for a management frame, transmit.
McPost ==
  /\ mc \in {"mgmt", "resume"}
  /\ startXmit' = startXmit + (IF uResCount >= MinResMF THEN 1 ELSE 0)
  /\ mc' = "idle"
  /\ UNCHANGED <<hddVars, xmVars, poolVars, acVars, curVars, uResCount,
                 ucTxSuspended, mgmtSent, mgmtPending, isrMsg, tx, passVars,
                 ringVars, lowVars, intVars>>

(***************************************************************************)
(* WDA_DS_TxFrames, on the TX thread: a pass for management frames, that   *)
(* go to the high priority ring, and one for data.  GetFrames is given the *)
(* free descriptors and the flow mask of its ring.                         *)
(***************************************************************************)
TxFrames ==
  /\ tx = "idle" /\ startXmit > 0
  /\ startXmit' = startXmit - 1
  /\ uResCount' = FreeDesc("hi")
  /\ flowArg' = ("hi" \in flow)
  /\ chain' = 0
  /\ tx' = "mgmt"
  /\ UNCHANGED <<hddVars, xmVars, poolVars, acVars, curVars, mcVars,
                 mgmtPending, isrMsg, scanned, fetchSize, txResReq, intSrc,
                 ringVars, lowVars, intVars>>

MgmtFits == uResCount > ResLen /\ flowArg

MgmtTake ==
  /\ tx = "mgmt" /\ mgmtPending /\ MgmtFits
  /\ mgmtPending' = FALSE
  /\ uResCount' = uResCount - ResLen
  /\ chain' = chain + 1
  /\ UNCHANGED <<hddVars, xmVars, poolVars, acVars, curVars, mcVars, startXmit,
                 isrMsg, tx, flowArg, scanned, fetchSize, txResReq, intSrc,
                 ringVars, lowVars, intVars>>

(***************************************************************************)
(* WLANDXE_TxFrame for each frame of the chain.  A ring that gets down to  *)
(* the threshold is in low resource, and its bit leaves the flow mask.     *)
(***************************************************************************)
PushChain(c) ==
  LET low == chain > 0 /\ FreeDesc(c) - ResLen * chain <= Threshold IN
  /\ posted' = [posted EXCEPT ![c] = @ + chain]
  /\ flow' = IF low THEN flow \ {c} ELSE flow
  /\ hitLowResource' = [hitLowResource EXCEPT ![c] = @ \/ low]

MgmtEnd ==
  /\ tx = "mgmt" /\ ~(mgmtPending /\ MgmtFits)
  /\ PushChain("hi")
  /\ uResCount' = FreeDesc("lo")
  /\ flowArg' = ("lo" \in flow)
  /\ chain' = 0
  /\ tx' = "data"
  /\ UNCHANGED <<hddVars, xmVars, poolVars, acVars, curVars, mcVars,
                 mgmtPending, startXmit, isrMsg, scanned, fetchSize, txResReq,
                 intSrc, done, rawInt, intVars>>

(***************************************************************************)
(* An iteration of GetFrames in the data pass.  A management frame that    *)
(* could not go, or that came in between, ends the pass: its bit is not in *)
(* the mask of this pass.                                                  *)
(***************************************************************************)
EndPass(req) ==
  /\ txResReq' = req
  /\ flowArg' = FALSE
  /\ tx' = "push"
  /\ UNCHANGED <<hddVars, xmVars, poolVars, acVars, curVars, uResCount, mcVars,
                 mgmtPending, startXmit, isrMsg, scanned, fetchSize,
                 chain, intSrc, ringVars, lowVars, intVars>>

DataFits == uResCount >= MinResData /\ ~ucTxSuspended /\ flowArg

DataBlocked ==
  /\ tx = "data" /\ mgmtPending
  /\ EndPass(IF uResCount > ResLen THEN 1 ELSE 0)

DataNoRes ==
  /\ tx = "data" /\ ~mgmtPending /\ ~DataFits
  /\ EndPass(IF ~ucTxSuspended /\ flowArg THEN MinResData ELSE 0)

Announced == {a \in AC : aucACMask[a]}

\* The category in S that comes first going down from a, and around.
FirstFrom(a, S) ==
  CHOOSE b \in S : \A d \in S : (a - b) % NumAC <= (a - d) % NumAC

\* WLAN_TLGetNextTxIds finds no station with frames.
DataNone ==
  /\ tx = "data" /\ ~mgmtPending /\ DataFits
  /\ ~ucPktPending \/ Announced = {}
  /\ EndPass(0)

\* It does: the station's category goes on until its weight is used up.
DataSelect ==
  /\ tx = "data" /\ ~mgmtPending /\ DataFits
  /\ ucPktPending /\ Announced # {}
  /\ IF ucCurrentWeight > 0
     THEN UNCHANGED curVars
     ELSE /\ ucCurrentAC' = FirstFrom(ucCurrentAC, Announced)
          /\ ucCurrentWeight' = Weight
  /\ tx' = "clear"
  /\ UNCHANGED <<hddVars, xmVars, poolVars, acVars, uResCount, mcVars,
                 mgmtPending, startXmit, isrMsg, passVars, ringVars, lowVars,
                 intVars>>

(***************************************************************************)
(* WLANTL_STATxAuth.  It takes the category's bit away before it fetches,  *)
(* and gives it back if there was a frame; if it then sees no other bit it *)
(* takes ucPktPending away, too.                                           *)
(***************************************************************************)
ClearMask ==
  /\ tx = "clear"
  /\ aucACMask' = [aucACMask EXCEPT ![ucCurrentAC] = FALSE]
  /\ tx' = "scan"
  /\ UNCHANGED <<hddVars, xmVars, poolVars, ucPktPending, curVars, uResCount,
                 mcVars, mgmtPending, startXmit, isrMsg, passVars, ringVars,
                 lowVars, intVars>>

ScanMask ==
  /\ tx = "scan"
  /\ scanned' = (Announced # {})
  /\ tx' = "flags"
  /\ UNCHANGED <<hddVars, xmVars, poolVars, acVars, curVars, uResCount, mcVars,
                 mgmtPending, startXmit, isrMsg, flowArg, fetchSize, chain,
                 txResReq, intSrc, ringVars, lowVars, intVars>>

ClearPending ==
  /\ tx = "flags"
  /\ ucPktPending' = (ucPktPending /\ scanned)
  /\ tx' = "fetch"
  /\ UNCHANGED <<hddVars, xmVars, poolVars, aucACMask, curVars, uResCount,
                 mcVars, mgmtPending, startXmit, isrMsg, passVars, ringVars,
                 lowVars, intVars>>

(***************************************************************************)
(* hdd_tx_fetch_packet_cbk looks at the queue without its lock, then gets  *)
(* a packet from the pool; if there is none it leaves a callback.  TL does *)
(* not tell one failure from the other.                                    *)
(***************************************************************************)
FetchBegin ==
  /\ tx = "fetch"
  /\ fetchSize' = q[ucCurrentAC]
  /\ LET empty == q[ucCurrentAC] = 0
         noPkt == lowResCb \/ freePkts = 0 IN
     /\ setup' = setup
     /\ lowResCb' = (lowResCb \/ (~empty /\ noPkt))
     /\ freePkts' = IF empty \/ noPkt THEN freePkts ELSE freePkts - 1
     /\ tx' = IF empty \/ noPkt THEN "failed" ELSE "take"
  /\ UNCHANGED <<hddVars, xmVars, acVars, curVars, uResCount, mcVars,
                 mgmtPending, startXmit, isrMsg, flowArg, scanned, chain,
                 txResReq, intSrc, ringVars, lowVars, intVars>>

FetchFailed ==
  /\ tx = "failed"
  /\ ucCurrentAC' = VO
  /\ ucCurrentWeight' = 0
  /\ scanned' = FALSE
  /\ fetchSize' = 0
  /\ IF ucPktPending
     THEN tx' = "data" /\ UNCHANGED flowArg
     ELSE tx' = "push" /\ flowArg' = FALSE
  /\ UNCHANGED <<hddVars, xmVars, poolVars, acVars, uResCount, mcVars,
                 mgmtPending, startXmit, isrMsg, chain, txResReq, intSrc,
                 ringVars, lowVars, intVars>>

(***************************************************************************)
(* It has one: the queue's head is taken under the lock.                   *)
(***************************************************************************)
FetchRemove ==
  LET a == ucCurrentAC IN
  /\ tx = "take" /\ ~HoldsLock(a)
  /\ q' = [q EXCEPT ![a] = @ - 1]
  /\ tx' = "taken"
  /\ UNCHANGED <<osStopped, isTxSuspended, xmVars, poolVars, acVars, curVars,
                 uResCount, mcVars, mgmtPending, startXmit, isrMsg, passVars,
                 ringVars, lowVars, intVars>>

(***************************************************************************)
(* The stack is let go on if the queue was short enough before, and back   *)
(* in STATxAuth the flags are restored.  When the category's weight is     *)
(* used up, and there was another one, the next category is chosen.        *)
(***************************************************************************)
\* Fault: the queue is let go on only when it is shorter.
WakesBelow(a) == isTxSuspended[a] /\ fetchSize < LowWater

Wakes(a) == isTxSuspended[a] /\ fetchSize <= LowWater

FetchTake ==
  LET a == ucCurrentAC
      switch == ucCurrentWeight = 1 /\ scanned
      b == FirstFrom((a - 1) % NumAC, Announced \cup {a}) IN
  /\ tx = "taken"
  /\ isTxSuspended' = [isTxSuspended EXCEPT ![a] = @ /\ ~Wakes(a)]
  /\ osStopped' = [osStopped EXCEPT ![a] = @ /\ ~Wakes(a)]
  /\ ucPktPending' = TRUE
  /\ aucACMask' = [aucACMask EXCEPT ![a] = TRUE]
  /\ ucCurrentAC' = IF switch THEN b ELSE a
  /\ ucCurrentWeight' = IF switch THEN Weight ELSE ucCurrentWeight - 1
  /\ uResCount' = uResCount - ResLen
  /\ chain' = chain + 1
  /\ scanned' = FALSE
  /\ fetchSize' = 0
  /\ tx' = "data"
  /\ UNCHANGED <<q, xmVars, poolVars, mcVars, mgmtPending, startXmit, isrMsg,
                 flowArg, txResReq, intSrc, ringVars, lowVars, intVars>>

PushData ==
  /\ tx = "push"
  /\ PushChain("lo")
  /\ chain' = 0
  /\ tx' = "complete"
  /\ UNCHANGED <<hddVars, xmVars, poolVars, acVars, curVars, uResCount, mcVars,
                 mgmtPending, startXmit, isrMsg, flowArg, scanned, fetchSize,
                 txResReq, intSrc, done, rawInt, intVars>>

\* Of the rings with an interrupt the high priority one is looked at first.
EventChannel == IF "hi" \in intSrc THEN "hi" ELSE "lo"

(***************************************************************************)
(* dxeTXCompFrame for the rings in C.  Every data frame gives its packet   *)
(* back (hdd_tx_complete_cbk, vos_pkt_return_packet); the first one calls  *)
(* hdd_tx_low_resource_cbk if it is registered, which announces every      *)
(* queue with frames.  A ring that has more free descriptors than the      *)
(* threshold again leaves low resource.                                    *)
(***************************************************************************)
\* Fault: the frames that are being reclaimed count as taken.
RecoveredBefore(C) ==
  {c \in C : /\ InRing(c) > 0 /\ hitLowResource[c]
             /\ FreeDesc(c) > Threshold}

Recovered(C) == {c \in C : /\ InRing(c) > 0 /\ hitLowResource[c]
                           /\ Res(c) - ResLen * posted[c] > Threshold}

\* Fault: only if the pool has a packet before this one comes back.
CallsBackIfFree(C) ==
  lowResCb /\ "lo" \in C /\ done["lo"] > 0 /\ freePkts > 0

CallsBack(C) == lowResCb /\ "lo" \in C /\ done["lo"] > 0

\* Fault: only the queues whose sender is stopped.
ReannouncedStopped(C) ==
  {a \in AC : CallsBack(C) /\ q[a] > 0 /\ isTxSuspended[a]}

Reannounced(C) == {a \in AC : CallsBack(C) /\ q[a] > 0}

\* Fault: the recovery of a ring posts nothing.
PostedBySender(C) == IF MayStart THEN Cardinality(Reannounced(C)) ELSE 0

\* The StartXmit messages all this posts.
PostedBy(C) == Cardinality(Recovered(C))
               + (IF MayStart THEN Cardinality(Reannounced(C)) ELSE 0)

\* Fault: a management frame's packet, too.
ReturnedAll(C) == IF C = Channel THEN done["lo"] + done["hi"]
                  ELSE done[EventChannel]

\* The packets that go back to the pool of data packets.
Returned(C) == IF "lo" \in C THEN done["lo"] ELSE 0

CompFrame(C) ==
  /\ done' = [c \in Channel |-> IF c \in C THEN 0 ELSE done[c]]
  /\ freePkts' = freePkts + Returned(C)
  /\ setup' = setup
  /\ lowResCb' = (lowResCb /\ ~CallsBack(C))
  /\ aucACMask' = [a \in AC |-> aucACMask[a] \/ a \in Reannounced(C)]
  /\ ucPktPending' = (ucPktPending \/ Reannounced(C) # {})

(***************************************************************************)
(* WLANDXE_CompleteTX: reclaim both rings, enable the interrupt if it is   *)
(* not, and, if TL has asked for resources, either start it again at once  *)
(* or put the ring in low resource, so that it will be when it recovers.   *)
(* (What TL asks for never exceeds the threshold, so that the branch that  *)
(* raises it is left out; dxePsComplete does nothing in full power.)       *)
(***************************************************************************)
CompleteTX ==
  LET rec == Recovered(Channel)
      enough == setup.lo - ResLen * posted["lo"] >= txResReq
      again == txResReq > 0 /\ enough /\ ~hitLowResource["lo"]
      starved == txResReq > 0 /\ ~enough
                 /\ ~(hitLowResource["lo"] /\ "lo" \notin rec) IN
  /\ tx = "complete"
  /\ CompFrame(Channel)
  /\ flow' = (flow \cup rec) \ (IF starved THEN {"lo"} ELSE {})
  /\ hitLowResource' = [c \in Channel |->
                          \/ hitLowResource[c] /\ c \notin rec
                          \/ c = "lo" /\ starved]
  /\ startXmit' = startXmit + PostedBy(Channel) + (IF again THEN 1 ELSE 0)
  /\ intOn' = (intOn \/ ~txIntEnable)
  /\ txIntEnable' = TRUE
  /\ txResReq' = 0
  /\ tx' = "idle"
  /\ UNCHANGED <<hddVars, xmVars, curVars, uResCount, mcVars, mgmtPending,
                 isrMsg, flowArg, scanned, fetchSize, chain, intSrc, posted,
                 rawInt, isr>>

(***************************************************************************)
(* dxeTXEventHandler, when no message for TL is queued: that queue comes   *)
(* first.  It reads which rings have an interrupt, and for each of them    *)
(* clears it before it reclaims the frames.                                *)
(***************************************************************************)
TxEvent ==
  /\ tx = "idle" /\ startXmit = 0 /\ isrMsg
  /\ isrMsg' = FALSE
  /\ intSrc' = rawInt
  /\ tx' = IF rawInt = {} THEN "arm" ELSE "clean"
  /\ UNCHANGED <<hddVars, xmVars, poolVars, acVars, curVars, uResCount, mcVars,
                 mgmtPending, startXmit, flowArg, scanned, fetchSize, chain,
                 txResReq, ringVars, lowVars, intVars>>

CleanInt ==
  /\ tx = "clean"
  /\ rawInt' = rawInt \ {EventChannel}
  /\ tx' = "comp"
  /\ UNCHANGED <<hddVars, xmVars, poolVars, acVars, curVars, uResCount, mcVars,
                 mgmtPending, startXmit, isrMsg, passVars, posted, done,
                 lowVars, intVars>>

EventComp ==
  LET C == {EventChannel} IN
  /\ tx = "comp"
  /\ CompFrame(C)
  /\ flow' = flow \cup Recovered(C)
  /\ hitLowResource' = [c \in Channel |->
                          hitLowResource[c] /\ c \notin Recovered(C)]
  /\ startXmit' = startXmit + PostedBy(C)
  /\ intSrc' = intSrc \ C
  /\ tx' = IF intSrc' = {} THEN "arm" ELSE "clean"
  /\ UNCHANGED <<hddVars, xmVars, curVars, uResCount, mcVars, mgmtPending,
                 isrMsg, flowArg, scanned, fetchSize, chain, txResReq, posted,
                 rawInt, intVars>>

ArmFor(C) ==
  /\ tx = "arm"
  /\ LET arm == ~txIntEnable /\ \E c \in C : InRing(c) > 0 IN
     /\ intOn' = (intOn \/ arm)
     /\ txIntEnable' = (txIntEnable \/ arm)
  /\ tx' = "idle"
  /\ UNCHANGED <<hddVars, xmVars, poolVars, acVars, curVars, uResCount, mcVars,
                 mgmtPending, startXmit, isrMsg, passVars, ringVars, lowVars,
                 isr>>

\* Fault: only data frames count.
ArmForData == ArmFor({"lo"})

\* txCompletedFrames: frames in the rings.
Arm == ArmFor(Channel)

TxThread ==
  \/ TxFrames \/ MgmtTake \/ MgmtEnd
  \/ DataBlocked \/ DataNoRes \/ DataNone \/ DataSelect
  \/ ClearMask \/ ScanMask \/ ClearPending
  \/ FetchBegin \/ FetchFailed \/ FetchRemove \/ FetchTake
  \/ PushData \/ CompleteTX
  \/ TxEvent \/ CleanInt \/ EventComp \/ Arm

(***************************************************************************)
(* dxeTXISR, on any processor: the interrupt is disabled, and only then    *)
(* the driver remembers it; one message is enough.                         *)
(***************************************************************************)
TxIsr ==
  /\ isr = "idle" /\ intOn /\ rawInt # {}
  /\ intOn' = FALSE
  /\ isr' = "post"
  /\ UNCHANGED <<hddVars, xmVars, poolVars, acVars, curVars, uResCount, mcVars,
                 mgmtPending, startXmit, isrMsg, tx, passVars, ringVars,
                 lowVars, txIntEnable>>

TxIsrPost ==
  /\ isr = "post"
  /\ txIntEnable' = FALSE
  /\ isrMsg' = TRUE
  /\ isr' = "idle"
  /\ UNCHANGED <<hddVars, xmVars, poolVars, acVars, curVars, uResCount, mcVars,
                 mgmtPending, startXmit, tx, passVars, ringVars, lowVars,
                 intOn>>

\* The device takes a frame.
Consume(c) ==
  /\ posted[c] > 0
  /\ posted' = [posted EXCEPT ![c] = @ - 1]
  /\ done' = [done EXCEPT ![c] = @ + 1]
  /\ rawInt' = rawInt \cup {c}
  /\ UNCHANGED <<hddVars, xmVars, poolVars, acVars, curVars, uResCount, mcVars,
                 mgmtPending, startXmit, isrMsg, tx, passVars, lowVars,
                 intVars>>

Interrupt == TxIsr \/ TxIsrPost

Device == \E c \in Channel : Consume(c)

Next ==
  \/ \E a \in AC : XmitStart(a) \/ Xmit(a)
  \/ TxMgmtFrm \/ SuspendDataTx \/ ResumeDataTx \/ McPost
  \/ TxThread \/ Interrupt \/ Device

Spec == Init /\ [][Next]_vars

(***************************************************************************)
(* Every context finishes what it has begun, and the TX thread and the     *)
(* device go on.  Nothing says that frames arrive, nor that data is ever   *)
(* resumed.                                                                *)
(***************************************************************************)
FairSpec ==
  /\ Spec
  /\ \A a \in AC : WF_vars(Xmit(a))
  /\ WF_vars(McPost) /\ WF_vars(TxThread)
  /\ WF_vars(Interrupt) /\ WF_vars(Device)

-----------------------------------------------------------------------------

TypeOK ==
  /\ q \in [AC -> 0 .. MaxQ]
  /\ osStopped \in [AC -> BOOLEAN]
  /\ isTxSuspended \in [AC -> BOOLEAN]
  /\ xm \in [AC -> {"idle", "lockMask", "lockPend", "lockPost", "full?",
                    "insert", "mask", "pend", "post"}]
  /\ sent \in [AC -> Nat] /\ \A a \in AC : sent[a] <= setup.frames[a]
  /\ lowResCb \in BOOLEAN
  /\ setup \in Setups
  /\ freePkts \in 0 .. setup.pool
  /\ aucACMask \in [AC -> BOOLEAN]
  /\ ucPktPending \in BOOLEAN
  /\ ucCurrentAC \in AC
  /\ ucCurrentWeight \in 0 .. Weight
  /\ uResCount \in Nat
  /\ ucTxSuspended \in BOOLEAN
  /\ mgmtPending \in BOOLEAN
  /\ mgmtSent \in 0 .. setup.mgmt
  /\ mc \in {"idle", "mgmt", "resume"}
  /\ startXmit \in Nat
  /\ isrMsg \in BOOLEAN
  /\ tx \in {"idle", "mgmt", "data", "clear", "scan", "flags", "fetch",
             "failed", "take", "taken", "push", "complete", "clean", "comp", "arm"}
  /\ flowArg \in BOOLEAN
  /\ scanned \in BOOLEAN
  /\ fetchSize \in 0 .. MaxQ
  /\ chain \in Nat
  /\ txResReq \in {0, 1, MinResData}
  /\ intSrc \subseteq Channel
  /\ posted \in [Channel -> Nat]
  /\ done \in [Channel -> Nat]
  /\ flow \subseteq Channel
  /\ hitLowResource \in [Channel -> BOOLEAN]
  /\ rawInt \subseteq Channel
  /\ intOn \in BOOLEAN
  /\ txIntEnable \in BOOLEAN
  /\ isr \in {"idle", "post"}

(***************************************************************************)
(* Nothing is going on: no context is in a function, no message waits, the *)
(* device has nothing to take and no interrupt is about to come.           *)
(***************************************************************************)
Quiescent ==
  /\ \A a \in AC : xm[a] = "idle"
  /\ mc = "idle" /\ tx = "idle" /\ isr = "idle"
  /\ startXmit = 0 /\ ~isrMsg
  /\ \A c \in Channel : posted[c] = 0
  /\ ~(intOn /\ rawInt # {})

(***************************************************************************)
(* When nothing is going on nothing waits, either: "TL will resume tx      *)
(* autonomously" (WLANTL_STAPktPending, WLANTL_TxMgmtFrm) for every reason *)
(* for which a sender did not ask for a transmission, and the order of the *)
(* flags in WLANTL_STATxAuth "will prevent from exposing a race condition  *)
(* between checking with HDD for packets and setting the flags to false".  *)
(* Data may wait for the end of a suspension.  With two categories this is *)
(* violated: ClearPending, decided before the other category's bit was     *)
(* set, takes ucPktPending away from it.                                   *)
(***************************************************************************)
NothingStuck ==
  Quiescent => /\ ~mgmtPending
               /\ \A c \in Channel : done[c] = 0
               /\ ucTxSuspended \/ \A a \in AC : q[a] = 0

(***************************************************************************)
(* A category has its bit set, but nobody looks at the bits.               *)
(***************************************************************************)
Unseen == ~ucPktPending /\ Announced # {}

(***************************************************************************)
(* What does hold: no management frame waits and no frame waits to be      *)
(* reclaimed, and frames of the stack wait for nothing else than that      *)
(* flag, in a category that has been announced.  However the pool, the     *)
(* rings, the interrupt and the suspension held a frame up, and however    *)
(* the categories raced, none waits unannounced.                           *)
(***************************************************************************)
StuckOnlyUnseen ==
  Quiescent => /\ ~mgmtPending
               /\ \A c \in Channel : done[c] = 0
               /\ \/ ucTxSuspended
                  \/ \A a \in AC : q[a] = 0 \/ (aucACMask[a] /\ ~ucPktPending)

(***************************************************************************)
(* Between two messages the interrupt is on its way or enabled whenever    *)
(* there are frames in a ring: no frame waits there to be reclaimed, its   *)
(* packet and its descriptors with it, until another one is sent.          *)
(***************************************************************************)
InterruptArmed ==
  tx = "idle" /\ (\E c \in Channel : InRing(c) > 0)
    => intOn \/ isr = "post" \/ isrMsg

(***************************************************************************)
(* Between two messages, a ring that is off in the flow mask is known to   *)
(* DXE as one in low resource, and has frames to reclaim: nobody else      *)
(* would put it on again.                                                  *)
(***************************************************************************)
RecoveryComes ==
  tx = "idle" => \A c \in Channel :
                   c \notin flow => hitLowResource[c] /\ InRing(c) > 0

(***************************************************************************)
(* The stack's queue is stopped only while frames wait that will let it go *)
(* on when they are fetched, or the TX thread is about to let it go on.    *)
(***************************************************************************)
StoppedWillWake ==
  \A a \in AC :
    osStopped[a] => /\ isTxSuspended[a]
                    /\ q[a] > 0 \/ (tx = "taken" /\ ucCurrentAC = a)

(***************************************************************************)
(* The pool's packets are in the pool, or with a frame; and a callback is  *)
(* registered only while there is a frame whose packet will trigger it.    *)
(***************************************************************************)
PacketsOut == setup.pool - freePkts

PacketsKept ==
  /\ PacketsOut = InRing("lo")
                  + (IF tx \in {"mgmt", "complete"} THEN 0 ELSE chain)
                  + (IF tx \in {"take", "taken"} THEN 1 ELSE 0)
  /\ lowResCb => PacketsOut > 0

\* What holds of the queues, the rings and the pool in every state.
TxInv == TypeOK /\ InterruptArmed /\ StoppedWillWake /\ PacketsKept

(***************************************************************************)
(* Unless data is suspended again and again, or ucPktPending is lost for   *)
(* good (see NothingStuck), every frame of the stack leaves its queue, and *)
(* the stack's queue does not stay stopped, in whatever category: in the   *)
(* end, as the frames are bounded, all are empty and open.                 *)
(***************************************************************************)
FramesLeave ==
  <>[]~ucTxSuspended /\ []<>~Unseen
    => <>[](\A a \in AC : q[a] = 0 /\ ~osStopped[a])

=============================================================================
